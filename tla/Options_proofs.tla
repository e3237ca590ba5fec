---------------------------- MODULE Options_proofs ----------------------------
(***************************************************************************)
(* The invariants of Options for every set of datagrams, every size of the *)
(* buffer and whatever is in it.  What the walk of FindOptionData and the  *)
(* concatenation of the options compute is not found by induction but by   *)
(* least counterexamples: a set of natural numbers that is not empty has a *)
(* least element.                                                          *)
(***************************************************************************)
EXTENDS Options, SequenceTheorems, WellFoundedInduction, TLAPS

\* A set of natural numbers that is not empty has a least element, and Min
\* is it.
LEMMA MinOfNaturals ==
  ASSUME NEW S \in SUBSET Nat, S # {}
  PROVE  Min(S) \in S /\ \A y \in S : Min(S) <= y
<1> DEFINE R == {ss \in Nat \X Nat : ss[1] < ss[2]}
<1>1. R = OpToRel(<, Nat)
  BY Zenon DEF OpToRel
<1>2. IsWellFoundedOn(R, Nat)
  BY <1>1, NatLessThanWellFounded, Zenon
<1>3. PICK x \in S : \A y \in S : ~(<<y, x>> \in R)
  BY <1>2, WFMin, Zenon
<1>4. ASSUME NEW y \in S PROVE x <= y
  <2>1. x \in Nat /\ y \in Nat /\ ~(<<y, x>> \in R)
    BY <1>3
  <2>2. ~(y < x)
    BY <2>1
  <2> QED
    BY <2>1, <2>2
<1> QED
  BY <1>4 DEF Min

-----------------------------------------------------------------------------
(***************************************************************************)
(* The walk of FindOptionData.                                             *)
(***************************************************************************)

\* A walk ends in done, where it returns result, and from elsewhere, which is
\* before n, it goes on to next.
GoesOn(n, done, next) == \A i \in Nat \ done : i < n /\ next[i] > i

Follows(f, done, result, next) ==
  \A i \in Nat : f[i] = IF i \in done THEN result[i] ELSE f[next[i]]

\* Where the walk goes from each index, if it goes on, and what it returns
\* there, if not: there is a function that says what it returns from each.
LEMMA WalkExists ==
  ASSUME NEW n \in Nat, NEW done \in SUBSET Nat,
         NEW result \in [Nat -> Nat], NEW next \in [Nat -> Nat],
         GoesOn(n, done, next)
  PROVE  \E f \in [Nat -> Nat] : Follows(f, done, result, next)
<1> USE DEF GoesOn
<1> DEFINE Good(f, m) ==
             \A i \in Nat : i >= m => f[i] = IF i \in done THEN result[i] ELSE f[next[i]]
           S == {m \in Nat : \E f \in [Nat -> Nat] : Good(f, m)}
<1>1. n \in S
  <2>1. Good(result, n)
    OBVIOUS
  <2> QED
    BY <2>1
<1> DEFINE m == Min(S)
<1>2. m \in S /\ \A k \in S : m <= k
  BY <1>1, MinOfNaturals
<1> HIDE DEF m
<1>3. PICK f \in [Nat -> Nat] : Good(f, m)
  BY <1>2
<1>4. ASSUME m # 0 PROVE FALSE
  <2> DEFINE g == [i \in Nat |-> IF i = m - 1
                                 THEN IF i \in done THEN result[i] ELSE f[next[i]]
                                 ELSE f[i]]
  <2>1. m - 1 \in Nat /\ g \in [Nat -> Nat]
    BY <1>2, <1>4
  <2>2. ASSUME NEW i \in Nat, i >= m - 1
        PROVE  g[i] = IF i \in done THEN result[i] ELSE g[next[i]]
    <3>1. CASE i \in done
      BY <1>2, <1>3, <2>1, <2>2, <3>1
    <3>2. CASE i \notin done
      <4>1. next[i] \in Nat /\ next[i] > i
        BY <3>2
      <4>2. g[next[i]] = f[next[i]]
        BY <1>2, <2>2, <4>1
      <4>3. g[i] = f[next[i]]
        <5>1. CASE i = m - 1
          BY <3>2, <5>1
        <5>2. CASE i # m - 1
          <6>1. i >= m /\ g[i] = f[i]
            BY <1>2, <2>2, <5>2
          <6> QED
            BY <1>3, <3>2, <6>1
        <5> QED
          BY <5>1, <5>2
      <4> QED
        BY <3>2, <4>2, <4>3
    <3> QED
      BY <3>1, <3>2
  <2>3. m - 1 \in S
    BY <2>1, <2>2
  <2>4. m \in Nat /\ m <= m - 1
    BY <1>2, <2>3
  <2> QED
    BY <2>4
<1> QED
  BY <1>3, <1>4, <1>2 DEF Follows

Buffer == [1 .. BufferSize -> Byte]

\* What the walk returns from each index.
WalkBody(code, options, options_size, from) ==
  [i \in Nat |->
     CASE i >= options_size -> 0
       [] i < options_size /\ options[i] = option_PAD -> from[i + 1]
       [] i < options_size /\ options[i] = option_END -> 0
       [] i < options_size /\ options[i] = code -> i
       [] OTHER -> from[i + 2 + options[i + 1]]]

Walk(code, options, options_size) ==
  CHOOSE from : from = WalkBody(code, options, options_size, from)

\* FindOptionData walks from the first byte, if there are more than two.
LEMMA PositionIsWalk ==
  ASSUME NEW code, NEW options, NEW n
  PROVE  Position(code, options, n) = IF n > 2 THEN Walk(code, options, n)[1] ELSE 0
BY DEF Position, Walk, WalkBody

\* The walk does what its cases say.
LEMMA WalkEquation ==
  ASSUME NEW code \in SearchedCodes, NEW options \in Buffer, NEW n \in Nat, n <= BufferSize
  PROVE  LET walk == Walk(code, options, n)
         IN  \A i \in Nat : i # 0 =>
               walk[i] = IF i >= n \/ options[i] = option_END THEN 0
                         ELSE IF options[i] = option_PAD THEN walk[i + 1]
                         ELSE IF options[i] = code THEN i
                         ELSE walk[i + 2 + options[i + 1]]
<1> DEFINE done == {i \in Nat : i >= n \/ (options[i] # option_PAD /\
                                (options[i] = option_END \/ options[i] = code))}
           result == [i \in Nat |-> IF i < n /\ options[i] = code THEN i ELSE 0]
           next == [i \in Nat |-> IF options[i] = option_PAD \/ i >= n THEN i + 1
                                  ELSE i + 2 + options[i + 1]]
<1>1. code \notin {option_PAD, option_END} /\ option_PAD # option_END
  BY DEF SearchedCodes, option_HOSTNAME, option_REQUESTEDIPADDRESS, option_DHCPMESSAGETYPE,
         option_SERVERIDENTIFIER, option_CLIENTIDENTIFIER, option_PAD, option_END
<1>2. ASSUME NEW i \in Nat PROVE next[i] \in Nat /\ next[i] > i
  <2>1. CASE options[i] = option_PAD \/ i >= n
    BY <2>1
  <2>2. CASE ~(options[i] = option_PAD \/ i >= n)
    <3>1. i + 1 \in 1 .. BufferSize
      BY <2>2, OptionsAssumption
    <3>2. options[i + 1] \in Nat
      <4>1. options[i + 1] \in Byte
        BY <3>1 DEF Buffer
      <4> QED
        BY <4>1 DEF Byte
    <3>3. next[i] = i + 2 + options[i + 1]
      BY <2>2
    <3> QED
      BY <3>2, <3>3
  <2> QED
    BY <2>1, <2>2
<1>3. PICK f \in [Nat -> Nat] : Follows(f, done, result, next)
  <2>1. result \in [Nat -> Nat] /\ next \in [Nat -> Nat] /\ done \in SUBSET Nat
    BY <1>2
  <2>2. GoesOn(n, done, next)
    BY <1>2 DEF GoesOn
  <2> HIDE DEF result, next, done
  <2> QED
    BY <2>1, <2>2, WalkExists, Zenon
<1>4. f = WalkBody(code, options, n, f)
  BY <1>1, <1>3 DEF WalkBody, Follows
<1>5. Walk(code, options, n) = WalkBody(code, options, n, Walk(code, options, n))
  BY <1>4 DEF Walk
<1> QED
  BY <1>1, <1>5 DEF WalkBody
-----------------------------------------------------------------------------
(***************************************************************************)
(* The bytes of a list of options.                                         *)
(***************************************************************************)

\* f[i] are the first i sequences of s, one after the other.
IsFlat(f, s, n) ==
  \A i \in 1 .. n : f[i] = IF i = 1 THEN s[i] ELSE f[i - 1] \o s[i]

\* There is such a function.
LEMMA FlatExists ==
  ASSUME NEW T, NEW s \in Seq(Seq(T)), NEW n \in 1 .. Len(s)
  PROVE  \E f \in [1 .. n -> Seq(T)] : IsFlat(f, s, n)
<1> DEFINE Has(m) == \E f \in [1 .. m -> Seq(T)] : IsFlat(f, s, m)
           S == {m \in 1 .. Len(s) : ~Has(m)}
<1>1. SUFFICES ASSUME S # {} PROVE FALSE
  OBVIOUS
<1>2. S \in SUBSET Nat
  OBVIOUS
<1>3. PICK m \in S : \A k \in S : m <= k
  BY <1>1, <1>2, MinOfNaturals
<1>4. m \in 1 .. Len(s) /\ ~Has(m) /\ Len(s) \in Nat /\ s[m] \in Seq(T)
  BY <1>3
<1>5. CASE m = 1
  <2> DEFINE f == [i \in 1 .. 1 |-> s[i]]
  <2>1. f \in [1 .. 1 -> Seq(T)] /\ IsFlat(f, s, 1)
    BY <1>4, <1>5 DEF IsFlat
  <2> QED
    BY <1>4, <1>5, <2>1
<1>6. CASE m # 1
  <2>1. m - 1 \in 1 .. Len(s)
    BY <1>4, <1>6
  <2>2. Has(m - 1)
    <3>1. SUFFICES ASSUME ~Has(m - 1) PROVE FALSE
      OBVIOUS
    <3> HIDE DEF Has
    <3>2. m - 1 \in S
      BY <2>1, <3>1
    <3> HIDE DEF S
    <3>3. m <= m - 1
      BY <1>3, <3>2
    <3> QED
      BY <1>4, <3>3
  <2>3. PICK f \in [1 .. (m - 1) -> Seq(T)] : IsFlat(f, s, m - 1)
    BY <2>2
  <2> DEFINE g == [i \in 1 .. m |-> IF i = m THEN f[m - 1] \o s[m] ELSE f[i]]
  <2>4. f[m - 1] \o s[m] \in Seq(T)
    BY <1>4, <2>1, <2>3
  <2>5. g \in [1 .. m -> Seq(T)]
    BY <2>3, <2>4
  <2>6. \A i \in 1 .. m : i # m => i \in 1 .. (m - 1) /\ (i # 1 => i - 1 \in 1 .. (m - 1) /\ i - 1 # m)
    BY <1>4
  <2>7. ASSUME NEW i \in 1 .. m PROVE g[i] = IF i = 1 THEN s[i] ELSE g[i - 1] \o s[i]
    <3>1. CASE i = m
      <4>1. m - 1 \in 1 .. m /\ m - 1 # m /\ i # 1 /\ m \in 1 .. m
        BY <1>4, <1>6, <3>1
      <4>2. g[i - 1] = f[m - 1]
        BY <3>1, <4>1
      <4>3. g[m] = f[m - 1] \o s[m]
        BY <4>1, Zenon
      <4> QED
        BY <3>1, <4>1, <4>2, <4>3, Zenon
    <3>2. CASE i # m
      <4>1. g[i] = f[i] /\ f[i] = IF i = 1 THEN s[i] ELSE f[i - 1] \o s[i]
        BY <2>3, <2>6, <3>2 DEF IsFlat
      <4>2. i # 1 => g[i - 1] = f[i - 1]
        BY <1>4, <2>6, <3>2
      <4> QED
        BY <4>1, <4>2
    <3> QED
      BY <3>1, <3>2
  <2>8. IsFlat(g, s, m)
    BY <2>7 DEF IsFlat
  <2> QED
    BY <1>4, <2>5, <2>8
<1> QED
  BY <1>5, <1>6

\* There is only one.
LEMMA FlatUnique ==
  ASSUME NEW n \in Nat, NEW s, NEW f, NEW g, IsFlat(f, s, n), IsFlat(g, s, n)
  PROVE  \A i \in 1 .. n : f[i] = g[i]
<1> DEFINE S == {i \in 1 .. n : f[i] # g[i]}
<1>1. SUFFICES ASSUME S # {} PROVE FALSE
  OBVIOUS
<1>2. S \in SUBSET Nat
  OBVIOUS
<1>3. PICK m \in S : \A k \in S : m <= k
  BY <1>1, <1>2, MinOfNaturals
<1>4. m = 1 \/ (m - 1 \in 1 .. n /\ m - 1 \notin S)
  BY <1>3
<1> QED
  BY <1>3, <1>4 DEF IsFlat

\* The function FlattenSeq is defined by.
FlatOf(s) ==
  CHOOSE flatten : flatten = [i \in 1 .. Len(s) |->
                                IF i = 1 THEN s[i] ELSE flatten[i - 1] \o s[i]]

\* FlattenSeq is the last value of it.
LEMMA FlatOfIsFlat ==
  ASSUME NEW T, NEW s \in Seq(Seq(T)), s # <<>>
  PROVE  /\ FlattenSeq(s) = FlatOf(s)[Len(s)]
         /\ IsFlat(FlatOf(s), s, Len(s))
         /\ \A i \in 1 .. Len(s) : FlatOf(s)[i] \in Seq(T)
<1> DEFINE Body(f) == [i \in 1 .. Len(s) |-> IF i = 1 THEN s[i] ELSE f[i - 1] \o s[i]]
<1>1. Len(s) \in 1 .. Len(s) /\ Len(s) \in Nat
  BY EmptySeq
<1>2. PICK f \in [1 .. Len(s) -> Seq(T)] : IsFlat(f, s, Len(s))
  BY <1>1, FlatExists
<1>3. f = Body(f)
  BY <1>2 DEF IsFlat
<1>4. FlatOf(s) = Body(FlatOf(s))
  BY <1>3 DEF FlatOf
<1>5. IsFlat(FlatOf(s), s, Len(s))
  BY <1>4 DEF IsFlat
<1>6. \A i \in 1 .. Len(s) : FlatOf(s)[i] \in Seq(T)
  <2>1. \A i \in 1 .. Len(s) : FlatOf(s)[i] = f[i]
    BY <1>1, <1>2, <1>5, FlatUnique
  <2> QED
    BY <1>2, <2>1
<1>7. FlattenSeq(s) = FlatOf(s)[Len(s)]
  BY <1>1 DEF FlattenSeq, FlatOf
<1> QED
  BY <1>5, <1>6, <1>7

\* FlattenSeq, one sequence after the other.
LEMMA FlattenAppend ==
  ASSUME NEW T, NEW s \in Seq(Seq(T)), NEW e \in Seq(T)
  PROVE  /\ FlattenSeq(<<>>) = <<>>
         /\ FlattenSeq(s) \in Seq(T)
         /\ FlattenSeq(Append(s, e)) = FlattenSeq(s) \o e
<1> DEFINE t == Append(s, e)
<1>1. FlattenSeq(<<>>) = <<>>
  BY DEF FlattenSeq
<1>2. FlattenSeq(s) \in Seq(T)
  BY <1>1, FlatOfIsFlat, EmptySeq
<1>3. /\ t \in Seq(Seq(T)) /\ t # <<>> /\ Len(t) = Len(s) + 1 /\ Len(s) \in Nat
      /\ t[Len(s) + 1] = e /\ \A i \in 1 .. Len(s) : t[i] = s[i]
  BY AppendProperties
<1> HIDE DEF t
<1>4. FlattenSeq(t) = FlatOf(t)[Len(t)] /\ IsFlat(FlatOf(t), t, Len(t))
  BY <1>3, FlatOfIsFlat
<1>5. CASE s = <<>>
  <2>1. Len(s) = 0 /\ FlatOf(t)[1] = e
    BY <1>3, <1>4, <1>5 DEF IsFlat
  <2>2. FlattenSeq(t) = e /\ FlattenSeq(s) = <<>>
    BY <1>1, <1>3, <1>4, <1>5, <2>1
  <2> QED
    BY <1>1, <1>2, <2>2, ConcatEmptySeq DEF t
<1>6. CASE s # <<>>
  <2>1. Len(s) > 0
    BY <1>3, <1>6, EmptySeq
  <2>2. IsFlat(FlatOf(t), s, Len(s))
    BY <1>3, <1>4 DEF IsFlat
  <2>3. FlattenSeq(s) = FlatOf(s)[Len(s)] /\ IsFlat(FlatOf(s), s, Len(s))
    BY <1>6, FlatOfIsFlat
  <2>4. FlatOf(t)[Len(s)] = FlatOf(s)[Len(s)]
    BY <1>3, <2>1, <2>2, <2>3, FlatUnique
  <2>5. FlatOf(t)[Len(t)] = FlatOf(t)[Len(s)] \o e
    <3>1. Len(t) \in 1 .. Len(t) /\ Len(t) # 1 /\ Len(t) - 1 = Len(s)
      BY <1>3, <2>1
    <3>2. FlatOf(t)[Len(t)] = FlatOf(t)[Len(t) - 1] \o t[Len(t)]
      BY <1>4, <3>1 DEF IsFlat
    <3> QED
      BY <1>3, <3>1, <3>2
  <2>6. FlattenSeq(t) = FlattenSeq(s) \o e
    BY <1>4, <2>3, <2>4, <2>5
  <2> QED
    BY <1>1, <1>2, <2>6 DEF t
<1> QED
  BY <1>1, <1>2, <1>5, <1>6
\* The bytes of the first k options of a list, and where the next one begins.
Body(list, k) == FlattenSeq([i \in 1 .. k |-> EncodeOption(list[i])])
Start(list, k) == Len(Body(list, k - 1)) + 1

\* Two bytes and the data behind them.
LEMMA TwoBytesFirst ==
  ASSUME NEW T, NEW a \in T, NEW b \in T, NEW data \in Seq(T)
  PROVE  LET all == <<a, b>> \o data
         IN  /\ all \in Seq(T) /\ Len(all) = 2 + Len(data)
             /\ all[1] = a /\ all[2] = b
             /\ \A j \in 1 .. Len(data) : all[2 + j] = data[j]
<1>1. <<a, b>> \in Seq(T) /\ Len(<<a, b>>) = 2 /\ <<a, b>>[1] = a /\ <<a, b>>[2] = b
  OBVIOUS
<1>2. Len(data) \in Nat
  OBVIOUS
<1> QED
  BY <1>1, <1>2, ConcatProperties

\* An option of the wire: a PAD, or its code, its length and its data.
LEMMA OptionBytes ==
  ASSUME NEW o \in OptionType
  PROVE  /\ EncodeOption(o) \in Seq(Byte)
         /\ EncodeOption(o)[1] = o.code
         /\ o.code = option_PAD => Len(EncodeOption(o)) = 1
         /\ o.code # option_PAD =>
              /\ Len(EncodeOption(o)) = 2 + Len(o.data)
              /\ EncodeOption(o)[2] = o.length
              /\ \A j \in 1 .. Len(o.data) : EncodeOption(o)[2 + j] = o.data[j]
<1>1. o.code \in Byte /\ o.length \in Byte /\ o.data \in Seq(Byte) /\ option_PAD \in Byte
  BY DEF OptionType, Byte, option_PAD
<1>2. CASE o.code = option_PAD
  BY <1>1, <1>2 DEF EncodeOption
<1>3. CASE o.code # option_PAD
  <2>1. EncodeOption(o) = <<o.code, o.length>> \o o.data
    BY <1>3 DEF EncodeOption
  <2> QED
    BY <1>1, <1>3, <2>1, TwoBytesFirst
<1> QED
  BY <1>2, <1>3

\* One option after the other.
LEMMA BodyGrows ==
  ASSUME NEW list \in Seq(OptionType), NEW k \in 0 .. Len(list)
  PROVE  /\ Body(list, k) \in Seq(Byte)
         /\ k = 0 => Body(list, k) = <<>>
         /\ k < Len(list) => Body(list, k + 1) = Body(list, k) \o EncodeOption(list[k + 1])
<1> DEFINE s == [i \in 1 .. k |-> EncodeOption(list[i])]
<1>1. k \in Nat /\ \A i \in 1 .. Len(list) : list[i] \in OptionType /\ EncodeOption(list[i]) \in Seq(Byte)
  BY OptionBytes
<1>2. s \in Seq(Seq(Byte)) /\ Len(s) = k
  BY <1>1
<1>3. Body(list, k) = FlattenSeq(s)
  BY DEF Body
<1>4. k = 0 => s = <<>>
  BY <1>2, EmptySeq
<1>5. ASSUME k < Len(list)
      PROVE  Body(list, k + 1) = Body(list, k) \o EncodeOption(list[k + 1])
  <2> DEFINE e == EncodeOption(list[k + 1])
             t == [i \in 1 .. (k + 1) |-> EncodeOption(list[i])]
  <2>1. e \in Seq(Byte)
    BY <1>1, <1>5
  <2>2. t = Append(s, e)
    <3>1. t \in Seq(Seq(Byte)) /\ Len(t) = k + 1 /\ t[k + 1] = e
      BY <1>1, <1>5
    <3>2. \A i \in 1 .. k : t[i] = s[i]
      BY <1>1
    <3> HIDE DEF s, t, e
    <3> QED
      BY <1>1, <1>2, <2>1, <3>1, <3>2
  <2>3. Body(list, k + 1) = FlattenSeq(t)
    BY DEF Body
  <2> HIDE DEF s, t, e
  <2>4. FlattenSeq(Append(s, e)) = FlattenSeq(s) \o e
    BY <1>2, <2>1, FlattenAppend, Zenon
  <2> QED
    BY <1>3, <2>2, <2>3, <2>4 DEF e
<1> HIDE DEF s
<1>6. FlattenSeq(s) \in Seq(Byte) /\ FlattenSeq(<<>>) = <<>>
  <2>1. <<>> \in Seq(Byte)
    OBVIOUS
  <2> QED
    BY <1>2, <2>1, FlattenAppend, Zenon
<1> QED
  BY <1>3, <1>4, <1>5, <1>6

\* A datagram is the options of its list, and END.
LEMMA EncodeIsBody ==
  ASSUME NEW list \in Seq(OptionType)
  PROVE  /\ Encode(list) = Body(list, Len(list)) \o <<option_END>>
         /\ \A k \in 0 .. Len(list) :
              Encode(SubSeq(list, 1, k)) = Body(list, k) \o <<option_END>>
<1>1. DOMAIN list = 1 .. Len(list)
  OBVIOUS
<1>2. ASSUME NEW k \in 0 .. Len(list)
      PROVE  Encode(SubSeq(list, 1, k)) = Body(list, k) \o <<option_END>>
  <2> DEFINE p == SubSeq(list, 1, k)
  <2>1. DOMAIN p = 1 .. k /\ \A i \in 1 .. k : p[i] = list[i]
    BY SubSeqProperties
  <2> HIDE DEF p
  <2>2. [i \in DOMAIN p |-> EncodeOption(p[i])] = [i \in 1 .. k |-> EncodeOption(list[i])]
    BY <2>1
  <2> QED
    BY <2>2 DEF Encode, Body, p
<1>3. Encode(list) = Body(list, Len(list)) \o <<option_END>>
  BY <1>1 DEF Encode, Body
<1> QED
  BY <1>2, <1>3
\* The first k options are as long as their parts, and what is in them stays
\* where it is when more options follow.
LEMMA BodyKeeps ==
  ASSUME NEW list \in Seq(OptionType), NEW k \in 0 .. Len(list), NEW m \in k .. Len(list)
  PROVE  /\ Len(Body(list, k)) <= Len(Body(list, m))
         /\ \A j \in 1 .. Len(Body(list, k)) : Body(list, m)[j] = Body(list, k)[j]
<1> DEFINE Kept(n) == /\ Len(Body(list, k)) <= Len(Body(list, n))
                      /\ \A j \in 1 .. Len(Body(list, k)) : Body(list, n)[j] = Body(list, k)[j]
           S == {n \in k .. Len(list) : ~Kept(n)}
<1>1. SUFFICES ASSUME S # {} PROVE FALSE
  OBVIOUS
<1>2. S \in SUBSET Nat
  OBVIOUS
<1>3. PICK n \in S : \A i \in S : n <= i
  BY <1>1, <1>2, MinOfNaturals
<1>4. n \in k .. Len(list) /\ ~Kept(n) /\ Len(list) \in Nat
  BY <1>3
<1>5. Len(Body(list, k)) \in Nat
  BY BodyGrows
<1>6. n # k
  BY <1>4, <1>5
<1>7. n - 1 \in k .. Len(list) /\ n - 1 \in 0 .. Len(list) /\ n - 1 < Len(list) /\ (n - 1) + 1 = n
  BY <1>4, <1>6
<1>8. Kept(n - 1)
  <2>1. SUFFICES ASSUME ~Kept(n - 1) PROVE FALSE
    OBVIOUS
  <2> HIDE DEF Kept
  <2>2. n - 1 \in S
    BY <1>7, <2>1
  <2> HIDE DEF S
  <2>3. n <= n - 1
    BY <1>3, <2>2
  <2> QED
    BY <1>4, <2>3
<1>9. Body(list, n) = Body(list, n - 1) \o EncodeOption(list[n])
  BY <1>7, BodyGrows
<1>10. Body(list, n - 1) \in Seq(Byte) /\ EncodeOption(list[n]) \in Seq(Byte)
  <2>1. list[n] \in OptionType
    BY <1>4
  <2> QED
    BY <1>7, <2>1, BodyGrows, OptionBytes
<1>11. Kept(n)
  <2> DEFINE a == Body(list, n - 1)
             b == EncodeOption(list[n])
             c == a \o b
  <2>1. Len(a) \in Nat /\ Len(c) = Len(a) + Len(b) /\ Len(b) \in Nat
    BY <1>10, ConcatProperties
  <2>2. \A j \in 1 .. Len(a) : c[j] = a[j]
    BY <1>10, <2>1, ConcatProperties
  <2> HIDE DEF a, b, c
  <2>3. Body(list, n) = c
    BY <1>9 DEF a, b, c
  <2>4. Len(Body(list, k)) <= Len(a) /\ \A j \in 1 .. Len(Body(list, k)) : a[j] = Body(list, k)[j]
    BY <1>8 DEF a
  <2> QED
    BY <1>5, <2>1, <2>2, <2>3, <2>4
<1> QED
  BY <1>4, <1>11

\* Where the options of a datagram are: one begins where the one before it ends,
\* and END is where the next one would be.
LEMMA Layout ==
  ASSUME NEW list \in Seq(OptionType)
  PROVE  /\ Encode(list) \in Seq(Byte)
         /\ Start(list, 1) = 1
         /\ Len(Encode(list)) = Start(list, Len(list) + 1)
         /\ Encode(list)[Len(Encode(list))] = option_END
         /\ \A k \in 1 .. Len(list) + 1 :
              Start(list, k) \in Nat /\ Start(list, k) >= 1 /\ Start(list, k) <= Len(Encode(list))
         /\ \A k \in 1 .. Len(list) :
              LET o == EncodeOption(list[k])
              IN  /\ Start(list, k + 1) = Start(list, k) + Len(o)
                  /\ \A j \in 1 .. Len(o) : Encode(list)[Start(list, k) + j - 1] = o[j]
<1> DEFINE L == Len(list)
           all == Body(list, L)
<1>1. L \in Nat /\ 0 \in 0 .. L /\ L \in 0 .. L
  OBVIOUS
<1>2. all \in Seq(Byte) /\ Body(list, 0) = <<>>
  BY <1>1, BodyGrows
<1>3. option_END \in Byte /\ <<option_END>> \in Seq(Byte) /\ Len(<<option_END>>) = 1
      /\ <<option_END>>[1] = option_END
  BY DEF option_END, Byte
<1>4. Encode(list) = all \o <<option_END>>
  BY EncodeIsBody
<1> DEFINE code == Encode(list)
           last == <<option_END>>
<1>5. /\ code \in Seq(Byte) /\ Len(code) = Len(all) + 1 /\ code[Len(all) + 1] = option_END
      /\ \A i \in 1 .. Len(all) : code[i] = all[i]
  <2> HIDE DEF last
  <2>1. last \in Seq(Byte) /\ Len(last) = 1 /\ last[1] = option_END
    BY <1>3 DEF last
  <2>2. Encode(list) = all \o last
    BY <1>4 DEF last
  <2> HIDE DEF all
  <2>3. /\ all \o last \in Seq(Byte) /\ Len(all \o last) = Len(all) + Len(last)
        /\ \A i \in 1 .. Len(all) + Len(last) :
             (all \o last)[i] = IF i <= Len(all) THEN all[i] ELSE last[i - Len(all)]
    BY <1>2, <2>1, ConcatProperties
  <2>4. Len(all) \in Nat
    BY <1>2
  <2> QED
    BY <2>1, <2>2, <2>3, <2>4
<1>6. Start(list, 1) = 1
  BY <1>2 DEF Start
<1>7. Start(list, L + 1) = Len(code)
  BY <1>1, <1>5 DEF Start
<1>8. \A k \in 1 .. L + 1 : Start(list, k) \in Nat /\ Start(list, k) >= 1 /\ Start(list, k) <= Len(code)
  <2> SUFFICES ASSUME NEW k \in 1 .. L + 1
               PROVE  Start(list, k) \in Nat /\ Start(list, k) >= 1 /\ Start(list, k) <= Len(code)
    OBVIOUS
  <2>1. k - 1 \in 0 .. L /\ L \in (k - 1) .. L
    BY <1>1
  <2>2. Body(list, k - 1) \in Seq(Byte) /\ Len(Body(list, k - 1)) <= Len(all)
    BY <2>1, BodyGrows, BodyKeeps
  <2>3. Len(Body(list, k - 1)) \in Nat
    BY <2>2
  <2> HIDE DEF all, code
  <2> QED
    BY <1>2, <1>5, <2>2, <2>3 DEF Start
<1>9. ASSUME NEW k \in 1 .. L
      PROVE  LET o == EncodeOption(list[k])
             IN  /\ Start(list, k + 1) = Start(list, k) + Len(o)
                 /\ \A j \in 1 .. Len(o) : code[Start(list, k) + j - 1] = o[j]
  <2> DEFINE o == EncodeOption(list[k])
             a == Body(list, k - 1)
             b == Body(list, k)
  <2>1. /\ k - 1 \in 0 .. L /\ k - 1 < L /\ (k - 1) + 1 = k /\ k \in 0 .. L /\ L \in k .. L
        /\ k + 1 - 1 = k
    BY <1>1
  <2>2. o \in Seq(Byte) /\ a \in Seq(Byte) /\ b \in Seq(Byte)
    <3>1. list[k] \in OptionType
      OBVIOUS
    <3> QED
      BY <2>1, <3>1, OptionBytes, BodyGrows
  <2>3. b = a \o o
    BY <2>1, BodyGrows
  <2>4. Len(b) <= Len(all) /\ \A j \in 1 .. Len(b) : all[j] = b[j]
    BY <2>1, BodyKeeps
  <2>5. Start(list, k + 1) = Len(b) + 1 /\ Start(list, k) = Len(a) + 1
    BY <2>1 DEF Start
  <2> HIDE DEF o, a, b, all, code
  <2>6. Len(a) \in Nat /\ Len(o) \in Nat /\ Len(all) \in Nat /\ Len(b) = Len(a) + Len(o)
    BY <1>2, <2>2, <2>3
  <2>7. \A j \in 1 .. Len(o) : b[Len(a) + j] = o[j]
    BY <2>2, <2>3, <2>6, ConcatProperties
  <2>8. \A j \in 1 .. Len(o) : code[Start(list, k) + j - 1] = o[j]
    <3> TAKE j \in 1 .. Len(o)
    <3>1. Start(list, k) + j - 1 = Len(a) + j /\ Len(a) + j \in 1 .. Len(b)
      BY <2>5, <2>6
    <3>2. Len(a) + j \in 1 .. Len(all)
      BY <2>4, <2>6, <3>1
    <3> QED
      BY <1>5, <2>4, <2>7, <3>1, <3>2
  <2> QED
    BY <2>5, <2>6, <2>8 DEF o
<1> HIDE DEF all
<1> QED
  BY <1>5, <1>6, <1>7, <1>8, <1>9
-----------------------------------------------------------------------------
(***************************************************************************)
(* What the walk finds in a datagram whose lengths are right.              *)
(***************************************************************************)
LengthsRight(list) == \A i \in 1 .. Len(list) : list[i].length = Len(list[i].data)

\* The buffer begins with n bytes of the datagram of a list.
BeginsWith(buffer, list, n) ==
  n <= Len(Encode(list)) /\ \A i \in 1 .. n : buffer[i] = Encode(list)[i]

\* The walk that has come to option k returns v: 0 if no option with the code
\* begins before the last byte, and else where the first of them begins.
Found(list, n, code, k, v) ==
  /\ v # 0 => \E i \in k .. Len(list) :
                /\ v = Start(list, i) /\ Start(list, i) < n /\ list[i].code = code
                /\ \A j \in k .. i - 1 : list[j].code # code
  /\ v = 0 => \A i \in k .. Len(list) : list[i].code = code => Start(list, i) >= n

\* Options begin in the order of the list.
LEMMA StartGrows ==
  ASSUME NEW list \in Seq(OptionType), NEW k \in 1 .. Len(list) + 1, NEW m \in k .. Len(list) + 1
  PROVE  Start(list, k) <= Start(list, m)
<1>1. k - 1 \in 0 .. Len(list) /\ m - 1 \in (k - 1) .. Len(list) /\ m - 1 \in 0 .. Len(list)
  OBVIOUS
<1>2. Len(Body(list, k - 1)) <= Len(Body(list, m - 1))
  BY <1>1, BodyKeeps
<1>3. Len(Body(list, k - 1)) \in Nat /\ Len(Body(list, m - 1)) \in Nat
  BY <1>1, BodyGrows
<1> QED
  BY <1>2, <1>3 DEF Start

\* What the walk returns from the beginning of any option on.
LEMMA FoundFrom ==
  ASSUME NEW list \in Seq(OptionType), LengthsRight(list),
         NEW buffer \in Buffer, NEW n \in Nat, n <= BufferSize, BeginsWith(buffer, list, n),
         NEW code \in SearchedCodes, NEW k \in 1 .. Len(list) + 1
  PROVE  Found(list, n, code, k, Walk(code, buffer, n)[Start(list, k)])
<1> DEFINE L == Len(list)
           walk == Walk(code, buffer, n)
           Good(m) == Found(list, n, code, L + 1 - m, walk[Start(list, L + 1 - m)])
           S == {m \in 0 .. L : ~Good(m)}
<1>1. L \in Nat /\ BufferSize \in Nat
  BY OptionsAssumption
<1>2. SUFFICES S = {}
  <2>1. L + 1 - k \in 0 .. L /\ L + 1 - (L + 1 - k) = k
    BY <1>1
  <2> QED
    BY <2>1
<1>3. SUFFICES ASSUME S # {} PROVE FALSE
  OBVIOUS
<1>4. S \in SUBSET Nat
  OBVIOUS
<1>5. PICK m \in S : \A i \in S : m <= i
  BY <1>3, <1>4, MinOfNaturals
<1>6. m \in 0 .. L /\ ~Good(m)
  BY <1>5
<1> DEFINE p == L + 1 - m
           here == Start(list, p)
<1>7. p \in 1 .. L + 1 /\ here \in Nat /\ here >= 1
  BY <1>1, <1>6, Layout
<1>8. \A i \in p .. L : Start(list, i) >= here
  <2> TAKE i \in p .. L
  <2>1. i \in p .. L + 1
    BY <1>7
  <2>2. Start(list, i) \in Nat
    <3>1. i \in 1 .. L + 1
      BY <1>7
    <3> QED
      BY <3>1, Layout
  <2> QED
    BY <1>7, <2>1, <2>2, StartGrows
<1>9. here < n /\ p \in 1 .. L
  <2>1. CASE here >= n
    <3>1. walk[here] = 0
      BY <1>7, <2>1, WalkEquation
    <3>2. \A i \in p .. L : Start(list, i) >= n
      <4> TAKE i \in p .. L
      <4>1. Start(list, i) \in Nat
        <5>1. i \in 1 .. L + 1
          BY <1>7
        <5> QED
          BY <5>1, Layout
      <4> HIDE DEF p, here
      <4> QED
        BY <1>7, <1>8, <2>1, <4>1
    <3>3. Good(m)
      BY <3>1, <3>2 DEF Found
    <3> QED
      BY <1>6, <3>3
  <2>2. CASE here < n /\ p \notin 1 .. L
    <3>1. p = L + 1
      BY <1>1, <1>7, <2>2
    <3>2. here = Len(Encode(list)) /\ n <= Len(Encode(list))
      BY <3>1, Layout DEF BeginsWith
    <3> QED
      BY <1>7, <2>2, <3>2
  <2> QED
    BY <1>7, <2>1, <2>2
<1>10. m # 0 /\ m - 1 \in 0 .. L /\ L + 1 - (m - 1) = p + 1 /\ p + 1 \in 1 .. L + 1
  BY <1>1, <1>6, <1>9
<1>11. Found(list, n, code, p + 1, walk[Start(list, p + 1)])
  <2>1. Good(m - 1)
    <3>1. SUFFICES ASSUME ~Good(m - 1) PROVE FALSE
      OBVIOUS
    <3> HIDE DEF Good
    <3>2. m - 1 \in S
      BY <1>10, <3>1
    <3> HIDE DEF S
    <3>3. m <= m - 1
      BY <1>5, <3>2
    <3> QED
      BY <1>6, <3>3
  <2> QED
    BY <1>10, <2>1
<1> DEFINE o == list[p]
           wire == EncodeOption(o)
<1>12. /\ o \in OptionType /\ o.code \in Byte \ {option_END} /\ o.data \in Seq(Byte)
       /\ o.length = Len(o.data) /\ Len(o.data) \in Nat
  <2>1. o \in OptionType
    BY <1>9
  <2> QED
    BY <1>9, <2>1 DEF LengthsRight, OptionType
<1>13. /\ Start(list, p + 1) = here + Len(wire)
       /\ \A j \in 1 .. Len(wire) : Encode(list)[here + j - 1] = wire[j]
  BY <1>9, Layout
<1> HIDE DEF p, here, walk, o, wire
<1>14. Len(wire) \in Nat /\ Len(wire) >= 1 /\ wire[1] = o.code
  <2>1. wire \in Seq(Byte) /\ wire[1] = o.code
    BY <1>12, OptionBytes DEF wire
  <2>2. Len(wire) = 1 \/ Len(wire) = 2 + Len(o.data)
    BY <1>12, OptionBytes DEF wire
  <2> QED
    BY <1>12, <2>1, <2>2
<1>15. buffer[here] = o.code
  <2>1. Encode(list)[here + 1 - 1] = wire[1] /\ here + 1 - 1 = here /\ here \in 1 .. n
    BY <1>7, <1>9, <1>13, <1>14
  <2> QED
    BY <1>14, <2>1 DEF BeginsWith
<1>16. CASE o.code = code
  <2>1. code # option_PAD
    BY DEF SearchedCodes, option_HOSTNAME, option_REQUESTEDIPADDRESS,
           option_DHCPMESSAGETYPE, option_SERVERIDENTIFIER, option_CLIENTIDENTIFIER, option_PAD
  <2>2. walk[here] = here
    BY <1>7, <1>9, <1>12, <1>15, <1>16, <2>1, WalkEquation DEF walk
  <2>3. p \in p .. L /\ \A j \in p .. p - 1 : FALSE
    BY <1>1, <1>9
  <2>4. Found(list, n, code, p, walk[here])
    BY <1>7, <1>9, <1>16, <2>2, <2>3 DEF Found, here, o
  <2> QED
    BY <1>6, <2>4 DEF here, p
<1>17. CASE o.code # code
  <2>1. walk[here] = walk[here + Len(wire)]
    <3>1. CASE o.code = option_PAD
      <4>1. Len(wire) = 1
        BY <1>12, <3>1, OptionBytes DEF wire
      <4>2. walk[here] = walk[here + 1]
        BY <1>7, <1>9, <1>12, <1>15, <3>1, WalkEquation DEF walk
      <4> QED
        BY <4>1, <4>2
    <3>2. CASE o.code # option_PAD
      <4>1. Len(wire) = 2 + Len(o.data) /\ wire[2] = o.length
        BY <1>12, <3>2, OptionBytes DEF wire
      <4>2. Encode(list)[here + 2 - 1] = wire[2] /\ here + 2 - 1 = here + 1 /\ here + 1 \in 1 .. n
        BY <1>7, <1>9, <1>12, <1>13, <4>1
      <4>3. buffer[here + 1] = Len(o.data)
        BY <1>12, <4>1, <4>2 DEF BeginsWith
      <4>4. walk[here] = walk[here + 2 + buffer[here + 1]]
        BY <1>7, <1>9, <1>12, <1>15, <1>17, <3>2, WalkEquation DEF walk
      <4>5. here + 2 + Len(o.data) = here + Len(wire)
        <5>1. \A d, w \in Nat : w = 2 + d => here + 2 + d = here + w
          BY <1>7
        <5> QED
          BY <1>12, <1>14, <4>1, <5>1
      <4> QED
        BY <4>3, <4>4, <4>5
    <3> QED
      BY <3>1, <3>2
  <2>2. \A i \in p .. L : i = p \/ i \in (p + 1) .. L
    BY <1>1, <1>9
  <2>3. \A i \in (p + 1) .. L : i \in p .. L
    BY <1>1, <1>9
  <2>4. \A i \in (p + 1) .. L : \A j \in p .. i - 1 : j = p \/ j \in (p + 1) .. i - 1
    BY <1>1, <1>9
  <2>5. Found(list, n, code, p + 1, walk[here])
    BY <1>11, <1>13, <2>1
  <2>6. Found(list, n, code, p, walk[here])
    BY <1>17, <2>2, <2>3, <2>4, <2>5 DEF Found, o
  <2> QED
    BY <1>6, <2>6 DEF here, p
<1> QED
  BY <1>16, <1>17
\* There is one such position only.
LEMMA FoundOnce ==
  ASSUME NEW list \in Seq(OptionType), NEW n \in Nat, NEW code, NEW v, NEW w,
         Found(list, n, code, 1, v), Found(list, n, code, 1, w)
  PROVE  v = w
<1>1. \A i \in 1 .. Len(list) : Start(list, i) \in Nat
  <2> TAKE i \in 1 .. Len(list)
  <2>1. i \in 1 .. Len(list) + 1
    OBVIOUS
  <2> QED
    BY <2>1, Layout
<1>2. CASE v = 0 \/ w = 0
  BY <1>1, <1>2 DEF Found
<1>3. CASE v # 0 /\ w # 0
  <2>1. PICK i \in 1 .. Len(list) :
          /\ v = Start(list, i) /\ list[i].code = code
          /\ \A j \in 1 .. i - 1 : list[j].code # code
    BY <1>3 DEF Found
  <2>2. PICK k \in 1 .. Len(list) :
          /\ w = Start(list, k) /\ list[k].code = code
          /\ \A j \in 1 .. k - 1 : list[j].code # code
    BY <1>3 DEF Found
  <2>3. i = k \/ i \in 1 .. k - 1 \/ k \in 1 .. i - 1
    OBVIOUS
  <2> QED
    BY <2>1, <2>2, <2>3
<1> QED
  BY <1>2, <1>3

\* The length and the data of option k in the buffer, as far as its datagram
\* reaches.
IsInBuffer(buffer, list, n, k) ==
  LET first == Start(list, k)
      data == list[k].data
  IN  /\ first \in Nat /\ first >= 1 /\ first + 1 <= n
      /\ Start(list, k + 1) = first + 2 + Len(data)
      /\ buffer[first + 1] = Len(data)
      /\ data \in Seq(Byte) /\ Len(data) \in Byte
      /\ \A j \in 1 .. Len(data) : first + 1 + j <= n => buffer[first + 1 + j] = data[j]

\* An option whose length byte has arrived is there.
LEMMA OptionInBuffer ==
  ASSUME NEW list \in Seq(OptionType), LengthsRight(list),
         NEW buffer, NEW n \in Nat, BeginsWith(buffer, list, n),
         NEW k \in 1 .. Len(list), list[k].code # option_PAD, Start(list, k) < n
  PROVE  IsInBuffer(buffer, list, n, k)
<1> DEFINE first == Start(list, k)
           o == list[k]
           wire == EncodeOption(o)
<1>1. first \in Nat /\ first >= 1
  <2>1. k \in 1 .. Len(list) + 1
    OBVIOUS
  <2> QED
    BY <2>1, Layout
<1>2. o \in OptionType
  OBVIOUS
<1>3. o.data \in Seq(Byte) /\ o.length = Len(o.data) /\ Len(o.data) \in Nat /\ Len(o.data) \in Byte
  BY <1>2 DEF OptionType, LengthsRight
<1>4. /\ Start(list, k + 1) = first + Len(wire)
      /\ \A j \in 1 .. Len(wire) : Encode(list)[first + j - 1] = wire[j]
  BY Layout
<1>5. /\ Len(wire) = 2 + Len(o.data) /\ wire[2] = Len(o.data)
      /\ \A j \in 1 .. Len(o.data) : wire[2 + j] = o.data[j]
  BY <1>2, <1>3, OptionBytes
<1>6. first < n
  OBVIOUS
<1>7. \A i \in 1 .. n : buffer[i] = Encode(list)[i]
  BY DEF BeginsWith
<1> DEFINE L == Len(o.data)
           code == Encode(list)
           next == Start(list, k + 1)
<1>8. /\ L \in Nat /\ Len(wire) = 2 + L /\ wire[2] = L /\ next = first + Len(wire)
      /\ \A j \in 1 .. Len(wire) : code[first + j - 1] = wire[j]
      /\ \A j \in 1 .. L : wire[2 + j] = o.data[j]
      /\ \A i \in 1 .. n : buffer[i] = code[i]
  BY <1>3, <1>4, <1>5, <1>7
<1> HIDE DEF first, wire, L, code, next
<1>9. next = first + 2 + L
  BY <1>1, <1>8
<1>10. buffer[first + 1] = L
  <2>1. first + 2 - 1 = first + 1 /\ 2 \in 1 .. Len(wire) /\ first + 1 \in 1 .. n
    BY <1>1, <1>6, <1>8
  <2> QED
    BY <1>8, <2>1
<1>11. ASSUME NEW j \in 1 .. L, first + 1 + j <= n PROVE buffer[first + 1 + j] = o.data[j]
  <2>1. first + (2 + j) - 1 = first + 1 + j /\ 2 + j \in 1 .. Len(wire) /\ first + 1 + j \in 1 .. n
    BY <1>1, <1>8, <1>11
  <2> QED
    BY <1>8, <2>1
<1>12. first + 1 <= n
  BY <1>1, <1>6
<1> QED
  BY <1>1, <1>3, <1>9, <1>10, <1>11, <1>12 DEF IsInBuffer, first, L, next
\* Where an option is found depends on the datagram only.
LEMMA PositionInDatagram ==
  ASSUME NEW list \in Seq(OptionType), LengthsRight(list), NEW code \in SearchedCodes,
         NEW n \in Nat, n <= BufferSize,
         NEW buffer \in Buffer, BeginsWith(buffer, list, n)
  PROVE  /\ n > 2 => Found(list, n, code, 1, Position(code, buffer, n))
         /\ n <= 2 => Position(code, buffer, n) = 0
         /\ Position(code, buffer, n) # 0 =>
              \E k \in 1 .. Len(list) :
                /\ Position(code, buffer, n) = Start(list, k) /\ Start(list, k) < n
                /\ list[k].code = code
<1>1. Position(code, buffer, n) = IF n > 2 THEN Walk(code, buffer, n)[1] ELSE 0
  BY PositionIsWalk
<1>2. Start(list, 1) = 1 /\ 1 \in 1 .. Len(list) + 1
  BY Layout
<1>3. Found(list, n, code, 1, Walk(code, buffer, n)[Start(list, 1)])
  BY <1>2, FoundFrom
<1>4. Found(list, n, code, 1, Walk(code, buffer, n)[1])
  BY <1>2, <1>3
<1>5. n > 2 => Found(list, n, code, 1, Position(code, buffer, n))
  BY <1>1, <1>4
<1>6. n <= 2 => Position(code, buffer, n) = 0
  BY <1>1
<1> QED
  BY <1>5, <1>6 DEF Found

\* Of a datagram that is not cut short all the bytes of its options that are
\* looked at have arrived.
LEMMA NotCutShort ==
  ASSUME NEW d \in DatagramType, ~IsCutShort(d)
  PROVE  /\ LengthsRight(d.list)
         /\ \A k \in 1 .. Len(d.list) :
              LET o == d.list[k]
                  first == Start(d.list, k)
              IN  o.code \in SearchedCodes /\ first < Len(d.bytes) =>
                    /\ first + 1 + Len(o.data) <= Len(d.bytes)
                    /\ o.code = option_HOSTNAME => first + 2 + Len(o.data) <= Len(d.bytes)
<1>1. d.list \in Seq(OptionType) /\ Len(d.bytes) \in Nat
  BY DEF DatagramType
<1>2. ASSUME NEW k \in 1 .. Len(d.list)
      PROVE  LET o == d.list[k]
                 first == Start(d.list, k)
             IN  /\ o.length = Len(o.data)
                 /\ o.code \in SearchedCodes /\ first < Len(d.bytes) =>
                      /\ first + 1 + Len(o.data) <= Len(d.bytes)
                      /\ o.code = option_HOSTNAME => first + 2 + Len(o.data) <= Len(d.bytes)
  <2> DEFINE o == d.list[k]
             first == Start(d.list, k)
             cut == Len(Encode(SubSeq(d.list, 1, k - 1)))
             name == IF o.code = option_HOSTNAME THEN 1 ELSE 0
  <2>1. k - 1 \in 0 .. Len(d.list) /\ k \in 1 .. Len(d.list) + 1
    OBVIOUS
  <2>2. cut = first
    <3>1. Body(d.list, k - 1) \in Seq(Byte)
      BY <1>1, <2>1, BodyGrows
    <3>2. Encode(SubSeq(d.list, 1, k - 1)) = Body(d.list, k - 1) \o <<option_END>>
      BY <1>1, <2>1, EncodeIsBody
    <3>3. <<option_END>> \in Seq(Byte) /\ Len(<<option_END>>) = 1
      BY DEF option_END, Byte
    <3> QED
      BY <3>1, <3>2, <3>3, ConcatProperties DEF Start
  <2>3. DOMAIN d.list = 1 .. Len(d.list)
    BY <1>1
  <2>4. /\ ~(o.length # Len(o.data))
        /\ ~(o.code \in SearchedCodes /\ cut < Len(d.bytes)
             /\ Len(d.bytes) < cut + 1 + o.length + name)
    BY <2>3, Zenon DEF IsCutShort
  <2>5. first \in Nat
    BY <1>1, <2>1, Layout
  <2>6. o.data \in Seq(Byte) /\ Len(o.data) \in Nat
    <3>1. o \in OptionType
      BY <1>1
    <3> QED
      BY <3>1 DEF OptionType
  <2>7. name = 0 \/ name = 1
    OBVIOUS
  <2>8. o.length = Len(o.data)
    BY <2>4
  <2>9. o.code = option_HOSTNAME => name = 1
    OBVIOUS
  <2>10. ASSUME o.code \in SearchedCodes, first < Len(d.bytes)
         PROVE  first + 1 + Len(o.data) + name <= Len(d.bytes)
    <3> HIDE DEF cut, first, o, name
    <3>1. ~(Len(d.bytes) < first + 1 + Len(o.data) + name)
      BY <2>2, <2>4, <2>8, <2>10
    <3>2. \A a, b, c, e \in Nat : ~(e < a + 1 + b + c) => a + 1 + b + c <= e
      OBVIOUS
    <3>3. name \in Nat
      BY <2>7
    <3> QED
      BY <1>1, <2>5, <2>6, <3>1, <3>2, <3>3
  <2>11. ASSUME o.code \in SearchedCodes, first < Len(d.bytes)
         PROVE  /\ first + 1 + Len(o.data) <= Len(d.bytes)
                /\ o.code = option_HOSTNAME => first + 2 + Len(o.data) <= Len(d.bytes)
    <3>1. \A a, b, e \in Nat : a + 1 + b + 1 <= e => a + 2 + b <= e /\ a + 1 + b <= e
      OBVIOUS
    <3>2. \A a, b, e \in Nat : a + 1 + b + 0 <= e => a + 1 + b <= e
      OBVIOUS
    <3> HIDE DEF cut, first, o, name
    <3>3. first + 1 + Len(o.data) + name <= Len(d.bytes)
      BY <2>10, <2>11
    <3>4. CASE name = 1
      BY <1>1, <2>5, <2>6, <3>1, <3>3, <3>4
    <3>5. CASE name = 0
      <4>1. ~(o.code = option_HOSTNAME)
        BY <2>9, <3>5
      <4> QED
        BY <1>1, <2>5, <2>6, <3>2, <3>3, <3>5, <4>1
    <3> QED
      BY <2>7, <3>4, <3>5
  <2> QED
    BY <2>8, <2>11, Zenon
<1> QED
  BY <1>1, <1>2 DEF LengthsRight
\* Two buffers that begin with the same datagram, which is not cut short, are
\* read alike, whatever is behind it in either.
LEMMA ReadIsOfDatagram ==
  ASSUME NEW d \in DatagramType, ~IsCutShort(d), Len(d.bytes) <= BufferSize,
         NEW b \in Buffer, BeginsWith(b, d.list, Len(d.bytes)),
         NEW c \in Buffer, BeginsWith(c, d.list, Len(d.bytes))
  PROVE  Read(b, Len(d.bytes)) = Read(c, Len(d.bytes))
<1> DEFINE n == Len(d.bytes)
           list == d.list
<1>1. list \in Seq(OptionType) /\ n \in Nat /\ LengthsRight(list) /\ BufferSize \in Nat
  BY NotCutShort, OptionsAssumption DEF DatagramType
<1>2. \A i \in 1 .. n : b[i] = c[i]
  BY DEF BeginsWith
<1>3. ASSUME NEW code \in SearchedCodes PROVE Position(code, b, n) = Position(code, c, n)
  <2>1. CASE n > 2
    <3>1. Found(list, n, code, 1, Position(code, b, n)) /\ Found(list, n, code, 1, Position(code, c, n))
      BY <1>1, <2>1, PositionInDatagram
    <3> QED
      BY <1>1, <3>1, FoundOnce
  <2>2. CASE ~(n > 2)
    BY <1>1, <2>2, PositionInDatagram
  <2> QED
    BY <2>1, <2>2
<1>4. ASSUME NEW code \in SearchedCodes, Position(code, b, n) # 0
      PROVE  LET i == Position(code, b, n)
             IN  /\ i \in Nat /\ b[i + 1] \in Nat /\ b[i + 1] = c[i + 1]
                 /\ i + 1 + b[i + 1] <= n
                 /\ code = option_HOSTNAME => i + 2 + b[i + 1] <= n
  <2>1. PICK k \in 1 .. Len(list) : /\ Position(code, b, n) = Start(list, k) /\ Start(list, k) < n
                                    /\ list[k].code = code
    BY <1>1, <1>4, PositionInDatagram
  <2>2. code # option_PAD
    BY DEF SearchedCodes, option_HOSTNAME, option_REQUESTEDIPADDRESS,
           option_DHCPMESSAGETYPE, option_SERVERIDENTIFIER, option_CLIENTIDENTIFIER, option_PAD
  <2>3. /\ Start(list, k) \in Nat /\ Start(list, k) >= 1 /\ Start(list, k) + 1 <= n
        /\ b[Start(list, k) + 1] = Len(list[k].data) /\ Len(list[k].data) \in Byte
    BY <1>1, <2>1, <2>2, OptionInBuffer DEF IsInBuffer
  <2>4. /\ Start(list, k) + 1 + Len(list[k].data) <= n
        /\ code = option_HOSTNAME => Start(list, k) + 2 + Len(list[k].data) <= n
    BY <2>1, NotCutShort
  <2>5. Start(list, k) + 1 \in 1 .. n
    BY <1>1, <2>3
  <2>6. Len(list[k].data) \in Nat
    <3>1. Byte \subseteq Nat
      BY DEF Byte
    <3> QED
      BY <2>3, <3>1, Zenon
  <2> QED
    BY <1>2, <2>1, <2>3, <2>4, <2>5, <2>6
<1>5. ASSUME NEW i \in Nat, NEW size \in Nat, i + 1 + size <= n
      PROVE  BytesAt(b, i + 2, size) = BytesAt(c, i + 2, size)
  <2>1. \A j \in 1 .. size : (i + 2) + j - 1 \in 1 .. n
    BY <1>1, <1>5
  <2> QED
    BY <1>2, <2>1 DEF BytesAt
<1>6. ASSUME NEW code \in SearchedCodes
      PROVE  FindOptionData(code, b, n) = FindOptionData(code, c, n)
  <2>1. CASE Position(code, b, n) = 0
    BY <1>3, <2>1 DEF FindOptionData
  <2>2. CASE Position(code, b, n) # 0
    <3> DEFINE i == Position(code, b, n)
    <3>1. /\ i \in Nat /\ b[i + 1] \in Nat /\ b[i + 1] = c[i + 1] /\ i + 1 + b[i + 1] <= n
          /\ i = Position(code, c, n)
      BY <1>3, <1>4, <2>2
    <3> HIDE DEF i
    <3>2. BytesAt(b, i + 2, b[i + 1]) = BytesAt(c, i + 2, c[i + 1])
      BY <1>5, <3>1
    <3> QED
      BY <3>1, <3>2 DEF FindOptionData, i
  <2> QED
    BY <2>1, <2>2
<1>7. GetRequestClientName(b, n) = GetRequestClientName(c, n)
  <2> DEFINE i == Position(option_HOSTNAME, b, n)
  <2>1. option_HOSTNAME \in SearchedCodes
    BY DEF SearchedCodes
  <2>2. CASE i = 0
    BY <1>3, <2>1, <2>2 DEF GetRequestClientName
  <2>3. CASE i # 0
    <3> DEFINE S == {b[i + 1] + 1, MaxHostNameLength - 1}
               size == Min(S)
    <3>1. /\ i \in Nat /\ b[i + 1] \in Nat /\ b[i + 1] = c[i + 1] /\ i + 2 + b[i + 1] <= n
          /\ i = Position(option_HOSTNAME, c, n)
      BY <1>3, <1>4, <2>1, <2>3
    <3> HIDE DEF i
    <3>2. S \in SUBSET Nat /\ S # {} /\ b[i + 1] + 1 \in S
      BY <3>1 DEF MaxHostNameLength
    <3> HIDE DEF S
    <3>3. size \in Nat /\ size <= b[i + 1] + 1
      BY <3>2, MinOfNaturals
    <3> HIDE DEF size
    <3>4. i + 1 + size <= n
      BY <1>1, <3>1, <3>3
    <3>5. BytesAt(b, i + 2, size) = BytesAt(c, i + 2, size)
      BY <1>5, <3>1, <3>3, <3>4
    <3> QED
      BY <3>1, <3>5 DEF GetRequestClientName, i, size, S
  <2> QED
    BY <2>2, <2>3
<1> HIDE DEF n
<1>8. /\ GetIdentifier(b, n) = GetIdentifier(c, n)
      /\ DwordOption(option_REQUESTEDIPADDRESS, b, n) = DwordOption(option_REQUESTEDIPADDRESS, c, n)
      /\ DwordOption(option_SERVERIDENTIFIER, b, n) = DwordOption(option_SERVERIDENTIFIER, c, n)
      /\ GetDHCPMessageType(b, n) = GetDHCPMessageType(c, n)
  BY <1>6, Zenon DEF SearchedCodes, GetIdentifier, DwordOption, GetDHCPMessageType
<1>9. IsOwnHostName(b, n) = IsOwnHostName(c, n)
  BY <1>7, Zenon DEF IsOwnHostName
<1> QED
  BY <1>8, <1>9, Zenon DEF Read, n
-----------------------------------------------------------------------------
(***************************************************************************)
(* What is read of a datagram that is complete.                            *)
(***************************************************************************)
WithCode(list, code) == {i \in DOMAIN list : list[i].code = code}

\* The first option with a code is found, where its sender put it, and END is
\* behind it.
LEMMA FirstIsFound ==
  ASSUME NEW list \in Seq(OptionType), LengthsRight(list), NEW code \in SearchedCodes,
         Len(Encode(list)) <= BufferSize,
         NEW buffer \in Buffer, BeginsWith(buffer, list, Len(Encode(list)))
  PROVE  LET n == Len(Encode(list))
             S == WithCode(list, code)
             k == Min(S)
         IN  /\ S = {} => Position(code, buffer, n) = 0
             /\ S # {} => /\ k \in 1 .. Len(list) /\ list[k].code = code /\ code # option_PAD
                          /\ Position(code, buffer, n) = Start(list, k)
                          /\ Start(list, k) < n /\ Start(list, k + 1) <= n
<1> DEFINE n == Len(Encode(list))
           S == WithCode(list, code)
           k == Min(S)
           v == Position(code, buffer, n)
<1>1. n \in Nat /\ DOMAIN list = 1 .. Len(list)
  <2>1. Encode(list) \in Seq(Byte)
    BY Layout
  <2> QED
    BY <2>1
<1>2. S \in SUBSET Nat /\ \A i : i \in S <=> i \in 1 .. Len(list) /\ list[i].code = code
  BY <1>1 DEF WithCode
<1>3. /\ n > 2 => Found(list, n, code, 1, v)
      /\ n <= 2 => v = 0
      /\ v # 0 => \E i \in 1 .. Len(list) : v = Start(list, i) /\ Start(list, i) < n /\ list[i].code = code
  BY <1>1, PositionInDatagram
<1>4. code # option_PAD
  BY DEF SearchedCodes, option_HOSTNAME, option_REQUESTEDIPADDRESS,
         option_DHCPMESSAGETYPE, option_SERVERIDENTIFIER, option_CLIENTIDENTIFIER, option_PAD
<1>5. CASE S = {}
  BY <1>2, <1>3, <1>5
<1>6. CASE S # {}
  <2>1. k \in S /\ \A i \in S : k <= i
    BY <1>2, <1>6, MinOfNaturals
  <2>2. k \in 1 .. Len(list) /\ list[k].code = code
    BY <1>2, <2>1
  <2>3. /\ Start(list, k) \in Nat /\ Start(list, k) >= 1 /\ Start(list, k + 1) <= n
        /\ Start(list, k + 1) = Start(list, k) + Len(EncodeOption(list[k]))
    <3>1. k \in 1 .. Len(list) + 1 /\ k + 1 \in 1 .. Len(list) + 1
      BY <2>2
    <3> QED
      BY <2>2, <3>1, Layout
  <2>4. Len(EncodeOption(list[k])) \in Nat /\ Len(EncodeOption(list[k])) >= 2
    <3>1. list[k] \in OptionType
      BY <2>2
    <3>2. list[k].data \in Seq(Byte) /\ Len(list[k].data) \in Nat
      BY <3>1 DEF OptionType
    <3> QED
      BY <1>4, <2>2, <3>1, <3>2, OptionBytes
  <2> HIDE DEF k, n
  <2>5. n > 2 /\ Start(list, k) < n
    BY <1>1, <2>3, <2>4
  <2>6. Found(list, n, code, 1, v)
    BY <1>3, <2>5
  <2>7. v # 0
    BY <1>1, <2>2, <2>3, <2>5, <2>6 DEF Found
  <2>8. PICK i \in 1 .. Len(list) : /\ v = Start(list, i) /\ list[i].code = code
                                    /\ \A j \in 1 .. i - 1 : list[j].code # code
    BY <2>6, <2>7 DEF Found
  <2>9. k <= i /\ ~(k \in 1 .. i - 1)
    BY <1>2, <2>1, <2>2, <2>8
  <2>10. i = k
    BY <2>2, <2>9
  <2> QED
    BY <1>4, <1>6, <2>2, <2>3, <2>5, <2>8, <2>10 DEF n, k
<1> QED
  BY <1>5, <1>6

\* So the data that is found is what was sent.
LEMMA SentIsFound ==
  ASSUME NEW list \in Seq(OptionType), LengthsRight(list), NEW code \in SearchedCodes,
         Len(Encode(list)) <= BufferSize,
         NEW buffer \in Buffer, BeginsWith(buffer, list, Len(Encode(list)))
  PROVE  FindOptionData(code, buffer, Len(Encode(list))) = Sent(list, code)
<1> DEFINE n == Len(Encode(list))
           S == WithCode(list, code)
           k == Min(S)
<1>1. CASE S = {}
  <2>1. Position(code, buffer, n) = 0
    BY <1>1, FirstIsFound
  <2> QED
    BY <1>1, <2>1 DEF FindOptionData, Sent, NoOption, WithCode
<1>2. CASE S # {}
  <2> DEFINE i == Start(list, k)
             data == list[k].data
  <2>1. /\ k \in 1 .. Len(list) /\ list[k].code # option_PAD
        /\ Position(code, buffer, n) = i /\ i < n /\ Start(list, k + 1) <= n
    BY <1>2, FirstIsFound
  <2>2. n \in Nat /\ BufferSize \in Nat
    <3>1. Encode(list) \in Seq(Byte)
      BY Layout
    <3> QED
      BY <3>1, OptionsAssumption
  <2>3. /\ i \in Nat /\ i >= 1 /\ Start(list, k + 1) = i + 2 + Len(data)
        /\ buffer[i + 1] = Len(data) /\ data \in Seq(Byte) /\ Len(data) \in Byte
        /\ \A j \in 1 .. Len(data) : i + 1 + j <= n => buffer[i + 1 + j] = data[j]
    <3>1. IsInBuffer(buffer, list, n, k)
      BY <2>1, <2>2, OptionInBuffer
    <3> QED
      BY <3>1, Zenon DEF IsInBuffer
  <2>4. Sent(list, code) = [found |-> TRUE, data |-> data]
    BY <1>2 DEF Sent, WithCode
  <2>5. i + 2 + Len(data) <= n
    BY <2>1, <2>3
  <2> HIDE DEF k, i, data, n
  <2>6. Len(data) \in Nat
    <3>1. Byte \subseteq Nat
      BY DEF Byte
    <3> QED
      BY <2>3, <3>1, Zenon
  <2>7. \A j \in 1 .. Len(data) : (i + 2) + j - 1 = i + 1 + j /\ i + 1 + j <= n
    <3>1. i \in Nat
      BY <2>3
    <3> QED
      BY <2>2, <2>5, <2>6, <3>1
  <2>8. n <= BufferSize
    BY DEF n
  <2>9. \A j \in 1 .. Len(data) : i + 1 + j <= BufferSize
    BY <2>2, <2>3, <2>6, <2>7, <2>8
  <2>10. BytesAt(buffer, i + 2, Len(data)) = [j \in 1 .. Len(data) |-> data[j]]
    BY <2>3, <2>7, <2>9 DEF BytesAt
  <2>11. [j \in 1 .. Len(data) |-> data[j]] = data
    BY <2>3
  <2>12. FindOptionData(code, buffer, n) = [found |-> TRUE, data |-> data]
    <3>1. i # 0
      BY <2>3
    <3>2. Position(code, buffer, n) = i
      BY <2>1, Zenon
    <3>3. BytesAt(buffer, i + 2, buffer[i + 1]) = data
      BY <2>3, <2>10, <2>11, Zenon
    <3> QED
      BY <3>1, <3>2, <3>3, Zenon DEF FindOptionData
  <2> QED
    BY <2>4, <2>12 DEF n
<1> QED
  BY <1>1, <1>2

-----------------------------------------------------------------------------
(***************************************************************************)
(* The inductive invariant: the buffer begins with the last datagram, and  *)
(* what is read of it is what the searches find in the buffer.             *)
(***************************************************************************)
BufferHolds ==
  /\ read_buffer \in Buffer
  /\ received \in Datagrams \cup {NoDatagram}
  /\ \A i \in 1 .. Len(received.bytes) : read_buffer[i] = received.bytes[i]
  /\ fields = IF received.bootRequest THEN Read(read_buffer, Len(received.bytes)) ELSE Nothing

\* The bytes of a datagram are the beginning of those of its list.
LEMMA DatagramBytes ==
  ASSUME NEW d \in Datagrams
  PROVE  /\ d \in DatagramType /\ d.list \in Seq(OptionType) /\ d.bytes \in Seq(Byte)
         /\ Len(d.bytes) \in Nat /\ Len(d.bytes) <= BufferSize
         /\ Len(d.bytes) <= Len(Encode(d.list))
         /\ \A i \in 1 .. Len(d.bytes) : d.bytes[i] = Encode(d.list)[i]
<1>1. /\ d \in DatagramType /\ IsPrefix(d.bytes, Encode(d.list)) /\ Len(d.bytes) <= BufferSize
  BY OptionsAssumption
<1>2. d.list \in Seq(OptionType) /\ Encode(d.list) \in Seq(Byte)
  BY <1>1, Layout DEF DatagramType
<1> DEFINE code == Encode(d.list)
           p == d.bytes
<1> HIDE DEF code, p
<1>3. code \in Seq(Byte) /\ p \in Seq(Byte) /\ Len(p) <= Len(code)
      /\ SubSeq(p, 1, Len(p)) = SubSeq(code, 1, Len(p))
  BY <1>1, <1>2 DEF IsPrefix, DatagramType, code, p
<1>4. \A i \in 1 .. Len(p) : p[i] = code[i]
  <2>1. \A i \in 1 .. Len(p) : SubSeq(p, 1, Len(p))[i] = p[i]
    BY <1>3, SubSeqProperties
  <2>2. \A i \in 1 .. Len(p) : SubSeq(code, 1, Len(p))[i] = code[i]
    BY <1>3, SubSeqProperties
  <2> QED
    BY <1>3, <2>1, <2>2
<1> QED
  BY <1>1, <1>2, <1>3, <1>4 DEF code, p
\* A buffer a datagram is written over begins with it.
LEMMA OverwrittenHolds ==
  ASSUME NEW d \in Datagrams, NEW buffer \in Buffer
  PROVE  /\ Overwritten(buffer, d) \in Buffer
         /\ \A i \in 1 .. Len(d.bytes) : Overwritten(buffer, d)[i] = d.bytes[i]
<1>1. d.bytes \in Seq(Byte) /\ Len(d.bytes) \in Nat /\ Len(d.bytes) <= BufferSize /\ BufferSize \in Nat
  BY DatagramBytes, OptionsAssumption
<1>2. \A i \in 1 .. BufferSize : i <= Len(d.bytes) => i \in 1 .. Len(d.bytes)
  BY <1>1
<1>3. \A i \in 1 .. Len(d.bytes) : i \in 1 .. BufferSize /\ i <= Len(d.bytes) /\ d.bytes[i] \in Byte
  BY <1>1
<1>4. \A i \in 1 .. BufferSize : buffer[i] \in Byte
  BY DEF Buffer
<1> QED
  BY <1>2, <1>3, <1>4 DEF Overwritten, Buffer

\* It holds before the first datagram, whatever is in the buffer.
LEMMA BufferHoldsInit == Init => BufferHolds
<1> SUFFICES ASSUME Init PROVE BufferHolds
  OBVIOUS
<1>1. read_buffer \in Buffer
  BY OptionsAssumption DEF Init, Buffer
<1>2. Len(<<>>) = 0 /\ 1 .. 0 = {}
  OBVIOUS
<1> QED
  BY <1>1, <1>2 DEF Init, BufferHolds, NoDatagram

\* A datagram is written over the buffer and read; a new run has a new buffer.
LEMMA BufferHoldsNext == BufferHolds /\ [Next]_vars => BufferHolds'
<1> SUFFICES ASSUME BufferHolds, [Next]_vars PROVE BufferHolds'
  OBVIOUS
<1>1. CASE RunAgain
  <2>1. read_buffer' \in Buffer
    BY <1>1, OptionsAssumption DEF RunAgain, Buffer
  <2>2. Len(<<>>) = 0 /\ 1 .. 0 = {}
    OBVIOUS
  <2> QED
    BY <1>1, <2>1, <2>2 DEF RunAgain, BufferHolds, NoDatagram
<1>2. ASSUME NEW d \in Datagrams, Receive(d) PROVE BufferHolds'
  <2>1. /\ received' = d /\ read_buffer' = Overwritten(read_buffer, d)
        /\ fields' = IF d.bootRequest THEN Read(read_buffer', Len(d.bytes)) ELSE Nothing
    BY <1>2 DEF Receive
  <2>2. /\ read_buffer' \in Buffer
        /\ \A i \in 1 .. Len(d.bytes) : read_buffer'[i] = d.bytes[i]
    BY <2>1, OverwrittenHolds DEF BufferHolds
  <2> QED
    BY <2>1, <2>2, Zenon DEF BufferHolds
<1>3. CASE UNCHANGED vars
  BY <1>3 DEF BufferHolds, vars
<1> QED
  BY <1>1, <1>2, <1>3 DEF Next

\* At any time the fields run has are those it finds in its buffer, which
\* begins with the datagram it last received.
THEOREM BufferInvariance == Spec => []BufferHolds
BY BufferHoldsInit, BufferHoldsNext, PTL DEF Spec

-----------------------------------------------------------------------------
(***************************************************************************)
(* The properties.                                                         *)
(***************************************************************************)
\* A datagram that is looked at is one of those that arrive, and the buffer
\* begins with bytes of its list.
LEMMA ReceivedInBuffer ==
  ASSUME BufferHolds, received.bootRequest
  PROVE  /\ received \in Datagrams
         /\ BeginsWith(read_buffer, received.list, Len(received.bytes))
         /\ fields = Read(read_buffer, Len(received.bytes))
<1>1. received \in Datagrams
  BY DEF BufferHolds, NoDatagram
<1> QED
  BY <1>1, DatagramBytes DEF BufferHolds, BeginsWith

\* Zeros behind the datagram instead of what is there change nothing.
LEMMA ForgottenInBuffer == BufferHolds => EarlierDatagramsAreForgotten
<1> DEFINE d == received
           blank == [i \in 1 .. BufferSize |-> 0]
<1> SUFFICES ASSUME BufferHolds, d.bootRequest, ~IsCutShort(d)
             PROVE  fields = Read(Overwritten(blank, d), Len(d.bytes))
  BY DEF EarlierDatagramsAreForgotten
<1>1. /\ d \in Datagrams /\ BeginsWith(read_buffer, d.list, Len(d.bytes))
      /\ fields = Read(read_buffer, Len(d.bytes)) /\ read_buffer \in Buffer
  BY ReceivedInBuffer DEF BufferHolds
<1>2. blank \in Buffer
  BY DEF Buffer, Byte
<1>3. Overwritten(blank, d) \in Buffer /\ BeginsWith(Overwritten(blank, d), d.list, Len(d.bytes))
  BY <1>1, <1>2, OverwrittenHolds, DatagramBytes DEF BeginsWith
<1>4. d \in DatagramType /\ Len(d.bytes) <= BufferSize
  BY <1>1, DatagramBytes
<1>5. Read(read_buffer, Len(d.bytes)) = Read(Overwritten(blank, d), Len(d.bytes))
  BY <1>1, <1>3, <1>4, ReadIsOfDatagram
<1> QED
  BY <1>1, <1>5

\* What run reads of a datagram that does not end within an option depends on
\* nothing received before it, whatever the datagrams and the size of the
\* buffer are.
THEOREM EarlierDatagrams == Spec => []EarlierDatagramsAreForgotten
BY BufferInvariance, ForgottenInBuffer, PTL
\* A well-formed datagram is all in the buffer, and its searches find what was
\* sent.
LEMMA WellFormedInBuffer ==
  ASSUME BufferHolds, IsWellFormed(received)
  PROVE  LET list == received.list
             n == Len(Encode(list))
         IN  /\ list \in Seq(OptionType) /\ LengthsRight(list)
             /\ n <= BufferSize /\ read_buffer \in Buffer /\ BeginsWith(read_buffer, list, n)
             /\ fields = Read(read_buffer, n)
             /\ \A code \in SearchedCodes :
                  FindOptionData(code, read_buffer, n) = Sent(list, code)
<1>1. received.bootRequest /\ received.bytes = Encode(received.list)
  BY DEF IsWellFormed, IsComplete
<1>2. /\ received \in Datagrams
      /\ BeginsWith(read_buffer, received.list, Len(received.bytes))
      /\ fields = Read(read_buffer, Len(received.bytes)) /\ read_buffer \in Buffer
  BY <1>1, ReceivedInBuffer DEF BufferHolds
<1>3. received.list \in Seq(OptionType) /\ Len(received.bytes) <= BufferSize
  BY <1>2, DatagramBytes
<1>4. LengthsRight(received.list)
  <2>1. DOMAIN received.list = 1 .. Len(received.list)
    BY <1>3
  <2> QED
    BY <2>1 DEF IsWellFormed, LengthsRight
<1>5. \A code \in SearchedCodes :
        FindOptionData(code, read_buffer, Len(Encode(received.list))) = Sent(received.list, code)
  BY <1>1, <1>2, <1>3, <1>4, SentIsFound
<1> QED
  BY <1>1, <1>2, <1>3, <1>4, <1>5

\* run reads on as long as the datagram may concern it, and reads what was sent.
LEMMA SentInBuffer == BufferHolds => WellFormedIsReadAsSent
<1> DEFINE list == received.list
           n == Len(Encode(list))
           data == Sent(list, option_DHCPMESSAGETYPE).data
           concerns == fields.type \in {Discover, Request} /\ ~fields.ownHostName
<1> SUFFICES ASSUME BufferHolds, IsWellFormed(received)
             PROVE  /\ fields.type = IF Len(data) = 1 /\ data[1] \in 1 .. 8 THEN data[1] ELSE 0
                    /\ concerns => fields.clientIdentifier = Sent(list, option_CLIENTIDENTIFIER)
                    /\ concerns /\ fields.type = Request =>
                         /\ fields.requestedIp = SentDword(list, option_REQUESTEDIPADDRESS)
                         /\ fields.serverIdentifier = SentDword(list, option_SERVERIDENTIFIER)
  BY DEF WellFormedIsReadAsSent
<1>1. /\ fields = Read(read_buffer, n)
      /\ \A code \in SearchedCodes : FindOptionData(code, read_buffer, n) = Sent(list, code)
  BY WellFormedInBuffer
<1>2. /\ FindOptionData(option_DHCPMESSAGETYPE, read_buffer, n) = Sent(list, option_DHCPMESSAGETYPE)
      /\ GetIdentifier(read_buffer, n) = Sent(list, option_CLIENTIDENTIFIER)
      /\ DwordOption(option_REQUESTEDIPADDRESS, read_buffer, n)
           = SentDword(list, option_REQUESTEDIPADDRESS)
      /\ DwordOption(option_SERVERIDENTIFIER, read_buffer, n)
           = SentDword(list, option_SERVERIDENTIFIER)
  BY <1>1, Zenon DEF SearchedCodes, GetIdentifier, DwordOption, SentDword
<1> DEFINE type == GetDHCPMessageType(read_buffer, n)
           own == IsOwnHostName(read_buffer, n)
           wanted == type \in {Discover, Request} /\ ~own
<1>3. type = IF Len(data) = 1 /\ data[1] \in 1 .. 8 THEN data[1] ELSE 0
  BY <1>2 DEF GetDHCPMessageType
<1>4. /\ fields.type = type /\ fields.ownHostName = (type \in {Discover, Request} /\ own)
      /\ wanted => fields.clientIdentifier = GetIdentifier(read_buffer, n)
      /\ wanted /\ type = Request =>
           /\ fields.requestedIp = DwordOption(option_REQUESTEDIPADDRESS, read_buffer, n)
           /\ fields.serverIdentifier = DwordOption(option_SERVERIDENTIFIER, read_buffer, n)
  BY <1>1 DEF Read
<1>5. concerns => wanted
  BY <1>4
<1> QED
  BY <1>2, <1>3, <1>4, <1>5

\* Of any datagram that is complete and whose lengths are right, run reads what
\* its sender put in, whatever was received before.
THEOREM SentIsRead == Spec => []WellFormedIsReadAsSent
BY BufferInvariance, SentInBuffer, PTL
\* An option begins with its code.
LEMMA FirstByte ==
  ASSUME NEW list \in Seq(OptionType), NEW k \in 1 .. Len(list)
  PROVE  Encode(list)[Start(list, k)] = list[k].code
<1> DEFINE o == list[k]
           wire == EncodeOption(o)
           first == Start(list, k)
<1>1. o \in OptionType /\ first \in Nat
  <2>1. k \in 1 .. Len(list) + 1
    OBVIOUS
  <2> QED
    BY <2>1, Layout
<1>2. o.data \in Seq(Byte) /\ Len(o.data) \in Nat
  BY <1>1 DEF OptionType
<1>3. \A j \in 1 .. Len(wire) : Encode(list)[first + j - 1] = wire[j]
  BY Layout
<1>4. wire[1] = o.code /\ (Len(wire) = 1 \/ Len(wire) = 2 + Len(o.data))
  BY <1>1, OptionBytes
<1> HIDE DEF wire, first, o
<1>5. 1 \in 1 .. Len(wire) /\ first + 1 - 1 = first
  BY <1>1, <1>2, <1>4
<1> QED
  BY <1>3, <1>4, <1>5 DEF first, o

\* What follows an option of a list: the code of the next one, or END.
LEMMA ByteAfter ==
  ASSUME NEW list \in Seq(OptionType), NEW k \in 1 .. Len(list)
  PROVE  Encode(SubSeq(list, k + 1, Len(list)))[1] = Encode(list)[Start(list, k + 1)]
<1> DEFINE L == Len(list)
           rest == SubSeq(list, k + 1, L)
<1>1. /\ L \in Nat /\ rest \in Seq(OptionType) /\ Len(rest) = L - k
      /\ k # L => rest[1] = list[k + 1]
  <2>1. k + 1 \in Nat /\ L \in Nat
    OBVIOUS
  <2> QED
    BY <2>1, SubSeqProperties
<1>2. CASE k = L
  <2>1. Len(rest) = 0
    BY <1>1, <1>2
  <2>2. Encode(rest)[1] = option_END
    <3>1. Start(rest, 1) = 1 /\ Len(Encode(rest)) = Start(rest, 0 + 1)
          /\ Encode(rest)[Len(Encode(rest))] = option_END
      BY <1>1, <2>1, Layout
    <3> QED
      BY <3>1
  <2> QED
    BY <1>2, <2>2, Layout
<1>3. CASE k # L
  <2>1. k + 1 \in 1 .. L /\ 1 \in 1 .. Len(rest)
    BY <1>1, <1>3
  <2>2. Encode(list)[Start(list, k + 1)] = list[k + 1].code
    BY <2>1, FirstByte
  <2>3. Encode(rest)[Start(rest, 1)] = rest[1].code /\ Start(rest, 1) = 1
    BY <1>1, <2>1, FirstByte, Layout
  <2> HIDE DEF rest
  <2> QED
    BY <1>1, <1>3, <2>2, <2>3 DEF rest
<1> QED
  BY <1>2, <1>3

\* The name run compares: the one in the first option 12 and the byte behind it,
\* or nothing.
LEMMA NameInBuffer ==
  ASSUME NEW list \in Seq(OptionType), LengthsRight(list),
         Len(Encode(list)) <= BufferSize,
         NEW buffer \in Buffer, BeginsWith(buffer, list, Len(Encode(list)))
  PROVE  LET S == WithCode(list, option_HOSTNAME)
             name == list[Min(S)].data
             after == Encode(SubSeq(list, Min(S) + 1, Len(list)))
             chars == GetRequestClientName(buffer, Len(Encode(list)))
         IN  /\ S = {} => chars = <<>>
             /\ S # {} => chars = IF Len(name) < MaxHostNameLength - 1
                                  THEN Append(name, after[1]) ELSE name
<1> DEFINE n == Len(Encode(list))
           S == WithCode(list, option_HOSTNAME)
           k == Min(S)
           name == list[k].data
           i == Start(list, k)
           after == Encode(SubSeq(list, k + 1, Len(list)))
           size == Min({buffer[i + 1] + 1, MaxHostNameLength - 1})
<1>1. option_HOSTNAME \in SearchedCodes
  BY DEF SearchedCodes
<1>2. CASE S = {}
  <2>1. Position(option_HOSTNAME, buffer, n) = 0
    BY <1>1, <1>2, FirstIsFound
  <2> QED
    BY <1>2, <2>1 DEF GetRequestClientName
<1>3. CASE S # {}
  <2>1. /\ k \in 1 .. Len(list) /\ list[k].code # option_PAD
        /\ Position(option_HOSTNAME, buffer, n) = i /\ i < n /\ Start(list, k + 1) <= n
    BY <1>1, <1>3, FirstIsFound
  <2>2. n \in Nat /\ BufferSize \in Nat /\ n <= BufferSize
    <3>1. Encode(list) \in Seq(Byte)
      BY Layout
    <3> QED
      BY <3>1, OptionsAssumption
  <2>3. /\ i \in Nat /\ i >= 1 /\ Start(list, k + 1) = i + 2 + Len(name)
        /\ buffer[i + 1] = Len(name) /\ name \in Seq(Byte) /\ Len(name) \in Byte
        /\ \A j \in 1 .. Len(name) : i + 1 + j <= n => buffer[i + 1 + j] = name[j]
    <3>1. IsInBuffer(buffer, list, n, k)
      BY <2>1, <2>2, OptionInBuffer
    <3> QED
      BY <3>1, Zenon DEF IsInBuffer
  <2>4. after[1] = Encode(list)[Start(list, k + 1)]
    BY <2>1, ByteAfter
  <2>5. \A j \in 1 .. n : buffer[j] = Encode(list)[j]
    BY DEF BeginsWith
  <2> DEFINE L == Len(name)
             next == i + 2 + L
             chars == GetRequestClientName(buffer, n)
  <2>6. chars = BytesAt(buffer, i + 2, size)
    <3>1. i # 0
      BY <2>3
    <3> HIDE DEF n, k, i
    <3>2. Position(option_HOSTNAME, buffer, n) = i
      BY <2>1, Zenon
    <3> QED
      BY <3>1, <3>2, Zenon DEF GetRequestClientName
  <2> HIDE DEF n, k, i, after, size, S, name, next, L, chars
  <2>7. L \in Nat /\ L <= 255 /\ next \in Nat /\ next = Start(list, k + 1) /\ next = i + 2 + L /\ next <= n
    <3>1. L \in Byte /\ Start(list, k + 1) = i + 2 + L
      BY <2>3, Zenon DEF L
    <3>2. L \in Nat /\ L <= 255
      BY <3>1 DEF Byte
    <3> QED
      BY <2>1, <2>2, <2>3, <3>1, <3>2 DEF next
  <2>8. buffer[next] = after[1]
    <3>1. next \in 1 .. n
      BY <2>2, <2>3, <2>7
    <3> QED
      BY <2>4, <2>5, <2>7, <3>1
  <2>9. \A j \in 1 .. L : i + 2 + j - 1 = i + 1 + j /\ i + 1 + j <= n /\ buffer[i + 2 + j - 1] = name[j]
    <3> TAKE j \in 1 .. L
    <3>1. i + 2 + j - 1 = i + 1 + j /\ i + 1 + j <= n
      BY <2>2, <2>3, <2>7
    <3> QED
      BY <2>3, <3>1 DEF L
  <2>10. size = IF L < 255 THEN L + 1 ELSE 255
    <3> DEFINE M == {L + 1, 255}
    <3>1. size = Min(M)
      BY <2>3 DEF size, L, MaxHostNameLength
    <3>2. M \in SUBSET Nat /\ M # {}
      BY <2>7
    <3>3. Min(M) \in M /\ \A y \in M : Min(M) <= y
      BY <3>2, MinOfNaturals
    <3>4. Min(M) = L + 1 \/ Min(M) = 255
      BY <3>3
    <3>5. Min(M) <= L + 1 /\ Min(M) <= 255
      BY <3>3
    <3> HIDE DEF M
    <3> QED
      BY <2>7, <3>1, <3>4, <3>5
  <2>11. chars = IF L < 255 THEN Append(name, after[1]) ELSE name
    <3>1. CASE L < 255
      <4>1. chars = [j \in 1 .. L + 1 |-> IF j <= L THEN name[j] ELSE after[1]]
        <5>1. size = L + 1
          BY <2>10, <3>1
        <5>2. ASSUME NEW j \in 1 .. L + 1
              PROVE  (IF i + 2 + j - 1 <= BufferSize THEN buffer[i + 2 + j - 1] ELSE 0)
                       = IF j <= L THEN name[j] ELSE after[1]
          <6>1. CASE j <= L
            <7>1. j \in 1 .. L
              BY <2>7, <6>1
            <7>2. i + 2 + j - 1 <= BufferSize
              BY <2>2, <2>3, <2>9, <7>1
            <7> QED
              BY <2>9, <6>1, <7>1, <7>2
          <6>2. CASE ~(j <= L)
            <7>1. j = L + 1
              BY <2>7, <6>2
            <7>2. i + 2 + j - 1 = next
              <8>1. \A l \in Nat : i + 2 + (l + 1) - 1 = i + 2 + l
                BY <2>3
              <8> QED
                BY <2>7, <7>1, <8>1
            <7>3. next <= BufferSize
              BY <2>2, <2>7
            <7> QED
              BY <2>8, <6>2, <7>2, <7>3
          <6> QED
            BY <6>1, <6>2
        <5> QED
          BY <2>6, <5>1, <5>2 DEF BytesAt
      <4>2. Append(name, after[1]) = [j \in 1 .. L + 1 |-> IF j <= L THEN name[j] ELSE after[1]]
        BY <2>3, <2>7 DEF L
      <4> QED
        BY <3>1, <4>1, <4>2
    <3>2. CASE ~(L < 255)
      <4>1. size = L
        BY <2>7, <2>10, <3>2
      <4>2. \A j \in 1 .. L : i + 2 + j - 1 <= BufferSize
        BY <2>2, <2>3, <2>7, <2>9
      <4>3. chars = [j \in 1 .. L |-> name[j]]
        BY <2>6, <2>9, <4>1, <4>2 DEF BytesAt
      <4>4. [j \in 1 .. L |-> name[j]] = name
        BY <2>3 DEF L
      <4> QED
        BY <3>2, <4>3, <4>4
    <3> QED
      BY <3>1, <3>2
  <2>12. MaxHostNameLength - 1 = 255
    BY DEF MaxHostNameLength
  <2> QED
    BY <1>3, <2>11, <2>12 DEF L, chars, n, S, k, name, after
<1> QED
  BY <1>2, <1>3
\* No name is an empty string.
LEMMA CStringOfNothing == CString(<<>>) = <<>>
<1> DEFINE s == <<>> \o <<0>>
           I == {i \in 1 .. Len(s) : s[i] = 0}
<1>1. s = <<0>>
  BY ConcatEmptySeq
<1>2. I = {1}
  BY <1>1
<1>3. Min(I) = 1
  <2>1. Min({1}) \in {1}
    BY MinOfNaturals
  <2> QED
    BY <1>2, <2>1
<1>4. CString(<<>>) = SubSeq(<<>>, 1, (IF I # {} THEN Min(I) ELSE 0) - 1)
  BY Zenon DEF CString, SelectInSeq
<1>5. CString(<<>>) = SubSeq(<<>>, 1, 0)
  <2> HIDE DEF I
  <2> QED
    BY <1>2, <1>3, <1>4
<1> QED
  BY <1>5

\* How the host name is read that OwnHostNameIsRecognised finds misread: with the
\* byte after it, unless it fills the buffer without it, and as far as a NUL.
\* The server's own name is known before a PAD or with a NUL only, and a client is
\* not served whose name lacks no more than the last character, when that is the
\* code of the option that follows.
HostNameTakesNextByte ==
  IsWellFormed(received) /\ fields.type \in {Discover, Request} =>
    LET list == received.list
        S == {i \in DOMAIN list : list[i].code = option_HOSTNAME}
        name == list[Min(S)].data
        after == Encode(SubSeq(list, Min(S) + 1, Len(list)))
    IN fields.ownHostName <=>
         /\ ServerName # <<>> /\ S # {}
         /\ CString(IF Len(name) < MaxHostNameLength - 1 THEN Append(name, after[1])
                    ELSE name) = ServerName

\* Without an option 12 no name is compared, with it the name and one byte.
LEMMA HostNameInBuffer == BufferHolds => HostNameTakesNextByte
<1> DEFINE list == received.list
           n == Len(Encode(list))
           S == {i \in DOMAIN list : list[i].code = option_HOSTNAME}
           name == list[Min(S)].data
           after == Encode(SubSeq(list, Min(S) + 1, Len(list)))
           text == IF Len(name) < MaxHostNameLength - 1 THEN Append(name, after[1]) ELSE name
           chars == GetRequestClientName(read_buffer, n)
<1> SUFFICES ASSUME BufferHolds, IsWellFormed(received), fields.type \in {Discover, Request}
             PROVE  fields.ownHostName <=> ServerName # <<>> /\ S # {} /\ CString(text) = ServerName
  BY DEF HostNameTakesNextByte
<1>1. /\ list \in Seq(OptionType) /\ LengthsRight(list)
      /\ n <= BufferSize /\ read_buffer \in Buffer /\ BeginsWith(read_buffer, list, n)
      /\ fields = Read(read_buffer, n)
  BY WellFormedInBuffer
<1>2. S = WithCode(list, option_HOSTNAME)
  BY DEF WithCode
<1>3. (S = {} => chars = <<>>) /\ (S # {} => chars = text)
  BY <1>1, <1>2, NameInBuffer
<1>4. fields.ownHostName <=> IsOwnHostName(read_buffer, n)
  BY <1>1 DEF Read
<1>5. IsOwnHostName(read_buffer, n) <=> ServerName # <<>> /\ CString(chars) = ServerName
  BY Zenon DEF IsOwnHostName
<1> HIDE DEF S, text, chars
<1>6. CASE S = {}
  BY <1>3, <1>4, <1>5, <1>6, CStringOfNothing
<1>7. CASE S # {}
  BY <1>3, <1>4, <1>5, <1>7
<1> QED
  BY <1>6, <1>7

\* In every well-formed datagram the name of the client is compared together
\* with the byte behind it.
THEOREM HostNameIsReadOn == Spec => []HostNameTakesNextByte
BY BufferInvariance, HostNameInBuffer, PTL
=============================================================================
