-------------------------- MODULE HidDeviceProofs ---------------------------
(***************************************************************************)
(* Theorems about HidDevice and Transfers: the descriptors lead to the first *)
(* supported interface and to its endpoints, every report is notified once,  *)
(* and the event of every control request leads back to it.                  *)
(***************************************************************************)
EXTENDS HidDevice, FiniteSetTheorems, SequenceTheorems, WellFoundedInduction, TLAPS

-----------------------------------------------------------------------------
(* Numbers                                                                  *)

\* A set of natural numbers that is not empty has a least one, and Min chooses it.
LEMMA Least ==
    ASSUME NEW T \in SUBSET Nat, T # {}
    PROVE  Min(T) \in T /\ \A x \in T : Min(T) <= x
  <1> DEFINE R == OpToRel(<, Nat)
  <1>1. IsWellFoundedOn(R, Nat)
    BY NatLessThanWellFounded
  <1>2. \E m \in T : \A x \in T : <<x, m>> \notin R
    <2> HIDE DEF R
    <2> QED
      BY <1>1, WFMin
  <1>3. \A x, m \in Nat : <<x, m>> \notin R => m <= x
    BY DEF OpToRel
  <1>4. \E m \in T : \A x \in T : m <= x
    BY <1>2, <1>3
  <1> QED
    BY <1>4 DEF Min

\* A set of numbers up to n that is not empty has a greatest one, and Max chooses it.
LEMMA Greatest ==
    ASSUME NEW n \in Nat, NEW T \in SUBSET (1..n), T # {}
    PROVE  Max(T) \in T /\ \A x \in T : x <= Max(T)
  <1> DEFINE U == {n - t : t \in T}
  <1>0. \A t \in T : t \in 1..n
    OBVIOUS
  <1>1. U \in SUBSET Nat /\ U # {}
    <2>1. \A t \in T : n - t \in Nat
      BY <1>0
    <2> QED
      BY <2>1
  <1>2. PICK m \in U : \A x \in U : m <= x
    <2> HIDE DEF U
    <2> QED
      BY <1>1, Least
  <1>3. \E t \in T : \A x \in T : t >= x
    <2>1. PICK t \in T : m = n - t
      BY <1>2
    <2>2. \A x \in T : n - t <= n - x
      BY <1>2, <2>1
    <2> QED
      BY <1>0, <2>2
  <1> QED
    BY <1>3 DEF Max

\* The members of S up to j
UpTo(S, j) == {k \in S : k <= j}

\* In a set of numbers there is for every i, up to the number of its members, exactly one
\* that is the i-th.
LEMMA Ranks ==
    ASSUME NEW N \in Nat, NEW S \in SUBSET (1..N)
    PROVE  /\ IsFiniteSet(S) /\ Cardinality(S) \in Nat
           /\ \A j \in S : Cardinality(UpTo(S, j)) \in 1..Cardinality(S)
           /\ \A j, k \in S : Cardinality(UpTo(S, j)) = Cardinality(UpTo(S, k)) => j = k
           /\ \A i \in 1..Cardinality(S) : \E j \in S : Cardinality(UpTo(S, j)) = i
  <1> DEFINE n == Cardinality(S)
             rank == [j \in S |-> Cardinality(UpTo(S, j))]
  <1>0. \A j \in S : j \in Nat
    OBVIOUS
  <1>1. IsFiniteSet(1..N)
    BY FS_Interval
  <1>2. IsFiniteSet(S) /\ n \in Nat
    BY <1>1, FS_Subset, FS_CardinalityType
  <1>3. \A j \in S : UpTo(S, j) \in SUBSET S
    BY DEF UpTo
  <1>4. \A j \in S : IsFiniteSet(UpTo(S, j)) /\ Cardinality(UpTo(S, j)) \in Nat
    BY <1>2, <1>3, FS_Subset, FS_CardinalityType
  <1>5. ASSUME NEW j \in S PROVE Cardinality(UpTo(S, j)) \in 1..n
    <2>1. Cardinality(UpTo(S, j)) <= n
      BY <1>2, <1>3, FS_Subset
    <2>2. j \in UpTo(S, j)
      BY DEF UpTo
    <2>3. Cardinality(UpTo(S, j)) # 0
      BY <1>4, <2>2, FS_EmptySet
    <2> QED
      BY <1>2, <1>4, <2>1, <2>3
  <1>6. ASSUME NEW j \in S, NEW k \in S, j < k
        PROVE  Cardinality(UpTo(S, j)) # Cardinality(UpTo(S, k))
    <2>0. \A x \in S : x <= j => x <= k
      BY <1>0, <1>6
    <2>1. UpTo(S, j) \in SUBSET UpTo(S, k)
      BY <2>0 DEF UpTo
    <2>2. k \in UpTo(S, k) /\ k \notin UpTo(S, j)
      BY <1>0, <1>6 DEF UpTo
    <2> QED
      BY <1>4, <2>1, <2>2, FS_Subset
  <1>7. \A j, k \in S : Cardinality(UpTo(S, j)) = Cardinality(UpTo(S, k)) => j = k
    <2> SUFFICES ASSUME NEW j \in S, NEW k \in S, j # k
                 PROVE  Cardinality(UpTo(S, j)) # Cardinality(UpTo(S, k))
      OBVIOUS
    <2>1. j < k \/ k < j
      BY <1>0
    <2> QED
      BY <1>6, <2>1
  <1>8. rank \in Injection(S, 1..n)
    <2>1. rank \in [S -> 1..n]
      BY <1>5
    <2>2. \A j, k \in S : rank[j] = rank[k] => j = k
      BY <1>7
    <2> HIDE DEF rank
    <2> QED
      BY <2>1, <2>2 DEF Injection, IsInjective
  <1>9. IsFiniteSet(1..n) /\ Cardinality(1..n) = n
    BY <1>2, FS_Interval
  <1>10. rank \in Surjection(S, 1..n)
    <2> HIDE DEF rank, n
    <2>1. Cardinality(S) = Cardinality(1..n)
      BY <1>9 DEF n
    <2> QED
      BY <1>8, <1>9, <2>1, FS_Injection
  <1>11. \A i \in 1..n : \E j \in S : rank[j] = i
    <2> HIDE DEF rank
    <2> QED
      BY <1>10 DEF Surjection
  <1> QED
    BY <1>2, <1>5, <1>7, <1>11

-----------------------------------------------------------------------------
(* The descriptors                                                          *)

\* The fields of a descriptor, and of an interface and an endpoint descriptor
LEMMA DescriptorFields ==
    ASSUME NEW d \in Descriptors
    PROVE  /\ d.offset \in Nat /\ d.length \in 0..255
           /\ d.type = "Interface" => d.number \in 0..255 /\ d.num_endpoints \in 0..255
           /\ d.type = "Endpoint" => /\ d.number \in 1..15 /\ d.in \in BOOLEAN
                                     /\ d.transfer_type \in 0..3 /\ d.interval \in 0..255
           /\ d.type = "HID" => d.num_descriptors \in 0..255
  BY DEF Descriptors

\* The configurations that MakeEPConfig makes
EPConfigs == [ep_id : 2..31, ep_type : 0..3, interval : 0..255]

\* What MakeEPConfig makes of an endpoint descriptor is one of them.
LEMMA MakesEPConfig ==
    ASSUME NEW d \in Descriptors, d.type = "Endpoint"
    PROVE  /\ MakeEPConfig(d) \in EPConfigs
           /\ MakeEPConfig(d).ep_id = Address(d.number, d.in)
           /\ MakeEPConfig(d).ep_type = d.transfer_type
           /\ MakeEPConfig(d).interval = d.interval
           /\ IsIn(MakeEPConfig(d).ep_id) <=> d.in
           /\ Number(MakeEPConfig(d).ep_id) = d.number
  <1>1. /\ d.number \in 1..15 /\ d.in \in BOOLEAN
        /\ d.transfer_type \in 0..3 /\ d.interval \in 0..255
    BY DescriptorFields
  <1>2. Address(d.number, d.in) \in 2..31
    BY <1>1 DEF Address
  <1>3. IsIn(Address(d.number, d.in)) <=> d.in
    BY <1>1 DEF Address, IsIn
  <1>4. Number(Address(d.number, d.in)) = d.number
    BY <1>1 DEF Address, Number
  <1> QED
    BY <1>1, <1>2, <1>3, <1>4 DEF MakeEPConfig, EPConfigs

\* What GetDescriptor of the configuration leaves in buf_
Prefix == SubSeq(device.configuration, 1, Max(Begun))

BufInv ==
    /\ device \in Devices
    /\ buf \in {<<>>, <<[type |-> "Device"]>>} \/ (buf = Prefix /\ ConfigurationLength >= 2)

\* The descriptors of a device, and where they are in its answer
LEMMA ConfFacts ==
    ASSUME device \in Devices
    PROVE  /\ Conf \in Seq(Descriptors) /\ Len(Conf) \in Nat
           /\ \A i \in 1..Len(Conf) :
                 Conf[i] \in Descriptors /\ Conf[i].offset \in Nat /\ Conf[i].length \in 0..255
           /\ \A j, k \in 1..Len(Conf) : j < k => Conf[j].offset + Conf[j].length <= Conf[k].offset
           /\ device.bytes \in Nat /\ (device.bytes > 0 => Conf # <<>> /\ Conf[1].offset = 0)
           /\ ConfigurationLength \in Nat /\ ConfigurationLength \in {BufferSize, device.bytes}
           /\ ConfigurationLength <= BufferSize /\ ConfigurationLength <= device.bytes
  <1>1. /\ Conf \in Seq(Descriptors) /\ device.bytes \in Nat /\ Follow(Conf, device.bytes)
    BY DevicesAssumption DEF IsDevice, Conf
  <1>2. Len(Conf) \in Nat /\ \A i \in 1..Len(Conf) : Conf[i] \in Descriptors
    BY <1>1, LenProperties, ElementOfSeq
  <1>3. \A i \in 1..Len(Conf) : Conf[i].offset \in Nat /\ Conf[i].length \in 0..255
    BY <1>2, DescriptorFields
  <1>4. /\ \A j, k \in 1..Len(Conf) : j < k => Conf[j].offset + Conf[j].length <= Conf[k].offset
        /\ device.bytes > 0 => Conf # <<>> /\ Conf[1].offset = 0
    BY <1>1 DEF Follow
  <1>5. /\ ConfigurationLength \in {BufferSize, device.bytes}
        /\ ConfigurationLength <= BufferSize /\ ConfigurationLength <= device.bytes
    <2>1. {BufferSize, device.bytes} \in SUBSET Nat /\ {BufferSize, device.bytes} # {}
      BY <1>1, LimitsAssumption
    <2> QED
      BY <2>1, Least DEF ConfigurationLength
  <1> QED
    BY <1>1, <1>2, <1>3, <1>4, <1>5, LimitsAssumption

\* buf_ has the first descriptors of the configuration, as many as begin in what has arrived.
LEMMA PrefixFacts ==
    ASSUME device \in Devices, ConfigurationLength >= 2
    PROVE  /\ Conf \in Seq(Descriptors) /\ Len(Conf) \in Nat
           /\ \A i \in 1..Len(Conf) : Conf[i] \in Descriptors
           /\ Len(Prefix) \in Nat \ {0} /\ Len(Prefix) <= Len(Conf)
           /\ \A i \in 1..Len(Conf) : Conf[i].offset < ConfigurationLength => i <= Len(Prefix)
           /\ \A i \in 1..Len(Prefix) : Prefix[i] = Conf[i]
  <1>1. Conf \in Seq(Descriptors) /\ Len(Conf) \in Nat
        /\ (\A i \in 1..Len(Conf) : Conf[i] \in Descriptors)
        /\ Conf # <<>> /\ Conf[1].offset = 0 /\ ConfigurationLength \in Nat
    BY ConfFacts
  <1>2. Begun = {k \in 1..Len(Conf) : Conf[k].offset < ConfigurationLength}
    BY DEF Begun, Conf
  <1>3. 1 \in Begun
    BY <1>1, <1>2, EmptySeq
  <1>4. PICK n \in 1..Len(Conf) : n = Max(Begun) /\ \A x \in Begun : x <= n
    <2>1. Begun \in SUBSET (1..Len(Conf))
      BY <1>2
    <2>2. Max(Begun) \in Begun /\ \A x \in Begun : x <= Max(Begun)
      BY <1>1, <1>3, <2>1, Greatest
    <2> QED
      BY <2>1, <2>2
  <1>5. Prefix = SubSeq(Conf, 1, n)
    BY <1>4 DEF Prefix, Conf
  <1>6. Len(SubSeq(Conf, 1, n)) = n /\ \A i \in 1..n : SubSeq(Conf, 1, n)[i] = Conf[i]
    BY <1>1, SubSeqProperties
  <1>7. Len(Prefix) = n /\ \A i \in 1..n : Prefix[i] = Conf[i]
    BY <1>5, <1>6
  <1>8. n \in Nat \ {0} /\ n <= Len(Conf)
    BY <1>1
  <1>9. \A i \in 1..Len(Conf) : Conf[i].offset < ConfigurationLength => i <= n
    BY <1>2, <1>4
  <1> QED
    BY <1>1, <1>7, <1>8, <1>9

\* What a device that is as it should be has sent up to the last endpoint of its interface has
\* arrived, whole descriptors.
LEMMA WellPlaced ==
    ASSUME device \in Devices, WellFormed, NEW j \in EndpointsOf(FirstInterface),
           NEW k \in 1..j
    PROVE  /\ j \in 1..Len(Conf) /\ k \in 1..Len(Conf)
           /\ Conf[k].offset < ConfigurationLength
           /\ ConfigurationLength - Conf[k].offset >= SearchUses(Conf[k])
           /\ ConfigurationLength - Conf[k].offset >= EndpointsUse(Conf[k])
  <1>1. /\ Len(Conf) \in Nat /\ ConfigurationLength \in Nat
        /\ ConfigurationLength \in {BufferSize, device.bytes}
        /\ \A i \in 1..Len(Conf) :
              Conf[i] \in Descriptors /\ Conf[i].offset \in Nat /\ Conf[i].length \in 0..255
        /\ \A i, m \in 1..Len(Conf) : i < m => Conf[i].offset + Conf[i].length <= Conf[m].offset
    BY ConfFacts
  <1>2. SupportedInterfaces \in SUBSET Nat /\ SupportedInterfaces # {}
    BY <1>1 DEF SupportedInterfaces, WellFormed
  <1>3. FirstInterface \in 2..Len(Conf)
    BY <1>2, Least DEF FirstInterface, SupportedInterfaces
  <1>4. j \in 1..Len(Conf) /\ k \in 1..Len(Conf)
    BY <1>1, <1>3 DEF EndpointsOf
  <1>5. Conf[j].offset + Conf[j].length <= ConfigurationLength
    BY <1>1, <1>4 DEF WellFormed, LengthsRight
  <1>6. Conf[k].offset + Conf[k].length <= ConfigurationLength
    <2>1. k = j \/ k < j
      BY <1>1, <1>4
    <2>2. CASE k < j
      <3>1. Conf[k].offset + Conf[k].length <= Conf[j].offset
        BY <1>1, <1>4, <2>2
      <3>2. PICK a \in Nat, b \in Nat : a = Conf[k].offset /\ b = Conf[k].length
        <4>1. Conf[k].offset \in Nat /\ Conf[k].length \in 0..255
          BY <1>1, <1>4
        <4>2. Conf[k].length \in Nat
          BY <4>1
        <4> QED
          BY Zenon, <4>1, <4>2
      <3>3. PICK c \in Nat, d \in Nat : c = Conf[j].offset /\ d = Conf[j].length
        <4>1. Conf[j].offset \in Nat /\ Conf[j].length \in 0..255
          BY <1>1, <1>4
        <4>2. Conf[j].length \in Nat
          BY <4>1
        <4> QED
          BY Zenon, <4>1, <4>2
      <3>4. a + b <= c /\ c + d <= ConfigurationLength
        BY <1>5, <3>1, <3>2, <3>3
      <3>5. a + b <= ConfigurationLength
        BY <1>1, <3>4
      <3> QED
        BY <3>2, <3>5
    <2> QED
      BY <1>5, <2>1, <2>2
  <1>7. /\ Conf[k].length >= SearchUses(Conf[k]) /\ Conf[k].length >= EndpointsUse(Conf[k])
    BY <1>4 DEF WellFormed, LengthsRight
  <1>8. SearchUses(Conf[k]) \in {2, 8}
    BY DEF SearchUses
  <1>9. EndpointsUse(Conf[k]) \in Nat
    <2>1. Conf[k].type = "HID" => Conf[k].num_descriptors \in 0..255
      BY <1>1, <1>4, DescriptorFields
    <2>2. CASE Conf[k].type = "HID"
      BY <2>1, <2>2 DEF EndpointsUse
    <2>3. CASE Conf[k].type # "HID"
      BY <2>3 DEF EndpointsUse
    <2> QED
      BY <2>2, <2>3
  <1>10. PICK a \in Nat, b \in Nat : a = Conf[k].offset /\ b = Conf[k].length
    <2>1. Conf[k].offset \in Nat /\ Conf[k].length \in 0..255
      BY <1>1, <1>4
    <2>2. Conf[k].length \in Nat
      BY <2>1
    <2> QED
      BY Zenon, <2>1, <2>2
  <1>11. PICK u \in Nat, v \in Nat : u = SearchUses(Conf[k]) /\ v = EndpointsUse(Conf[k]) /\ u > 0
    BY <1>8, <1>9
  <1>12. a + b <= ConfigurationLength /\ b >= u /\ b >= v
    BY <1>6, <1>7, <1>10, <1>11
  <1>13. a < ConfigurationLength /\ ConfigurationLength - a >= u /\ ConfigurationLength - a >= v
    BY <1>1, <1>11, <1>12
  <1> QED
    BY <1>4, <1>10, <1>11, <1>13

\* The interface that the reader finds is the first supported one of the device.
LEMMA InterfaceFound ==
    ASSUME BufInv, InterfaceAt # 0
    PROVE  /\ buf = Prefix /\ ConfigurationLength >= 2 /\ SupportedInterfaces # {}
           /\ InterfaceAt \in 2..Len(buf) /\ Supported(Conf[InterfaceAt])
           /\ InterfaceAt = FirstInterface
  <1> DEFINE found == {i \in 2..Len(buf) : Supported(buf[i])}
  <1>1. InterfaceAt = IF found # {} THEN Min(found) ELSE 0
    BY DEF InterfaceAt, SelectInSubSeq
  <1>2. found # {}
    BY <1>1
  <1>3. buf = Prefix /\ ConfigurationLength >= 2
    <2>1. CASE buf = <<>>
      BY <1>2, <2>1
    <2>2. CASE buf = <<[type |-> "Device"]>>
      <3>1. Len(buf) = 1
        BY <2>2
      <3> QED
        BY <1>2, <3>1
    <2> QED
      BY <2>1, <2>2 DEF BufInv
  <1>4. device \in Devices
    BY DEF BufInv
  <1>5. /\ Len(buf) \in Nat /\ Len(Conf) \in Nat /\ Len(buf) <= Len(Conf)
        /\ \A i \in 1..Len(buf) : buf[i] = Conf[i]
    BY <1>3, <1>4, PrefixFacts
  <1>6. InterfaceAt \in found /\ \A x \in found : InterfaceAt <= x
    <2>1. found \in SUBSET Nat
      BY <1>5
    <2> HIDE DEF found
    <2> QED
      BY <1>1, <1>2, <2>1, Least
  <1>7. /\ InterfaceAt \in 2..Len(buf) /\ buf[InterfaceAt] = Conf[InterfaceAt]
        /\ Supported(Conf[InterfaceAt])
    <2>1. InterfaceAt \in 2..Len(buf) /\ Supported(buf[InterfaceAt])
      BY <1>6
    <2> QED
      BY <1>5, <2>1
  <1>8. InterfaceAt \in SupportedInterfaces
    BY <1>5, <1>7 DEF SupportedInterfaces
  <1>9. \A x \in SupportedInterfaces : InterfaceAt <= x
    <2> SUFFICES ASSUME NEW x \in 2..Len(Conf), Supported(Conf[x]) PROVE InterfaceAt <= x
      BY DEF SupportedInterfaces
    <2>1. CASE x \in 2..Len(buf)
      <3>1. buf[x] = Conf[x]
        BY <1>5, <2>1
      <3>2. x \in found
        BY <2>1, <3>1
      <3> QED
        BY <1>6, <3>2
    <2>2. CASE x \notin 2..Len(buf)
      BY <1>5, <1>7, <2>2
    <2> QED
      BY <2>1, <2>2
  <1>10. SupportedInterfaces \in SUBSET Nat
    BY <1>5 DEF SupportedInterfaces
  <1>11. FirstInterface \in SupportedInterfaces /\ \A x \in SupportedInterfaces : FirstInterface <= x
    BY <1>8, <1>10, Least DEF FirstInterface
  <1>12. InterfaceAt \in Nat /\ FirstInterface \in Nat
    BY <1>8, <1>10, <1>11
  <1>13. InterfaceAt = FirstInterface
    BY <1>8, <1>9, <1>11, <1>12
  <1> QED
    BY <1>3, <1>7, <1>8, <1>13

\* The n-th endpoint descriptor behind the interface is the one with n up to it.
LEMMA EndpointRank ==
    ASSUME BufInv, InterfaceAt # 0, NEW i \in 1..Cardinality(EndpointsBehind(InterfaceAt))
    PROVE  /\ NextEndpoint(InterfaceAt, i) \in EndpointsBehind(InterfaceAt)
           /\ Cardinality(UpTo(EndpointsBehind(InterfaceAt), NextEndpoint(InterfaceAt, i))) = i
  <1> DEFINE S == EndpointsBehind(InterfaceAt)
  <1>1. buf = Prefix /\ ConfigurationLength >= 2 /\ InterfaceAt \in 2..Len(buf)
    BY InterfaceFound
  <1>2. Len(buf) \in Nat
    BY <1>1, PrefixFacts DEF BufInv
  <1>3. S \in SUBSET (1..Len(buf))
    BY <1>1, <1>2 DEF EndpointsBehind
  <1>4. \E j \in S : Cardinality(UpTo(S, j)) = i
    <2> HIDE DEF S
    <2>1. \A m \in 1..Cardinality(S) : \E j \in S : Cardinality(UpTo(S, j)) = m
      BY <1>2, <1>3, Ranks
    <2>2. i \in 1..Cardinality(S)
      BY DEF S
    <2> QED
      BY <2>1, <2>2
  <1>5. NextEndpoint(InterfaceAt, i) = CHOOSE j \in S : Cardinality(UpTo(S, j)) = i
    BY DEF NextEndpoint, UpTo
  <1>6. NextEndpoint(InterfaceAt, i) \in S
        /\ Cardinality(UpTo(S, NextEndpoint(InterfaceAt, i))) = i
    <2> HIDE DEF S
    <2> QED
      BY <1>4, <1>5
  <1> QED
    BY <1>6

\* Every endpoint that the reader has room for is made from an endpoint descriptor that stands
\* behind the interface.
LEMMA EndpointsFound ==
    ASSUME BufInv, InterfaceAt # 0, ~ReadsBeyond(InterfaceAt)
    PROVE  /\ Conf[InterfaceAt].num_endpoints \in 0..255
           /\ Conf[InterfaceAt].num_endpoints <= MaxEndpoints
           /\ EndpointsRead(InterfaceAt) \in [1..Conf[InterfaceAt].num_endpoints -> EPConfigs]
           /\ \A i \in 1..Conf[InterfaceAt].num_endpoints :
                 /\ NextEndpoint(InterfaceAt, i) \in EndpointsBehind(InterfaceAt)
                 /\ Cardinality(UpTo(EndpointsBehind(InterfaceAt), NextEndpoint(InterfaceAt, i))) = i
                 /\ EndpointsRead(InterfaceAt)[i] = MakeEPConfig(Conf[NextEndpoint(InterfaceAt, i)])
  <1> DEFINE n == Conf[InterfaceAt].num_endpoints
             S == EndpointsBehind(InterfaceAt)
  <1>1. /\ buf = Prefix /\ ConfigurationLength >= 2
        /\ InterfaceAt \in 2..Len(buf) /\ Supported(Conf[InterfaceAt])
    BY InterfaceFound
  <1>2. /\ Len(buf) \in Nat /\ Len(Conf) \in Nat /\ Len(buf) <= Len(Conf)
        /\ \A i \in 1..Len(buf) : buf[i] = Conf[i]
        /\ \A i \in 1..Len(Conf) : Conf[i] \in Descriptors
    BY <1>1, PrefixFacts DEF BufInv
  <1>3. InterfaceAt \in 1..Len(buf) /\ InterfaceAt \in 1..Len(Conf)
    BY <1>1, <1>2
  <1>4. buf[InterfaceAt] = Conf[InterfaceAt] /\ Conf[InterfaceAt] \in Descriptors
    BY <1>2, <1>3
  <1>5. n \in 0..255
    BY ZenonT(40), <1>1, <1>4, DescriptorFields DEF Supported
  <1>6. S \in SUBSET (1..Len(buf))
    BY <1>1, <1>2 DEF EndpointsBehind
  <1>7. n <= Cardinality(S) /\ n <= MaxEndpoints
    <2>1. Cardinality(S) \in Nat
      <3> HIDE DEF S
      <3> QED
        BY <1>2, <1>6, Ranks
    <2> QED
      BY <1>4, <1>5, <2>1, LimitsAssumption DEF ReadsBeyond
  <1>9. ASSUME NEW i \in 1..n
        PROVE  /\ NextEndpoint(InterfaceAt, i) \in S
               /\ Cardinality(UpTo(S, NextEndpoint(InterfaceAt, i))) = i
    <2>1. Cardinality(S) \in Nat
      <3> HIDE DEF S
      <3> QED
        BY <1>2, <1>6, Ranks
    <2>2. i \in 1..Cardinality(S)
      BY <1>5, <1>7, <2>1
    <2> QED
      BY <2>2, EndpointRank
  <1>10. ASSUME NEW i \in 1..n
         PROVE  /\ EndpointsRead(InterfaceAt)[i] = MakeEPConfig(Conf[NextEndpoint(InterfaceAt, i)])
                /\ EndpointsRead(InterfaceAt)[i] \in EPConfigs
    <2> DEFINE j == NextEndpoint(InterfaceAt, i)
    <2>1. j \in 1..Len(buf) /\ buf[j].type = "Endpoint"
      BY <1>6, <1>9 DEF EndpointsBehind
    <2>2. buf[j] = Conf[j] /\ Conf[j] \in Descriptors
      BY <1>2, <2>1
    <2>3. EndpointsRead(InterfaceAt)[i] = MakeEPConfig(buf[j])
      BY <1>4 DEF EndpointsRead
    <2> QED
      BY <2>1, <2>2, <2>3, MakesEPConfig
  <1>11. EndpointsRead(InterfaceAt) \in [1..n -> EPConfigs]
    BY <1>4, <1>10 DEF EndpointsRead
  <1> QED
    BY <1>5, <1>7, <1>9, <1>10, <1>11

\* For a device that is as it should be the reader stays within its buffers, and what it reads
\* are the endpoints of the interface.
LEMMA WellRead ==
    ASSUME BufInv, InterfaceAt # 0, WellFormed
    PROVE  /\ ~SearchBeyond(InterfaceAt) /\ ~ReadsBeyond(InterfaceAt)
           /\ \A i \in 1..Conf[InterfaceAt].num_endpoints :
                 NextEndpoint(InterfaceAt, i) \in EndpointsOf(InterfaceAt)
           /\ \A j \in EndpointsOf(InterfaceAt) :
                 \E i \in 1..Conf[InterfaceAt].num_endpoints : NextEndpoint(InterfaceAt, i) = j
  <1> DEFINE at == InterfaceAt
             n == Conf[at].num_endpoints
             S == EndpointsBehind(at)
             E == EndpointsOf(at)
  <1>1. /\ buf = Prefix /\ ConfigurationLength >= 2
        /\ at \in 2..Len(buf) /\ Supported(Conf[at]) /\ at = FirstInterface
    BY InterfaceFound
  <1>2. /\ Len(buf) \in Nat /\ Len(Conf) \in Nat /\ Len(buf) <= Len(Conf)
        /\ \A i \in 1..Len(Conf) : Conf[i].offset < ConfigurationLength => i <= Len(buf)
        /\ \A i \in 1..Len(buf) : buf[i] = Conf[i]
    BY <1>1, PrefixFacts DEF BufInv
  <1>3. Cardinality(E) = n /\ n <= MaxEndpoints /\ E # {}
    BY <1>1 DEF WellFormed, HasInterruptIn
  <1>0. ASSUME NEW j \in E, NEW k \in 1..j
        PROVE  /\ j \in 1..Len(buf) /\ k \in 1..Len(buf)
               /\ Arrived(k) >= SearchUses(buf[k]) /\ Arrived(k) >= EndpointsUse(buf[k])
    <2>1. /\ j \in 1..Len(Conf) /\ k \in 1..Len(Conf)
          /\ Conf[k].offset < ConfigurationLength
          /\ ConfigurationLength - Conf[k].offset >= SearchUses(Conf[k])
          /\ ConfigurationLength - Conf[k].offset >= EndpointsUse(Conf[k])
      BY <1>1, WellPlaced DEF BufInv
    <2>2. j \in 1..j
      BY <2>1
    <2>3. Conf[j].offset < ConfigurationLength
      BY <1>1, <2>2, WellPlaced DEF BufInv
    <2>4. j \in 1..Len(buf) /\ k \in 1..Len(buf)
      BY <1>2, <2>1, <2>3
    <2>5. buf[k] = Conf[k]
      BY <1>2, <2>4
    <2> QED
      BY <2>1, <2>4, <2>5 DEF Arrived
  <1>4. S \in SUBSET (1..Len(buf))
    BY <1>1, <1>2 DEF EndpointsBehind
  <1>5. ASSUME NEW j \in E PROVE j \in S
    <2>1. j \in (at + 1)..Len(Conf) /\ Conf[j].type = "Endpoint"
      BY DEF EndpointsOf
    <2>2. j \in 1..j
      BY <1>1, <1>2, <2>1
    <2>3. j \in (at + 1)..Len(buf) /\ j \in 1..Len(buf)
      BY <1>0, <1>1, <1>2, <2>1, <2>2
    <2>4. buf[j] = Conf[j]
      BY <1>2, <2>3
    <2> QED
      BY <2>1, <2>3, <2>4 DEF EndpointsBehind
  <1>6. ASSUME NEW j \in E, NEW k \in S, k <= j PROVE k \in E
    <2>1. j \in (at + 1)..Len(Conf) /\ \A l \in (at + 1)..j : Conf[l].type # "Interface"
      BY DEF EndpointsOf
    <2>2. k \in (at + 1)..Len(buf) /\ k \in 1..Len(buf) /\ buf[k].type = "Endpoint"
      BY <1>4 DEF EndpointsBehind
    <2>3. buf[k] = Conf[k]
      BY <1>2, <2>2
    <2>4. \A l \in (at + 1)..k : l \in (at + 1)..j
      BY <1>1, <1>2, <1>6, <2>1, <2>2
    <2>5. k \in (at + 1)..Len(Conf)
      BY <1>1, <1>2, <2>2
    <2> QED
      BY <2>1, <2>2, <2>3, <2>4, <2>5 DEF EndpointsOf
  <1>7. E \in SUBSET (1..Len(buf))
    BY <1>4, <1>5
  <1>8. ASSUME NEW j \in E PROVE UpTo(S, j) = UpTo(E, j)
    <2>1. \A k : k \in UpTo(S, j) <=> k \in UpTo(E, j)
      <3> HIDE DEF S, E
      <3> QED
        BY <1>5, <1>6 DEF UpTo
    <2> QED
      BY <2>1
  <1> HIDE DEF S, E
  <1>9. /\ IsFiniteSet(S) /\ Cardinality(S) \in Nat
        /\ \A j, k \in S : Cardinality(UpTo(S, j)) = Cardinality(UpTo(S, k)) => j = k
    BY <1>2, <1>4, Ranks
  <1>10. /\ Cardinality(E) \in Nat
         /\ \A j \in E : Cardinality(UpTo(E, j)) \in 1..Cardinality(E)
         /\ \A i \in 1..Cardinality(E) : \E j \in E : Cardinality(UpTo(E, j)) = i
    BY <1>2, <1>7, Ranks
  <1>11. n \in Nat
    BY <1>3, <1>10
  <1>12. Cardinality(E) <= Cardinality(S)
    <2>1. E \in SUBSET S
      BY <1>5
    <2> QED
      BY <1>9, <2>1, FS_Subset
  <1>14. \A i \in 1..n : NextEndpoint(at, i) \in S /\ Cardinality(UpTo(S, NextEndpoint(at, i))) = i
    <2> SUFFICES ASSUME NEW i \in 1..n
                 PROVE  NextEndpoint(at, i) \in S /\ Cardinality(UpTo(S, NextEndpoint(at, i))) = i
      OBVIOUS
    <2>1. i \in 1..Cardinality(S)
      BY <1>3, <1>9, <1>10, <1>12
    <2> QED
      BY <2>1, EndpointRank DEF S
  <1>15. ASSUME NEW i \in 1..n PROVE NextEndpoint(at, i) \in E
    <2>1. PICK j \in E : Cardinality(UpTo(E, j)) = i
      BY <1>3, <1>10
    <2>2. Cardinality(UpTo(S, j)) = i /\ j \in S
      BY <1>5, <1>8, <2>1
    <2>3. NextEndpoint(at, i) = j
      BY <1>9, <1>14, <2>2
    <2> QED
      BY <2>3
  <1>16. ASSUME NEW j \in E PROVE \E i \in 1..n : NextEndpoint(at, i) = j
    <2> DEFINE i == Cardinality(UpTo(E, j))
    <2>1. i \in 1..n
      BY <1>3, <1>10
    <2>2. Cardinality(UpTo(S, j)) = i /\ j \in S
      BY <1>5, <1>8
    <2>3. NextEndpoint(at, i) = j
      <3> HIDE DEF i
      <3> QED
        BY <1>9, <1>14, <2>1, <2>2
    <2> QED
      BY <2>1, <2>3
  <1>17. ~ReadsBeyond(at)
    <2>1. buf[at] = Conf[at]
      BY <1>1, <1>2
    <2>2. n <= Cardinality(S) /\ n <= MaxEndpoints
      BY <1>3, <1>9, <1>10, <1>12, LimitsAssumption
    <2>3. ASSUME n > 0, NEW k \in (at + 1)..NextEndpoint(at, n)
          PROVE  Arrived(k) >= EndpointsUse(buf[k])
      <3>1. n \in 1..n
        BY <1>11, <2>3
      <3>2. PICK j \in E : j = NextEndpoint(at, n)
        BY <1>15, <3>1
      <3>3. j \in 1..Len(buf)
        BY <1>7, <3>2
      <3>4. k \in 1..j
        BY <1>1, <1>2, <3>2, <3>3
      <3> QED
        BY <1>0, <3>2, <3>4 DEF E
    <2> QED
      BY <2>1, <2>2, <2>3 DEF ReadsBeyond, S
  <1>18. ~SearchBeyond(at)
    <2>1. PICK j \in E : TRUE
      BY <1>3
    <2>2. j > at /\ j \in Nat
      BY <1>1, <1>2, <1>7, <2>1 DEF E, EndpointsOf
    <2>3. \A k \in 2..at : k \in 1..j
      BY <1>1, <1>2, <2>2
    <2>4. \A k \in 2..at : Arrived(k) >= SearchUses(buf[k])
      BY <1>0, <2>1, <2>3 DEF E
    <2>5. ASSUME NEW k \in 2..at, Arrived(k) < SearchUses(buf[k]) PROVE FALSE
      <3>1. buf[k] = Conf[k] /\ k \in 1..Len(Conf)
        BY <1>1, <1>2
      <3>2. ConfigurationLength \in Nat /\ Conf[k].offset \in Nat
        BY <3>1, ConfFacts DEF BufInv
      <3>3. SearchUses(buf[k]) \in {2, 8}
        BY DEF SearchUses
      <3> QED
        BY <2>4, <2>5, <3>1, <3>2, <3>3 DEF Arrived
    <2>6. at # 0
      OBVIOUS
    <2> HIDE DEF at
    <2> QED
      BY <2>5, <2>6 DEF SearchBeyond
  <1> QED
    BY <1>15, <1>16, <1>17, <1>18 DEF E

\* The search among the descriptors of a device that the kernel has no driver for stays within
\* what it has sent, if that fits into buf_; and it does not miss the interface of a device that
\* is as it should be.
LEMMA SearchEnds ==
    ASSUME BufInv, buf # <<>>, buf[1].type = "Configuration", InterfaceAt = 0,
           SearchBeyond(InterfaceAt), LengthsRight
    PROVE  IF SupportedInterfaces = {} THEN device.bytes > BufferSize ELSE ~WellFormed
  <1>1. buf = Prefix /\ ConfigurationLength >= 2
    BY DEF BufInv
  <1>2. /\ Len(buf) \in Nat \ {0} /\ Len(Conf) \in Nat /\ Len(buf) <= Len(Conf)
        /\ \A i \in 1..Len(Conf) : Conf[i].offset < ConfigurationLength => i <= Len(buf)
        /\ \A i \in 1..Len(buf) : buf[i] = Conf[i]
    BY <1>1, PrefixFacts DEF BufInv
  <1>3. /\ device.bytes \in Nat /\ ConfigurationLength \in {BufferSize, device.bytes}
        /\ ConfigurationLength <= BufferSize /\ ConfigurationLength \in Nat
        /\ \A i \in 1..Len(Conf) :
              Conf[i] \in Descriptors /\ Conf[i].offset \in Nat /\ Conf[i].length \in 0..255
    BY ConfFacts DEF BufInv
  <1>4. ASSUME device.bytes <= BufferSize PROVE FALSE
    <2>1. ConfigurationLength = device.bytes \/ ConfigurationLength = BufferSize
      BY <1>3
    <2>2. ConfigurationLength >= device.bytes
      BY <1>3, <1>4, <2>1, LimitsAssumption
    <2>3. ASSUME NEW k \in 1..Len(buf) PROVE Arrived(k) >= SearchUses(buf[k]) /\ buf[k].length # 0
      <3>1. k \in 1..Len(Conf) /\ buf[k] = Conf[k]
        BY <1>2
      <3>2. Conf[k].length >= SearchUses(Conf[k]) /\ Conf[k].offset + Conf[k].length <= device.bytes
        BY <3>1 DEF LengthsRight
      <3>3. PICK u \in Nat : u = SearchUses(Conf[k]) /\ u > 0
        BY DEF SearchUses
      <3>4. PICK a \in Nat, b \in Nat : a = Conf[k].offset /\ b = Conf[k].length
        <4>0. \A i \in 1..Len(Conf) : Conf[i].offset \in Nat /\ Conf[i].length \in 0..255
          BY Zenon, <1>3
        <4>1. Conf[k].offset \in Nat /\ Conf[k].length \in 0..255
          BY Zenon, <4>0, <3>1
        <4>2. \A b \in 0..255 : b \in Nat
          OBVIOUS
        <4>3. Conf[k].length \in Nat
          BY Zenon, <4>1, <4>2
        <4> QED
          BY Zenon, <4>1, <4>3
      <3>5. b >= u /\ a + b <= device.bytes
        BY <3>2, <3>3, <3>4
      <3>6. ConfigurationLength - a >= u /\ b # 0
        BY <1>3, <2>2, <3>3, <3>5
      <3> QED
        BY <3>1, <3>3, <3>4, <3>6 DEF Arrived
    <2>4. ASSUME NEW k \in 2..Len(buf), Arrived(k) < SearchUses(buf[k]) PROVE FALSE
      <3>1. k \in 1..Len(buf)
        BY <1>2
      <3>2. k \in 1..Len(Conf) /\ buf[k] = Conf[k]
        BY <1>2, <3>1
      <3>3. SearchUses(buf[k]) \in {2, 8}
        BY DEF SearchUses
      <3>4. Arrived(k) \in Int
        BY <1>3, <3>2 DEF Arrived
      <3> QED
        BY <2>3, <2>4, <3>1, <3>3, <3>4
    <2>5. Len(buf) \in 1..Len(buf)
      BY <1>2
    <2> QED
      BY <2>3, <2>4, <2>5 DEF SearchBeyond
  <1>5. ASSUME WellFormed PROVE FALSE
    <2>1. SupportedInterfaces \in SUBSET Nat /\ SupportedInterfaces # {}
      BY <1>2, <1>5 DEF SupportedInterfaces, WellFormed
    <2>2. FirstInterface \in 2..Len(Conf) /\ Supported(Conf[FirstInterface])
      BY <2>1, Least DEF FirstInterface, SupportedInterfaces
    <2>3. PICK j \in EndpointsOf(FirstInterface) : TRUE
      BY <1>5 DEF WellFormed, HasInterruptIn
    <2>4. FirstInterface \in 1..j
      BY <1>2, <2>2, <2>3 DEF EndpointsOf
    <2>5. Conf[FirstInterface].offset < ConfigurationLength
      BY <1>5, <2>4, WellPlaced DEF BufInv
    <2>6. FirstInterface \in 2..Len(buf) /\ FirstInterface \in 1..Len(buf)
      BY <1>2, <2>2, <2>5
    <2>7. Supported(buf[FirstInterface])
      BY <1>2, <2>2, <2>6
    <2> DEFINE found == {i \in 2..Len(buf) : Supported(buf[i])}
    <2>8. InterfaceAt = Min(found)
      BY <2>6, <2>7 DEF InterfaceAt, SelectInSubSeq
    <2>9. found \in SUBSET Nat /\ found # {} /\ \A x \in found : x # 0
      BY <1>2, <2>6, <2>7
    <2> HIDE DEF found
    <2>10. Min(found) \in found
      BY <2>9, Least
    <2> QED
      BY <2>8, <2>9, <2>10
  <1> QED
    BY <1>3, <1>4, <1>5, LimitsAssumption

-----------------------------------------------------------------------------
(* The invariant of the initialization                                      *)

Drivers ==
    [kind : {"none", "keyboard", "mouse"}, interface : 0..255, phase : 0..2, ep_interrupt_in : 0..31]

\* The phases of the device and of the class driver, and who waits for the command
PhaseInv ==
    /\ initialize_phase \in 0..4 /\ hid \in Drivers /\ command \in BOOLEAN /\ untold \in Nat
    /\ initialize_phase < 4 => hid.phase = 0 /\ hid.ep_interrupt_in = 0
    /\ command => initialize_phase = 4 /\ hid.phase = 0
    /\ pc = "start" => initialize_phase = 0
    /\ pc = "configured" => initialize_phase = 4 /\ hid.phase # 2 /\ ~command

\* What InitializePhase2 has read from the descriptors
ReadInv ==
    initialize_phase >= 3 =>
        /\ SupportedInterfaces # {}
        /\ \E n \in 0..255 : n <= MaxEndpoints /\ ep_configs \in [1..n -> EPConfigs]
        /\ class_drivers = {Number(c.ep_id) : c \in Range(ep_configs)}

IsInterruptIn(c) == c.ep_type = 3 /\ IsIn(c.ep_id)

\* InitializePhase3 has given the driver its endpoint.
EndpointInv ==
    initialize_phase = 4 =>
        IF hid.ep_interrupt_in = 0 THEN \A c \in Range(ep_configs) : ~IsInterruptIn(c)
        ELSE \E c \in Range(ep_configs) : IsInterruptIn(c) /\ c.ep_id = hid.ep_interrupt_in

\* If the device is as it should be: that of its first supported interface
ServedInv ==
    WellFormed /\ initialize_phase >= 3 =>
        /\ hid.kind = IF Conf[FirstInterface].protocol = 1 THEN "keyboard" ELSE "mouse"
        /\ hid.interface = Conf[FirstInterface].number
        /\ Range(ep_configs) = {MakeEPConfig(Conf[j]) : j \in EndpointsOf(FirstInterface)}

\* ConfigureEndpoints has been called, or not.
ContextInv ==
    \/ /\ port_config_phase = "InitializingDevice" /\ ~command /\ pc # "configured"
       /\ input_ctx = <<>> /\ transfer_rings = {1}
    \/ /\ port_config_phase # "InitializingDevice" /\ initialize_phase = 4
       /\ input_ctx = Contexts(ep_configs)
       /\ transfer_rings = {1} \cup {c.ep_id : c \in Range(ep_configs)}

DescriptorInv ==
    BufInv /\ PhaseInv /\ ReadInv /\ EndpointInv /\ ServedInv /\ ContextInv /\ NeverLost

\* What the properties say of the device does not change, since the device does not.
LEMMA SameDevice ==
    ASSUME device' = device
    PROVE  /\ Conf' = Conf /\ SupportedInterfaces' = SupportedInterfaces
           /\ FirstInterface' = FirstInterface /\ Prefix' = Prefix
           /\ \A i : EndpointsOf(i)' = EndpointsOf(i)
           /\ ConfigurationLength' = ConfigurationLength /\ device.bytes' = device.bytes
           /\ LengthsRight' <=> LengthsRight
           /\ WellFormed' <=> WellFormed
           /\ Contexts(ep_configs)' = Contexts(ep_configs')
  <1>1. Conf' = Conf
    BY DEF Conf
  <1>2. SupportedInterfaces' = SupportedInterfaces
    BY <1>1 DEF SupportedInterfaces
  <1>3. FirstInterface' = FirstInterface
    BY <1>2 DEF FirstInterface
  <1>4. \A i : EndpointsOf(i)' = EndpointsOf(i)
    BY <1>1 DEF EndpointsOf
  <1>5. Prefix' = Prefix /\ ConfigurationLength' = ConfigurationLength
    BY DEF Prefix, Begun, ConfigurationLength
  <1>8. LengthsRight' <=> LengthsRight
    BY <1>1 DEF LengthsRight
  <1>6. WellFormed' <=> WellFormed
    BY <1>1, <1>2, <1>3, <1>4, <1>8 DEF WellFormed, HasInterruptIn
  <1>7. Contexts(ep_configs)' = Contexts(ep_configs')
    BY DEF Contexts, Context
  <1> QED
    BY <1>1, <1>2, <1>3, <1>4, <1>5, <1>6, <1>7, <1>8

\* At the start nothing is read.
LEMMA InitDescriptorInv == Init => DescriptorInv
  <1> SUFFICES ASSUME Init PROVE DescriptorInv
    OBVIOUS
  <1>1. /\ device \in Devices /\ pc = "start" /\ untold = 0 /\ buf = <<>> /\ initialize_phase = 0
        /\ hid = NoDriver /\ port_config_phase = "InitializingDevice"
        /\ input_ctx = <<>> /\ transfer_rings = {1}
    BY DEF Init, TransfersInit
  <1>6. command \in BOOLEAN /\ ~command
    BY Zenon DEF Init
  <1>2. hid \in Drivers /\ hid.phase = 0 /\ hid.ep_interrupt_in = 0
    BY <1>1 DEF NoDriver, Drivers
  <1>3. BufInv /\ ReadInv /\ EndpointInv /\ ServedInv /\ NeverLost
    BY <1>1 DEF BufInv, ReadInv, EndpointInv, ServedInv, NeverLost
  <1>4. ContextInv
    BY <1>1, <1>6 DEF ContextInv
  <1>5. PhaseInv
    BY <1>1, <1>2, <1>6 DEF PhaseInv
  <1> QED
    BY <1>3, <1>4, <1>5 DEF DescriptorInv

device_state == <<device, initialize_phase, ep_configs, class_drivers, hid, config_vars, transfer_rings>>

\* A step that leaves the state of the device alone, apart from a new answer in buf_.
LEMMA QuietDescriptorInv ==
    ASSUME DescriptorInv, UNCHANGED device_state,
           \/ buf' \in {buf, <<[type |-> "Device"]>>}
           \/ buf' = Prefix /\ ConfigurationLength >= 2,
           \/ UNCHANGED <<pc, untold>>
           \/ untold' = untold /\ pc' \in {"main", "keep", "rearm"}
    PROVE  DescriptorInv'
  <1>1. /\ device' = device /\ initialize_phase' = initialize_phase /\ ep_configs' = ep_configs
        /\ class_drivers' = class_drivers /\ hid' = hid /\ command' = command
        /\ port_config_phase' = port_config_phase /\ input_ctx' = input_ctx
        /\ transfer_rings' = transfer_rings /\ untold' = untold
    BY DEF device_state, config_vars
  <1>2. pc' = pc \/ (pc' # "lost" /\ pc' # "configured" /\ pc' # "start")
    OBVIOUS
  <1>3. BufInv'
    BY <1>1, SameDevice DEF DescriptorInv, BufInv
  <1>4. PhaseInv'
    BY <1>1, <1>2 DEF DescriptorInv, PhaseInv
  <1>5. ReadInv'
    BY <1>1, SameDevice DEF DescriptorInv, ReadInv
  <1>6. EndpointInv'
    BY <1>1 DEF DescriptorInv, EndpointInv
  <1>7. ServedInv'
    BY <1>1, SameDevice DEF DescriptorInv, ServedInv
  <1>8. ContextInv'
    BY <1>1, <1>2, SameDevice DEF DescriptorInv, ContextInv
  <1>9. NeverLost'
    BY <1>1, <1>2, SameDevice DEF DescriptorInv, NeverLost
  <1> QED
    BY <1>3, <1>4, <1>5, <1>6, <1>7, <1>8, <1>9 DEF DescriptorInv

\* The phases before the descriptors are there
LEMMA EarlyDescriptorInv == DescriptorInv /\ (StartInitialize \/ InitializePhase1) => DescriptorInv'
  <1> SUFFICES ASSUME DescriptorInv, StartInitialize \/ InitializePhase1 PROVE DescriptorInv'
    OBVIOUS
  <1>1. /\ device' = device /\ buf' = buf /\ ep_configs' = ep_configs
        /\ class_drivers' = class_drivers /\ hid' = hid /\ command' = command
        /\ port_config_phase' = port_config_phase /\ input_ctx' = input_ctx
        /\ transfer_rings' = transfer_rings /\ untold' = untold
        /\ initialize_phase' \in {1, 2} /\ pc' = "main"
    BY DEF StartInitialize, InitializePhase1, config_vars, driver_vars, ControlCompleted
  <1>2. initialize_phase < 4 /\ initialize_phase \in 0..4
    BY DEF StartInitialize, InitializePhase1, Expected, DescriptorInv, PhaseInv
  <1>6. ~(initialize_phase' >= 3) /\ initialize_phase' # 4 /\ pc' # "lost"
    BY <1>1
  <1>7. BufInv'
    BY <1>1, SameDevice DEF DescriptorInv, BufInv
  <1>3. ReadInv' /\ EndpointInv' /\ ServedInv' /\ NeverLost'
    BY <1>6 DEF ReadInv, EndpointInv, ServedInv, NeverLost
  <1>4. PhaseInv'
    BY <1>1, <1>2 DEF DescriptorInv, PhaseInv
  <1>5. ContextInv'
    BY <1>1, <1>2 DEF DescriptorInv, ContextInv
  <1> QED
    BY <1>3, <1>4, <1>5, <1>7 DEF DescriptorInv

\* InitializePhase2 reads the descriptors.
LEMMA Phase2DescriptorInv == DescriptorInv /\ InitializePhase2 => DescriptorInv'
  <1> SUFFICES ASSUME DescriptorInv, InitializePhase2 PROVE DescriptorInv'
    OBVIOUS
  <1> DEFINE at == InterfaceAt
  <1>1. /\ device' = device /\ buf' = buf /\ untold' = untold /\ command' = command
        /\ port_config_phase' = port_config_phase /\ input_ctx' = input_ctx
        /\ transfer_rings' = transfer_rings
    BY DEF InitializePhase2, config_vars
  <1>2. initialize_phase = 2 /\ pc = "main" /\ BufInv
    BY DEF InitializePhase2, Expected, ControlCompleted, DescriptorInv
  <1>3. CASE at = 0 /\ UNCHANGED <<pc, initialize_phase, ep_configs, class_drivers, hid>>
    <2>1. UNCHANGED device_state
      BY <1>1, <1>3 DEF device_state, config_vars
    <2> QED
      BY <1>1, <1>3, <2>1, QuietDescriptorInv
  <1>4. CASE /\ (SearchBeyond(at) \/ (at # 0 /\ ReadsBeyond(at))) /\ pc' = "lost"
             /\ UNCHANGED <<initialize_phase, ep_configs, class_drivers, hid>>
    <2>1. \/ ~LengthsRight
          \/ IF SupportedInterfaces = {} THEN device.bytes > BufferSize ELSE ~WellFormed
      <3>1. CASE at = 0
        BY <1>2, <1>4, <3>1, SearchEnds DEF InitializePhase2, Expected
      <3>2. CASE at # 0
        BY <1>2, <1>4, <3>2, InterfaceFound, WellRead
      <3> QED
        BY <3>1, <3>2
    <2>2. NeverLost'
      BY <1>1, <2>1, SameDevice DEF NeverLost
    <2>3. BufInv'
      BY <1>1, <1>2, SameDevice DEF BufInv
    <2>4. ReadInv' /\ EndpointInv' /\ ServedInv'
      <3>1. ~(initialize_phase' >= 3) /\ initialize_phase' # 4
        BY <1>2, <1>4
      <3> QED
        BY <3>1 DEF ReadInv, EndpointInv, ServedInv
    <2>5. PhaseInv'
      BY <1>1, <1>2, <1>4 DEF DescriptorInv, PhaseInv
    <2>6. ContextInv'
      BY <1>1, <1>2, <1>4 DEF DescriptorInv, ContextInv
    <2> QED
      BY <2>2, <2>3, <2>4, <2>5, <2>6 DEF DescriptorInv
  <1>5. CASE /\ at # 0 /\ ~SearchBeyond(at) /\ ~ReadsBeyond(at)
             /\ hid' = NewClassDriver(buf[at])
             /\ ep_configs' = EndpointsRead(at)
             /\ class_drivers' = {Number(c.ep_id) : c \in Range(EndpointsRead(at))}
             /\ initialize_phase' = 3 /\ pc' = pc
    <2> DEFINE n == Conf[at].num_endpoints
    <2>1. /\ SupportedInterfaces # {} /\ at = FirstInterface /\ buf[at] = Conf[at]
          /\ Conf[at] \in Descriptors /\ Conf[at].type = "Interface"
      <3>1. /\ buf = Prefix /\ ConfigurationLength >= 2
            /\ SupportedInterfaces # {} /\ at \in 2..Len(buf) /\ Supported(Conf[at]) /\ at = FirstInterface
        BY <1>2, <1>5, InterfaceFound
      <3>2. /\ Len(Conf) \in Nat /\ Len(buf) \in Nat /\ Len(buf) <= Len(Conf)
            /\ \A i \in 1..Len(Conf) : Conf[i] \in Descriptors
            /\ \A i \in 1..Len(buf) : buf[i] = Conf[i]
        BY <1>2, <3>1, PrefixFacts DEF BufInv
      <3>3. at \in 1..Len(buf) /\ at \in 1..Len(Conf)
        BY <3>1, <3>2
      <3> QED
        BY <3>1, <3>2, <3>3 DEF Supported
    <2>2. /\ n \in 0..255 /\ n <= MaxEndpoints /\ ep_configs' \in [1..n -> EPConfigs]
          /\ \A i \in 1..n : ep_configs'[i] = MakeEPConfig(Conf[NextEndpoint(at, i)])
      BY <1>2, <1>5, EndpointsFound
    <2>3. /\ hid' \in Drivers /\ hid'.phase = 0 /\ hid'.ep_interrupt_in = 0
          /\ hid'.kind = IF Conf[at].protocol = 1 THEN "keyboard" ELSE "mouse"
          /\ hid'.interface = Conf[at].number
      BY <1>5, <2>1, DescriptorFields DEF NewClassDriver, Drivers
    <2>4. BufInv' /\ NeverLost' /\ EndpointInv'
      BY <1>1, <1>2, <1>5, SameDevice DEF BufInv, NeverLost, EndpointInv
    <2>5. PhaseInv'
      BY <1>1, <1>2, <1>5, <2>3 DEF DescriptorInv, PhaseInv
    <2>6. ReadInv'
      BY <1>1, <1>5, <2>1, <2>2, SameDevice DEF ReadInv
    <2>7. ContextInv'
      BY <1>1, <1>2, <1>5 DEF DescriptorInv, ContextInv
    <2>8. ASSUME WellFormed
          PROVE  Range(ep_configs') = {MakeEPConfig(Conf[j]) : j \in EndpointsOf(at)}
      <3>1. \A i \in 1..n : NextEndpoint(at, i) \in EndpointsOf(at)
        BY <1>2, <1>5, <2>8, WellRead
      <3>2. \A j \in EndpointsOf(at) : \E i \in 1..n : NextEndpoint(at, i) = j
        BY <1>2, <1>5, <2>8, WellRead
      <3>3. Range(ep_configs') = {ep_configs'[i] : i \in 1..n}
        BY <2>2 DEF Range
      <3>4. Range(ep_configs') = {MakeEPConfig(Conf[NextEndpoint(at, i)]) : i \in 1..n}
        BY <2>2, <3>3
      <3> QED
        BY <3>1, <3>2, <3>4
    <2>9. ServedInv'
      BY <1>1, <2>1, <2>3, <2>8, SameDevice DEF ServedInv
    <2> QED
      BY <2>4, <2>5, <2>6, <2>7, <2>9 DEF DescriptorInv
  <1> QED
    BY <1>3, <1>4, <1>5 DEF InitializePhase2

\* An entry of a table of n configurations: Range has them all.
LEMMA ConfigRange ==
    ASSUME NEW n \in Nat, NEW configs \in [1..n -> EPConfigs]
    PROVE  /\ Range(configs) \subseteq EPConfigs
           /\ \A c \in Range(configs) : \E i \in 1..n : configs[i] = c
           /\ \A i \in 1..n : configs[i] \in Range(configs)
           /\ DOMAIN configs = 1..n
  BY DEF Range

\* A driver with another endpoint, or in another phase
LEMMA DriverUpdate ==
    ASSUME NEW driver \in Drivers
    PROVE  /\ \A e \in 0..31 :
                 LET d == [driver EXCEPT !.ep_interrupt_in = e]
                 IN /\ d \in Drivers /\ d.ep_interrupt_in = e /\ d.kind = driver.kind
                    /\ d.interface = driver.interface /\ d.phase = driver.phase
           /\ \A phase \in 0..2 :
                 LET d == [driver EXCEPT !.phase = phase]
                 IN /\ d \in Drivers /\ d.phase = phase /\ d.kind = driver.kind
                    /\ d.interface = driver.interface /\ d.ep_interrupt_in = driver.ep_interrupt_in
  <1>1. /\ driver.kind \in {"none", "keyboard", "mouse"} /\ driver.interface \in 0..255
        /\ driver.phase \in 0..2 /\ driver.ep_interrupt_in \in 0..31
        /\ driver = [kind |-> driver.kind, interface |-> driver.interface, phase |-> driver.phase,
                     ep_interrupt_in |-> driver.ep_interrupt_in]
    BY DEF Drivers
  <1>2. \A e : [driver EXCEPT !.ep_interrupt_in = e]
                  = [kind |-> driver.kind, interface |-> driver.interface, phase |-> driver.phase,
                     ep_interrupt_in |-> e]
    BY <1>1
  <1>3. \A phase : [driver EXCEPT !.phase = phase]
                  = [kind |-> driver.kind, interface |-> driver.interface, phase |-> phase,
                     ep_interrupt_in |-> driver.ep_interrupt_in]
    BY <1>1
  <1>4. ASSUME NEW e \in 0..31
        PROVE  LET d == [driver EXCEPT !.ep_interrupt_in = e]
               IN /\ d \in Drivers /\ d.ep_interrupt_in = e /\ d.kind = driver.kind
                  /\ d.interface = driver.interface /\ d.phase = driver.phase
    BY <1>1, <1>2 DEF Drivers
  <1>5. ASSUME NEW phase \in 0..2
        PROVE  LET d == [driver EXCEPT !.phase = phase]
               IN /\ d \in Drivers /\ d.phase = phase /\ d.kind = driver.kind
                  /\ d.interface = driver.interface /\ d.ep_interrupt_in = driver.ep_interrupt_in
    BY <1>1, <1>3 DEF Drivers
  <1> QED BY <1>4, <1>5, Zenon

\* SetEndpoint, called for every configuration, leaves the last interrupt endpoint inwards.
LEMMA EndpointSet ==
    ASSUME NEW n \in Nat, ep_configs \in [1..n -> EPConfigs], hid \in Drivers, hid.ep_interrupt_in = 0
    PROVE  LET driver == SetEndpoints(ep_configs)
           IN /\ driver \in Drivers /\ driver.kind = hid.kind /\ driver.interface = hid.interface
              /\ driver.phase = hid.phase
              /\ IF driver.ep_interrupt_in = 0 THEN \A c \in Range(ep_configs) : ~IsInterruptIn(c)
                 ELSE \E c \in Range(ep_configs) : IsInterruptIn(c) /\ c.ep_id = driver.ep_interrupt_in
  <1> DEFINE ins == {i \in 1..n : ep_configs[i].ep_type = 3 /\ IsIn(ep_configs[i].ep_id)}
             e == IF ins = {} THEN 0 ELSE ep_configs[Max(ins)].ep_id
  <1>1. SetEndpoints(ep_configs) = [hid EXCEPT !.ep_interrupt_in = e]
    BY SMTT(30), ConfigRange DEF SetEndpoints, Drivers
  <1>2. /\ e \in 0..31
        /\ IF e = 0 THEN \A c \in Range(ep_configs) : ~IsInterruptIn(c)
           ELSE \E c \in Range(ep_configs) : IsInterruptIn(c) /\ c.ep_id = e
    <2>1. CASE ins = {}
      <3>1. \A c \in Range(ep_configs) : ~IsInterruptIn(c)
        BY <2>1, ConfigRange DEF IsInterruptIn
      <3>2. e = 0
        BY SMTT(30), <2>1
      <3> HIDE DEF e
      <3> QED
        BY <3>1, <3>2
    <2>2. CASE ins # {}
      <3>1. Max(ins) \in ins
        <4>1. ins \in SUBSET (1..n)
          OBVIOUS
        <4> HIDE DEF ins
        <4> QED
          BY <2>2, <4>1, Greatest
      <3>2. PICK m \in 1..n : m = Max(ins) /\ IsInterruptIn(ep_configs[m])
        BY <3>1 DEF IsInterruptIn
      <3>3. ep_configs[m] \in Range(ep_configs) /\ ep_configs[m] \in EPConfigs
        BY ConfigRange
      <3>4. ep_configs[m].ep_id \in 2..31
        BY <3>3 DEF EPConfigs
      <3>5. e = ep_configs[m].ep_id
        BY <2>2, <3>2
      <3>6. e \in 0..31 /\ e # 0
        <4>1. \A x \in 2..31 : x \in 0..31 /\ x # 0
          OBVIOUS
        <4> HIDE DEF e
        <4> QED
          BY <3>4, <3>5, <4>1, Zenon
      <3> HIDE DEF e
      <3> QED
        BY <3>2, <3>3, <3>5, <3>6
    <2> QED
      BY <2>1, <2>2
  <1> HIDE DEF e
  <1>3. /\ SetEndpoints(ep_configs) \in Drivers /\ SetEndpoints(ep_configs).kind = hid.kind
        /\ SetEndpoints(ep_configs).interface = hid.interface
        /\ SetEndpoints(ep_configs).phase = hid.phase
        /\ SetEndpoints(ep_configs).ep_interrupt_in = e
    <2>1. PICK driver \in Drivers : driver = hid
      OBVIOUS
    <2>2. PICK x \in 0..31 : x = e
      BY <1>2
    <2>3. LET d == [driver EXCEPT !.ep_interrupt_in = x]
          IN /\ d \in Drivers /\ d.ep_interrupt_in = x /\ d.kind = driver.kind
             /\ d.interface = driver.interface /\ d.phase = driver.phase
      BY DriverUpdate
    <2>4. SetEndpoints(ep_configs) = [driver EXCEPT !.ep_interrupt_in = x]
      BY <1>1, <2>1, <2>2
    <2> QED
      BY <2>1, <2>2, <2>3, <2>4
  <1> QED
    BY <1>2, <1>3

\* InitializePhase3 gives the driver its endpoint and, if the port waits for it, configures the
\* endpoints.
LEMMA Phase3DescriptorInv == DescriptorInv /\ InitializePhase3 => DescriptorInv'
  <1> SUFFICES ASSUME DescriptorInv, InitializePhase3 PROVE DescriptorInv'
    OBVIOUS
  <1>1. /\ device' = device /\ buf' = buf /\ untold' = untold /\ pc' = pc /\ ep_configs' = ep_configs
        /\ class_drivers' = class_drivers /\ initialize_phase' = 4
        /\ hid' = SetEndpoints(ep_configs)
    BY DEF InitializePhase3, driver_vars
  <1>2. initialize_phase = 3 /\ pc = "main"
    BY DEF InitializePhase3, Expected, ControlCompleted
  <1>12. initialize_phase >= 3 /\ initialize_phase < 4 /\ initialize_phase # 4
    BY <1>2
  <1>13. /\ SupportedInterfaces # {}
         /\ \E n \in 0..255 : n <= MaxEndpoints /\ ep_configs \in [1..n -> EPConfigs]
         /\ class_drivers = {Number(c.ep_id) : c \in Range(ep_configs)}
    BY <1>12, Zenon DEF DescriptorInv, ReadInv
  <1>3. /\ hid \in Drivers /\ hid.ep_interrupt_in = 0 /\ hid.phase = 0
        /\ ~command /\ port_config_phase = "InitializingDevice" /\ transfer_rings = {1}
    BY <1>12 DEF DescriptorInv, PhaseInv, ContextInv
  <1>4. PICK n \in 0..255 : n <= MaxEndpoints /\ ep_configs \in [1..n -> EPConfigs]
    BY <1>13, Zenon
  <1>5. /\ hid' \in Drivers /\ hid'.kind = hid.kind /\ hid'.interface = hid.interface
        /\ hid'.phase = hid.phase
        /\ IF hid'.ep_interrupt_in = 0 THEN \A c \in Range(ep_configs) : ~IsInterruptIn(c)
           ELSE \E c \in Range(ep_configs) : IsInterruptIn(c) /\ c.ep_id = hid'.ep_interrupt_in
    BY <1>1, <1>3, <1>4, EndpointSet
  <1>6. BufInv' /\ NeverLost'
    BY <1>1, <1>2, SameDevice DEF DescriptorInv, BufInv, NeverLost
  <1>7. EndpointInv'
    BY <1>1, <1>5 DEF EndpointInv
  <1>8. ReadInv'
    <2>1. /\ SupportedInterfaces' # {}
          /\ \E m \in 0..255 : m <= MaxEndpoints /\ ep_configs' \in [1..m -> EPConfigs]
          /\ class_drivers' = {Number(c.ep_id) : c \in Range(ep_configs')}
      BY <1>1, <1>13, SameDevice, Zenon
    <2> QED
      BY <2>1, Zenon DEF ReadInv
  <1>9. ServedInv'
    BY <1>1, <1>2, <1>5, SameDevice DEF DescriptorInv, ServedInv
  <1>10. command' \in BOOLEAN /\ ContextInv'
    <2>1. CASE /\ input_ctx' = Contexts(ep_configs)
               /\ transfer_rings' = transfer_rings \cup DOMAIN Contexts(ep_configs)
               /\ port_config_phase' = "ConfiguringEndpoints" /\ command' = TRUE
      <3>1. DOMAIN Contexts(ep_configs) = {c.ep_id : c \in Range(ep_configs)}
        BY DEF Contexts
      <3>2. transfer_rings' = {1} \cup {c.ep_id : c \in Range(ep_configs)}
        BY <1>3, <2>1, <3>1
      <3>3. ContextInv'
        BY <1>1, <2>1, <3>2, SameDevice DEF ContextInv
      <3> QED
        BY <2>1, <3>3
    <2>2. CASE UNCHANGED <<input_ctx, transfer_rings, port_config_phase, command>>
      BY <1>1, <1>2, <1>3, <2>2 DEF DescriptorInv, ContextInv, PhaseInv
    <2> QED
      BY <1>3, <2>1, <2>2 DEF InitializePhase3, ConfigureEndpoints
  <1>11. PhaseInv'
    BY <1>1, <1>2, <1>3, <1>5, <1>10 DEF DescriptorInv, PhaseInv
  <1> QED
    BY <1>6, <1>7, <1>8, <1>9, <1>10, <1>11 DEF DescriptorInv

\* What the class drivers are, once the descriptors are read
LEMMA ReadFacts ==
    ASSUME DescriptorInv, initialize_phase = 4
    PROVE  /\ SupportedInterfaces # {}
           /\ \E n \in 0..255 : n <= MaxEndpoints /\ ep_configs \in [1..n -> EPConfigs]
           /\ class_drivers = {Number(c.ep_id) : c \in Range(ep_configs)}
           /\ \A c \in Range(ep_configs) : c \in EPConfigs /\ c.ep_id \in 2..31
           /\ class_drivers \in SUBSET (1..15)
  <1>1. initialize_phase >= 3
    OBVIOUS
  <1>2. /\ SupportedInterfaces # {}
        /\ \E n \in 0..255 : n <= MaxEndpoints /\ ep_configs \in [1..n -> EPConfigs]
        /\ class_drivers = {Number(c.ep_id) : c \in Range(ep_configs)}
    BY <1>1, Zenon DEF DescriptorInv, ReadInv
  <1>3. PICK n \in 0..255 : n <= MaxEndpoints /\ ep_configs \in [1..n -> EPConfigs]
    BY <1>2, Zenon
  <1>4. n \in Nat
    OBVIOUS
  <1>5. \A c \in Range(ep_configs) : c \in EPConfigs
    BY <1>3, <1>4, ConfigRange
  <1>6. \A c \in EPConfigs : c.ep_id \in 2..31
    BY DEF EPConfigs
  <1>7. \A x \in 2..31 : Number(x) \in 1..15
    BY DEF Number
  <1> QED
    BY ZenonT(40), <1>2, <1>5, <1>6, <1>7

\* A step that changes at most the phase of the driver, and what the configuration waits for
LEMMA PhaseStepDescriptorInv ==
    ASSUME DescriptorInv, initialize_phase = 4, PhaseInv', ContextInv',
           UNCHANGED <<device, buf, initialize_phase, ep_configs, class_drivers>>,
           hid'.kind = hid.kind, hid'.interface = hid.interface,
           hid'.ep_interrupt_in = hid.ep_interrupt_in, NeverLost'
    PROVE  DescriptorInv'
  <1>1. /\ device' = device /\ buf' = buf /\ initialize_phase' = initialize_phase
        /\ ep_configs' = ep_configs /\ class_drivers' = class_drivers
    OBVIOUS
  <1>2. BufInv'
    BY <1>1, SameDevice DEF DescriptorInv, BufInv
  <1>3. ReadInv'
    BY <1>1, SameDevice DEF DescriptorInv, ReadInv
  <1>4. EndpointInv'
    BY <1>1 DEF DescriptorInv, EndpointInv
  <1>5. ServedInv'
    BY <1>1, SameDevice DEF DescriptorInv, ServedInv
  <1> QED
    BY <1>2, <1>3, <1>4, <1>5 DEF DescriptorInv

\* The three steps of CompleteConfiguration
LEMMA ConfigurationDescriptorInv ==
    DescriptorInv /\ (CompleteConfiguration \/ OnEndpointsConfigured \/ ConfigurationCompleted)
        => DescriptorInv'
  <1> SUFFICES ASSUME DescriptorInv,
                      CompleteConfiguration \/ OnEndpointsConfigured \/ ConfigurationCompleted
               PROVE  DescriptorInv'
    OBVIOUS
  <1>1. CASE CompleteConfiguration
    <2>1. /\ device' = device /\ buf' = buf /\ initialize_phase' = initialize_phase
          /\ ep_configs' = ep_configs /\ class_drivers' = class_drivers /\ hid' = hid
          /\ port_config_phase' = port_config_phase /\ input_ctx' = input_ctx
          /\ transfer_rings' = transfer_rings
          /\ command /\ ~command' /\ command' \in BOOLEAN /\ pc' = "configured"
          /\ untold' = Cardinality(class_drivers)
      BY <1>1 DEF CompleteConfiguration, transfer_vars, device_vars
    <2>2. initialize_phase = 4 /\ hid.phase = 0
      BY <2>1 DEF DescriptorInv, PhaseInv
    <2>3. Cardinality(class_drivers) \in Nat
      <3>1. class_drivers \in SUBSET (1..15) /\ 15 \in Nat
        BY <2>2, ReadFacts
      <3> QED
        BY <3>1, Ranks
    <2>4. PhaseInv'
      BY <2>1, <2>2, <2>3 DEF DescriptorInv, PhaseInv
    <2>5. ContextInv'
      BY <2>1, SameDevice DEF DescriptorInv, ContextInv
    <2>6. NeverLost'
      BY <2>1 DEF NeverLost
    <2> QED
      BY <2>1, <2>2, <2>4, <2>5, <2>6, PhaseStepDescriptorInv
  <1>2. CASE OnEndpointsConfigured
    <2>1. /\ device' = device /\ buf' = buf /\ initialize_phase' = initialize_phase
          /\ ep_configs' = ep_configs /\ class_drivers' = class_drivers
          /\ hid' = [hid EXCEPT !.phase = 1]
          /\ port_config_phase' = port_config_phase /\ input_ctx' = input_ctx
          /\ transfer_rings' = transfer_rings /\ command' = command
          /\ pc = "configured" /\ pc' = pc /\ untold > 0 /\ untold' = untold - 1
      BY <1>2 DEF OnEndpointsConfigured, config_vars
    <2>2. initialize_phase = 4 /\ hid \in Drivers
      BY <2>1 DEF DescriptorInv, PhaseInv
    <2>3. /\ hid' \in Drivers /\ hid'.phase = 1 /\ hid'.kind = hid.kind
          /\ hid'.interface = hid.interface /\ hid'.ep_interrupt_in = hid.ep_interrupt_in
      BY <2>1, <2>2 DEF Drivers
    <2>4. PhaseInv'
      BY <2>1, <2>2, <2>3 DEF DescriptorInv, PhaseInv
    <2>5. ContextInv'
      BY <2>1, SameDevice DEF DescriptorInv, ContextInv
    <2>6. NeverLost'
      BY <2>1 DEF NeverLost
    <2> QED
      BY <2>1, <2>2, <2>3, <2>4, <2>5, <2>6, PhaseStepDescriptorInv
  <1>3. CASE ConfigurationCompleted
    <2>1. /\ device' = device /\ buf' = buf /\ initialize_phase' = initialize_phase
          /\ ep_configs' = ep_configs /\ class_drivers' = class_drivers /\ hid' = hid
          /\ port_config_phase' = "Configured" /\ input_ctx' = input_ctx
          /\ transfer_rings' = transfer_rings /\ command' = command
          /\ pc = "configured" /\ pc' = "main" /\ untold' = untold
      BY <1>3 DEF ConfigurationCompleted, transfer_vars, device_vars
    <2>2. initialize_phase = 4
      BY <2>1 DEF DescriptorInv, PhaseInv
    <2>3. PhaseInv'
      BY <2>1, <2>2 DEF DescriptorInv, PhaseInv
    <2>4. ContextInv'
      BY <2>1, SameDevice DEF DescriptorInv, ContextInv
    <2>5. NeverLost'
      BY <2>1 DEF NeverLost
    <2> QED
      BY <2>1, <2>2, <2>3, <2>4, <2>5, PhaseStepDescriptorInv
  <1> QED
    BY <1>1, <1>2, <1>3

\* The endpoints of the first supported interface are endpoint descriptors.
LEMMA EndpointsOfFirst ==
    ASSUME BufInv, WellFormed, NEW j \in EndpointsOf(FirstInterface)
    PROVE  Conf[j] \in Descriptors /\ Conf[j].type = "Endpoint"
  <1>1. /\ Len(Conf) \in Nat /\ \A i \in 1..Len(Conf) : Conf[i] \in Descriptors
    BY ConfFacts DEF BufInv
  <1>2. SupportedInterfaces \in SUBSET Nat /\ SupportedInterfaces # {}
    BY <1>1 DEF SupportedInterfaces, WellFormed
  <1>3. FirstInterface \in SupportedInterfaces
    BY <1>2, Least DEF FirstInterface
  <1>4. FirstInterface \in 2..Len(Conf)
    BY <1>3 DEF SupportedInterfaces
  <1>5. j \in (FirstInterface + 1)..Len(Conf) /\ Conf[j].type = "Endpoint"
    BY DEF EndpointsOf
  <1>6. j \in 1..Len(Conf)
    BY <1>1, <1>4, <1>5
  <1> QED
    BY <1>1, <1>5, <1>6

\* For a device that is as it should be the driver has an interrupt endpoint.
LEMMA HasEndpoint ==
    ASSUME DescriptorInv, initialize_phase = 4, WellFormed
    PROVE  hid.ep_interrupt_in # 0
  <1>1. HasInterruptIn(FirstInterface)
    BY DEF WellFormed
  <1>2. PICK j \in EndpointsOf(FirstInterface) : Conf[j].transfer_type = 3 /\ Conf[j].in
    BY <1>1 DEF HasInterruptIn
  <1>3. MakeEPConfig(Conf[j]) \in Range(ep_configs)
    BY DEF DescriptorInv, ServedInv
  <1>4. Conf[j] \in Descriptors /\ Conf[j].type = "Endpoint"
    BY EndpointsOfFirst DEF DescriptorInv
  <1>5. IsInterruptIn(MakeEPConfig(Conf[j]))
    BY <1>2, <1>4, MakesEPConfig DEF IsInterruptIn
  <1> QED
    BY <1>3, <1>5 DEF DescriptorInv, EndpointInv

\* The first request for a report goes to the endpoint that InitializePhase3 has found.
LEMMA HidControlDescriptorInv == DescriptorInv /\ HidControlCompleted => DescriptorInv'
  <1> SUFFICES ASSUME DescriptorInv, HidControlCompleted PROVE DescriptorInv'
    OBVIOUS
  <1>1. /\ device' = device /\ buf' = buf /\ initialize_phase' = initialize_phase
        /\ ep_configs' = ep_configs /\ class_drivers' = class_drivers
        /\ port_config_phase' = port_config_phase /\ input_ctx' = input_ctx
        /\ transfer_rings' = transfer_rings /\ command' = command /\ untold' = untold
        /\ initialize_phase = 4 /\ pc = "main"
    BY DEF HidControlCompleted, ControlCompleted, device_vars, config_vars
  <1>2. /\ pc' = "main" \/ (pc' = "lost" /\ hid.ep_interrupt_in = 0)
        /\ hid' = hid \/ (hid' = [hid EXCEPT !.phase = 2] /\ hid.phase = 1)
    BY <1>1 DEF HidControlCompleted, FirstCompletion
  <1>3. hid \in Drivers
    BY DEF DescriptorInv, PhaseInv
  <1>4. /\ hid' \in Drivers /\ hid'.kind = hid.kind /\ hid'.interface = hid.interface
        /\ hid'.ep_interrupt_in = hid.ep_interrupt_in
        /\ hid'.phase = hid.phase \/ hid.phase = 1
    BY <1>2, <1>3 DEF Drivers
  <1>5. PhaseInv'
    BY <1>1, <1>2, <1>4 DEF DescriptorInv, PhaseInv
  <1>6. ContextInv'
    BY <1>1, <1>2, SameDevice DEF DescriptorInv, ContextInv
  <1>7. NeverLost'
    <2>1. ASSUME pc' = "lost" PROVE SupportedInterfaces # {} /\ ~WellFormed
      BY <1>1, <1>2, <2>1, HasEndpoint, ReadFacts
    <2> QED
      BY <1>1, <2>1, SameDevice DEF NeverLost
  <1> QED
    BY <1>1, <1>4, <1>5, <1>6, <1>7, PhaseStepDescriptorInv

\* Steps of the controller, of reports and of failures do not touch the device.
LEMMA OtherDescriptorInv ==
    DescriptorInv /\ (\/ InvalidPhase \/ TransferFailed \/ Evaluate \/ Keep \/ Rearm
                      \/ HcControlTransfer \/ HcReport \/ HcReportFails \/ Unplug \/ UNCHANGED vars)
        => DescriptorInv'
  <1>1. InvalidPhase \/ TransferFailed => /\ UNCHANGED device_state /\ buf' = buf
                                          /\ UNCHANGED <<pc, untold>>
    BY DEF InvalidPhase, TransferFailed, device_state, config_vars, driver_vars, device_vars
  <1>2. Evaluate \/ Keep \/ Rearm => /\ UNCHANGED device_state /\ buf' = buf
                                     /\ untold' = untold /\ pc' \in {"main", "keep", "rearm"}
    BY DEF Evaluate, Keep, Rearm, device_state, config_vars, driver_vars, device_vars, transfer_vars
  <1>3. HcReport \/ HcReportFails \/ Unplug \/ UNCHANGED vars =>
            /\ UNCHANGED device_state /\ buf' = buf /\ UNCHANGED <<pc, untold>>
    BY DEF HcReport, HcReportFails, HcInterrupt, Unplug, vars, device_state, config_vars,
           driver_vars, device_vars, transfer_vars
  <1>4. DescriptorInv /\ HcControlTransfer =>
            /\ UNCHANGED device_state /\ UNCHANGED <<pc, untold>>
            /\ \/ buf' \in {buf, <<[type |-> "Device"]>>}
               \/ buf' = Prefix /\ ConfigurationLength >= 2
    <2> SUFFICES ASSUME DescriptorInv, HcControlTransfer
                 PROVE  /\ UNCHANGED device_state /\ UNCHANGED <<pc, untold>>
                        /\ \/ buf' \in {buf, <<[type |-> "Device"]>>}
                           \/ buf' = Prefix /\ ConfigurationLength >= 2
      OBVIOUS
    <2>1. UNCHANGED device_state /\ UNCHANGED <<pc, untold>> /\ (buf' = Answer \/ buf' = buf)
      BY DEF HcControlTransfer, HcControl, device_state, config_vars, driver_vars
    <2>2. ConfigurationLength \in Nat
      BY ConfFacts DEF DescriptorInv, BufInv
    <2>3. \/ Answer \in {buf, <<[type |-> "Device"]>>}
          \/ Answer = Prefix /\ ConfigurationLength >= 2
      <3>1. CASE setup = GetDescriptor(1)
        BY <3>1 DEF Answer
      <3>2. CASE setup # GetDescriptor(1) /\ ConfigurationLength < 2
        BY <3>2 DEF Answer
      <3>3. CASE setup # GetDescriptor(1) /\ ~(ConfigurationLength < 2)
        <4>1. Answer = Prefix
          BY <3>3 DEF Answer, Prefix
        <4> QED
          BY <2>2, <3>3, <4>1
      <3> QED
        BY <3>1, <3>2, <3>3
    <2> QED
      BY <2>1, <2>3
  <1> QED
    BY <1>1, <1>2, <1>3, <1>4, QuietDescriptorInv

\* The state of the initialization is sound in all behaviours.
THEOREM DescriptorsRead == Spec => []DescriptorInv
  <1>1. Init => DescriptorInv
    BY InitDescriptorInv
  <1>2. DescriptorInv /\ [Next]_vars => DescriptorInv'
    BY EarlyDescriptorInv, Phase2DescriptorInv, Phase3DescriptorInv, ConfigurationDescriptorInv,
       HidControlDescriptorInv, OtherDescriptorInv DEF Next, Driver
  <1> QED
    BY <1>1, <1>2, PTL DEF Spec

\* Whatever the sizes of the buffers, and wherever the answer is cut: a device whose first
\* supported interface is as it should be and fits into buf_ with its endpoints, and a device
\* without a supported interface whose descriptors all fit and have the right lengths, do not
\* lead the driver beyond what they have sent or to a ring that does not exist.
THEOREM StaysInBuffers == Spec => []NeverLost
  <1>1. DescriptorInv => NeverLost
    BY DEF DescriptorInv
  <1> QED
    BY <1>1, DescriptorsRead, PTL

\* The powers of two that occur
LEMMA PowersOfTwo ==
    /\ 2^0 = 1 /\ 2^1 = 2 /\ 2^2 = 4 /\ 2^3 = 8 /\ 2^4 = 16 /\ 2^5 = 32 /\ 2^6 = 64 /\ 2^7 = 128
    /\ 2^8 = 256
  BY PowersAssumption

\* 2^n is a number, and the next power is its double.
LEMMA PowerDoubles ==
    ASSUME NEW n \in 0..15
    PROVE  2^n \in Nat /\ 2^n > 0 /\ 2^(n + 1) = 2 * 2^n
  <1>1. n \in 0..16
    OBVIOUS
  <1>2. 2^n \in Nat \ {0} /\ 2^(n + 1) = 2 * 2^n
    BY <1>1, PowersAssumption
  <1> QED
    BY <1>2

\* The highest bit of a byte that is not 0
LEMMA HighestBit ==
    ASSUME NEW v \in 1..255
    PROVE  /\ MostSignificantBit(v) \in 0..7 /\ 2^MostSignificantBit(v) <= v
           /\ v < 2^(MostSignificantBit(v) + 1)
  <1>1. \E k \in 0..7 : 2^k <= v /\ v < 2^(k + 1)
    <2>1. \/ 2^0 <= v /\ v < 2^(0 + 1)
          \/ 2^1 <= v /\ v < 2^(1 + 1)
          \/ 2^2 <= v /\ v < 2^(2 + 1)
          \/ 2^3 <= v /\ v < 2^(3 + 1)
          \/ 2^4 <= v /\ v < 2^(4 + 1)
          \/ 2^5 <= v /\ v < 2^(5 + 1)
          \/ 2^6 <= v /\ v < 2^(6 + 1)
          \/ 2^7 <= v /\ v < 2^(7 + 1)
      BY PowersOfTwo
    <2> QED
      BY <2>1
  <1>2. v # 0
    OBVIOUS
  <1> QED
    BY <1>1, <1>2 DEF MostSignificantBit

\* The period of an interrupt endpoint that convert_interval computes is at most the one that is
\* asked for, and more than half of it.
LEMMA IntervalConverted ==
    ASSUME NEW speed \in 1..5, NEW interval \in 1..(IF speed < 3 THEN 255 ELSE 16)
    PROVE  LET asked == IF speed \in {1, 2} THEN 8 * interval ELSE 2^(interval - 1)
               e == ConvertInterval(speed, 3, interval)
           IN 2^e <= asked /\ asked < 2^(e + 1)
  <1>1. CASE speed \in {1, 2}
    <2>1. interval \in 1..255
      BY <1>1
    <2>2. PICK k \in 0..7 : k = MostSignificantBit(interval) /\ 2^k <= interval /\ interval < 2^(k + 1)
      BY <2>1, HighestBit
    <2>3. ConvertInterval(speed, 3, interval) = k + 3
      BY <1>1, <2>2 DEF ConvertInterval
    <2>4. 2^(k + 1) = 2 * 2^k /\ 2^(k + 2) = 2 * 2^(k + 1) /\ 2^(k + 3) = 2 * 2^(k + 2)
          /\ 2^(k + 3 + 1) = 2 * 2^(k + 3)
      <3>1. \A n \in 0..16 : 2^(n + 1) = 2 * 2^n
        BY PowersAssumption
      <3>2. k \in 0..16 /\ k + 1 \in 0..16 /\ k + 2 \in 0..16 /\ k + 3 \in 0..16
        OBVIOUS
      <3>3. k + 1 + 1 = k + 2 /\ k + 2 + 1 = k + 3
        OBVIOUS
      <3> QED
        BY <3>1, <3>2, <3>3
    <2>5. 2^k \in Int
      BY PowersOfTwo
    <2>6. 2^(k + 3) <= 8 * interval /\ 8 * interval < 2^(k + 3 + 1)
      BY <2>1, <2>2, <2>4, <2>5
    <2> QED
      BY <1>1, <2>3, <2>6
  <1>2. CASE speed \notin {1, 2}
    <2>1. interval \in 1..16 /\ interval - 1 \in 0..15
      BY <1>2
    <2>2. ConvertInterval(speed, 3, interval) = interval - 1
      BY <1>2, <2>1 DEF ConvertInterval
    <2>3. 2^(interval - 1) \in Nat /\ 2^(interval - 1) > 0 /\ 2^(interval - 1 + 1) = 2 * 2^(interval - 1)
      <3>1. PICK k \in 0..15 : k = interval - 1
        BY <2>1
      <3>2. 2^k \in Nat /\ 2^k > 0 /\ 2^(k + 1) = 2 * 2^k
        BY PowerDoubles
      <3> QED
        BY <3>1, <3>2
    <2> QED
      BY <1>2, <2>2, <2>3
  <1> QED
    BY <1>1, <1>2

\* The context of an endpoint is that of its descriptor: no two endpoints of the interface have
\* the same address.
LEMMA ContextOfEndpoint ==
    ASSUME DescriptorInv, WellFormed, NEW j \in EndpointsOf(FirstInterface), initialize_phase = 4
    PROVE  LET address == Address(Conf[j].number, Conf[j].in)
           IN /\ address \in DOMAIN Contexts(ep_configs)
              /\ Contexts(ep_configs)[address] = Context(MakeEPConfig(Conf[j]))
  <1> DEFINE address == Address(Conf[j].number, Conf[j].in)
             same == {i \in DOMAIN ep_configs : ep_configs[i].ep_id = address}
  <1>1. BufInv /\ Range(ep_configs) = {MakeEPConfig(Conf[k]) : k \in EndpointsOf(FirstInterface)}
    BY DEF DescriptorInv, ServedInv
  <1>2. PICK n \in 0..255 : ep_configs \in [1..n -> EPConfigs]
    BY ReadFacts, Zenon
  <1>3. n \in Nat
    OBVIOUS
  <1>4. MakeEPConfig(Conf[j]) \in Range(ep_configs) /\ MakeEPConfig(Conf[j]).ep_id = address
    BY <1>1, EndpointsOfFirst, MakesEPConfig
  <1>5. DOMAIN ep_configs = 1..n /\ \A c \in Range(ep_configs) : \E i \in 1..n : ep_configs[i] = c
    BY <1>2, <1>3, ConfigRange
  <1>6. same # {} /\ same \in SUBSET (1..n)
    BY <1>4, <1>5
  <1>7. Max(same) \in same
    <2> HIDE DEF same
    <2> QED
      BY <1>3, <1>6, Greatest
  <1>8. PICK m \in 1..n : m = Max(same) /\ ep_configs[m].ep_id = address
    BY <1>5, <1>7
  <1>9. ep_configs[m] \in Range(ep_configs)
    BY <1>2, <1>3, ConfigRange
  <1>10. PICK k \in EndpointsOf(FirstInterface) : ep_configs[m] = MakeEPConfig(Conf[k])
    BY <1>1, <1>9
  <1>11. k = j
    <2>1. /\ Number(address) = Conf[k].number /\ (IsIn(address) <=> Conf[k].in)
          /\ Conf[k].in \in BOOLEAN
      BY <1>1, <1>8, <1>10, EndpointsOfFirst, MakesEPConfig, DescriptorFields
    <2>2. /\ Number(address) = Conf[j].number /\ (IsIn(address) <=> Conf[j].in)
          /\ Conf[j].in \in BOOLEAN
      BY <1>1, <1>4, EndpointsOfFirst, MakesEPConfig, DescriptorFields
    <2>3. Conf[j].number = Conf[k].number /\ Conf[j].in = Conf[k].in
      BY <2>1, <2>2
    <2> QED
      BY <2>3 DEF WellFormed
  <1>12. address \in {c.ep_id : c \in Range(ep_configs)}
    BY <1>4
  <1>13. Contexts(ep_configs)[address] = Context(ep_configs[Max(same)])
    BY <1>12 DEF Contexts
  <1>14. address \in DOMAIN Contexts(ep_configs)
    BY <1>12 DEF Contexts
  <1> QED
    BY <1>8, <1>10, <1>11, <1>13, <1>14

\* The driver is that of the first supported interface, and its endpoints, in all four places,
\* are those of the interface, whatever else the device has.
THEOREM ServesFirstInterface == Spec => []FirstInterfaceServed
  <1>1. ASSUME DescriptorInv PROVE FirstInterfaceServed
    <2> SUFFICES ASSUME WellFormed, initialize_phase >= 3
                 PROVE  LET i == FirstInterface
                            addresses == {Address(Conf[j].number, Conf[j].in) : j \in EndpointsOf(i)}
                        IN /\ hid.kind = IF Conf[i].protocol = 1 THEN "keyboard" ELSE "mouse"
                           /\ hid.interface = Conf[i].number
                           /\ {c.ep_id : c \in Range(ep_configs)} = addresses
                           /\ class_drivers = {Conf[j].number : j \in EndpointsOf(i)}
                           /\ port_config_phase # "InitializingDevice" =>
                                 /\ DOMAIN input_ctx = addresses
                                 /\ transfer_rings = addresses \cup {1}
                                 /\ input_ctx[hid.ep_interrupt_in].ep_type = 7
      BY DEF FirstInterfaceServed
    <2> DEFINE E == EndpointsOf(FirstInterface)
               addresses == {Address(Conf[j].number, Conf[j].in) : j \in E}
               ids == {c.ep_id : c \in Range(ep_configs)}
    <2>1. /\ BufInv
          /\ hid.kind = IF Conf[FirstInterface].protocol = 1 THEN "keyboard" ELSE "mouse"
          /\ hid.interface = Conf[FirstInterface].number
          /\ Range(ep_configs) = {MakeEPConfig(Conf[j]) : j \in E}
          /\ class_drivers = {Number(c.ep_id) : c \in Range(ep_configs)}
      BY <1>1, Zenon DEF DescriptorInv, ServedInv, ReadInv
    <2>2. \A j \in E : /\ MakeEPConfig(Conf[j]).ep_id = Address(Conf[j].number, Conf[j].in)
                       /\ Number(MakeEPConfig(Conf[j]).ep_id) = Conf[j].number
                       /\ MakeEPConfig(Conf[j]).ep_type = Conf[j].transfer_type
      BY <2>1, EndpointsOfFirst, MakesEPConfig
    <2>3. ids = addresses
      BY <2>1, <2>2
    <2>4. class_drivers = {Conf[j].number : j \in E}
      BY <2>1, <2>2
    <2>5. ASSUME port_config_phase # "InitializingDevice"
          PROVE  /\ DOMAIN input_ctx = addresses /\ transfer_rings = addresses \cup {1}
                 /\ input_ctx[hid.ep_interrupt_in].ep_type = 7
      <3>1. initialize_phase = 4 /\ input_ctx = Contexts(ep_configs) /\ transfer_rings = {1} \cup ids
        BY <1>1, <2>5 DEF DescriptorInv, ContextInv
      <3>2. DOMAIN input_ctx = ids
        BY <3>1 DEF Contexts
      <3>3. hid.ep_interrupt_in # 0
        BY <1>1, <3>1, HasEndpoint
      <3>4. PICK c \in Range(ep_configs) : IsInterruptIn(c) /\ c.ep_id = hid.ep_interrupt_in
        BY <1>1, <3>1, <3>3 DEF DescriptorInv, EndpointInv
      <3>5. PICK j \in E : c = MakeEPConfig(Conf[j])
        BY <2>1
      <3>6. input_ctx[hid.ep_interrupt_in] = Context(c)
        BY <1>1, <2>2, <3>1, <3>4, <3>5, ContextOfEndpoint
      <3>7. Context(c).ep_type = 7
        BY <3>4 DEF Context, ContextType, IsInterruptIn
      <3> QED
        BY <2>3, <3>1, <3>2, <3>6, <3>7
    <2> QED
      BY <2>1, <2>3, <2>4, <2>5
  <1> QED
    BY <1>1, DescriptorsRead, PTL

\* An interrupt endpoint is polled as often as its descriptor asks for, and less than twice as
\* often, at every speed and for every interval that the standards allow.
THEOREM PollsInTime == Spec => []PolledInTime
  <1>1. ASSUME DescriptorInv PROVE PolledInTime
    <2> SUFFICES ASSUME WellFormed, NEW j \in EndpointsOf(FirstInterface), Conf[j].transfer_type = 3,
                        Address(Conf[j].number, Conf[j].in) \in DOMAIN input_ctx
                 PROVE  LET address == Address(Conf[j].number, Conf[j].in)
                            asked == IF device.speed \in {1, 2} THEN 8 * Conf[j].interval
                                     ELSE 2^(Conf[j].interval - 1)
                        IN /\ 2^(input_ctx[address].interval) <= asked
                           /\ asked < 2^(input_ctx[address].interval + 1)
      BY DEF PolledInTime
    <2> DEFINE address == Address(Conf[j].number, Conf[j].in)
    <2>1. input_ctx = Contexts(ep_configs) /\ initialize_phase = 4 /\ BufInv
      BY <1>1 DEF DescriptorInv, ContextInv
    <2>2. input_ctx[address] = Context(MakeEPConfig(Conf[j]))
      BY <1>1, <2>1, ContextOfEndpoint
    <2>3. /\ MakeEPConfig(Conf[j]).ep_type = 3 /\ MakeEPConfig(Conf[j]).interval = Conf[j].interval
      BY <2>1, EndpointsOfFirst, MakesEPConfig
    <2>4. input_ctx[address].interval = ConvertInterval(device.speed, 3, Conf[j].interval)
      BY <2>2, <2>3 DEF Context
    <2>5. device.speed \in 1..5
      BY <2>1, DevicesAssumption DEF BufInv, IsDevice
    <2>6. Conf[j].interval \in 1..(IF device.speed < 3 THEN 255 ELSE 16)
      BY DEF WellFormed
    <2> QED
      BY <2>4, <2>5, <2>6, IntervalConverted
  <1> QED
    BY <1>1, DescriptorsRead, PTL

-----------------------------------------------------------------------------
(* The types of the transfers                                               *)

Slots == 0..(RingSize - 2)

Requests ==
    [request : {"none", "GetDescriptor", "SetConfiguration", "SetProtocol"}, value : 0..255,
     index : 0..255]

TRBs == [type : {"Setup", "Data", "Status"}, request : Requests, ioc : BOOLEAN]

Entries == [key : Slots, value : Slots]

Rings ==
    [trbs : [Slots -> TRBs], pushed : Nat, setup_stage_map : [1..MapSize -> SUBSET Entries]]

Events == [dci : Dcis, trb : Slots, success : BOOLEAN, request : Requests, length : 0..8]

TransferTypes ==
    /\ ep0 \in Rings /\ executed \in Nat /\ setup \in Requests
    /\ armed \in [Dcis -> Nat] /\ events \in Seq(Events) /\ plugged \in BOOLEAN

\* An interrupt transfer is on the ring, or its event is to be handled, or neither.
PollInv ==
    /\ \A d \in Dcis : armed[d] > 0 =>
          /\ armed[d] = 1 /\ d = hid.ep_interrupt_in /\ hid.phase = 2
          /\ \A k \in DOMAIN events : events[k].dci = 1
    /\ \A k \in DOMAIN events :
          events[k].dci # 1 => events[k].dci = hid.ep_interrupt_in /\ hid.phase = 2
    /\ \A k, l \in DOMAIN events : events[k].dci # 1 /\ events[l].dci # 1 => k = l
    /\ pc \in {"keep", "rearm"} =>
          events # <<>> /\ Head(events).dci # 1 /\ Head(events).success

\* Every TRB has a place before the Link TRB.
LEMMA PositionType == ASSUME NEW n \in Nat PROVE Position(n) \in Slots
  <1>1. PICK R \in Nat \ {0} : R = RingSize - 1
    BY RingSizeAssumption
  <1>2. (n % R) \in 0..(R - 1)
    OBVIOUS
  <1>3. R - 1 = RingSize - 2
    BY <1>1, RingSizeAssumption
  <1> QED
    BY <1>1, <1>2, <1>3 DEF Position, Slots

\* TRBs that are less than a lap apart have different places.
LEMMA PositionsDiffer ==
    ASSUME NEW n \in Nat, NEW m \in Nat, n < m, m < n + (RingSize - 1)
    PROVE  Position(n) # Position(m)
  <1>1. PICK R \in Nat \ {0} : R = RingSize - 1
    BY RingSizeAssumption
  <1>2. /\ n = (n \div R) * R + (n % R) /\ n \div R \in Nat /\ n % R \in Nat
        /\ m = (m \div R) * R + (m % R) /\ m \div R \in Nat /\ m % R \in Nat
    OBVIOUS
  <1>3. ASSUME n % R = m % R PROVE FALSE
    <2>1. PICK p \in Nat, q \in Nat, r \in Nat : n = p * R + r /\ m = q * R + r
      BY <1>2, <1>3
    <2>2. p < q
      <3>1. CASE q <= p
        <4>1. PICK d \in Nat : p = q + d
          BY <3>1
        <4>2. p * R = q * R + d * R
          BY <4>1
        <4>3. d * R \in Nat /\ q * R \in Nat
          OBVIOUS
        <4> QED
          BY <2>1, <4>2, <4>3
      <3> QED
        BY <3>1
    <2>3. PICK d \in Nat : q = p + 1 + d
      <3>1. q - p - 1 \in Nat /\ q = p + 1 + (q - p - 1)
        BY <2>2
      <3> QED
        BY <3>1
    <2>4. q * R = p * R + R + d * R /\ d * R \in Nat /\ p * R \in Nat
      BY <2>3
    <2> QED
      BY <1>1, <2>1, <2>4
  <1> QED
    BY <1>1, <1>3 DEF Position

\* The first free entry of a map, or the first one that has the key
LEMMA FirstEntry ==
    ASSUME NEW T \in SUBSET (1..MapSize), T # {}
    PROVE  FirstOf(T) \in T /\ \A x \in T : FirstOf(T) <= x
  <1>1. T \in SUBSET Nat
    BY MapSizeAssumption
  <1>2. \E m \in T : \A x \in T : m <= x
    BY <1>1, Least
  <1> QED
    BY <1>2 DEF FirstOf

\* Put finds a free entry, if there is one; Delete empties entries.
LEMMA MapTypes ==
    ASSUME NEW map \in [1..MapSize -> SUBSET Entries], NEW k \in Slots, NEW v \in Slots
    PROVE  /\ Put(map, k, v) \in [1..MapSize -> SUBSET Entries]
           /\ Delete(map, k) \in [1..MapSize -> SUBSET Entries]
  <1>1. [key |-> k, value |-> v] \in Entries
    BY DEF Entries
  <1>2. {[key |-> k, value |-> v]} \in SUBSET Entries
    BY <1>1
  <1>3. \A s : [map EXCEPT ![s] = {[key |-> k, value |-> v]}] \in [1..MapSize -> SUBSET Entries]
    BY <1>2
  <1>4. \A s : [map EXCEPT ![s] = {}] \in [1..MapSize -> SUBSET Entries]
    OBVIOUS
  <1> QED
    BY <1>3, <1>4 DEF Put, Delete

\* What Push leaves on the ring
LEMMA Pushed ==
    ASSUME NEW ring \in Rings, NEW trb \in TRBs, NEW n \in Nat, ring.pushed = n
    PROVE  /\ Push(ring, trb) \in Rings
           /\ Push(ring, trb).pushed = n + 1
           /\ Push(ring, trb).setup_stage_map = ring.setup_stage_map
           /\ Push(ring, trb).trbs[Position(n)] = trb
           /\ \A s \in Slots : s # Position(n) => Push(ring, trb).trbs[s] = ring.trbs[s]
  <1>1. ring.trbs \in [Slots -> TRBs]
    BY DEF Rings
  <1>2. Position(n) \in Slots
    BY PositionType
  <1> QED
    BY <1>1, <1>2 DEF Push, Rings

\* The map of a ring with another map
LEMMA RingWithMap ==
    ASSUME NEW ring \in Rings, NEW map \in [1..MapSize -> SUBSET Entries]
    PROVE  LET r == [ring EXCEPT !.setup_stage_map = map]
           IN /\ r \in Rings /\ r.setup_stage_map = map /\ r.pushed = ring.pushed
              /\ r.trbs = ring.trbs
  BY DEF Rings

\* Numbers of three TRBs that follow each other, and their places
LEMMA Neighbours ==
    ASSUME NEW n \in Nat
    PROVE  /\ Position(n) \in Slots /\ Position(n + 1) \in Slots /\ Position(n + 2) \in Slots
           /\ Position(n) # Position(n + 1) /\ Position(n) # Position(n + 2)
           /\ Position(n + 1) # Position(n + 2)
  <1>1. n + 1 \in Nat /\ n + 2 \in Nat /\ n < n + 1 /\ n < n + 2 /\ n + 1 < n + 2
    OBVIOUS
  <1>2. RingSize - 1 > 2 /\ RingSize \in Nat
    BY RoomAssumption, RingSizeAssumption
  <1>3. n + 1 < n + (RingSize - 1) /\ n + 2 < n + (RingSize - 1) /\ n + 2 < n + 1 + (RingSize - 1)
    BY <1>2
  <1>4. /\ Position(n) # Position(n + 1) /\ Position(n) # Position(n + 2)
        /\ Position(n + 1) # Position(n + 2)
    BY <1>1, <1>3, PositionsDiffer
  <1>5. Position(n) \in Slots /\ Position(n + 1) \in Slots /\ Position(n + 2) \in Slots
    BY <1>1, PositionType
  <1> QED
    BY <1>1, <1>4, <1>5

\* The TRBs of a request
LEMMA StageTypes ==
    ASSUME NEW request \in Requests
    PROVE  /\ SetupStageTRB(request) \in TRBs /\ DataStageTRB \in TRBs
           /\ StatusStageTRB(FALSE) \in TRBs /\ StatusStageTRB(TRUE) \in TRBs
  BY DEF SetupStageTRB, DataStageTRB, StatusStageTRB, TRBs, NoRequest, Requests

\* What setup_stage_map_.Put makes of the ring
LEMMA RegisteredRing ==
    ASSUME NEW ring \in Rings, NEW n \in Nat, NEW offset \in {2, 3}, ring.pushed = n + offset
    PROVE  LET r == Registered(ring, offset, offset = 3)
           IN /\ r \in Rings /\ r.pushed = ring.pushed /\ r.trbs = ring.trbs
              /\ r.setup_stage_map = Put(ring.setup_stage_map, Position(n + 1), Position(n))
  <1> DEFINE map == Put(ring.setup_stage_map, Position(n + 1), Position(n))
  <1>1. ring.pushed - offset = n
    OBVIOUS
  <1>2. (IF offset = 3 THEN 1 ELSE offset - 1) = 1
    OBVIOUS
  <1>3. Registered(ring, offset, offset = 3) = [ring EXCEPT !.setup_stage_map = map]
    BY <1>1, <1>2 DEF Registered
  <1>4. map \in [1..MapSize -> SUBSET Entries]
    BY MapTypes, Neighbours DEF Rings
  <1> HIDE DEF map
  <1>5. LET r == [ring EXCEPT !.setup_stage_map = map]
        IN /\ r \in Rings /\ r.setup_stage_map = map /\ r.pushed = ring.pushed
           /\ r.trbs = ring.trbs
    BY <1>4, RingWithMap
  <1> QED
    BY <1>3, <1>5 DEF map

\* A TRB that raises no event and begins no request
Silent(trb) == trb.type # "Setup" /\ ~trb.ioc

\* r is the ring with another request, whose Setup TRB is TRB n.
Requested(ring, r, n, request) ==
    /\ ring.pushed = n /\ (r.pushed = n + 2 \/ r.pushed = n + 3)
    /\ r.setup_stage_map = Put(ring.setup_stage_map, Position(n + 1), Position(n))
    /\ r.trbs[Position(n)] = SetupStageTRB(request) /\ r.trbs[Position(n + 1)].type # "Setup"
    /\ r.pushed = n + 3 => Silent(r.trbs[Position(n + 2)])
    /\ \A s \in Slots : r.trbs[s] # ring.trbs[s] =>
          s = Position(n) \/ s = Position(n + 1) \/ (r.pushed = n + 3 /\ s = Position(n + 2))

\* A request with a buffer: its TRBs and the entry of the map, and what it leaves alone
LEMMA ControlInRing ==
    ASSUME NEW ring \in Rings, NEW request \in Requests, NEW n \in Nat, ring.pushed = n,
           NEW r, r = ControlIn(ring, request)
    PROVE  r \in Rings /\ r.pushed = n + 3 /\ Requested(ring, r, n, request)
  <1> DEFINE status == StatusStageTRB(FALSE)
             r1 == Push(ring, SetupStageTRB(request))
             r2 == Push(r1, DataStageTRB)
             r3 == Push(r2, status)
  <1>1. r = Registered(r3, 3, 3 = 3)
    BY DEF ControlIn
  <1>2. /\ SetupStageTRB(request) \in TRBs /\ DataStageTRB \in TRBs /\ status \in TRBs
    BY StageTypes
  <1> HIDE DEF status
  <1>3. PICK a \in Nat, b \in Nat : a = n + 1 /\ b = n + 2
    OBVIOUS
  <1>4. /\ r1 \in Rings /\ r1.pushed = n + 1 /\ r1.setup_stage_map = ring.setup_stage_map
        /\ r1.trbs[Position(n)] = SetupStageTRB(request)
        /\ \A s \in Slots : s # Position(n) => r1.trbs[s] = ring.trbs[s]
    BY <1>2, Pushed
  <1> HIDE DEF r1
  <1>5. r1.pushed = a /\ r1 \in Rings
    BY <1>3, <1>4
  <1>6. /\ r2 \in Rings /\ r2.pushed = a + 1 /\ r2.setup_stage_map = r1.setup_stage_map
        /\ r2.trbs[Position(a)] = DataStageTRB
        /\ \A s \in Slots : s # Position(a) => r2.trbs[s] = r1.trbs[s]
    BY <1>2, <1>5, Pushed
  <1> HIDE DEF r2
  <1>7. r2.pushed = b /\ r2 \in Rings
    BY <1>3, <1>6
  <1>8. /\ r3 \in Rings /\ r3.pushed = b + 1 /\ r3.setup_stage_map = r2.setup_stage_map
        /\ r3.trbs[Position(b)] = status
        /\ \A s \in Slots : s # Position(b) => r3.trbs[s] = r2.trbs[s]
    BY <1>2, <1>7, Pushed
  <1> HIDE DEF r3
  <1>9. r3.pushed = n + 3
    BY <1>3, <1>8
  <1>10. /\ r \in Rings /\ r.pushed = r3.pushed /\ r.trbs = r3.trbs
         /\ r.setup_stage_map = Put(r3.setup_stage_map, Position(n + 1), Position(n))
    BY <1>1, <1>8, <1>9, RegisteredRing
  <1>11. /\ Position(n) \in Slots /\ Position(a) \in Slots /\ Position(n) # Position(a)
         /\ Position(n) # Position(b) /\ Position(a) # Position(b)
         /\ Position(a) = Position(n + 1) /\ Position(b) = Position(n + 2)
    BY <1>3, Neighbours
  <1>12. /\ r.pushed = n + 3
         /\ r.setup_stage_map = Put(ring.setup_stage_map, Position(n + 1), Position(n))
    BY <1>4, <1>6, <1>8, <1>9, <1>10
  <1>13. r.trbs[Position(n)] = SetupStageTRB(request) /\ r.trbs[Position(n + 1)] = DataStageTRB
    BY <1>4, <1>6, <1>8, <1>10, <1>11
  <1>14. r.trbs[Position(n + 2)] = status
    BY <1>8, <1>10, <1>11
  <1>15. \A s \in Slots \ {Position(n), Position(n + 1), Position(n + 2)} :
            r.trbs[s] = ring.trbs[s]
    BY <1>4, <1>6, <1>8, <1>10, <1>11
  <1>16. Silent(status) /\ DataStageTRB.type # "Setup"
    BY DEF status, StatusStageTRB, DataStageTRB, Silent
  <1> QED
    BY <1>10, <1>12, <1>13, <1>14, <1>15, <1>16 DEF Requested

\* A request without one
LEMMA ControlOutRing ==
    ASSUME NEW ring \in Rings, NEW request \in Requests, NEW n \in Nat, ring.pushed = n,
           NEW r, r = ControlOut(ring, request)
    PROVE  r \in Rings /\ r.pushed = n + 2 /\ Requested(ring, r, n, request)
  <1> DEFINE status == StatusStageTRB(TRUE)
             r1 == Push(ring, SetupStageTRB(request))
             r2 == Push(r1, status)
  <1>1. r = Registered(r2, 2, 2 = 3)
    <2>1. (2 = 3) = FALSE
      OBVIOUS
    <2> QED
      BY <2>1 DEF ControlOut
  <1>2. SetupStageTRB(request) \in TRBs /\ status \in TRBs
    BY StageTypes
  <1> HIDE DEF status
  <1>3. PICK a \in Nat : a = n + 1
    OBVIOUS
  <1>4. /\ r1 \in Rings /\ r1.pushed = n + 1 /\ r1.setup_stage_map = ring.setup_stage_map
        /\ r1.trbs[Position(n)] = SetupStageTRB(request)
        /\ \A s \in Slots : s # Position(n) => r1.trbs[s] = ring.trbs[s]
    BY <1>2, Pushed
  <1> HIDE DEF r1
  <1>5. r1.pushed = a /\ r1 \in Rings
    BY <1>3, <1>4
  <1>6. /\ r2 \in Rings /\ r2.pushed = a + 1 /\ r2.setup_stage_map = r1.setup_stage_map
        /\ r2.trbs[Position(a)] = status
        /\ \A s \in Slots : s # Position(a) => r2.trbs[s] = r1.trbs[s]
    BY <1>2, <1>5, Pushed
  <1> HIDE DEF r2
  <1>7. r2.pushed = n + 2
    BY <1>3, <1>6
  <1>8. /\ r \in Rings /\ r.pushed = r2.pushed /\ r.trbs = r2.trbs
        /\ r.setup_stage_map = Put(r2.setup_stage_map, Position(n + 1), Position(n))
    BY <1>1, <1>6, <1>7, RegisteredRing
  <1>9. /\ Position(n) \in Slots /\ Position(a) \in Slots /\ Position(n) # Position(a)
        /\ Position(a) = Position(n + 1)
    BY <1>3, Neighbours
  <1>10. /\ r.pushed = n + 2
         /\ r.setup_stage_map = Put(ring.setup_stage_map, Position(n + 1), Position(n))
    BY <1>4, <1>6, <1>7, <1>8
  <1>11. r.trbs[Position(n)] = SetupStageTRB(request)
    BY <1>4, <1>6, <1>8, <1>9
  <1>12. r.trbs[Position(n + 1)] = status
    BY <1>6, <1>8, <1>9
  <1>13. \A s \in Slots \ {Position(n), Position(n + 1)} : r.trbs[s] = ring.trbs[s]
    BY <1>4, <1>6, <1>8, <1>9
  <1>14. status.type # "Setup" /\ r.pushed # n + 3
    BY <1>10 DEF status, StatusStageTRB
  <1> QED
    BY <1>8, <1>10, <1>11, <1>12, <1>13, <1>14 DEF Requested

\* A queue without its first element
LEMMA TailFacts ==
    ASSUME NEW S, NEW s \in Seq(S), s # <<>>
    PROVE  /\ 1 \in DOMAIN s /\ Head(s) = s[1] /\ Head(s) \in S
           /\ Tail(s) \in Seq(S) /\ Len(Tail(s)) = Len(s) - 1
           /\ \A k \in DOMAIN Tail(s) :
                 k \in Nat \ {0} /\ k + 1 \in DOMAIN s /\ Tail(s)[k] = s[k + 1]
           /\ \A k \in DOMAIN s : k \in Nat \ {0} /\ (k # 1 => k - 1 \in DOMAIN Tail(s))
  <1>1. Len(s) \in Nat /\ Len(s) # 0 /\ DOMAIN s = 1..Len(s)
    BY EmptySeq, LenProperties
  <1>2. /\ Tail(s) \in Seq(S) /\ Len(Tail(s)) = Len(s) - 1 /\ Head(s) \in S
        /\ \A i \in 1..Len(Tail(s)) : Tail(s)[i] = s[i + 1]
    BY HeadTailProperties
  <1>3. DOMAIN Tail(s) = 1..(Len(s) - 1)
    BY <1>2, LenProperties
  <1>4. Head(s) = s[1]
    OBVIOUS
  <1> QED
    BY <1>1, <1>2, <1>3, <1>4

\* A queue with another element
LEMMA AppendFacts ==
    ASSUME NEW S, NEW s \in Seq(S), NEW e \in S, NEW n, n = Len(s) + 1, NEW t, t = Append(s, e)
    PROVE  /\ t \in Seq(S) /\ Len(t) = n /\ n \in Nat \ {0} /\ n - 1 = Len(s)
           /\ DOMAIN t = DOMAIN s \cup {n} /\ n \notin DOMAIN s
           /\ t[n] = e /\ \A k \in DOMAIN s : t[k] = s[k]
  <1>1. Len(s) \in Nat /\ DOMAIN s = 1..Len(s)
    BY LenProperties
  <1>2. /\ t \in Seq(S) /\ Len(t) = Len(s) + 1
        /\ \A i \in 1..Len(s) : t[i] = s[i]
        /\ t[Len(s) + 1] = e
    BY AppendProperties
  <1>3. DOMAIN t = 1..(Len(s) + 1)
    BY <1>2, LenProperties
  <1> QED
    BY <1>1, <1>2, <1>3

\* The map of the ring without the request of the event
LEMMA ForgottenRing ==
    ASSUME TransferTypes, events # <<>>, NEW r, r = Forgotten(ep0)
    PROVE  /\ r \in Rings /\ r.pushed = ep0.pushed /\ r.trbs = ep0.trbs
           /\ r.setup_stage_map = Delete(ep0.setup_stage_map, Head(events).trb)
  <1>1. events \in Seq(Events) /\ ep0 \in Rings
    BY DEF TransferTypes
  <1>2. Head(events) \in Events
    BY <1>1, TailFacts
  <1>3. Head(events).trb \in Slots /\ ep0.setup_stage_map \in [1..MapSize -> SUBSET Entries]
    BY <1>1, <1>2 DEF Events, Rings
  <1> DEFINE map == Delete(ep0.setup_stage_map, Head(events).trb)
  <1>4. map \in [1..MapSize -> SUBSET Entries]
    BY <1>3, MapTypes
  <1>5. r = [ep0 EXCEPT !.setup_stage_map = map]
    BY DEF Forgotten
  <1> HIDE DEF map
  <1>6. /\ r \in Rings /\ r.setup_stage_map = map /\ r.pushed = ep0.pushed /\ r.trbs = ep0.trbs
    BY <1>1, <1>4, <1>5, RingWithMap
  <1> QED
    BY <1>6 DEF map

\* The requests of the driver
LEMMA RequestTypes ==
    /\ GetDescriptor(1) \in Requests /\ GetDescriptor(2) \in Requests
    /\ \A v \in 0..255 : SetConfiguration(v) \in Requests /\ SetProtocol(v) \in Requests
  BY DEF GetDescriptor, SetConfiguration, SetProtocol, Requests

\* Init is as the types say.
LEMMA InitTransferTypes == Init => TransferTypes
  <1> SUFFICES ASSUME Init PROVE TransferTypes
    OBVIOUS
  <1>1. TransfersInit
    BY DEF Init
  <1>2. EmptyMap(MapSize) \in [1..MapSize -> SUBSET Entries]
    BY DEF EmptyMap
  <1>3. NoRequest \in Requests
    BY DEF NoRequest, Requests
  <1>4. StatusStageTRB(FALSE) \in TRBs
    BY <1>3, StageTypes
  <1>5. [i \in 0..(RingSize - 2) |-> StatusStageTRB(FALSE)] \in [Slots -> TRBs]
    BY <1>4, Zenon DEF Slots
  <1>6. ep0 \in Rings
    BY <1>1, <1>2, <1>5 DEF TransfersInit, Rings
  <1>7. events \in Seq(Events) /\ executed \in Nat /\ setup \in Requests /\ armed \in [Dcis -> Nat]
    BY <1>1, <1>3 DEF TransfersInit
  <1>8. plugged \in BOOLEAN
    BY Zenon DEF Init
  <1> QED
    BY <1>6, <1>7, <1>8 DEF TransferTypes

\* The value that SetConfiguration is given is that of the configuration descriptor.
LEMMA ConfigurationValue ==
    ASSUME DescriptorInv, InterfaceAt # 0, buf[1].type = "Configuration"
    PROVE  SetConfiguration(buf[1].value) \in Requests
  <1>1. BufInv
    BY DEF DescriptorInv
  <1>2. buf = Prefix /\ ConfigurationLength >= 2 /\ InterfaceAt \in 2..Len(buf)
    BY <1>1, InterfaceFound
  <1>3. /\ Len(buf) \in Nat /\ Len(Conf) \in Nat /\ Len(buf) <= Len(Conf)
        /\ \A i \in 1..Len(buf) : buf[i] = Conf[i]
        /\ \A i \in 1..Len(Conf) : Conf[i] \in Descriptors
    BY <1>1, <1>2, PrefixFacts DEF BufInv
  <1>4. 1 \in 1..Len(buf) /\ 1 \in 1..Len(Conf)
    BY <1>2, <1>3
  <1>5. buf[1] \in Descriptors
    BY <1>3, <1>4
  <1>6. buf[1].value \in 0..255
    BY <1>5 DEF Descriptors
  <1> QED
    BY <1>6, RequestTypes

\* The driver's steps leave a ring behind.
LEMMA RingStep ==
    ASSUME DescriptorInv, TransferTypes,
           \/ StartInitialize \/ InitializePhase1 \/ InitializePhase2 \/ InvalidPhase
           \/ InitializePhase3 \/ OnEndpointsConfigured \/ HidControlCompleted
    PROVE  ep0' \in Rings
  <1>1. ep0 \in Rings
    BY DEF TransferTypes
  <1>2. PICK n \in Nat : n = ep0.pushed
    BY <1>1 DEF Rings
  <1> DEFINE f == Forgotten(ep0)
  <1>3. ControlCompleted => f \in Rings /\ f.pushed = n
    BY <1>2, ForgottenRing DEF ControlCompleted, Completed
  <1> HIDE DEF f
  <1>4. CASE StartInitialize
    <2>1. ep0' = ControlIn(ep0, GetDescriptor(1))
      BY <1>4 DEF StartInitialize
    <2> QED
      BY <1>1, <1>2, <2>1, RequestTypes, ControlInRing
  <1>5. CASE InitializePhase1
    <2>1. ep0' = ControlIn(f, GetDescriptor(2)) /\ ControlCompleted
      BY <1>5 DEF InitializePhase1, f
    <2> QED
      BY <1>3, <2>1, RequestTypes, ControlInRing
  <1>6. CASE InitializePhase2
    <2>1. /\ ControlCompleted /\ buf[1].type = "Configuration"
          /\ \/ ep0' = ep0 \/ ep0' = f
             \/ InterfaceAt # 0 /\ ep0' = ControlOut(f, SetConfiguration(buf[1].value))
      BY <1>6 DEF InitializePhase2, Expected, f
    <2>2. CASE InterfaceAt # 0 /\ ep0' = ControlOut(f, SetConfiguration(buf[1].value))
      <3>1. PICK request \in Requests : request = SetConfiguration(buf[1].value)
        BY <2>1, <2>2, ConfigurationValue
      <3>2. ep0' = ControlOut(f, request)
        BY <2>2, <3>1
      <3> QED
        BY <1>3, <2>1, <3>2, ControlOutRing
    <2> QED
      BY <1>1, <1>3, <2>1, <2>2
  <1>7. CASE InvalidPhase \/ InitializePhase3 \/ HidControlCompleted
    BY <1>3, <1>7 DEF InvalidPhase, InitializePhase3, HidControlCompleted, f
  <1>8. CASE OnEndpointsConfigured
    <2>1. ep0' = ControlOut(ep0, SetProtocol(hid.interface))
      BY <1>8 DEF OnEndpointsConfigured
    <2>2. hid.interface \in 0..255
      BY DEF DescriptorInv, PhaseInv, Drivers
    <2>3. PICK request \in Requests : request = SetProtocol(hid.interface)
      BY <2>2, RequestTypes
    <2>4. ep0' = ControlOut(ep0, request)
      BY <2>1, <2>3
    <2> QED
      BY <1>1, <1>2, <2>4, ControlOutRing
  <1> QED
    BY <1>4, <1>5, <1>6, <1>7, <1>8

\* InterruptIn puts at most one Normal TRB on a ring.
LEMMA ArmedStep ==
    ASSUME armed \in [Dcis -> Nat], NEW d, InterruptIn(d)
    PROVE  /\ armed' \in [Dcis -> Nat]
           /\ d \in Dcis => armed'[d] \in {armed[d], armed[d] + 1}
           /\ \A e \in Dcis \ {d} : armed'[e] = armed[e]
  <1>1. CASE d \in Dcis
    BY <1>1 DEF InterruptIn
  <1>2. CASE d \notin Dcis
    <2>1. [armed EXCEPT ![d] = @ + 1] = armed
      BY <1>2
    <2> QED
      BY <1>2, <2>1 DEF InterruptIn
  <1> QED
    BY <1>1, <1>2

\* The event of an interrupt transfer
LEMMA InterruptStep ==
    ASSUME TransferTypes, NEW dci \in Dcis, NEW success \in BOOLEAN, NEW length \in 0..8,
           plugged' = plugged, HcInterrupt(dci, success, length)
    PROVE  /\ TransferTypes' /\ armed[dci] > 0 /\ armed'[dci] = armed[dci] - 1
           /\ \A e \in Dcis \ {dci} : armed'[e] = armed[e]
           /\ \E e \in Events : /\ e.dci = dci /\ e.success = success /\ e.length = length
                               /\ events' = Append(events, e)
  <1> DEFINE e == Event(dci, 0, success, NoRequest, length)
  <1>1. 0 \in Slots
    BY RingSizeAssumption DEF Slots
  <1>2. NoRequest \in Requests
    BY DEF NoRequest, Requests
  <1>3. e \in Events /\ e.dci = dci /\ e.length = length
    BY <1>1, <1>2 DEF Events, Event
  <1>4. e.success = success
    BY Zenon DEF Event
  <1>5. /\ armed[dci] > 0 /\ armed' = [armed EXCEPT ![dci] = @ - 1]
        /\ events' = Append(events, e)
        /\ ep0' = ep0 /\ executed' = executed /\ setup' = setup
    BY DEF HcInterrupt
  <1> HIDE DEF e
  <1>6. armed' \in [Dcis -> Nat] /\ armed'[dci] = armed[dci] - 1
        /\ \A x \in Dcis \ {dci} : armed'[x] = armed[x]
    BY <1>5 DEF TransferTypes
  <1>7. events' \in Seq(Events)
    BY <1>3, <1>5, AppendProperties DEF TransferTypes
  <1>8. TransferTypes'
    BY <1>5, <1>6, <1>7 DEF TransferTypes
  <1> QED
    BY <1>3, <1>4, <1>5, <1>6, <1>8

\* The controller at the control ring
LEMMA ControlStep ==
    ASSUME TransferTypes, NEW success \in BOOLEAN, HcControl(success, 0), plugged' = plugged
    PROVE  /\ TransferTypes' /\ armed' = armed
           /\ \/ events' = events
              \/ \E e \in Events : e.dci = 1 /\ events' = Append(events, e)
  <1> DEFINE at == Position(executed)
             trb == ep0.trbs[at]
             request == IF trb.type = "Setup" THEN trb.request ELSE setup
             e == Event(1, at, success, request, 0)
  <1>1. at \in Slots
    BY PositionType DEF TransferTypes
  <1>2. trb \in TRBs
    BY <1>1 DEF TransferTypes, Rings
  <1>3. request \in Requests
    BY <1>2 DEF TransferTypes, TRBs
  <1>4. e \in Events /\ e.dci = 1
    BY <1>1, <1>3 DEF Events, Event, Dcis
  <1>5. /\ events' = events \/ events' = Append(events, e)
        /\ armed' = armed /\ executed' = executed + 1 /\ setup' = request /\ ep0' = ep0
    BY DEF HcControl
  <1> HIDE DEF e, request
  <1>6. events' \in Seq(Events)
    BY <1>4, <1>5, AppendProperties DEF TransferTypes
  <1>7. TransferTypes'
    BY <1>3, <1>5, <1>6 DEF TransferTypes
  <1> QED
    BY <1>4, <1>5, <1>7

\* A report fits into the packets of the driver.
LEMMA ReportFits ==
    ASSUME BufInv, NEW r \in device.reports, Len(r) <= PacketSize
    PROVE  r \in Seq(0..255) /\ Len(r) \in 0..8 /\ Len(r) <= 8
  <1>1. r \in Seq(0..255)
    BY DevicesAssumption DEF BufInv, IsDevice
  <1>2. Len(r) \in Nat
    BY <1>1, LenProperties
  <1>3. PICK size \in 0..8 : size = PacketSize
    BY DEF PacketSize
  <1>4. PICK length \in Nat : length = Len(r)
    BY <1>2
  <1>5. length <= size
    BY <1>3, <1>4
  <1>6. length \in 0..8 /\ length <= 8
    BY <1>5
  <1> QED
    BY <1>1, <1>4, <1>6

\* What the steps do with the events: they take the oldest, or they add one.
LEMMA EventStep ==
    ASSUME PollInv, [Next]_vars
    PROVE  \/ events' = events
           \/ events # <<>> /\ events' = Tail(events)
           \/ HcControlTransfer \/ HcReport \/ HcReportFails
  <1>1. CASE InitializePhase1 \/ InitializePhase2 \/ InvalidPhase \/ InitializePhase3
             \/ HidControlCompleted
    BY <1>1 DEF InitializePhase1, InitializePhase2, InvalidPhase, InitializePhase3,
                HidControlCompleted, ControlCompleted, Completed, Pop
  <1>2. CASE TransferFailed \/ Evaluate
    BY <1>2 DEF TransferFailed, Evaluate, Completed, Pop
  <1>3. CASE StartInitialize \/ CompleteConfiguration \/ OnEndpointsConfigured
             \/ ConfigurationCompleted \/ Keep \/ Unplug \/ UNCHANGED vars
    BY <1>3 DEF StartInitialize, CompleteConfiguration, OnEndpointsConfigured,
                ConfigurationCompleted, Keep, Unplug, vars, transfer_vars
  <1>4. CASE Rearm
    BY <1>4 DEF Rearm, Pop, PollInv
  <1> QED
    BY <1>1, <1>2, <1>3, <1>4 DEF Next, Driver

\* The transfers stay within their types.
LEMMA StepTransferTypes ==
    DescriptorInv /\ TransferTypes /\ PollInv /\ [Next]_vars => TransferTypes'
  <1> SUFFICES ASSUME DescriptorInv, TransferTypes, PollInv, [Next]_vars PROVE TransferTypes'
    OBVIOUS
  <1>1. CASE HcControlTransfer
    <2>1. PICK success \in BOOLEAN : HcControl(success, 0)
      <3>1. PICK success \in {FALSE, plugged} : HcControl(success, 0)
        BY <1>1, Zenon DEF HcControlTransfer
      <3>2. success \in BOOLEAN
        BY DEF TransferTypes
      <3> QED
        BY <3>1, <3>2
    <2>2. plugged' = plugged
      BY <1>1 DEF HcControlTransfer
    <2> QED
      BY <2>1, <2>2, ControlStep
  <1>2. CASE HcReport
    <2>1. PICK dci \in Dcis, r \in device.reports :
             Len(r) <= PacketSize /\ HcInterrupt(dci, TRUE, Len(r))
      BY <1>2 DEF HcReport
    <2>2. Len(r) \in 0..8 /\ plugged' = plugged
      BY <1>2, <2>1, ReportFits DEF DescriptorInv, HcReport
    <2> QED
      BY <2>1, <2>2, InterruptStep
  <1>3. CASE HcReportFails
    <2>1. PICK dci \in Dcis, failed \in {FALSE}, none \in {0} : HcInterrupt(dci, failed, none)
      BY <1>3 DEF HcReportFails
    <2>2. failed \in BOOLEAN /\ none \in 0..8 /\ plugged' = plugged
      BY <1>3 DEF HcReportFails
    <2> QED
      BY <2>1, <2>2, InterruptStep
  <1>4. CASE ~(HcControlTransfer \/ HcReport \/ HcReportFails)
    <2>1. events' \in Seq(Events)
      <3>1. events \in Seq(Events)
        BY DEF TransferTypes
      <3>2. events # <<>> => Tail(events) \in Seq(Events)
        BY <3>1, TailFacts
      <3> QED
        BY <1>4, <3>1, <3>2, EventStep
    <2>2. ep0' \in Rings
      <3>1. \/ StartInitialize \/ InitializePhase1 \/ InitializePhase2 \/ InvalidPhase
            \/ InitializePhase3 \/ OnEndpointsConfigured \/ HidControlCompleted \/ ep0' = ep0
        BY <1>4 DEF Next, Driver, CompleteConfiguration, ConfigurationCompleted, TransferFailed,
                    Evaluate, Keep, Rearm, Unplug, vars, transfer_vars
      <3> QED
        BY <3>1, RingStep DEF TransferTypes
    <2>3. armed' \in [Dcis -> Nat]
      <3>1. armed' = armed \/ InterruptIn(hid.ep_interrupt_in)
        BY <1>4 DEF Next, Driver, StartInitialize, InitializePhase1, InitializePhase2, InvalidPhase,
             InitializePhase3, CompleteConfiguration, OnEndpointsConfigured, ConfigurationCompleted,
             HidControlCompleted, TransferFailed, Evaluate, Keep, Rearm, Unplug, vars, transfer_vars
      <3> QED
        BY <3>1, ArmedStep DEF TransferTypes
    <2>4. executed' \in Nat /\ setup' \in Requests
      BY <1>4 DEF TransferTypes, Next, Driver, StartInitialize, InitializePhase1, InitializePhase2,
           InvalidPhase, InitializePhase3, CompleteConfiguration, OnEndpointsConfigured,
           ConfigurationCompleted, HidControlCompleted, TransferFailed, Evaluate, Keep, Rearm,
           Unplug, vars, transfer_vars
    <2>5. plugged' \in BOOLEAN
      BY <1>4 DEF TransferTypes, Next, Driver, StartInitialize, InitializePhase1, InitializePhase2,
           InvalidPhase, InitializePhase3, CompleteConfiguration, OnEndpointsConfigured,
           ConfigurationCompleted, HidControlCompleted, TransferFailed, Evaluate, Keep, Rearm,
           Unplug, vars
    <2> QED
      BY <2>1, <2>2, <2>3, <2>4, <2>5 DEF TransferTypes
  <1> QED
    BY <1>1, <1>2, <1>3, <1>4

-----------------------------------------------------------------------------
(* The invariant of the reports                                             *)

Batches == (UNION {[D -> 0..255] : D \in SUBSET (2..7)}) \cup [1..3 -> Int]

\* What is to be notified of report n
Batch(reports, n) == IF hid.kind = "keyboard" THEN NewKeys(reports, n) ELSE Movement(reports, n)

\* The reports that are evaluated, and the one that previous_buf_ holds
Told == IF Waiting # {} /\ pc \notin {"keep", "rearm"} THEN Len(sent) - 1 ELSE Len(sent)
Kept == IF Waiting # {} /\ pc # "rearm" THEN Len(sent) - 1 ELSE Len(sent)

\* The buffers of the driver hold what the device has said.
ReportInv ==
    /\ sent \in Seq(Seq(0..255)) /\ \A n \in 1..Len(sent) : Len(sent[n]) <= 8
    /\ notified \in Seq(Batches)
    /\ hid.phase # 2 => sent = <<>>
    /\ \A k \in Waiting : sent # <<>> /\ events[k].length = Len(sent[Len(sent)])
    /\ report = Said(sent, Len(sent)) /\ previous = Said(sent, Kept)
    /\ Len(notified) = Told
    /\ \A n \in 1..Told : notified[n] = Batch(sent, n)

\* A byte of report n, if the report is that long, replaces what was said before.
LEMMA SaidNext ==
    ASSUME NEW s, NEW n \in Nat \ {0}, NEW b \in 0..7,
           \A k \in 1..n : s[k] \in Seq(0..255)
    PROVE  Said(s, n)[b] = IF b < Len(s[n]) THEN s[n][b + 1] ELSE Said(s, n - 1)[b]
  <1> DEFINE S == {k \in 1..n : b < Len(s[k])}
             T == {k \in 1..(n - 1) : b < Len(s[k])}
  <1>1. Said(s, n)[b] = IF S = {} THEN 0 ELSE s[Max(S)][b + 1]
    BY DEF Said
  <1>2. Said(s, n - 1)[b] = IF T = {} THEN 0 ELSE s[Max(T)][b + 1]
    BY DEF Said
  <1>3. CASE b < Len(s[n])
    <2>1. n \in S /\ S \in SUBSET (1..n) /\ \A k \in S : k <= n
      BY <1>3
    <2> HIDE DEF S
    <2>2. Max(S) = n
      <3>1. Max(S) \in S /\ \A x \in S : x <= Max(S)
        BY <2>1, Greatest
      <3>2. PICK m \in 1..n : m = Max(S)
        BY <2>1, <3>1
      <3>3. n <= m
        BY <2>1, <3>1, <3>2
      <3> QED
        BY <3>2, <3>3
    <2> QED
      BY <1>1, <1>3, <2>1, <2>2
  <1>4. CASE ~(b < Len(s[n]))
    <2>1. S = T
      BY <1>4
    <2> QED
      BY <1>1, <1>2, <1>4, <2>1
  <1> QED
    BY <1>3, <1>4

\* What has been said depends on the reports so far.
LEMMA SaidSame ==
    ASSUME NEW s, NEW t, NEW n \in Nat, \A k \in 1..n : t[k] = s[k]
    PROVE  Said(t, n) = Said(s, n)
  <1> SUFFICES ASSUME NEW b \in 0..7 PROVE Said(t, n)[b] = Said(s, n)[b]
    BY DEF Said
  <1> DEFINE S == {k \in 1..n : b < Len(s[k])}
             T == {k \in 1..n : b < Len(t[k])}
  <1>1. S = T
    OBVIOUS
  <1>2. Said(s, n)[b] = IF S = {} THEN 0 ELSE s[Max(S)][b + 1]
    BY DEF Said
  <1>3. Said(t, n)[b] = IF T = {} THEN 0 ELSE t[Max(T)][b + 1]
    BY DEF Said
  <1>4. S # {} => Max(S) \in 1..n
    <2>1. S \in SUBSET (1..n)
      OBVIOUS
    <2> HIDE DEF S
    <2> QED
      BY <2>1, Greatest
  <1> QED
    BY <1>1, <1>2, <1>3, <1>4

\* What has been said are bytes.
LEMMA SaidTypes ==
    ASSUME NEW s, NEW n \in Nat, \A k \in 1..n : s[k] \in Seq(0..255)
    PROVE  Said(s, n) \in [0..7 -> 0..255]
  <1> SUFFICES ASSUME NEW b \in 0..7 PROVE Said(s, n)[b] \in 0..255
    BY DEF Said
  <1> DEFINE S == {k \in 1..n : b < Len(s[k])}
  <1>1. Said(s, n)[b] = IF S = {} THEN 0 ELSE s[Max(S)][b + 1]
    BY DEF Said
  <1>2. CASE S # {}
    <2>1. S \in SUBSET (1..n) /\ \A k \in S : b < Len(s[k])
      OBVIOUS
    <2> HIDE DEF S
    <2>2. Max(S) \in S
      BY <1>2, <2>1, Greatest
    <2>3. s[Max(S)] \in Seq(0..255) /\ b < Len(s[Max(S)])
      BY <2>1, <2>2
    <2>4. Len(s[Max(S)]) \in Nat
      BY <2>3, LenProperties
    <2>5. b + 1 \in 1..Len(s[Max(S)])
      BY <2>3, <2>4
    <2>6. s[Max(S)][b + 1] \in 0..255
      BY <2>3, <2>5, ElementOfSeq
    <2> QED
      BY <1>1, <1>2, <2>6
  <1>3. CASE S = {}
    BY <1>1, <1>3
  <1> QED
    BY <1>2, <1>3

\* The events of interrupt transfers are as before, c places on.
Moved(c) ==
    /\ \A k \in DOMAIN events' : events'[k].dci # 1 =>
          k \in Nat /\ k + c \in DOMAIN events /\ events'[k] = events[k + c]
    /\ \A k \in Waiting : k \in Nat /\ k - c \in DOMAIN events' /\ events'[k - c] = events[k]

\* Events of endpoint 0, and failures, come and go.
LEMMA QueueMoves ==
    ASSUME TransferTypes,
           \/ events' = events
           \/ \E e \in Events : e.dci = 1 /\ events' = Append(events, e)
           \/ /\ events # <<>> /\ events' = Tail(events)
              /\ Head(events).dci = 1 \/ ~Head(events).success
    PROVE  \E c \in {0, 1} : Moved(c)
  <1>1. events \in Seq(Events)
    BY DEF TransferTypes
  <1>2. \A k \in DOMAIN events : k \in Nat /\ k + 0 = k /\ k - 0 = k
    BY <1>1, LenProperties
  <1>3. CASE events' = events
    <2>1. \A k \in DOMAIN events' : k \in DOMAIN events /\ events'[k] = events[k]
      BY <1>3
    <2>2. Moved(0)
      BY <1>2, <1>3, <2>1 DEF Moved, Waiting
    <2> QED
      BY <2>2
  <1>4. CASE \E e \in Events : e.dci = 1 /\ events' = Append(events, e)
    <2>1. PICK e \in Events : e.dci = 1 /\ events' = Append(events, e)
      BY <1>4
    <2>2. PICK n : n = Len(events) + 1
      OBVIOUS
    <2>3. /\ DOMAIN events' = DOMAIN events \cup {n} /\ events'[n] = e
          /\ \A k \in DOMAIN events : events'[k] = events[k]
      BY <1>1, <2>1, <2>2, AppendFacts
    <2> QED
      BY <1>2, <2>1, <2>3 DEF Moved, Waiting
  <1>5. CASE /\ events # <<>> /\ events' = Tail(events)
             /\ Head(events).dci = 1 \/ ~Head(events).success
    <2>1. /\ Head(events) = events[1]
          /\ \A k \in DOMAIN events' : k \in Nat /\ k + 1 \in DOMAIN events /\ events'[k] = events[k + 1]
          /\ \A k \in DOMAIN events : k \in Nat /\ (k # 1 => k - 1 \in DOMAIN events')
      BY <1>1, <1>5, TailFacts
    <2>2. \A k \in Waiting : k \in DOMAIN events /\ k # 1
      BY <1>5, <2>1 DEF Waiting
    <2>3. \A k \in Waiting : /\ k \in Nat /\ k - 1 \in DOMAIN events' /\ k - 1 + 1 = k
      BY <2>1, <2>2
    <2>4. Moved(1)
      BY <2>1, <2>3 DEF Moved
    <2> QED
      BY <2>4
  <1> QED
    BY <1>3, <1>4, <1>5

\* A step that sets no interrupt transfer going
LEMMA PollMoves ==
    ASSUME PollInv, NEW c \in {0, 1}, Moved(c), armed' = armed, armed \in [Dcis -> Nat],
           hid' = hid \/ hid.phase # 2,
           pc' \in {"keep", "rearm"} => pc' = pc /\ events' # <<>> /\ Head(events') = Head(events)
    PROVE  PollInv'
  <1>1. \A k \in DOMAIN events' : events'[k].dci # 1 =>
            k \in Nat /\ k + c \in DOMAIN events /\ events'[k] = events[k + c]
    BY DEF Moved
  <1>2. \A d \in Dcis : armed'[d] > 0 =>
            /\ armed'[d] = 1 /\ d = hid'.ep_interrupt_in /\ hid'.phase = 2
            /\ \A k \in DOMAIN events' : events'[k].dci = 1
    BY <1>1 DEF PollInv
  <1>3. \A k \in DOMAIN events' :
            events'[k].dci # 1 => events'[k].dci = hid'.ep_interrupt_in /\ hid'.phase = 2
    BY <1>1 DEF PollInv
  <1>4. ASSUME NEW k \in DOMAIN events', NEW l \in DOMAIN events', events'[k].dci # 1,
               events'[l].dci # 1
        PROVE  k = l
    <2>1. k + c = l + c
      BY <1>1, <1>4 DEF PollInv
    <2>2. k \in Nat /\ l \in Nat
      BY <1>1, <1>4
    <2> QED
      BY <2>1, <2>2
  <1>5. pc' \in {"keep", "rearm"} =>
            events' # <<>> /\ Head(events').dci # 1 /\ Head(events').success
    BY DEF PollInv
  <1> QED
    BY <1>2, <1>3, <1>4, <1>5 DEF PollInv

\* A step that has nothing to do with reports
LEMMA ReportMoves ==
    ASSUME ReportInv, NEW c \in {0, 1}, Moved(c), UNCHANGED report_vars,
           hid' = hid \/ hid.phase # 2,
           pc' = pc \/ (pc \notin {"keep", "rearm"} /\ pc' \notin {"keep", "rearm"})
    PROVE  ReportInv'
  <1>1. report' = report /\ previous' = previous /\ sent' = sent /\ notified' = notified
    BY DEF report_vars
  <1>2. \A k \in Waiting' : k + c \in Waiting /\ events'[k] = events[k + c]
    BY DEF Moved, Waiting
  <1>3. \A k \in Waiting : k - c \in Waiting'
    BY DEF Moved, Waiting
  <1>4. Waiting' = {} <=> Waiting = {}
    BY <1>2, <1>3
  <1>5. Told' = Told /\ Kept' = Kept
    BY <1>1, <1>4 DEF Told, Kept
  <1>6. \A k \in Waiting' : sent' # <<>> /\ events'[k].length = Len(sent'[Len(sent')])
    BY <1>1, <1>2 DEF ReportInv
  <1>7. \A n \in 1..Told' : notified'[n] = Batch(sent, n)'
    <2>1. CASE hid' = hid
      BY <1>1, <1>5, <2>1 DEF ReportInv, Batch
    <2>2. CASE hid.phase # 2
      <3>1. sent = <<>> /\ Waiting = {}
        BY <2>2 DEF ReportInv
      <3>2. Told = 0
        BY <3>1 DEF Told
      <3> QED
        BY <1>5, <3>2
    <2> QED
      BY <2>1, <2>2
  <1>8. hid'.phase # 2 => sent' = <<>>
    BY <1>1 DEF ReportInv
  <1> QED
    BY <1>1, <1>5, <1>6, <1>7, <1>8 DEF ReportInv

\* The steps that have nothing to do with reports
LEMMA QuietStep ==
    ASSUME DescriptorInv, TransferTypes, PollInv, ReportInv,
           \/ StartInitialize \/ InitializePhase1 \/ InitializePhase2 \/ InvalidPhase
           \/ InitializePhase3 \/ CompleteConfiguration \/ OnEndpointsConfigured
           \/ ConfigurationCompleted \/ (HidControlCompleted /\ armed' = armed)
           \/ TransferFailed \/ HcControlTransfer \/ Unplug \/ UNCHANGED vars
    PROVE  PollInv' /\ ReportInv'
  <1>1. events \in Seq(Events) /\ armed \in [Dcis -> Nat]
    BY DEF TransferTypes
  <1>2. initialize_phase < 4 => hid.phase = 0
    BY DEF DescriptorInv, PhaseInv
  <1>3. pc = "configured" => hid.phase # 2
    BY DEF DescriptorInv, PhaseInv
  <1>4. ASSUME \E c \in {0, 1} : Moved(c), armed' = armed, UNCHANGED report_vars,
               hid' = hid \/ hid.phase # 2,
               \/ pc \notin {"keep", "rearm"} /\ pc' \notin {"keep", "rearm"}
               \/ pc' = pc /\ (events # <<>> => events' # <<>> /\ Head(events') = Head(events))
        PROVE  PollInv' /\ ReportInv'
    <2>1. PICK c \in {0, 1} : Moved(c)
      BY <1>4
    <2>2. pc' \in {"keep", "rearm"} => pc' = pc /\ events' # <<>> /\ Head(events') = Head(events)
      BY <1>4 DEF PollInv
    <2>3. pc' = pc \/ (pc \notin {"keep", "rearm"} /\ pc' \notin {"keep", "rearm"})
      BY <1>4
    <2> QED
      BY <1>1, <1>4, <2>1, <2>2, <2>3, PollMoves, ReportMoves
  <1>5. CASE StartInitialize \/ CompleteConfiguration \/ OnEndpointsConfigured \/ ConfigurationCompleted
    <2>1. /\ events' = events /\ armed' = armed /\ UNCHANGED report_vars
          /\ hid' = hid \/ pc = "configured"
          /\ pc \notin {"keep", "rearm"} /\ pc' \notin {"keep", "rearm"}
      BY <1>5 DEF StartInitialize, CompleteConfiguration, OnEndpointsConfigured,
                  ConfigurationCompleted, transfer_vars
    <2> QED
      BY <1>3, <1>4, <2>1, QueueMoves
  <1>6. CASE InitializePhase1 \/ InvalidPhase \/ InitializePhase2 \/ InitializePhase3
    <2>1. /\ events # <<>> /\ events' = Tail(events) /\ Head(events).dci = 1
          /\ armed' = armed /\ UNCHANGED report_vars /\ pc = "main" /\ pc' \in {"main", "lost"}
          /\ hid' = hid \/ initialize_phase \in {1, 2, 3}
      BY <1>6 DEF InitializePhase1, InvalidPhase, InitializePhase2, InitializePhase3, Expected,
                  ControlCompleted, Completed, Pop, driver_vars
    <2>2. initialize_phase \in {1, 2, 3} => hid.phase # 2
      BY <1>2
    <2> QED
      BY <1>4, <2>1, <2>2, QueueMoves
  <1>7. CASE HidControlCompleted /\ armed' = armed
    <2>1. /\ events # <<>> /\ events' = Tail(events) /\ Head(events).dci = 1
          /\ armed' = armed /\ UNCHANGED report_vars /\ pc = "main" /\ pc' \in {"main", "lost"}
          /\ hid' = hid \/ hid.phase = 1
      BY <1>7 DEF HidControlCompleted, FirstCompletion, ControlCompleted, Completed, Pop
    <2> QED
      BY <1>4, <2>1, QueueMoves
  <1>8. CASE TransferFailed
    <2>1. /\ events # <<>> /\ events' = Tail(events) /\ ~Head(events).success
          /\ armed' = armed /\ UNCHANGED report_vars /\ pc = "main" /\ pc' = "main" /\ hid' = hid
      BY <1>8 DEF TransferFailed, Pop, driver_vars
    <2> QED
      BY <1>4, <2>1, QueueMoves
  <1>9. CASE HcControlTransfer
    <2>1. PICK success \in {FALSE, plugged} : HcControl(success, 0)
      BY <1>9, Zenon DEF HcControlTransfer
    <2>2. UNCHANGED report_vars /\ pc' = pc /\ hid' = hid /\ plugged' = plugged
      BY <1>9 DEF HcControlTransfer, driver_vars
    <2>3. success \in BOOLEAN
      BY DEF TransferTypes
    <2>4. /\ armed' = armed
          /\ events' = events \/ \E e \in Events : e.dci = 1 /\ events' = Append(events, e)
      BY <2>1, <2>2, <2>3, ControlStep
    <2>5. events # <<>> => events' # <<>> /\ Head(events') = Head(events)
      <3>1. CASE events' = events
        BY <3>1
      <3>2. CASE \E e \in Events : e.dci = 1 /\ events' = Append(events, e)
        <4>1. PICK e \in Events : events' = Append(events, e)
          BY <3>2
        <4>2. PICK n : n = Len(events) + 1
          OBVIOUS
        <4>3. /\ events' \in Seq(Events) /\ events' # <<>>
              /\ \A k \in DOMAIN events : events'[k] = events[k]
          BY <1>1, <4>1, <4>2, AppendFacts, AppendProperties
        <4>4. events # <<>> => 1 \in DOMAIN events /\ Head(events) = events[1]
          BY <1>1, TailFacts
        <4>5. Head(events') = events'[1]
          BY <4>3, TailFacts
        <4> QED
          BY <4>3, <4>4, <4>5
      <3> QED
        BY <2>4, <3>1, <3>2
    <2> QED
      BY <1>4, <2>2, <2>4, <2>5, QueueMoves
  <1>10. CASE Unplug \/ UNCHANGED vars
    <2>1. /\ events' = events /\ armed' = armed /\ UNCHANGED report_vars /\ hid' = hid /\ pc' = pc
      BY <1>10 DEF Unplug, vars, transfer_vars, driver_vars
    <2> QED
      BY <1>4, <2>1, QueueMoves
  <1> QED
    BY <1>5, <1>6, <1>7, <1>8, <1>9, <1>10

\* The endpoint that the driver polls is an IN endpoint, and the driver is entered for it.
LEMMA InterruptEndpoint ==
    ASSUME DescriptorInv, hid.phase = 2, hid.ep_interrupt_in # 0
    PROVE  /\ hid.ep_interrupt_in \in 2..31 /\ IsIn(hid.ep_interrupt_in)
           /\ Number(hid.ep_interrupt_in) \in class_drivers
  <1>1. initialize_phase \in 0..4 /\ ~(initialize_phase < 4)
    BY DEF DescriptorInv, PhaseInv
  <1>2. initialize_phase = 4 /\ initialize_phase >= 3
    BY <1>1
  <1>3. PICK c \in Range(ep_configs) : IsInterruptIn(c) /\ c.ep_id = hid.ep_interrupt_in
    BY <1>2 DEF DescriptorInv, EndpointInv
  <1>4. /\ \E n \in 0..255 : n <= MaxEndpoints /\ ep_configs \in [1..n -> EPConfigs]
        /\ class_drivers = {Number(x.ep_id) : x \in Range(ep_configs)}
    BY <1>2 DEF DescriptorInv, ReadInv
  <1>5. c \in EPConfigs
    BY <1>4 DEF Range
  <1> QED
    BY <1>3, <1>4, <1>5 DEF EPConfigs, IsInterruptIn

\* The first request for a report
LEMMA HidControlReports ==
    ASSUME DescriptorInv, TransferTypes, PollInv, ReportInv, HidControlCompleted
    PROVE  PollInv' /\ ReportInv'
  <1>1. CASE armed' = armed
    BY <1>1, QuietStep
  <1>2. CASE armed' # armed
    <2>1. /\ events # <<>> /\ events' = Tail(events) /\ Head(events).dci = 1
          /\ hid.phase = 1 /\ hid' = [hid EXCEPT !.phase = 2] /\ pc = "main" /\ pc' = "main"
          /\ InterruptIn(hid.ep_interrupt_in) /\ UNCHANGED report_vars
      BY <1>2 DEF HidControlCompleted, FirstCompletion, ControlCompleted, Completed, Pop
    <2>2. hid \in Drivers
      BY DEF DescriptorInv, PhaseInv
    <2>3. hid'.phase = 2 /\ hid'.ep_interrupt_in = hid.ep_interrupt_in
      BY <2>1, <2>2 DEF Drivers
    <2>4. armed \in [Dcis -> Nat] /\ \A d \in Dcis : ~(armed[d] > 0)
      BY <2>1 DEF PollInv, TransferTypes
    <2>5. \A d \in Dcis : armed[d] = 0
      BY <2>4
    <2>6. \A k \in DOMAIN events : events[k].dci = 1
      BY <2>1 DEF PollInv
    <2>7. PICK c \in {0, 1} : Moved(c)
      BY <2>1, QueueMoves
    <2>8. \A k \in DOMAIN events' : events'[k].dci = 1
      BY <2>6, <2>7 DEF Moved
    <2>9. \A d \in Dcis : armed'[d] > 0 => armed'[d] = 1 /\ d = hid'.ep_interrupt_in
      <3> SUFFICES ASSUME NEW d \in Dcis, armed'[d] > 0 PROVE armed'[d] = 1 /\ d = hid'.ep_interrupt_in
        OBVIOUS
      <3>1. d # hid.ep_interrupt_in => armed'[d] = 0
        BY <2>1, <2>4, <2>5, ArmedStep
      <3>2. d = hid.ep_interrupt_in => armed'[d] \in {0, 1}
        <4>1. d = hid.ep_interrupt_in => armed'[d] \in {armed[d], armed[d] + 1}
          BY <2>1, <2>4, ArmedStep
        <4> QED
          BY <2>5, <4>1
      <3> QED
        BY <2>3, <3>1, <3>2
    <2>10. PollInv'
      BY <2>1, <2>3, <2>8, <2>9 DEF PollInv
    <2>11. ReportInv'
      BY <2>1, <2>7, ReportMoves
    <2> QED
      BY <2>10, <2>11
  <1> QED
    BY <1>1, <1>2

\* An interrupt transfer comes to its end, with a report or without.
LEMMA InterruptPoll ==
    ASSUME DescriptorInv, TransferTypes, PollInv, NEW dci \in Dcis, NEW success \in BOOLEAN,
           NEW length \in 0..8, HcInterrupt(dci, success, length), plugged' = plugged,
           hid' = hid, pc' = pc
    PROVE  /\ PollInv' /\ Waiting = {} /\ pc \notin {"keep", "rearm"} /\ hid.phase = 2
           /\ success => \A k \in Waiting' : events'[k].length = length
           /\ success <=> Waiting' # {}
  <1>1. /\ armed[dci] > 0 /\ armed'[dci] = armed[dci] - 1
        /\ \A x \in Dcis \ {dci} : armed'[x] = armed[x]
    BY InterruptStep
  <1>2. PICK e \in Events : /\ e.dci = dci /\ e.success = success /\ e.length = length
                            /\ events' = Append(events, e)
    BY InterruptStep
  <1>3. /\ armed[dci] = 1 /\ dci = hid.ep_interrupt_in /\ hid.phase = 2
        /\ \A k \in DOMAIN events : events[k].dci = 1
    BY <1>1 DEF PollInv
  <1>4. dci # 1
    <2>1. dci # 0
      BY DEF Dcis
    <2> QED
      BY <1>3, <2>1, InterruptEndpoint
  <1>5. events \in Seq(Events) /\ armed \in [Dcis -> Nat]
    BY DEF TransferTypes
  <1>6. PICK n : n = Len(events) + 1
    OBVIOUS
  <1>7. /\ DOMAIN events' = DOMAIN events \cup {n} /\ n \notin DOMAIN events /\ events'[n] = e
        /\ \A k \in DOMAIN events : events'[k] = events[k]
    BY <1>2, <1>5, <1>6, AppendFacts
  <1>8. \A d \in Dcis : ~(armed'[d] > 0)
    <2> SUFFICES ASSUME NEW d \in Dcis, armed'[d] > 0 PROVE FALSE
      OBVIOUS
    <2>1. d # dci
      BY <1>1, <1>3
    <2>2. armed[d] > 0
      BY <1>1, <2>1
    <2> QED
      BY <1>3, <2>1, <2>2 DEF PollInv
  <1>9. pc \notin {"keep", "rearm"}
    <2>1. events # <<>> => 1 \in DOMAIN events /\ Head(events) = events[1]
      BY <1>5, TailFacts
    <2> QED
      BY <1>3, <2>1 DEF PollInv
  <1>10. PollInv'
    BY <1>2, <1>3, <1>7, <1>8, <1>9 DEF PollInv
  <1>11. Waiting = {}
    BY <1>3 DEF Waiting
  <1>12. Waiting' = IF success THEN {n} ELSE {}
    BY <1>2, <1>3, <1>4, <1>7 DEF Waiting
  <1> QED
    BY <1>2, <1>3, <1>7, <1>9, <1>10, <1>11, <1>12

\* The reports so far decide what is to be notified of the last of them.
LEMMA BatchSame ==
    ASSUME NEW s, NEW t, NEW n \in Nat \ {0}, \A k \in 1..n : t[k] = s[k]
    PROVE  NewKeys(t, n) = NewKeys(s, n) /\ Movement(t, n) = Movement(s, n)
  <1>1. Said(t, n) = Said(s, n)
    BY SaidSame
  <1>2. n - 1 \in Nat /\ \A k \in 1..(n - 1) : t[k] = s[k]
    OBVIOUS
  <1>3. Said(t, n - 1) = Said(s, n - 1)
    BY <1>2, SaidSame
  <1> QED
    BY <1>1, <1>3 DEF NewKeys, Movement

\* The device sends a report.
LEMMA HcReportReports ==
    ASSUME DescriptorInv, TransferTypes, PollInv, ReportInv, HcReport
    PROVE  PollInv' /\ ReportInv'
  <1>1. PICK dci \in Dcis, r \in device.reports :
           /\ Len(r) <= PacketSize /\ HcInterrupt(dci, TRUE, Len(r))
           /\ report' = [i \in 0..7 |-> IF i < Len(r) THEN r[i + 1] ELSE report[i]]
           /\ sent' = Append(sent, r)
    BY DEF HcReport
  <1>2. hid' = hid /\ pc' = pc /\ previous' = previous /\ notified' = notified /\ plugged' = plugged
    BY DEF HcReport, driver_vars
  <1>3. r \in Seq(0..255) /\ Len(r) \in 0..8
    BY <1>1, ReportFits DEF DescriptorInv
  <1>4. /\ PollInv' /\ Waiting = {} /\ Waiting' # {} /\ pc \notin {"keep", "rearm"} /\ hid.phase = 2
        /\ \A k \in Waiting' : events'[k].length = Len(r)
    BY <1>1, <1>2, <1>3, InterruptPoll
  <1>5. sent \in Seq(Seq(0..255)) /\ \A k \in 1..Len(sent) : Len(sent[k]) <= 8
    BY DEF ReportInv
  <1>6. Len(sent) \in Nat /\ DOMAIN sent = 1..Len(sent)
    BY <1>5, LenProperties
  <1>7. PICK n \in Nat \ {0} : n = Len(sent) + 1
    BY <1>6
  <1>8. /\ sent' \in Seq(Seq(0..255)) /\ Len(sent') = n /\ n - 1 = Len(sent)
        /\ sent'[n] = r /\ \A k \in DOMAIN sent : sent'[k] = sent[k]
    <2>1. PICK t : t = sent'
      OBVIOUS
    <2>2. t = Append(sent, r) /\ r \in Seq(0..255) /\ sent \in Seq(Seq(0..255))
      BY <1>1, <1>3, <1>5, <2>1
    <2>3. /\ t \in Seq(Seq(0..255)) /\ Len(t) = n /\ n - 1 = Len(sent)
          /\ t[n] = r /\ \A k \in DOMAIN sent : t[k] = sent[k]
      BY <1>7, <2>2, AppendFacts
    <2> QED BY <2>1, <2>3
  <1>9. \A k \in 1..(n - 1) : sent'[k] = sent[k]
    BY <1>6, <1>8
  <1>10. \A k \in 1..n : sent'[k] \in Seq(0..255) /\ Len(sent'[k]) <= 8
    <2>1. \A k \in 1..n : k = n \/ k \in 1..(n - 1)
      OBVIOUS
    <2>2. \A k \in 1..(n - 1) : sent[k] \in Seq(0..255) /\ Len(sent[k]) <= 8
      BY <1>5, <1>8, ElementOfSeq
    <2>3. \A k \in 1..(n - 1) : sent'[k] \in Seq(0..255) /\ Len(sent'[k]) <= 8
      BY <1>9, <2>2
    <2>4. sent'[n] \in Seq(0..255) /\ Len(sent'[n]) <= 8
      <3>1. sent'[n] = r
        BY <1>8
      <3>2. Len(r) <= 8
        BY <1>1, ReportFits DEF DescriptorInv
      <3> QED
        BY <1>3, <3>1, <3>2, Zenon
    <2> QED
      BY <2>1, <2>3, <2>4
  <1>11. n - 1 \in Nat
    OBVIOUS
  <1>12. Said(sent', n - 1) = Said(sent, n - 1)
    BY <1>9, <1>11, SaidSame
  <1>13. report = Said(sent, n - 1) /\ previous = Said(sent, n - 1)
    BY <1>4, <1>8 DEF ReportInv, Kept
  <1>14. report' = Said(sent', n)
    <2>1. \A b \in 0..7 : Said(sent', n)[b] = IF b < Len(r) THEN r[b + 1] ELSE report[b]
      <3>1. PICK t : t = sent'
        OBVIOUS
      <3>2. (\A k \in 1..n : t[k] \in Seq(0..255)) /\ t[n] = r
        BY <1>8, <1>10, <3>1
      <3>3. \A b \in 0..7 : Said(t, n)[b] = IF b < Len(t[n]) THEN t[n][b + 1] ELSE Said(t, n - 1)[b]
        BY <3>2, SaidNext
      <3>4. Said(t, n - 1) = report
        BY <1>12, <1>13, <3>1
      <3> QED
        BY <3>1, <3>2, <3>3, <3>4
    <2>2. Said(sent', n) = [b \in 0..7 |-> Said(sent', n)[b]]
      BY DEF Said
    <2> QED
      BY <1>1, <2>1, <2>2
  <1>15. Told = n - 1 /\ Told' = n - 1 /\ Kept' = n - 1
    BY <1>2, <1>4, <1>8 DEF Told, Kept
  <1>16. \A k \in 1..(n - 1) : notified'[k] = Batch(sent, k)'
    <2> SUFFICES ASSUME NEW k \in 1..(n - 1) PROVE notified'[k] = Batch(sent, k)'
      OBVIOUS
    <2>1. notified[k] = Batch(sent, k)
      BY <1>15 DEF ReportInv
    <2>2. k \in Nat \ {0} /\ \A j \in 1..k : sent'[j] = sent[j]
      BY <1>9
    <2>3. NewKeys(sent', k) = NewKeys(sent, k) /\ Movement(sent', k) = Movement(sent, k)
      BY <2>2, BatchSame
    <2> QED
      BY <1>2, <2>1, <2>3 DEF Batch
  <1>17. Len(notified') = n - 1 /\ notified' \in Seq(Batches)
    BY <1>2, <1>15 DEF ReportInv
  <1>18. sent' # <<>>
    BY <1>8
  <1>19. ReportInv'
    BY <1>2, <1>4, <1>8, <1>10, <1>12, <1>13, <1>14, <1>15, <1>16, <1>17, <1>18 DEF ReportInv
  <1> QED
    BY <1>4, <1>19

\* The transfer fails.
LEMMA HcReportFailsReports ==
    ASSUME DescriptorInv, TransferTypes, PollInv, ReportInv, HcReportFails
    PROVE  PollInv' /\ ReportInv'
  <1>1. PICK dci \in Dcis, failed \in {FALSE}, none \in {0} : HcInterrupt(dci, failed, none)
    BY DEF HcReportFails
  <1>2. failed \in BOOLEAN /\ ~failed /\ none \in 0..8
    OBVIOUS
  <1>3. hid' = hid /\ pc' = pc /\ plugged' = plugged
        /\ report' = report /\ previous' = previous /\ sent' = sent /\ notified' = notified
    BY DEF HcReportFails, driver_vars, report_vars
  <1>4. PollInv' /\ Waiting = {} /\ Waiting' = {}
    BY <1>1, <1>2, <1>3, InterruptPoll
  <1>5. Told' = Told /\ Kept' = Kept
    BY <1>3, <1>4 DEF Told, Kept
  <1>6. \A n \in 1..Told' : notified'[n] = Batch(sent, n)'
    BY <1>3, <1>5 DEF ReportInv, Batch
  <1>7. ReportInv'
    BY <1>3, <1>4, <1>5, <1>6 DEF ReportInv
  <1> QED
    BY <1>4, <1>7

\* The endpoint that the driver has none of is none.
LEMMA NoDciZero == 0 \notin Dcis
  BY DEF Dcis

\* While an event of an interrupt transfer is handled, it is the only one.
LEMMA EventHandled ==
    ASSUME DescriptorInv, TransferTypes, PollInv, ReportInv,
           events # <<>>, Head(events).dci # 1, Head(events).success
    PROVE  /\ Waiting = {1} /\ Head(events) = events[1] /\ 1 \in DOMAIN events
           /\ hid.phase = 2 /\ Head(events).dci = hid.ep_interrupt_in
           /\ hid.ep_interrupt_in \in 2..31 /\ IsIn(hid.ep_interrupt_in)
           /\ Number(hid.ep_interrupt_in) \in class_drivers
           /\ \A d \in Dcis : ~(armed[d] > 0)
           /\ Len(sent) \in Nat \ {0} /\ Head(events).length = Len(sent[Len(sent)])
  <1>1. events \in Seq(Events)
    BY DEF TransferTypes
  <1>2. 1 \in DOMAIN events /\ Head(events) = events[1] /\ Head(events) \in Events
    BY <1>1, TailFacts
  <1>3. 1 \in Waiting
    BY <1>2 DEF Waiting
  <1>4. Waiting = {1}
    BY <1>2, <1>3 DEF Waiting, PollInv
  <1>5. hid.phase = 2 /\ Head(events).dci = hid.ep_interrupt_in
    BY <1>2 DEF PollInv
  <1>6. hid.ep_interrupt_in # 0
    <2>1. PICK e \in Events : e = Head(events)
      BY <1>2
    <2>2. e.dci \in Dcis
      BY DEF Events
    <2> QED
      BY <1>5, <2>1, <2>2, NoDciZero, Zenon
  <1>7. \A d \in Dcis : ~(armed[d] > 0)
    BY <1>2 DEF PollInv
  <1>8. sent \in Seq(Seq(0..255)) /\ sent # <<>> /\ events[1].length = Len(sent[Len(sent)])
    BY <1>3 DEF ReportInv
  <1>9. Len(sent) \in Nat \ {0}
    BY <1>8, EmptySeq, LenProperties
  <1> QED
    BY <1>2, <1>4, <1>5, <1>6, <1>7, <1>8, <1>9, InterruptEndpoint

\* What OnDataReceived notifies of the last report
LEMMA DataReceived ==
    ASSUME ReportInv, NEW n \in Nat \ {0}, n = Len(sent), Kept = n - 1
    PROVE  OnDataReceived = Batch(sent, n) /\ OnDataReceived \in Batches
  <1>1. report = Said(sent, n) /\ previous = Said(sent, n - 1) /\ n - 1 \in Nat
    BY DEF ReportInv
  <1>2. \A k \in 1..n : sent[k] \in Seq(0..255)
    BY ElementOfSeq DEF ReportInv
  <1>3. report \in [0..7 -> 0..255]
    BY <1>1, <1>2, SaidTypes
  <1>4. previous \in [0..7 -> 0..255]
    <2>1. \A k \in 1..(n - 1) : sent[k] \in Seq(0..255)
      BY <1>2
    <2> QED
      BY <1>1, <2>1, SaidTypes
  <1>5. PushedKeys = NewKeys(sent, n)
    <2>1. \A i \in 2..7 : Held(i, report[i]) <=> ~\A c \in 0..7 : previous[c] # report[i]
      BY <1>4 DEF Held, Range
    <2> DEFINE D == {i \in 2..7 : report[i] # 0 /\ ~Held(i, report[i])}
               E == {b \in 2..7 : report[b] # 0 /\ \A c \in 0..7 : previous[c] # report[b]}
    <2>2. D = E
      BY <2>1
    <2>3. PushedKeys = [i \in D |-> report[i]]
      BY DEF PushedKeys
    <2>4. NewKeys(sent, n) = [b \in E |-> report[b]]
      BY <1>1 DEF NewKeys
    <2> HIDE DEF D, E
    <2> QED
      BY <2>2, <2>3, <2>4
  <1>6. <<report[0], Signed(report[1]), Signed(report[2])>> = Movement(sent, n)
    BY <1>1 DEF Movement
  <1>7. PushedKeys \in Batches
    <2> DEFINE D == {i \in 2..7 : report[i] # 0 /\ ~Held(i, report[i])}
    <2>1. D \in SUBSET (2..7) /\ \A i \in D : report[i] \in 0..255
      <3>1. \A i \in 2..7 : i \in 0..7
        OBVIOUS
      <3>2. \A i \in 2..7 : report[i] \in 0..255
        BY <1>3, <3>1
      <3> QED
        BY <3>2
    <2>2. PushedKeys = [i \in D |-> report[i]]
      BY DEF PushedKeys
    <2> HIDE DEF D
    <2>3. PushedKeys \in [D -> 0..255]
      BY <2>1, <2>2
    <2>4. [D -> 0..255] \in {[F -> 0..255] : F \in SUBSET (2..7)}
      BY <2>1
    <2> QED
      BY <2>3, <2>4, Zenon DEF Batches
  <1>8. <<report[0], Signed(report[1]), Signed(report[2])>> \in Batches
    <2>1. report[0] \in Int /\ Signed(report[1]) \in Int /\ Signed(report[2]) \in Int
      <3>1. \A x \in 0..255 : x \in Int /\ Signed(x) \in Int
        BY DEF Signed
      <3>2. 0 \in 0..7 /\ 1 \in 0..7 /\ 2 \in 0..7
        OBVIOUS
      <3>3. report[0] \in 0..255 /\ report[1] \in 0..255 /\ report[2] \in 0..255
        BY <1>3, <3>2
      <3> QED
        BY <3>1, <3>3
    <2>2. <<report[0], Signed(report[1]), Signed(report[2])>> \in [1..3 -> Int]
      BY <2>1
    <2> QED
      BY <2>2 DEF Batches
  <1> QED
    BY <1>5, <1>6, <1>7, <1>8 DEF OnDataReceived, Batch

\* The report is evaluated.
LEMMA EvaluateReports ==
    ASSUME DescriptorInv, TransferTypes, PollInv, ReportInv, Evaluate
    PROVE  PollInv' /\ ReportInv'
  <1>1. /\ pc = "main" /\ events # <<>> /\ Head(events).success /\ Head(events).dci # 1
        /\ hid' = hid /\ armed' = armed /\ report' = report /\ previous' = previous /\ sent' = sent
    BY DEF Evaluate, Completed
  <1>2. /\ Waiting = {1} /\ Head(events).dci = hid.ep_interrupt_in
        /\ IsIn(hid.ep_interrupt_in) /\ Number(hid.ep_interrupt_in) \in class_drivers
        /\ Len(sent) \in Nat \ {0}
    BY <1>1, EventHandled
  <1>3. notified' = Append(notified, OnDataReceived) /\ pc' = "keep" /\ events' = events
    BY <1>2 DEF Evaluate
  <1>4. PollInv'
    BY <1>1, <1>3 DEF PollInv
  <1>5. PICK n \in Nat \ {0} : n = Len(sent)
    BY <1>2
  <1>6. Waiting' = Waiting
    BY <1>3 DEF Waiting
  <1>7. Told = n - 1 /\ Kept = n - 1 /\ Told' = n /\ Kept' = n - 1
    BY <1>1, <1>2, <1>3, <1>5, <1>6 DEF Told, Kept
  <1>8. OnDataReceived = Batch(sent, n) /\ OnDataReceived \in Batches
    BY <1>5, <1>7, DataReceived
  <1>9. notified \in Seq(Batches) /\ n = Len(notified) + 1
    BY <1>7 DEF ReportInv
  <1>10. DOMAIN notified = 1..(n - 1)
    BY <1>9, LenProperties
  <1>11. /\ notified' \in Seq(Batches) /\ Len(notified') = n /\ notified'[n] = OnDataReceived
         /\ \A k \in 1..(n - 1) : notified'[k] = notified[k]
    BY <1>3, <1>8, <1>9, <1>10, AppendFacts
  <1>12. \A k \in 1..n : notified'[k] = Batch(sent, k)
    <2>1. \A k \in 1..n : k = n \/ k \in 1..(n - 1)
      OBVIOUS
    <2>2. \A k \in 1..(n - 1) : notified[k] = Batch(sent, k)
      BY <1>7 DEF ReportInv
    <2> QED
      BY <1>8, <1>11, <2>1, <2>2
  <1>13. \A k \in 1..Told' : notified'[k] = Batch(sent, k)'
    BY <1>1, <1>7, <1>12 DEF Batch
  <1>14. \A k \in Waiting' : sent' # <<>> /\ events'[k].length = Len(sent'[Len(sent')])
    BY <1>1, <1>3, <1>6 DEF ReportInv
  <1>15. ReportInv'
    BY <1>1, <1>7, <1>11, <1>13, <1>14 DEF ReportInv
  <1> QED
    BY <1>4, <1>15

\* The report is kept.
LEMMA KeepReports ==
    ASSUME DescriptorInv, TransferTypes, PollInv, ReportInv, Keep
    PROVE  PollInv' /\ ReportInv'
  <1>1. /\ pc = "keep" /\ pc' = "rearm" /\ events' = events /\ armed' = armed /\ hid' = hid
        /\ report' = report /\ sent' = sent /\ notified' = notified
        /\ previous' = [i \in 0..7 |-> IF i < Head(events).length THEN report[i] ELSE previous[i]]
    BY DEF Keep, transfer_vars
  <1>2. events # <<>> /\ Head(events).dci # 1 /\ Head(events).success
    BY <1>1 DEF PollInv
  <1>3. /\ Waiting = {1} /\ Len(sent) \in Nat \ {0} /\ Head(events).length = Len(sent[Len(sent)])
    BY <1>2, EventHandled
  <1>4. PICK n \in Nat \ {0} : n = Len(sent)
    BY <1>3
  <1>5. Waiting' = Waiting
    BY <1>1 DEF Waiting
  <1>6. Told = n /\ Kept = n - 1 /\ Told' = n /\ Kept' = n
    BY <1>1, <1>3, <1>4, <1>5 DEF Told, Kept
  <1>7. previous' = Said(sent, n)
    <2>1. \A k \in 1..n : sent[k] \in Seq(0..255)
      BY <1>4, ElementOfSeq DEF ReportInv
    <2>2. \A b \in 0..7 : Said(sent, n)[b] = IF b < Len(sent[n]) THEN sent[n][b + 1]
                                             ELSE Said(sent, n - 1)[b]
      BY <2>1, SaidNext
    <2>3. report = Said(sent, n) /\ previous = Said(sent, n - 1)
      BY <1>4, <1>6 DEF ReportInv
    <2>4. \A b \in 0..7 : previous'[b] = Said(sent, n)[b]
      BY <1>1, <1>3, <1>4, <2>2, <2>3
    <2>5. Said(sent, n) = [b \in 0..7 |-> Said(sent, n)[b]]
      BY DEF Said
    <2>6. previous' = [b \in 0..7 |-> previous'[b]]
      BY <1>1
    <2> QED
      BY <2>4, <2>5, <2>6
  <1>8. PollInv'
    BY <1>1 DEF PollInv
  <1>9. \A k \in 1..Told' : notified'[k] = Batch(sent, k)'
    BY <1>1, <1>6 DEF ReportInv, Batch
  <1>10. \A k \in Waiting' : sent' # <<>> /\ events'[k].length = Len(sent'[Len(sent')])
    BY <1>1, <1>5 DEF ReportInv
  <1>11. ReportInv'
    BY <1>1, <1>4, <1>6, <1>7, <1>9, <1>10 DEF ReportInv
  <1> QED
    BY <1>8, <1>11

\* The next report is asked for.
LEMMA RearmReports ==
    ASSUME DescriptorInv, TransferTypes, PollInv, ReportInv, Rearm
    PROVE  PollInv' /\ ReportInv'
  <1>1. /\ pc = "rearm" /\ pc' = "main" /\ events' = Tail(events) /\ hid' = hid
        /\ InterruptIn(hid.ep_interrupt_in)
        /\ report' = report /\ previous' = previous /\ sent' = sent /\ notified' = notified
    BY DEF Rearm, Pop, report_vars
  <1>2. events # <<>> /\ Head(events).dci # 1 /\ Head(events).success
    BY <1>1 DEF PollInv
  <1>3. /\ Waiting = {1} /\ 1 \in DOMAIN events /\ Head(events) = events[1] /\ hid.phase = 2
        /\ \A d \in Dcis : ~(armed[d] > 0)
    BY <1>2, EventHandled
  <1>4. armed \in [Dcis -> Nat] /\ events \in Seq(Events)
    BY DEF TransferTypes
  <1>5. \A d \in Dcis : armed[d] = 0
    BY <1>3, <1>4
  <1>6. \A k \in DOMAIN events' : events'[k].dci = 1
    <2>1. \A k \in DOMAIN events' : k + 1 \in DOMAIN events /\ k + 1 # 1 /\ events'[k] = events[k + 1]
      BY <1>1, <1>2, <1>4, TailFacts
    <2>2. \A k \in DOMAIN events : events[k].dci # 1 => k = 1
      BY <1>2, <1>3 DEF PollInv
    <2> QED
      BY <2>1, <2>2
  <1>7. \A d \in Dcis : armed'[d] > 0 => armed'[d] = 1 /\ d = hid.ep_interrupt_in
    <2> SUFFICES ASSUME NEW d \in Dcis, armed'[d] > 0 PROVE armed'[d] = 1 /\ d = hid.ep_interrupt_in
      OBVIOUS
    <2>1. d # hid.ep_interrupt_in => armed'[d] = 0
      BY <1>1, <1>4, <1>5, ArmedStep
    <2>2. d = hid.ep_interrupt_in => armed'[d] \in {0, 1}
      <3>1. d = hid.ep_interrupt_in => armed'[d] \in {armed[d], armed[d] + 1}
        BY <1>1, <1>4, ArmedStep
      <3> QED
        BY <1>5, <3>1
    <2> QED
      BY <2>1, <2>2
  <1>8. PollInv'
    BY <1>1, <1>3, <1>6, <1>7 DEF PollInv
  <1>9. Waiting' = {}
    BY <1>6 DEF Waiting
  <1>10. Told' = Told /\ Kept' = Kept
    BY <1>1, <1>9 DEF Told, Kept
  <1>11. \A k \in 1..Told' : notified'[k] = Batch(sent, k)'
    BY <1>1, <1>10 DEF ReportInv, Batch
  <1>12. ReportInv'
    BY <1>1, <1>3, <1>9, <1>10, <1>11 DEF ReportInv
  <1> QED
    BY <1>8, <1>12

\* Nothing has been sent.
LEMMA InitReports == Init => PollInv /\ ReportInv
  <1> SUFFICES ASSUME Init PROVE PollInv /\ ReportInv
    OBVIOUS
  <1>1. /\ armed = [d \in Dcis |-> 0] /\ events = <<>> /\ pc = "start"
        /\ sent = <<>> /\ notified = <<>>
        /\ report = [i \in 0..7 |-> 0] /\ previous = [i \in 0..7 |-> 0]
    BY DEF Init, TransfersInit
  <1>2. DOMAIN events = {} /\ Waiting = {}
    BY <1>1 DEF Waiting
  <1>3. PollInv
    BY <1>1, <1>2 DEF PollInv
  <1>4. Len(sent) = 0 /\ Len(notified) = 0
    BY <1>1
  <1>5. Told = 0 /\ Kept = 0
    BY <1>2, <1>4 DEF Told, Kept
  <1>6. Said(sent, 0) = [i \in 0..7 |-> 0]
    <2>1. \A b \in 0..7 : {k \in 1..0 : b < Len(sent[k])} = {}
      OBVIOUS
    <2> QED
      BY <2>1 DEF Said
  <1>7. sent \in Seq(Seq(0..255)) /\ notified \in Seq(Batches)
    BY <1>1
  <1>8. ReportInv
    BY <1>1, <1>2, <1>4, <1>5, <1>6, <1>7 DEF ReportInv
  <1> QED
    BY <1>3, <1>8

\* The transfers and the reports stay sound.
THEOREM ReportsKept == Spec => [](TransferTypes /\ PollInv /\ ReportInv)
  <1>1. Init => TransferTypes /\ PollInv /\ ReportInv
    BY InitTransferTypes, InitReports
  <1>2. DescriptorInv /\ (TransferTypes /\ PollInv /\ ReportInv) /\ [Next]_vars
            => (TransferTypes /\ PollInv /\ ReportInv)'
    <2> SUFFICES ASSUME DescriptorInv, TransferTypes, PollInv, ReportInv, [Next]_vars
                 PROVE  TransferTypes' /\ PollInv' /\ ReportInv'
      OBVIOUS
    <2>1. TransferTypes'
      BY StepTransferTypes
    <2>2. PollInv' /\ ReportInv'
      BY QuietStep, HidControlReports, HcReportReports, HcReportFailsReports, EvaluateReports,
         KeepReports, RearmReports DEF Next, Driver
    <2> QED
      BY <2>1, <2>2
  <1> QED
    BY <1>1, <1>2, DescriptorsRead, PTL DEF Spec

\* Every report is notified once and unmixed with the one after it, for every device, however its
\* reports and the steps of the driver and the controller interleave.
THEOREM NotifiesReports == Spec => []ReportsNotified
  <1>1. ASSUME TransferTypes, PollInv, ReportInv PROVE ReportsNotified
    <2>1. sent \in Seq(Seq(0..255)) /\ Len(sent) \in Nat
      BY <1>1, LenProperties DEF ReportInv
    <2>2. Evaluated = Told
      <3>1. CASE Waiting = {}
        <4>1. pc \notin {"keep", "rearm"}
          <5>1. events # <<>> => 1 \in DOMAIN events /\ Head(events) = events[1]
            BY <1>1, TailFacts DEF TransferTypes
          <5> QED
            BY <1>1, <3>1, <5>1 DEF PollInv, Waiting
        <4>2. Cardinality(Waiting) = 0
          BY <3>1, FS_EmptySet
        <4> QED
          BY <2>1, <3>1, <4>1, <4>2 DEF Evaluated, Told
      <3>2. CASE Waiting # {}
        <4>1. PICK k \in Waiting : Waiting = {k}
          BY <1>1, <3>2 DEF PollInv, Waiting
        <4>2. Cardinality(Waiting) = 1
          BY <4>1, FS_Singleton
        <4> QED
          BY <2>1, <3>2, <4>2 DEF Evaluated, Told
      <3> QED
        BY <3>1, <3>2
    <2> QED
      BY <1>1, <2>2 DEF ReportInv, ReportsNotified, Batch
  <1> QED
    BY <1>1, ReportsKept, PTL

-----------------------------------------------------------------------------
(* The invariant of the control requests                                    *)

\* The requests since TRB b of the ring, by the numbers of their Setup TRBs; before b
\* everything is done.

\* They have their place on one lap of the ring. Setup TRBs, the TRBs behind them, which raise
\* the events, and TRBs that raise none
RingLive(ring, b, L) ==
    /\ b <= ring.pushed /\ ring.pushed <= b + (RingSize - 1)
    /\ \A n \in L : b <= n /\ n + 2 <= ring.pushed /\ n + 1 \notin L
    /\ \A n \in L : ring.trbs[Position(n)].type = "Setup" /\ ~ring.trbs[Position(n)].ioc
    /\ \A n \in L : ring.trbs[Position(n + 1)].type # "Setup"
    /\ \A x \in Nat : b <= x /\ x < ring.pushed =>
          x \in L \/ (\E n \in L : x = n + 1) \/ Silent(ring.trbs[Position(x)])

EntryOf(n) == [key |-> Position(n + 1), value |-> Position(n)]

HasEntry(map, n) == \E s \in 1..MapSize : EntryOf(n) \in map[s]

\* setup_stage_map_ has entries of them only.
MapLive(map, L) ==
    \A s \in 1..MapSize : \A e \in map[s] : map[s] = {e} /\ \E n \in L : e = EntryOf(n)

\* Where the controller is, unless the endpoint is halted; it may still be at the Status TRB
\* before b during the initialization.
ControllerAt(ring, done, stage, phase, b, L) ==
    /\ done <= ring.pushed
    /\ done >= b \/ (done + 1 = b /\ phase < 4 /\ Silent(ring.trbs[Position(done)]))
    /\ \A n \in L : done = n + 1 => stage = ring.trbs[Position(n)].request
    /\ \A n \in L : done <= n + 1 => HasEntry(ring.setup_stage_map, n)

IsControl(e) == e.success /\ e.dci = 1

\* The events that wait are those of requests that the controller has executed.
EventsLive(ring, evs, done, stopped, L) ==
    /\ \A k \in DOMAIN evs : IsControl(evs[k]) =>
          \E n \in L : /\ evs[k].trb = Position(n + 1)
                       /\ evs[k].request = ring.trbs[Position(n)].request
                       /\ HasEntry(ring.setup_stage_map, n)
                       /\ 1 \notin stopped => n + 1 < done
    /\ \A k, l \in DOMAIN evs :
          IsControl(evs[k]) /\ IsControl(evs[l]) /\ evs[k].trb = evs[l].trb => k = l

Live(ring, evs, done, stage, stopped, phase, b, L) ==
    /\ RingLive(ring, b, L) /\ MapLive(ring.setup_stage_map, L)
    /\ 1 \notin stopped => ControllerAt(ring, done, stage, phase, b, L)
    /\ EventsLive(ring, evs, done, stopped, L)

Most == IF MaxEndpoints < 15 THEN MaxEndpoints ELSE 15

\* The entries behind the first m are free.
FreeBehind(map, m) == \A s \in 1..MapSize : s > m => map[s] = {}

\* How many there are: one during the initialization, then one for every class driver
Stage(ring, phase, L, m) ==
    /\ FreeBehind(ring.setup_stage_map, m)
    /\ phase < 4 => m <= 1 /\ \A n \in L : ring.pushed <= n + 3 /\ \A l \in L : n = l
    /\ phase = 3 => \A n \in L : ring.pushed = n + 2

Counted(b, m) ==
    /\ command => m = 0 /\ ep0.pushed = b
    /\ pc = "configured" => ep0.pushed = b + 2 * m /\ m + untold <= Most
    /\ pc = "start" => m = 0 /\ ep0.pushed = b

RequestsLive(b, m, L) ==
    /\ Live(ep0, events, executed, setup, halted, initialize_phase, b, L)
    /\ Stage(ep0, initialize_phase, L, m)
    /\ Counted(b, m)

RequestInv == \E b \in Nat, m \in Nat, L \in SUBSET Nat : RequestsLive(b, m, L)

\* Two TRBs of a lap that have the same place are the same.
LEMMA SamePosition ==
    ASSUME NEW b \in Nat, NEW n \in Nat, NEW l \in Nat, b <= n, b <= l,
           n < b + (RingSize - 1), l < b + (RingSize - 1), Position(n) = Position(l)
    PROVE  n = l
  <1>1. RingSize \in Nat
    BY RingSizeAssumption
  <1>2. ASSUME n < l PROVE FALSE
    <2>1. l < n + (RingSize - 1)
      BY <1>1, <1>2
    <2> QED
      BY <1>2, <2>1, PositionsDiffer
  <1>3. ASSUME l < n PROVE FALSE
    <2>1. n < l + (RingSize - 1)
      BY <1>1, <1>3
    <2> QED
      BY <1>3, <2>1, PositionsDiffer
  <1> QED
    BY <1>2, <1>3

\* The requests have places of their own.
LEMMA RequestPlaces ==
    ASSUME NEW ring \in Rings, NEW b \in Nat, NEW L \in SUBSET Nat, RingLive(ring, b, L)
    PROVE  /\ \A n, l \in L : Position(n + 1) = Position(l + 1) => n = l
           /\ \A n \in L : Position(n) \in Slots /\ Position(n + 1) \in Slots
  <1>1. ring.pushed \in Nat /\ RingSize \in Nat
    BY RingSizeAssumption DEF Rings
  <1>2. ring.pushed <= b + (RingSize - 1) /\ \A n \in L : b <= n /\ n + 2 <= ring.pushed
    BY DEF RingLive
  <1>3. \A n \in L : n \in Nat /\ n + 1 \in Nat /\ b <= n + 1 /\ n + 1 < b + (RingSize - 1)
    BY <1>1, <1>2
  <1>4. ASSUME NEW n \in L, NEW l \in L, Position(n + 1) = Position(l + 1) PROVE n = l
    <2>1. PICK x \in Nat, y \in Nat : x = n + 1 /\ y = l + 1
      BY <1>3
    <2>2. /\ b <= x /\ b <= y /\ x < b + (RingSize - 1) /\ y < b + (RingSize - 1)
          /\ Position(x) = Position(y)
      BY <1>3, <1>4, <2>1
    <2>3. x = y
      BY <2>2, SamePosition
    <2> QED
      BY <1>3, <2>1, <2>3
  <1>5. \A n \in L : Position(n) \in Slots /\ Position(n + 1) \in Slots
    BY <1>3, PositionType
  <1> QED
    BY <1>4, <1>5

\* t is the map with the entry of n, among the first m + 1 ones.
Filled(map, t, m, n) ==
    \E f \in 1..MapSize : /\ f <= m + 1 /\ map[f] = {} /\ t[f] = {EntryOf(n)}
                          /\ \A s \in (1..MapSize) \ {f} : t[s] = map[s]

\* Put takes a free entry, of which there is one behind the first m.
LEMMA PutEntry ==
    ASSUME NEW map \in [1..MapSize -> SUBSET Entries], NEW m \in Nat, m + 1 <= MapSize,
           FreeBehind(map, m), NEW n, NEW t, t = Put(map, Position(n + 1), Position(n))
    PROVE  Filled(map, t, m, n)
  <1> DEFINE free == {i \in DOMAIN map : map[i] = {}}
             f == FirstOf(free)
  <1>1. m + 1 \in 1..MapSize /\ m + 1 > m
    BY MapSizeAssumption
  <1>2. m + 1 \in free /\ free \in SUBSET (1..MapSize)
    BY <1>1 DEF FreeBehind
  <1>3. t = [map EXCEPT ![f] = {EntryOf(n)}]
    BY <1>2 DEF Put, EntryOf
  <1>4. \A i \in free : map[i] = {}
    OBVIOUS
  <1> HIDE DEF free
  <1>5. f \in free /\ f <= m + 1
    BY <1>2, FirstEntry
  <1> HIDE DEF f
  <1>6. f \in 1..MapSize /\ map[f] = {}
    BY <1>2, <1>4, <1>5
  <1>7. t[f] = {EntryOf(n)} /\ \A s \in (1..MapSize) \ {f} : t[s] = map[s]
    BY <1>3, <1>6
  <1> QED
    BY <1>5, <1>6, <1>7 DEF Filled

PlacesDiffer(L) == \A n, l \in L : Position(n + 1) = Position(l + 1) => n = l

\* t is the map without the entry of n.
Emptied(map, t, n) ==
    \E f \in 1..MapSize : /\ map[f] = {EntryOf(n)} /\ t[f] = {}
                          /\ \A s \in (1..MapSize) \ {f} : t[s] = map[s]

\* Delete empties the entry of a request.
LEMMA DeleteEntry ==
    ASSUME NEW map \in [1..MapSize -> SUBSET Entries], NEW L \in SUBSET Nat, MapLive(map, L),
           PlacesDiffer(L),
           NEW n \in L, HasEntry(map, n), NEW t, t = Delete(map, Position(n + 1))
    PROVE  Emptied(map, t, n)
  <1> DEFINE T == EntriesOf(map, Position(n + 1))
             f == FirstOf(T)
  <1>1. T \in SUBSET (1..MapSize) /\ \A s \in T : \E e \in map[s] : e.key = Position(n + 1)
    BY DEF EntriesOf
  <1>2. PICK s \in 1..MapSize : EntryOf(n) \in map[s]
    BY DEF HasEntry
  <1>3. EntryOf(n).key = Position(n + 1)
    BY DEF EntryOf
  <1>4. s \in T
    BY <1>2, <1>3 DEF EntriesOf
  <1>5. t = [map EXCEPT ![f] = {}]
    BY <1>4 DEF Delete
  <1> HIDE DEF T
  <1>6. f \in T
    BY <1>1, <1>4, FirstEntry
  <1> HIDE DEF f
  <1>7. PICK e \in map[f] : e.key = Position(n + 1)
    BY <1>1, <1>6
  <1>8. map[f] = {e} /\ \E l \in L : e = EntryOf(l)
    BY <1>1, <1>6, <1>7 DEF MapLive
  <1>9. PICK l \in L : e = EntryOf(l)
    BY <1>8
  <1>10. Position(l + 1) = Position(n + 1)
    BY <1>7, <1>9 DEF EntryOf
  <1>11. l = n
    BY <1>10 DEF PlacesDiffer
  <1>12. t[f] = {} /\ \A x \in (1..MapSize) \ {f} : t[x] = map[x]
    BY <1>1, <1>5, <1>6
  <1> QED
    BY <1>1, <1>6, <1>8, <1>9, <1>11, <1>12 DEF Emptied

\* With the invariant, the event of a control request leads to its Setup TRB.
LEMMA LiveKept ==
    ASSUME ep0 \in Rings, NEW b \in Nat, NEW L \in SUBSET Nat, RingLive(ep0, b, L),
           MapLive(ep0.setup_stage_map, L), EventsLive(ep0, events, executed, halted, L)
    PROVE  SetupStageKept
  <1> SUFFICES ASSUME NEW k \in DOMAIN events, events[k].success, events[k].dci = 1
               PROVE  \E i \in Get(ep0.setup_stage_map, events[k].trb) :
                          ep0.trbs[i] = SetupStageTRB(events[k].request)
    BY DEF SetupStageKept
  <1>1. PICK n \in L : /\ events[k].trb = Position(n + 1)
                       /\ events[k].request = ep0.trbs[Position(n)].request
                       /\ HasEntry(ep0.setup_stage_map, n)
    BY DEF EventsLive, IsControl
  <1>2. PICK map \in [1..MapSize -> SUBSET Entries] : map = ep0.setup_stage_map
    BY DEF Rings
  <1> DEFINE T == EntriesOf(map, Position(n + 1))
             f == FirstOf(T)
  <1>3. T \in SUBSET (1..MapSize) /\ \A s \in T : \E e \in map[s] : e.key = Position(n + 1)
    BY DEF EntriesOf
  <1>4. PICK s \in 1..MapSize : EntryOf(n) \in map[s]
    BY <1>1, <1>2 DEF HasEntry
  <1>5. EntryOf(n).key = Position(n + 1)
    BY DEF EntryOf
  <1>6. s \in T
    BY <1>4, <1>5 DEF EntriesOf
  <1>7. Get(map, Position(n + 1)) = {e.value : e \in map[f]}
    BY <1>6 DEF Get
  <1> HIDE DEF T
  <1>8. f \in T
    BY <1>3, <1>6, FirstEntry
  <1> HIDE DEF f
  <1>9. PICK e \in map[f] : e.key = Position(n + 1)
    BY <1>3, <1>8
  <1>10. PICK l \in L : e = EntryOf(l)
    BY <1>2, <1>3, <1>8, <1>9 DEF MapLive
  <1>11. Position(l + 1) = Position(n + 1) /\ e.value = Position(l)
    BY <1>9, <1>10 DEF EntryOf
  <1>12. l = n
    BY <1>11, RequestPlaces
  <1>13. Position(n) \in Get(map, Position(n + 1))
    BY <1>7, <1>9, <1>11, <1>12
  <1>14. ep0.trbs[Position(n)] = SetupStageTRB(ep0.trbs[Position(n)].request)
    <2>1. ep0.trbs[Position(n)].type = "Setup" /\ ~ep0.trbs[Position(n)].ioc
      BY DEF RingLive
    <2>2. PICK trb \in TRBs : trb = ep0.trbs[Position(n)]
      BY RequestPlaces DEF Rings
    <2> QED
      BY <2>1, <2>2 DEF TRBs, SetupStageTRB
  <1> QED
    BY <1>1, <1>2, <1>13, <1>14

\* The controller goes on, or the endpoint is halted: the events stay as they are.
LEMMA EventsOlder ==
    ASSUME NEW ring, NEW evs, NEW done \in Nat, NEW stopped, NEW L \in SUBSET Nat,
           EventsLive(ring, evs, done, stopped, L),
           NEW next \in Nat, done <= next, NEW halt, 1 \notin halt => 1 \notin stopped
    PROVE  EventsLive(ring, evs, next, halt, L)
  <1>1. ASSUME NEW k \in DOMAIN evs, IsControl(evs[k])
        PROVE  \E n \in L : /\ evs[k].trb = Position(n + 1)
                            /\ evs[k].request = ring.trbs[Position(n)].request
                            /\ HasEntry(ring.setup_stage_map, n)
                            /\ 1 \notin halt => n + 1 < next
    <2>1. PICK n \in L : /\ evs[k].trb = Position(n + 1)
                         /\ evs[k].request = ring.trbs[Position(n)].request
                         /\ HasEntry(ring.setup_stage_map, n)
                         /\ 1 \notin stopped => n + 1 < done
      BY <1>1 DEF EventsLive
    <2>2. n \in Nat /\ (1 \notin halt => n + 1 < next)
      BY <2>1
    <2> QED
      BY <2>1, <2>2
  <1>2. \A k, l \in DOMAIN evs :
           IsControl(evs[k]) /\ IsControl(evs[l]) /\ evs[k].trb = evs[l].trb => k = l
    BY DEF EventsLive
  <1> QED
    BY <1>1, <1>2 DEF EventsLive

\* An event more, that of a request which the controller has just executed or none of a request
LEMMA EventAdded ==
    ASSUME NEW ring, NEW evs \in Seq(Events), NEW done \in Nat, NEW stopped, NEW L \in SUBSET Nat,
           EventsLive(ring, evs, done, stopped, L),
           NEW next \in Nat, done <= next, NEW halt, 1 \notin halt => 1 \notin stopped,
           NEW e \in Events, NEW more, more = Append(evs, e),
           IsControl(e) =>
               /\ \E n \in L : /\ e.trb = Position(n + 1)
                               /\ e.request = ring.trbs[Position(n)].request
                               /\ HasEntry(ring.setup_stage_map, n) /\ n + 1 < next
               /\ \A k \in DOMAIN evs : IsControl(evs[k]) => evs[k].trb # e.trb
    PROVE  EventsLive(ring, more, next, halt, L)
  <1>1. PICK i \in Nat : i = Len(evs) + 1
    BY LenProperties
  <1>2. /\ DOMAIN more = DOMAIN evs \cup {i} /\ i \notin DOMAIN evs
        /\ more[i] = e /\ \A k \in DOMAIN evs : more[k] = evs[k]
    BY <1>1, AppendFacts
  <1>3. EventsLive(ring, evs, next, halt, L)
    BY EventsOlder
  <1>4. \A k \in DOMAIN more : IsControl(more[k]) =>
           \E n \in L : /\ more[k].trb = Position(n + 1)
                        /\ more[k].request = ring.trbs[Position(n)].request
                        /\ HasEntry(ring.setup_stage_map, n)
                        /\ 1 \notin halt => n + 1 < next
    BY <1>2, <1>3 DEF EventsLive
  <1>5. \A k, l \in DOMAIN more :
           IsControl(more[k]) /\ IsControl(more[l]) /\ more[k].trb = more[l].trb => k = l
    BY <1>2, <1>3 DEF EventsLive
  <1> QED
    BY <1>4, <1>5 DEF EventsLive

\* What HcControl does, with e for the event it may raise
Executes(ring, evs, done, stage, stopped, success, request, halt, e, more) ==
    LET trb == ring.trbs[Position(done)]
    IN /\ 1 \notin stopped /\ done < ring.pushed
       /\ request = IF trb.type = "Setup" THEN trb.request ELSE stage
       /\ halt = IF success THEN stopped ELSE stopped \cup {1}
       /\ e.dci = 1 /\ e.trb = Position(done) /\ e.success = success /\ e.request = request
       /\ more = IF trb.ioc \/ ~success THEN Append(evs, e) ELSE evs

\* The controller executes TRB done: a Setup TRB, the TRB behind one, or one that is silent.
LEMMA ExecutedLive ==
    ASSUME NEW ring \in Rings, NEW evs \in Seq(Events), NEW done \in Nat, NEW stage, NEW stopped,
           NEW phase, NEW b \in Nat, NEW L \in SUBSET Nat,
           Live(ring, evs, done, stage, stopped, phase, b, L),
           NEW success \in BOOLEAN, NEW request, NEW halt, NEW e \in Events, NEW more,
           Executes(ring, evs, done, stage, stopped, success, request, halt, e, more)
    PROVE  Live(ring, more, done + 1, request, halt, phase, b, L)
  <1>1. PICK trb : trb = ring.trbs[Position(done)]
    OBVIOUS
  <1>2. /\ 1 \notin stopped /\ done < ring.pushed
        /\ request = IF trb.type = "Setup" THEN trb.request ELSE stage
        /\ halt = IF success THEN stopped ELSE stopped \cup {1}
        /\ more = IF trb.ioc \/ ~success THEN Append(evs, e) ELSE evs
    BY <1>1 DEF Executes
  <1>3. e.dci = 1 /\ e.trb = Position(done) /\ e.request = request
    BY DEF Executes
  <1>4. e.success = success
    BY Zenon DEF Executes
  <1>5. /\ RingLive(ring, b, L) /\ MapLive(ring.setup_stage_map, L)
        /\ ControllerAt(ring, done, stage, phase, b, L)
        /\ EventsLive(ring, evs, done, stopped, L)
    BY <1>2 DEF Live
  <1>6. PICK next \in Nat : next = done + 1 /\ done <= next
    OBVIOUS
  <1>7. ring.pushed \in Nat /\ (1 \notin halt => 1 \notin stopped)
    BY <1>2 DEF Rings
  <1>8. CASE ~success
    <2>1. 1 \in halt
      BY <1>2, <1>8
    <2>2. ~IsControl(e)
      BY <1>4, <1>8 DEF IsControl
    <2>3. more = Append(evs, e)
      BY <1>2, <1>8
    <2>4. EventsLive(ring, more, next, halt, L)
      BY <1>5, <1>6, <1>7, <2>2, <2>3, EventAdded
    <2> QED
      BY <1>5, <1>6, <2>1, <2>4 DEF Live
  <1>9. CASE success /\ done \in L
    <2>1. trb.type = "Setup" /\ ~trb.ioc
      BY <1>1, <1>5, <1>9 DEF RingLive
    <2>2. more = evs /\ request = trb.request
      BY <1>2, <1>9, <2>1
    <2>3. EventsLive(ring, evs, next, halt, L)
      BY <1>5, <1>6, <1>7, EventsOlder
    <2>4. ControllerAt(ring, next, request, phase, b, L)
      <3>1. b <= done
        BY <1>5, <1>9 DEF RingLive
      <3>2. next <= ring.pushed /\ next >= b
        BY <1>2, <1>6, <1>7, <3>1
      <3>3. ASSUME NEW n \in L, next = n + 1 PROVE request = ring.trbs[Position(n)].request
        <4>1. n = done
          BY <1>6, <3>3
        <4> QED
          BY <1>1, <2>2, <4>1
      <3>4. ASSUME NEW n \in L, next <= n + 1 PROVE HasEntry(ring.setup_stage_map, n)
        <4>1. done <= n + 1
          BY <1>6, <3>4
        <4> QED
          BY <1>5, <4>1 DEF ControllerAt
      <3> QED
        BY <3>2, <3>3, <3>4 DEF ControllerAt
    <2> QED
      BY <1>5, <1>6, <2>2, <2>3, <2>4 DEF Live
  <1>10. ASSUME success, NEW n \in L, done = n + 1
        PROVE  Live(ring, more, done + 1, request, halt, phase, b, L)
    <2>1. trb.type # "Setup" /\ done \notin L /\ b <= n
      BY <1>1, <1>5, <1>10 DEF RingLive
    <2>2. request = stage /\ stage = ring.trbs[Position(n)].request
      BY <1>2, <1>5, <1>10, <2>1 DEF ControllerAt
    <2>3. HasEntry(ring.setup_stage_map, n)
      <3>1. done <= n + 1
        BY <1>10
      <3> QED
        BY <1>5, <3>1 DEF ControllerAt
    <2>4. \A k \in DOMAIN evs : IsControl(evs[k]) => evs[k].trb # e.trb
      <3> SUFFICES ASSUME NEW k \in DOMAIN evs, IsControl(evs[k]), evs[k].trb = e.trb PROVE FALSE
        OBVIOUS
      <3>1. PICK l \in L : evs[k].trb = Position(l + 1) /\ l + 1 < done
        BY <1>2, <1>5 DEF EventsLive
      <3>2. Position(l + 1) = Position(n + 1)
        BY <1>3, <1>10, <3>1
      <3>3. l = n
        BY <1>5, <3>2, RequestPlaces
      <3> QED
        BY <1>10, <3>1, <3>3
    <2>5. e.trb = Position(n + 1) /\ e.request = ring.trbs[Position(n)].request /\ n + 1 < next
      BY <1>3, <1>6, <1>10, <2>2
    <2>6. EventsLive(ring, evs, next, halt, L)
      BY <1>5, <1>6, <1>7, EventsOlder
    <2>7. \E l \in L : /\ e.trb = Position(l + 1)
                      /\ e.request = ring.trbs[Position(l)].request
                      /\ HasEntry(ring.setup_stage_map, l) /\ l + 1 < next
      BY <2>3, <2>5
    <2>8. PICK s : s = Append(evs, e)
      OBVIOUS
    <2>9. EventsLive(ring, s, next, halt, L)
      BY <1>5, <1>6, <1>7, <2>4, <2>7, <2>8, EventAdded
    <2>10. ControllerAt(ring, next, request, phase, b, L)
      <3>1. next <= ring.pushed /\ next >= b
        BY <1>2, <1>6, <1>7, <1>10, <2>1
      <3>2. \A l \in L : next # l + 1
        BY <1>6, <2>1
      <3>3. ASSUME NEW l \in L, next <= l + 1 PROVE HasEntry(ring.setup_stage_map, l)
        <4>1. done <= l + 1
          BY <1>6, <3>3
        <4> QED
          BY <1>5, <4>1 DEF ControllerAt
      <3> QED
        BY <3>1, <3>2, <3>3 DEF ControllerAt
    <2> QED
      BY <1>2, <1>5, <1>6, <2>6, <2>8, <2>9, <2>10 DEF Live
  <1>11. CASE success /\ Silent(trb) /\ done \notin L
    <2>1. more = evs
      BY <1>2, <1>11 DEF Silent
    <2>2. EventsLive(ring, evs, next, halt, L)
      BY <1>5, <1>6, <1>7, EventsOlder
    <2>3. ControllerAt(ring, next, request, phase, b, L)
      <3>1. next <= ring.pushed /\ next >= b
        <4>1. done >= b \/ done + 1 = b
          BY <1>5 DEF ControllerAt
        <4> QED
          BY <1>2, <1>6, <1>7, <4>1
      <3>2. ASSUME NEW l \in L, next = l + 1 PROVE FALSE
        <4>1. l = done
          BY <1>6, <3>2
        <4> QED
          BY <1>11, <4>1
      <3>3. ASSUME NEW l \in L, next <= l + 1 PROVE HasEntry(ring.setup_stage_map, l)
        <4>1. done <= l + 1
          BY <1>6, <3>3
        <4> QED
          BY <1>5, <4>1 DEF ControllerAt
      <3> QED
        BY <3>1, <3>2, <3>3 DEF ControllerAt
    <2> QED
      BY <1>5, <1>6, <2>1, <2>2, <2>3 DEF Live
  <1>12. done \in L \/ (\E n \in L : done = n + 1) \/ Silent(trb)
    BY <1>1, <1>2, <1>5 DEF ControllerAt, RingLive
  <1> QED
    BY <1>8, <1>9, <1>10, <1>11, <1>12

\* The oldest event is taken; no other event is of the same request.
LEMMA EventTaken ==
    ASSUME NEW ring, NEW evs \in Seq(Events), evs # <<>>, NEW done, NEW stopped, NEW L,
           EventsLive(ring, evs, done, stopped, L), NEW rest, rest = Tail(evs)
    PROVE  /\ EventsLive(ring, rest, done, stopped, L)
           /\ IsControl(Head(evs)) =>
                 \A k \in DOMAIN rest : IsControl(rest[k]) => rest[k].trb # Head(evs).trb
  <1>1. /\ 1 \in DOMAIN evs /\ Head(evs) = evs[1]
        /\ \A k \in DOMAIN rest :
              k \in Nat \ {0} /\ k + 1 \in DOMAIN evs /\ rest[k] = evs[k + 1]
    BY TailFacts
  <1>2. \A k \in DOMAIN rest : IsControl(rest[k]) =>
           \E n \in L : /\ rest[k].trb = Position(n + 1)
                        /\ rest[k].request = ring.trbs[Position(n)].request
                        /\ HasEntry(ring.setup_stage_map, n)
                        /\ 1 \notin stopped => n + 1 < done
    BY <1>1 DEF EventsLive
  <1>3. ASSUME NEW k \in DOMAIN rest, NEW l \in DOMAIN rest,
               IsControl(rest[k]), IsControl(rest[l]), rest[k].trb = rest[l].trb
        PROVE  k = l
    <2>1. k + 1 = l + 1
      BY <1>1, <1>3 DEF EventsLive
    <2> QED
      BY <1>1, <2>1
  <1>4. ASSUME IsControl(Head(evs)), NEW k \in DOMAIN rest, IsControl(rest[k]),
               rest[k].trb = Head(evs).trb
        PROVE  FALSE
    <2>1. k + 1 = 1
      BY <1>1, <1>4 DEF EventsLive
    <2> QED
      BY <1>1, <2>1
  <1> QED
    BY <1>2, <1>3, <1>4 DEF EventsLive

\* r is the ring without the entry of a request that the controller has executed.
Finished(ring, r, done, stopped, L) ==
    \E n \in L : /\ 1 \notin stopped => n + 1 < done
                 /\ Emptied(ring.setup_stage_map, r.setup_stage_map, n)

\* The event of a request is taken and its entry deleted; the other requests keep theirs.
LEMMA ForgottenLive ==
    ASSUME NEW ring \in Rings, NEW evs \in Seq(Events), evs # <<>>, NEW done \in Nat, NEW stage,
           NEW stopped, NEW phase, NEW b \in Nat, NEW L \in SUBSET Nat,
           Live(ring, evs, done, stage, stopped, phase, b, L), IsControl(Head(evs)),
           NEW r \in Rings, r.pushed = ring.pushed, r.trbs = ring.trbs,
           r.setup_stage_map = Delete(ring.setup_stage_map, Head(evs).trb),
           NEW rest, rest = Tail(evs)
    PROVE  /\ Live(r, rest, done, stage, stopped, phase, b, L)
           /\ Finished(ring, r, done, stopped, L)
  <1>1. /\ RingLive(ring, b, L) /\ MapLive(ring.setup_stage_map, L)
        /\ 1 \notin stopped => ControllerAt(ring, done, stage, phase, b, L)
        /\ EventsLive(ring, evs, done, stopped, L)
    BY DEF Live
  <1>2. 1 \in DOMAIN evs /\ Head(evs) = evs[1]
    BY TailFacts
  <1>3. PICK n \in L : /\ Head(evs).trb = Position(n + 1)
                       /\ HasEntry(ring.setup_stage_map, n)
                       /\ 1 \notin stopped => n + 1 < done
    BY <1>1, <1>2 DEF EventsLive
  <1>4. PICK map, t \in [1..MapSize -> SUBSET Entries] :
           map = ring.setup_stage_map /\ t = r.setup_stage_map
    BY DEF Rings
  <1>5. PlacesDiffer(L)
    BY <1>1, RequestPlaces DEF PlacesDiffer
  <1>6. MapLive(map, L) /\ HasEntry(map, n) /\ t = Delete(map, Position(n + 1))
    BY <1>1, <1>3, <1>4
  <1>7. PICK f \in 1..MapSize : /\ map[f] = {EntryOf(n)} /\ t[f] = {}
                                /\ \A s \in (1..MapSize) \ {f} : t[s] = map[s]
    <2>1. Emptied(map, t, n)
      BY <1>5, <1>6, DeleteEntry
    <2> QED
      BY <2>1 DEF Emptied
  <1>8. ASSUME NEW l \in L, l # n, HasEntry(map, l) PROVE HasEntry(t, l)
    <2>1. PICK s \in 1..MapSize : EntryOf(l) \in map[s]
      BY <1>8 DEF HasEntry
    <2>2. EntryOf(l) # EntryOf(n)
      BY <1>5, <1>8 DEF EntryOf, PlacesDiffer
    <2>3. s # f
      BY <1>7, <2>1, <2>2
    <2> QED
      BY <1>7, <2>1, <2>3 DEF HasEntry
  <1>9. MapLive(t, L)
    <2> SUFFICES ASSUME NEW s \in 1..MapSize, NEW e \in t[s]
                 PROVE  t[s] = {e} /\ \E l \in L : e = EntryOf(l)
      BY DEF MapLive
    <2>1. s # f /\ t[s] = map[s]
      BY <1>7
    <2> QED
      BY <1>6, <2>1 DEF MapLive
  <1>10. RingLive(r, b, L)
    BY <1>1 DEF RingLive
  <1>11. 1 \notin stopped => ControllerAt(r, done, stage, phase, b, L)
    <2> SUFFICES ASSUME 1 \notin stopped PROVE ControllerAt(r, done, stage, phase, b, L)
      OBVIOUS
    <2>1. ASSUME NEW l \in L, done <= l + 1 PROVE HasEntry(t, l)
      <3>1. HasEntry(map, l)
        BY <1>1, <1>4, <2>1 DEF ControllerAt
      <3>2. l # n
        BY <1>3, <2>1
      <3> QED
        BY <1>8, <3>1, <3>2
    <2> QED
      BY <1>1, <1>4, <2>1 DEF ControllerAt
  <1>12. EventsLive(r, rest, done, stopped, L)
    <2>1. /\ EventsLive(ring, rest, done, stopped, L)
          /\ \A k \in DOMAIN rest : IsControl(rest[k]) => rest[k].trb # Head(evs).trb
      BY <1>1, EventTaken
    <2>2. ASSUME NEW k \in DOMAIN rest, IsControl(rest[k])
          PROVE  \E l \in L : /\ rest[k].trb = Position(l + 1)
                              /\ rest[k].request = r.trbs[Position(l)].request
                              /\ HasEntry(r.setup_stage_map, l)
                              /\ 1 \notin stopped => l + 1 < done
      <3>1. PICK l \in L : /\ rest[k].trb = Position(l + 1)
                           /\ rest[k].request = ring.trbs[Position(l)].request
                           /\ HasEntry(ring.setup_stage_map, l)
                           /\ 1 \notin stopped => l + 1 < done
        BY <2>1, <2>2 DEF EventsLive
      <3>2. l # n
        BY <1>3, <2>1, <2>2, <3>1
      <3>3. HasEntry(t, l)
        BY <1>4, <1>8, <3>1, <3>2
      <3> QED
        BY <1>4, <3>1, <3>3
    <2> QED
      BY <2>1, <2>2 DEF EventsLive
  <1>13. Live(r, rest, done, stage, stopped, phase, b, L)
    BY <1>4, <1>9, <1>10, <1>11, <1>12 DEF Live
  <1>14. Emptied(ring.setup_stage_map, r.setup_stage_map, n)
    BY <1>4, <1>7 DEF Emptied
  <1> QED
    BY <1>3, <1>13, <1>14 DEF Finished

\* During the initialization there is one request, and with its event everything before the end
\* of the ring is done: the next one begins there.
LEMMA RebasedLive ==
    ASSUME NEW ring \in Rings, NEW evs, NEW done \in Nat, NEW stage, NEW stopped, NEW phase,
           NEW b \in Nat, NEW L \in SUBSET Nat, Live(ring, evs, done, stage, stopped, phase, b, L),
           \A s \in 1..MapSize : ring.setup_stage_map[s] = {},
           NEW n \in L, \A l \in L : l = n, ring.pushed <= n + 3, 1 \notin stopped => n + 1 < done,
           NEW next, next < 4 \/ ring.pushed = n + 2,
           NEW c \in Nat, c = ring.pushed
    PROVE  Live(ring, evs, done, stage, stopped, next, c, {})
  <1>1. /\ RingLive(ring, b, L) /\ (1 \notin stopped => ControllerAt(ring, done, stage, phase, b, L))
        /\ EventsLive(ring, evs, done, stopped, L)
    BY DEF Live
  <1>2. c <= c + (RingSize - 1) /\ \A x \in Nat : ~(c <= x /\ x < c)
    BY RingSizeAssumption
  <1>3. RingLive(ring, c, {})
    BY <1>2 DEF RingLive
  <1>4. MapLive(ring.setup_stage_map, {})
    BY DEF MapLive
  <1>5. \A l \in L : ~HasEntry(ring.setup_stage_map, l)
    BY DEF HasEntry
  <1>6. EventsLive(ring, evs, done, stopped, {})
    BY <1>1, <1>5 DEF EventsLive
  <1>7. ASSUME 1 \notin stopped PROVE ControllerAt(ring, done, stage, next, c, {})
    <2>1. done <= c /\ n + 1 < done /\ b <= n
      BY <1>1, <1>7 DEF ControllerAt, RingLive
    <2>2. done = c \/ (done + 1 = c /\ next < 4)
      BY <2>1
    <2>3. ASSUME done + 1 = c PROVE Silent(ring.trbs[Position(done)])
      <3>1. b <= done /\ done < ring.pushed /\ done # n /\ done # n + 1
        BY <2>1, <2>3
      <3>2. done \notin L /\ ~(\E l \in L : done = l + 1)
        BY <3>1
      <3> QED
        BY <1>1, <3>1, <3>2 DEF RingLive
    <2> QED
      BY <2>1, <2>2, <2>3 DEF ControllerAt
  <1> QED
    BY <1>3, <1>4, <1>6, <1>7 DEF Live

\* Another request, for which the lap of the ring and the map have room
LEMMA AddedLive ==
    ASSUME NEW ring \in Rings, NEW evs, NEW done \in Nat, NEW stage, NEW stopped, NEW phase,
           NEW b \in Nat, NEW L \in SUBSET Nat, Live(ring, evs, done, stage, stopped, phase, b, L),
           NEW r \in Rings, NEW n \in Nat, NEW request, Requested(ring, r, n, request),
           r.pushed <= b + (RingSize - 1), phase < 4 => n + 2 < b + (RingSize - 1),
           NEW m \in Nat, m + 1 <= MapSize,
           FreeBehind(ring.setup_stage_map, m)
    PROVE  /\ Live(r, evs, done, stage, stopped, phase, b, L \cup {n})
           /\ FreeBehind(r.setup_stage_map, m + 1)
  <1>1. /\ RingLive(ring, b, L) /\ MapLive(ring.setup_stage_map, L)
        /\ 1 \notin stopped => ControllerAt(ring, done, stage, phase, b, L)
        /\ EventsLive(ring, evs, done, stopped, L)
    BY DEF Live
  <1>2. PICK p \in Nat : p = r.pushed /\ (p = n + 2 \/ p = n + 3) /\ ring.pushed = n
    BY DEF Rings, Requested
  <1>3. PICK R \in Nat : R = RingSize - 1
    BY RingSizeAssumption
  <1>4. b <= n /\ p <= b + R /\ \A l \in L : l \in Nat /\ b <= l /\ l + 2 <= n
    BY <1>1, <1>2, <1>3 DEF RingLive
  <1>5. ASSUME NEW x \in Nat, b <= x, x < n
        PROVE  r.trbs[Position(x)] = ring.trbs[Position(x)]
    <2>1. x < n /\ n < x + R /\ x < n + 1 /\ n + 1 < x + R /\ (p = n + 3 => n + 2 < x + R)
      BY <1>2, <1>4, <1>5
    <2>2. PICK y, z \in Nat : y = n + 1 /\ z = n + 2
      OBVIOUS
    <2>3. Position(x) # Position(n)
      BY <1>3, <2>1, PositionsDiffer
    <2>4. Position(x) # Position(y)
      BY <1>3, <2>1, <2>2, PositionsDiffer
    <2>5. x < z /\ (p = n + 3 => z < x + R)
      BY <2>1, <2>2
    <2>6. p = n + 3 => Position(x) # Position(z)
      BY <1>3, <2>5, PositionsDiffer
    <2>7. Position(x) \in Slots
      BY PositionType
    <2> QED
      BY <1>2, <2>2, <2>3, <2>4, <2>6, <2>7 DEF Requested
  <1>6. PICK map, t \in [1..MapSize -> SUBSET Entries] :
           map = ring.setup_stage_map /\ t = r.setup_stage_map
    BY DEF Rings
  <1>7. PICK f \in 1..MapSize : /\ f <= m + 1 /\ map[f] = {} /\ t[f] = {EntryOf(n)}
                                /\ \A s \in (1..MapSize) \ {f} : t[s] = map[s]
    <2>1. t = Put(map, Position(n + 1), Position(n)) /\ FreeBehind(map, m)
      BY <1>6 DEF Requested
    <2>2. Filled(map, t, m, n)
      BY <2>1, PutEntry
    <2> QED
      BY <2>2 DEF Filled
  <1>8. HasEntry(t, n) /\ \A l \in L : HasEntry(map, l) => HasEntry(t, l)
    BY <1>7 DEF HasEntry
  <1>9. MapLive(t, L \cup {n})
    BY <1>1, <1>6, <1>7 DEF MapLive
  <1>10. RingLive(r, b, L \cup {n})
    <2>1. b <= r.pushed /\ r.pushed <= b + (RingSize - 1)
      BY <1>2, <1>4
    <2>2. ASSUME NEW l \in L \cup {n} PROVE b <= l /\ l + 2 <= r.pushed /\ l + 1 \notin L \cup {n}
      <3>1. CASE l \in L
        <4>1. l + 1 \notin L
          BY <1>1, <3>1 DEF RingLive
        <4> QED
          BY SMTT(30), <1>2, <1>4, <3>1, <4>1
      <3>2. CASE l = n
        BY <1>2, <1>4, <3>2
      <3> QED
        BY <3>1, <3>2
    <2>3. ASSUME NEW l \in L \cup {n}
          PROVE  /\ r.trbs[Position(l)].type = "Setup" /\ ~r.trbs[Position(l)].ioc
                 /\ r.trbs[Position(l + 1)].type # "Setup"
      <3>1. CASE l \in L
        <4>1. l < n /\ l + 1 \in Nat /\ b <= l + 1 /\ l + 1 < n
          BY <1>4, <3>1
        <4>2. /\ r.trbs[Position(l)] = ring.trbs[Position(l)]
              /\ r.trbs[Position(l + 1)] = ring.trbs[Position(l + 1)]
          BY <1>4, <1>5, <3>1, <4>1
        <4> QED
          BY <1>1, <3>1, <4>2 DEF RingLive
      <3>2. CASE l = n
        BY <3>2 DEF Requested, SetupStageTRB
      <3> QED
        BY <3>1, <3>2
    <2>4. ASSUME NEW x \in Nat, b <= x, x < r.pushed
          PROVE  \/ x \in L \cup {n} \/ (\E l \in L \cup {n} : x = l + 1)
                 \/ Silent(r.trbs[Position(x)])
      <3>1. CASE x < n
        <4>1. x \in L \/ (\E l \in L : x = l + 1) \/ Silent(ring.trbs[Position(x)])
          BY <1>1, <1>2, <2>4, <3>1 DEF RingLive
        <4> QED
          BY <1>5, <2>4, <3>1, <4>1
      <3>2. CASE x = n + 2
        <4>1. r.pushed = n + 3
          BY <1>2, <2>4, <3>2
        <4> QED
          BY <3>2, <4>1 DEF Requested
      <3> QED
        BY <1>2, <2>4, <3>1, <3>2
    <2> QED
      BY <2>1, <2>2, <2>3, <2>4 DEF RingLive
  <1>11. ASSUME 1 \notin stopped PROVE ControllerAt(r, done, stage, phase, b, L \cup {n})
    <2>1. ControllerAt(ring, done, stage, phase, b, L)
      BY <1>1, <1>11
    <2>2. done <= n /\ done <= r.pushed
      BY <1>2, <2>1 DEF ControllerAt
    <2>3. ASSUME done + 1 = b, phase < 4, Silent(ring.trbs[Position(done)])
          PROVE  Silent(r.trbs[Position(done)])
      <3>1. done < n /\ n < done + R /\ done < n + 1 /\ n + 1 < done + R
        BY <1>3, <1>4, <2>3
      <3>2. PICK y \in Nat : y = n + 1
        OBVIOUS
      <3>3. Position(done) # Position(n)
        BY <1>3, <3>1, PositionsDiffer
      <3>4. Position(done) # Position(y)
        BY <1>3, <3>1, <3>2, PositionsDiffer
      <3>5. Position(done) \in Slots
        BY PositionType
      <3> QED
        BY <2>3, <3>2, <3>3, <3>4, <3>5 DEF Requested
    <2>4. ASSUME NEW l \in L \cup {n}, done = l + 1 PROVE stage = r.trbs[Position(l)].request
      <3>1. l \in L /\ l \in Nat /\ b <= l /\ l < n
        BY <1>4, <2>2, <2>4
      <3> QED
        BY <1>5, <2>1, <2>4, <3>1 DEF ControllerAt
    <2>5. ASSUME NEW l \in L \cup {n}, done <= l + 1 PROVE HasEntry(r.setup_stage_map, l)
      BY <1>6, <1>8, <2>1, <2>5 DEF ControllerAt
    <2>6. done >= b \/ (done + 1 = b /\ phase < 4 /\ Silent(r.trbs[Position(done)]))
      BY <2>1, <2>3 DEF ControllerAt
    <2> QED
      BY <2>2, <2>4, <2>5, <2>6 DEF ControllerAt
  <1>12. EventsLive(r, evs, done, stopped, L \cup {n})
    <2>1. ASSUME NEW k \in DOMAIN evs, IsControl(evs[k])
          PROVE  \E l \in L \cup {n} : /\ evs[k].trb = Position(l + 1)
                                       /\ evs[k].request = r.trbs[Position(l)].request
                                       /\ HasEntry(r.setup_stage_map, l)
                                       /\ 1 \notin stopped => l + 1 < done
      <3>1. PICK l \in L : /\ evs[k].trb = Position(l + 1)
                           /\ evs[k].request = ring.trbs[Position(l)].request
                           /\ HasEntry(ring.setup_stage_map, l)
                           /\ 1 \notin stopped => l + 1 < done
        BY <1>1, <2>1 DEF EventsLive
      <3>2. l \in Nat /\ b <= l /\ l < n
        BY <1>4
      <3>3. r.trbs[Position(l)] = ring.trbs[Position(l)]
        BY <1>5, <3>2
      <3> QED
        BY <1>6, <1>8, <3>1, <3>3
    <2> QED
      BY <1>1, <2>1 DEF EventsLive
  <1>13. FreeBehind(t, m + 1)
    <2> SUFFICES ASSUME NEW s \in 1..MapSize, s > m + 1 PROVE t[s] = {}
      BY DEF FreeBehind
    <2>1. s # f /\ s > m
      BY <1>7
    <2> QED
      BY <1>6, <1>7, <2>1 DEF FreeBehind
  <1> QED
    BY <1>6, <1>9, <1>10, <1>11, <1>12, <1>13 DEF Live

\* Steps that put no request on the ring and change nothing but take an event
LEMMA QuietRequests ==
    ASSUME TransferTypes, RequestInv, ep0' = ep0, executed' = executed, setup' = setup,
           halted' = halted, initialize_phase' = initialize_phase,
           events' = events \/ (events # <<>> /\ events' = Tail(events)),
           command' => command, pc' = "configured" => pc = "configured" /\ untold' = untold,
           pc' = "start" => pc = "start"
    PROVE  RequestInv'
  <1>1. PICK b \in Nat, m \in Nat, L \in SUBSET Nat : RequestsLive(b, m, L)
    BY DEF RequestInv
  <1>2. Live(ep0, events, executed, setup, halted, initialize_phase, b, L)
    BY <1>1 DEF RequestsLive
  <1>3. EventsLive(ep0, events', executed, halted, L)
    <2>1. EventsLive(ep0, events, executed, halted, L)
      BY <1>2 DEF Live
    <2>2. ASSUME events # <<>>, NEW rest, rest = Tail(events)
          PROVE  EventsLive(ep0, rest, executed, halted, L)
      BY <2>1, <2>2, EventTaken DEF TransferTypes
    <2> QED
      BY <2>1, <2>2
  <1>4. Live(ep0, events, executed, setup, halted, initialize_phase, b, L)'
    BY <1>2, <1>3 DEF Live
  <1>5. Stage(ep0, initialize_phase, L, m)' /\ Counted(b, m)'
    BY <1>1 DEF RequestsLive, Counted
  <1>6. RequestsLive(b, m, L)'
    BY <1>4, <1>5 DEF RequestsLive
  <1> QED
    BY <1>6 DEF RequestInv

\* class_drivers_ has at most one entry for each endpoint number and for each configuration.
LEMMA DriversCounted ==
    ASSUME DescriptorInv, initialize_phase = 4
    PROVE  Cardinality(class_drivers) \in Nat /\ Cardinality(class_drivers) <= Most
  <1>1. /\ \E n \in 0..255 : n <= MaxEndpoints /\ ep_configs \in [1..n -> EPConfigs]
        /\ class_drivers = {Number(c.ep_id) : c \in Range(ep_configs)}
    <2>1. initialize_phase >= 3
      OBVIOUS
    <2> QED
      BY ZenonT(40), <2>1 DEF DescriptorInv, ReadInv
  <1>2. PICK n \in 0..255 : n <= MaxEndpoints /\ ep_configs \in [1..n -> EPConfigs]
    BY <1>1
  <1>3. n \in Nat /\ MaxEndpoints \in Nat
    BY LimitsAssumption
  <1>4. class_drivers = {Number(ep_configs[i].ep_id) : i \in 1..n}
    BY <1>1, <1>2, <1>3, ConfigRange
  <1>5. IsFiniteSet(1..n) /\ Cardinality(1..n) = n
    BY <1>3, FS_Interval
  <1> DEFINE f == [i \in 1..n |-> Number(ep_configs[i].ep_id)]
  <1>6. f \in Surjection(1..n, class_drivers)
    BY <1>4 DEF Surjection
  <1>7. IsFiniteSet(class_drivers) /\ Cardinality(class_drivers) <= n
    BY <1>5, <1>6, FS_Surjection
  <1>8. class_drivers \subseteq 1..15
    <2> SUFFICES ASSUME NEW i \in 1..n PROVE Number(ep_configs[i].ep_id) \in 1..15
      BY <1>4
    <2>1. ep_configs[i].ep_id \in 2..31
      BY <1>2 DEF EPConfigs
    <2> QED
      BY <2>1 DEF Number
  <1>9. Cardinality(class_drivers) <= 15
    <2>1. PICK one, most \in Int : one = 1 /\ most = 15
      OBVIOUS
    <2>2. IsFiniteSet(one..most) /\ Cardinality(one..most) = 15
      <3>1. /\ IsFiniteSet(one..most)
            /\ Cardinality(one..most) = IF one > most THEN 0 ELSE most - one + 1
        BY FS_Interval
      <3>2. (IF one > most THEN 0 ELSE most - one + 1) = 15
        BY <2>1
      <3> QED
        BY <3>1, <3>2
    <2>3. class_drivers \in SUBSET (one..most)
      BY <1>8, <2>1
    <2>4. Cardinality(class_drivers) <= Cardinality(one..most)
      BY <2>2, <2>3, FS_Subset
    <2> QED
      BY <2>2, <2>4
  <1>10. Cardinality(class_drivers) \in Nat
    BY <1>7, FS_CardinalityType
  <1> QED
    BY <1>2, <1>3, <1>7, <1>9, <1>10 DEF Most

\* With the command, the device is to send one request for each of them.
LEMMA CompleteConfigurationRequests ==
    ASSUME DescriptorInv, TransferTypes, RequestInv, CompleteConfiguration
    PROVE  RequestInv'
  <1>1. PICK b \in Nat, m \in Nat, L \in SUBSET Nat : RequestsLive(b, m, L)
    BY DEF RequestInv
  <1>2. /\ command /\ ~command' /\ pc' = "configured" /\ untold' = Cardinality(class_drivers)
        /\ ep0' = ep0 /\ executed' = executed /\ setup' = setup /\ halted' = halted
        /\ events' = events /\ initialize_phase' = initialize_phase
    BY DEF CompleteConfiguration, transfer_vars, device_vars
  <1>3. initialize_phase = 4
    BY <1>2 DEF DescriptorInv, PhaseInv
  <1>4. m = 0 /\ ep0.pushed = b
    BY <1>1, <1>2 DEF RequestsLive, Counted
  <1>5. untold' \in Nat /\ untold' <= Most
    BY <1>2, <1>3, DriversCounted
  <1>6. Counted(b, m)'
    BY <1>2, <1>4, <1>5 DEF Counted
  <1>7. RequestsLive(b, m, L)'
    BY <1>1, <1>2, <1>6 DEF RequestsLive
  <1> QED
    BY <1>7 DEF RequestInv

\* The controller at the control ring
LEMMA HcControlRequests ==
    ASSUME TransferTypes, RequestInv, HcControlTransfer
    PROVE  RequestInv'
  <1>1. PICK b \in Nat, m \in Nat, L \in SUBSET Nat : RequestsLive(b, m, L)
    BY DEF RequestInv
  <1>2. PICK success \in BOOLEAN : HcControl(success, 0)
    <2>1. PICK success \in {FALSE, plugged} : HcControl(success, 0)
      BY Zenon DEF HcControlTransfer
    <2>2. success \in BOOLEAN
      BY DEF TransferTypes
    <2> QED
      BY <2>1, <2>2
  <1> DEFINE trb == ep0.trbs[Position(executed)]
             request == IF trb.type = "Setup" THEN trb.request ELSE setup
             e == Event(1, Position(executed), success, request, 0)
  <1>3. e \in Events
    <2>1. Position(executed) \in Slots
      BY PositionType DEF TransferTypes
    <2>2. trb \in TRBs
      BY <2>1 DEF TransferTypes, Rings
    <2>3. request \in Requests
      BY <2>2 DEF TransferTypes, TRBs
    <2> HIDE DEF request
    <2> QED
      BY <2>1, <2>3 DEF Events, Event, Dcis
  <1>4. e.dci = 1 /\ e.trb = Position(executed) /\ e.request = request
    BY DEF Event
  <1>5. e.success = success
    BY Zenon DEF Event
  <1>6. /\ executed < ep0.pushed /\ 1 \notin halted /\ executed' = executed + 1
        /\ setup' = request /\ halted' = (IF success THEN halted ELSE halted \cup {1})
        /\ events' = (IF trb.ioc \/ ~success THEN Append(events, e) ELSE events)
        /\ ep0' = ep0
    BY <1>2 DEF HcControl
  <1>7. Live(ep0, events, executed, setup, halted, initialize_phase, b, L)
    BY <1>1 DEF RequestsLive
  <1>8. ep0 \in Rings /\ events \in Seq(Events) /\ executed \in Nat
    BY DEF TransferTypes
  <1> HIDE DEF e
  <1>9. PICK q, more, halt : q = request /\ more = events' /\ halt = halted'
    OBVIOUS
  <1>10. Executes(ep0, events, executed, setup, halted, success, q, halt, e, more)
    BY <1>4, <1>5, <1>6, <1>9 DEF Executes
  <1> HIDE DEF trb, request
  <1>11. Live(ep0, more, executed + 1, q, halt, initialize_phase, b, L)
    BY <1>3, <1>7, <1>8, <1>10, ExecutedLive
  <1>12. /\ initialize_phase' = initialize_phase /\ command' = command /\ pc' = pc
         /\ untold' = untold
    BY DEF HcControlTransfer, driver_vars, config_vars
  <1>13. Live(ep0, events, executed, setup, halted, initialize_phase, b, L)'
    BY <1>6, <1>9, <1>11, <1>12
  <1>14. Stage(ep0, initialize_phase, L, m)' /\ Counted(b, m)'
    BY <1>1, <1>6, <1>12 DEF RequestsLive, Counted
  <1>15. RequestsLive(b, m, L)'
    BY <1>13, <1>14 DEF RequestsLive
  <1> QED
    BY <1>15 DEF RequestInv

\* The controller at another ring
LEMMA HcInterruptRequests ==
    ASSUME DescriptorInv, TransferTypes, PollInv, RequestInv, HcReport \/ HcReportFails
    PROVE  RequestInv'
  <1>1. PICK b \in Nat, m \in Nat, L \in SUBSET Nat : RequestsLive(b, m, L)
    BY DEF RequestInv
  <1>2. /\ initialize_phase' = initialize_phase /\ command' = command /\ pc' = pc
        /\ untold' = untold /\ plugged' = plugged
    BY DEF HcReport, HcReportFails, driver_vars, device_vars, config_vars
  <1>3. PICK dci \in Dcis, success \in BOOLEAN, length \in 0..8 : HcInterrupt(dci, success, length)
    <2>1. CASE HcReport
      <3>1. PICK dci \in Dcis, r \in device.reports :
               Len(r) <= PacketSize /\ HcInterrupt(dci, TRUE, Len(r))
        BY <2>1 DEF HcReport
      <3>2. Len(r) \in 0..8
        BY <3>1, ReportFits DEF DescriptorInv
      <3> QED
        BY <3>1, <3>2
    <2>2. CASE HcReportFails
      <3>1. PICK dci \in Dcis, failed \in {FALSE}, none \in {0} : HcInterrupt(dci, failed, none)
        BY <2>2 DEF HcReportFails
      <3>2. failed \in BOOLEAN /\ none \in 0..8
        OBVIOUS
      <3> QED
        BY <3>1, <3>2
    <2> QED
      BY <2>1, <2>2
  <1>4. /\ armed[dci] > 0 /\ ep0' = ep0 /\ executed' = executed /\ setup' = setup
        /\ halted' = halted \/ halted' = halted \cup {dci}
    BY <1>3 DEF HcInterrupt
  <1>5. PICK e \in Events : e.dci = dci /\ events' = Append(events, e)
    BY <1>2, <1>3, InterruptStep
  <1>6. dci # 1
    <2>1. dci = hid.ep_interrupt_in /\ hid.phase = 2
      BY <1>4 DEF PollInv
    <2>2. hid.ep_interrupt_in # 0
      BY <2>1 DEF Dcis
    <2>3. hid.ep_interrupt_in \in 2..31
      BY <2>1, <2>2, InterruptEndpoint
    <2> QED
      BY <2>1, <2>3
  <1>7. /\ Live(ep0, events, executed, setup, halted, initialize_phase, b, L)
        /\ EventsLive(ep0, events, executed, halted, L)
    BY <1>1 DEF RequestsLive, Live
  <1>8. ~IsControl(e) /\ (1 \in halted' <=> 1 \in halted)
    BY <1>4, <1>5, <1>6 DEF IsControl
  <1>9. EventsLive(ep0, events', executed, halted', L)
    <2>1. events \in Seq(Events) /\ executed \in Nat /\ executed <= executed
      BY DEF TransferTypes
    <2> QED
      BY <1>5, <1>7, <1>8, <2>1, EventAdded
  <1>10. Live(ep0, events, executed, setup, halted, initialize_phase, b, L)'
    BY <1>2, <1>4, <1>7, <1>8, <1>9 DEF Live
  <1>11. Stage(ep0, initialize_phase, L, m)' /\ Counted(b, m)'
    BY <1>1, <1>2, <1>4 DEF RequestsLive, Counted
  <1>12. RequestsLive(b, m, L)'
    BY <1>10, <1>11 DEF RequestsLive
  <1> QED
    BY <1>12 DEF RequestInv

\* What is left when the event of a control request is taken and its entry deleted
Handled(f, b, m, L) ==
    /\ Live(f, Tail(events), executed, setup, halted, initialize_phase, b, L)
    /\ Stage(f, initialize_phase, L, m) /\ Counted(b, m)

\* The same with nothing but the end of the ring, where the next request begins
HandledAll(f, next) ==
    /\ Live(f, Tail(events), executed, setup, halted, next, ep0.pushed, {})
    /\ FreeBehind(f.setup_stage_map, 0)

\* OnTransferEventReceived of the device handles the event of a request.
LEMMA ControlHandled ==
    ASSUME DescriptorInv, TransferTypes, RequestInv, ControlCompleted, NEW f, f = Forgotten(ep0)
    PROVE  /\ f \in Rings /\ f.pushed = ep0.pushed
           /\ \E b \in Nat, m \in Nat, L \in SUBSET Nat : Handled(f, b, m, L)
           /\ \A next : initialize_phase < 4 /\ (next < 4 \/ initialize_phase = 3)
                           => HandledAll(f, next)
  <1>1. PICK b \in Nat, m \in Nat, L \in SUBSET Nat : RequestsLive(b, m, L)
    BY DEF RequestInv
  <1>2. events # <<>> /\ IsControl(Head(events))
    BY DEF ControlCompleted, Completed, IsControl
  <1>3. ep0 \in Rings /\ events \in Seq(Events) /\ executed \in Nat
    BY DEF TransferTypes
  <1>4. /\ f \in Rings /\ f.pushed = ep0.pushed /\ f.trbs = ep0.trbs
        /\ f.setup_stage_map = Delete(ep0.setup_stage_map, Head(events).trb)
    BY <1>2, ForgottenRing
  <1>5. Live(ep0, events, executed, setup, halted, initialize_phase, b, L)
    BY <1>1 DEF RequestsLive
  <1>6. PICK rest : rest = Tail(events)
    OBVIOUS
  <1>7. /\ Live(f, rest, executed, setup, halted, initialize_phase, b, L)
        /\ Finished(ep0, f, executed, halted, L)
    BY <1>2, <1>3, <1>4, <1>5, <1>6, ForgottenLive
  <1>8. PICK n \in L : /\ 1 \notin halted => n + 1 < executed
                       /\ Emptied(ep0.setup_stage_map, f.setup_stage_map, n)
    BY <1>7 DEF Finished
  <1>9. PICK i \in 1..MapSize :
           /\ ep0.setup_stage_map[i] # {} /\ f.setup_stage_map[i] = {}
           /\ \A s \in (1..MapSize) \ {i} : f.setup_stage_map[s] = ep0.setup_stage_map[s]
    BY <1>8 DEF Emptied
  <1>10. Stage(ep0, initialize_phase, L, m) /\ Counted(b, m)
    BY <1>1 DEF RequestsLive
  <1>11. FreeBehind(f.setup_stage_map, m)
    BY <1>9, <1>10 DEF Stage, FreeBehind
  <1>12. Stage(f, initialize_phase, L, m)
    BY <1>4, <1>10, <1>11 DEF Stage
  <1>13. Handled(f, b, m, L)
    BY <1>6, <1>7, <1>10, <1>12 DEF Handled
  <1>14. ASSUME NEW next, initialize_phase < 4, next < 4 \/ initialize_phase = 3
         PROVE  HandledAll(f, next)
    <2>1. m <= 1 /\ f.pushed <= n + 3 /\ (initialize_phase = 3 => f.pushed = n + 2)
      BY <1>12, <1>14 DEF Stage
    <2>2. \A l \in L : l = n
      BY <1>12, <1>14 DEF Stage
    <2>3. i = 1
      <3>1. ~(i > m)
        BY <1>9, <1>10 DEF Stage, FreeBehind
      <3> QED
        BY <2>1, <3>1
    <2>4. \A s \in 1..MapSize : f.setup_stage_map[s] = {}
      <3> SUFFICES ASSUME NEW s \in 1..MapSize PROVE f.setup_stage_map[s] = {}
        OBVIOUS
      <3>1. CASE s = 1
        BY <1>9, <2>3, <3>1
      <3>2. CASE s # 1
        <4>1. s > m
          BY <2>1, <3>2
        <4> QED
          BY <1>11, <4>1 DEF FreeBehind
      <3> QED
        BY <3>1, <3>2
    <2>5. PICK c \in Nat : c = f.pushed
      BY <1>4 DEF Rings
    <2>6. next < 4 \/ f.pushed = n + 2
      BY <1>14, <2>1
    <2>7. Live(f, rest, executed, setup, halted, next, c, {})
      BY <1>3, <1>4, <1>7, <1>8, <2>1, <2>2, <2>4, <2>5, <2>6, RebasedLive
    <2> QED
      BY <1>4, <1>6, <2>4, <2>5, <2>7 DEF HandledAll, FreeBehind
  <1> QED
    BY <1>4, <1>13, <1>14

\* The next request of the initialization, on an empty lap of the ring
LEMMA NextRequest ==
    ASSUME NEW ring \in Rings, NEW evs, NEW done \in Nat, NEW stage, NEW stopped, NEW phase,
           NEW n \in Nat, Live(ring, evs, done, stage, stopped, phase, n, {}),
           FreeBehind(ring.setup_stage_map, 0),
           NEW r \in Rings, NEW request, Requested(ring, r, n, request),
           r.pushed = n + 2 \/ r.pushed = n + 3
    PROVE  /\ Live(r, evs, done, stage, stopped, phase, n, {n})
           /\ FreeBehind(r.setup_stage_map, 1)
  <1>1. PICK m \in Nat, L \in SUBSET Nat : m = 0 /\ L = {}
    OBVIOUS
  <1>2. m + 1 <= MapSize
    BY <1>1, RoomAssumption, MapSizeAssumption
  <1>3. r.pushed <= n + (RingSize - 1) /\ n + 2 < n + (RingSize - 1)
    BY RoomAssumption, RingSizeAssumption
  <1>4. /\ Live(ring, evs, done, stage, stopped, phase, n, L)
        /\ FreeBehind(ring.setup_stage_map, m)
    BY <1>1
  <1>5. /\ Live(r, evs, done, stage, stopped, phase, n, L \cup {n})
        /\ FreeBehind(r.setup_stage_map, m + 1)
    BY <1>2, <1>3, <1>4, AddedLive
  <1>6. L \cup {n} = {n} /\ m + 1 = 1
    BY <1>1
  <1> QED
    BY <1>5, <1>6

\* The invariant of the first request of a lap
LEMMA FirstRequest ==
    ASSUME NEW n \in Nat,
           Live(ep0, events, executed, setup, halted, initialize_phase, n, {n})',
           FreeBehind(ep0'.setup_stage_map, 1),
           ep0'.pushed = n + 3 \/ ep0'.pushed = n + 2, initialize_phase' # 3 \/ ep0'.pushed = n + 2,
           ~command', pc' = "main"
    PROVE  RequestInv'
  <1>1. PICK m \in Nat, L \in SUBSET Nat : m = 1 /\ L = {n}
    OBVIOUS
  <1>2. Stage(ep0, initialize_phase, L, m)'
    BY <1>1 DEF Stage
  <1>3. Counted(n, m)'
    BY DEF Counted
  <1>4. RequestsLive(n, m, L)'
    BY <1>1, <1>2, <1>3 DEF RequestsLive
  <1> QED
    BY <1>4 DEF RequestInv

\* The phase of the initialization only says where the controller may be.
LEMMA PhaseLive ==
    ASSUME NEW ring, NEW evs, NEW done, NEW stage, NEW stopped, NEW phase, NEW next, NEW b, NEW L,
           Live(ring, evs, done, stage, stopped, phase, b, L), next < 4
    PROVE  Live(ring, evs, done, stage, stopped, next, b, L)
  BY DEF Live, ControllerAt

\* The device descriptor is asked for.
LEMMA StartRequests ==
    ASSUME DescriptorInv, TransferTypes, RequestInv, StartInitialize
    PROVE  RequestInv'
  <1>1. PICK b \in Nat, m \in Nat, L \in SUBSET Nat : RequestsLive(b, m, L)
    BY DEF RequestInv
  <1>2. ep0 \in Rings /\ executed \in Nat
    BY DEF TransferTypes
  <1>3. m = 0 /\ ep0.pushed = b
    BY <1>1 DEF RequestsLive, Counted, StartInitialize
  <1>4. /\ Live(ep0, events, executed, setup, halted, initialize_phase, b, L)
        /\ FreeBehind(ep0.setup_stage_map, 0)
    BY <1>1, <1>3 DEF RequestsLive, Stage
  <1>5. L = {}
    <2> SUFFICES ASSUME NEW l \in L PROVE FALSE
      OBVIOUS
    <2>1. b <= l /\ l + 2 <= b
      BY <1>3, <1>4 DEF Live, RingLive
    <2> QED
      BY <2>1
  <1>6. PICK phase \in Nat : phase = 1 /\ phase < 4
    OBVIOUS
  <1>7. Live(ep0, events, executed, setup, halted, phase, b, {})
    BY <1>4, <1>5, <1>6, PhaseLive
  <1>8. PICK request \in Requests : request = GetDescriptor(1)
    BY RequestTypes
  <1>9. PICK r : r = ep0' /\ r = ControlIn(ep0, request)
    BY <1>8 DEF StartInitialize
  <1>10. r \in Rings /\ r.pushed = b + 3 /\ Requested(ep0, r, b, request)
    BY <1>2, <1>3, <1>9, ControlInRing
  <1>11. /\ Live(r, events, executed, setup, halted, phase, b, {b})
         /\ FreeBehind(r.setup_stage_map, 1)
    BY <1>2, <1>4, <1>7, <1>10, NextRequest
  <1>12. /\ events' = events /\ executed' = executed /\ setup' = setup /\ halted' = halted
         /\ initialize_phase' = phase /\ pc' = "main" /\ command' = command
    BY <1>6 DEF StartInitialize, config_vars
  <1>13. ~command'
    <2>1. initialize_phase = 0
      BY DEF DescriptorInv, PhaseInv, StartInitialize
    <2> QED
      BY <1>12, <2>1 DEF DescriptorInv, PhaseInv
  <1>14. initialize_phase' # 3 /\ ep0'.pushed = b + 3
    BY <1>6, <1>9, <1>10, <1>12
  <1>15. /\ Live(ep0, events, executed, setup, halted, initialize_phase, b, {b})'
         /\ FreeBehind(ep0'.setup_stage_map, 1)
    BY <1>9, <1>11, <1>12
  <1> QED
    BY <1>12, <1>13, <1>14, <1>15, FirstRequest

\* The event is handled and no request is put on the ring.
LEMMA HandledRequests ==
    ASSUME DescriptorInv, TransferTypes, RequestInv, ControlCompleted, ep0' = Forgotten(ep0),
           executed' = executed, setup' = setup, halted' = halted,
           initialize_phase' = initialize_phase, command' = command,
           pc' # "configured", pc' # "start"
    PROVE  RequestInv'
  <1>1. PICK f : f = ep0' /\ f = Forgotten(ep0)
    OBVIOUS
  <1>2. /\ f.pushed = ep0.pushed
        /\ \E b \in Nat, m \in Nat, L \in SUBSET Nat : Handled(f, b, m, L)
    BY <1>1, ControlHandled
  <1>3. PICK b \in Nat, m \in Nat, L \in SUBSET Nat : Handled(f, b, m, L)
    BY <1>2
  <1>4. events' = Tail(events)
    BY DEF ControlCompleted, Pop
  <1>5. /\ Live(ep0, events, executed, setup, halted, initialize_phase, b, L)'
        /\ Stage(ep0, initialize_phase, L, m)'
    BY <1>1, <1>3, <1>4 DEF Handled
  <1>6. Counted(b, m)'
    BY <1>1, <1>2, <1>3 DEF Handled, Counted
  <1>7. RequestsLive(b, m, L)'
    BY <1>5, <1>6 DEF RequestsLive
  <1> QED
    BY <1>7 DEF RequestInv

\* The configuration is asked for.
LEMMA Phase1Requests ==
    ASSUME DescriptorInv, TransferTypes, RequestInv, InitializePhase1
    PROVE  RequestInv'
  <1>1. ControlCompleted /\ initialize_phase = 1
    BY DEF InitializePhase1, Expected
  <1>2. PICK f : f = Forgotten(ep0)
    OBVIOUS
  <1>3. PICK phase \in Nat : phase = 2 /\ phase < 4
    OBVIOUS
  <1>4. f \in Rings /\ f.pushed = ep0.pushed /\ HandledAll(f, phase)
    <2>1. initialize_phase < 4
      BY <1>1
    <2> QED
      BY <1>1, <1>2, <1>3, <2>1, ControlHandled
  <1>5. PICK n \in Nat : n = ep0.pushed
    BY DEF TransferTypes, Rings
  <1>6. PICK request \in Requests : request = GetDescriptor(2)
    BY RequestTypes
  <1>7. PICK r : r = ep0' /\ r = ControlIn(f, request)
    BY <1>2, <1>6 DEF InitializePhase1
  <1>8. r \in Rings /\ r.pushed = n + 3 /\ Requested(f, r, n, request)
    BY <1>4, <1>5, <1>7, ControlInRing
  <1>9. executed \in Nat /\ events' = Tail(events)
    BY <1>1 DEF TransferTypes, ControlCompleted, Pop
  <1>10. /\ Live(f, events', executed, setup, halted, phase, n, {})
         /\ FreeBehind(f.setup_stage_map, 0)
    BY <1>4, <1>5, <1>9 DEF HandledAll
  <1>11. /\ Live(r, events', executed, setup, halted, phase, n, {n})
         /\ FreeBehind(r.setup_stage_map, 1)
    BY <1>4, <1>8, <1>9, <1>10, NextRequest
  <1>12. /\ executed' = executed /\ setup' = setup /\ halted' = halted
         /\ initialize_phase' = phase /\ pc' = pc /\ command' = command
    BY <1>3 DEF InitializePhase1, driver_vars, config_vars
  <1>13. ~command' /\ pc' = "main"
    BY <1>1, <1>12 DEF DescriptorInv, PhaseInv, ControlCompleted
  <1>14. initialize_phase' # 3 /\ ep0'.pushed = n + 3
    BY <1>3, <1>7, <1>8, <1>12
  <1>15. /\ Live(ep0, events, executed, setup, halted, initialize_phase, n, {n})'
         /\ FreeBehind(ep0'.setup_stage_map, 1)
    BY <1>7, <1>11, <1>12
  <1> QED
    BY <1>13, <1>14, <1>15, FirstRequest

\* The configuration is chosen, or the device stays in its phase.
LEMMA Phase2Requests ==
    ASSUME DescriptorInv, TransferTypes, RequestInv, InitializePhase2
    PROVE  RequestInv'
  <1>1. ControlCompleted /\ initialize_phase = 2 /\ buf[1].type = "Configuration"
    BY DEF InitializePhase2, Expected
  <1>2. /\ executed' = executed /\ setup' = setup /\ halted' = halted /\ command' = command
        /\ events # <<>> /\ events' = Tail(events) /\ pc = "main"
    BY <1>1 DEF InitializePhase2, config_vars, ControlCompleted, Completed, Pop
  <1>3. CASE ep0' = Forgotten(ep0) /\ initialize_phase' = initialize_phase /\ pc' = pc
    BY <1>1, <1>2, <1>3, HandledRequests
  <1>4. CASE ep0' = ep0 /\ initialize_phase' = initialize_phase /\ pc' = "lost"
    BY <1>1, <1>2, <1>4, QuietRequests
  <1>5. CASE /\ InterfaceAt # 0 /\ ep0' = ControlOut(Forgotten(ep0), SetConfiguration(buf[1].value))
             /\ initialize_phase' = 3 /\ pc' = pc
    <2>1. PICK f : f = Forgotten(ep0)
      OBVIOUS
    <2>2. PICK phase \in Nat : phase = 3 /\ phase < 4
      OBVIOUS
    <2>3. f \in Rings /\ f.pushed = ep0.pushed /\ HandledAll(f, phase)
      <3>1. initialize_phase < 4
        BY <1>1
      <3> QED
        BY <1>1, <2>1, <2>2, <3>1, ControlHandled
    <2>4. PICK n \in Nat : n = ep0.pushed
      BY DEF TransferTypes, Rings
    <2>5. PICK request \in Requests : request = SetConfiguration(buf[1].value)
      BY <1>1, <1>5, ConfigurationValue
    <2>6. PICK r : r = ep0' /\ r = ControlOut(f, request)
      BY <1>5, <2>1, <2>5
    <2>7. r \in Rings /\ r.pushed = n + 2 /\ Requested(f, r, n, request)
      BY <2>3, <2>4, <2>6, ControlOutRing
    <2>8. executed \in Nat
      BY DEF TransferTypes
    <2>9. /\ Live(f, events', executed, setup, halted, phase, n, {})
          /\ FreeBehind(f.setup_stage_map, 0)
      BY <1>2, <2>3, <2>4 DEF HandledAll
    <2>10. /\ Live(r, events', executed, setup, halted, phase, n, {n})
           /\ FreeBehind(r.setup_stage_map, 1)
      BY <2>3, <2>7, <2>8, <2>9, NextRequest
    <2>11. ~command' /\ pc' = "main"
      BY <1>1, <1>2, <1>5 DEF DescriptorInv, PhaseInv
    <2>12. ep0'.pushed = n + 2
      BY <2>6, <2>7
    <2>13. /\ Live(ep0, events, executed, setup, halted, initialize_phase, n, {n})'
           /\ FreeBehind(ep0'.setup_stage_map, 1)
      BY <1>2, <1>5, <2>2, <2>6, <2>10
    <2> QED
      BY <2>11, <2>12, <2>13, FirstRequest
  <1> QED
    BY <1>3, <1>4, <1>5 DEF InitializePhase2

\* The initialization is over: nothing is on the ring.
LEMMA Phase3Requests ==
    ASSUME DescriptorInv, TransferTypes, RequestInv, InitializePhase3
    PROVE  RequestInv'
  <1>1. ControlCompleted /\ initialize_phase = 3
    BY DEF InitializePhase3, Expected
  <1>2. PICK f : f = ep0' /\ f = Forgotten(ep0)
    BY DEF InitializePhase3
  <1>3. /\ executed' = executed /\ setup' = setup /\ halted' = halted /\ pc' = pc
        /\ events' = Tail(events) /\ pc = "main" /\ initialize_phase' = 4
    BY <1>1 DEF InitializePhase3, driver_vars, ControlCompleted, Pop
  <1>4. f \in Rings /\ f.pushed = ep0.pushed /\ HandledAll(f, initialize_phase')
    <2>1. initialize_phase < 4
      BY <1>1
    <2> QED
      BY <1>1, <1>2, <2>1, ControlHandled
  <1>5. PICK n \in Nat, m \in Nat, L \in SUBSET Nat : n = ep0.pushed /\ m = 0 /\ L = {}
    BY DEF TransferTypes, Rings
  <1>6. Live(ep0, events, executed, setup, halted, initialize_phase, n, L)'
    BY <1>2, <1>3, <1>4, <1>5 DEF HandledAll
  <1>7. Stage(ep0, initialize_phase, L, m)'
    <2>1. FreeBehind(ep0'.setup_stage_map, m)
      BY <1>2, <1>4, <1>5 DEF HandledAll
    <2> QED
      BY <1>3, <1>5, <2>1 DEF Stage
  <1>8. Counted(n, m)'
    BY <1>2, <1>3, <1>4, <1>5 DEF Counted
  <1>9. RequestsLive(n, m, L)'
    BY <1>6, <1>7, <1>8 DEF RequestsLive
  <1> QED
    BY <1>9 DEF RequestInv

\* SetProtocol, once for every class driver entry: the lap of the ring has room for all of them.
LEMMA ConfiguredRequests ==
    ASSUME DescriptorInv, TransferTypes, RequestInv, OnEndpointsConfigured
    PROVE  RequestInv'
  <1>1. PICK b \in Nat, m \in Nat, L \in SUBSET Nat : RequestsLive(b, m, L)
    BY DEF RequestInv
  <1>2. /\ pc = "configured" /\ untold > 0 /\ untold' = untold - 1 /\ executed' = executed
        /\ setup' = setup /\ halted' = halted /\ events' = events /\ pc' = pc
        /\ initialize_phase' = initialize_phase /\ command' = command
    BY DEF OnEndpointsConfigured, config_vars
  <1>3. initialize_phase = 4 /\ ~command /\ untold \in Nat /\ hid \in Drivers
    BY <1>2 DEF DescriptorInv, PhaseInv
  <1>4. /\ Live(ep0, events, executed, setup, halted, initialize_phase, b, L)
        /\ FreeBehind(ep0.setup_stage_map, m)
        /\ ep0.pushed = b + 2 * m /\ m + untold <= Most
    BY <1>1, <1>2 DEF RequestsLive, Stage, Counted
  <1>5. PICK n \in Nat, most \in Nat : n = ep0.pushed /\ most = Most
    BY LimitsAssumption DEF TransferTypes, Rings, Most
  <1>6. 2 * most < RingSize /\ most <= MapSize
    BY <1>5, RoomAssumption DEF Most
  <1>7. PICK request \in Requests : request = SetProtocol(hid.interface)
    BY <1>3, RequestTypes DEF Drivers
  <1>8. PICK r : r = ep0' /\ r = ControlOut(ep0, request)
    BY <1>7 DEF OnEndpointsConfigured
  <1>9. ep0 \in Rings /\ executed \in Nat
    BY DEF TransferTypes
  <1>10. r \in Rings /\ r.pushed = n + 2 /\ Requested(ep0, r, n, request)
    BY <1>5, <1>8, <1>9, ControlOutRing
  <1>11. m + 1 <= most
    BY <1>2, <1>3, <1>4, <1>5
  <1>12. m + 1 <= MapSize /\ r.pushed = b + 2 * (m + 1) /\ r.pushed <= b + (RingSize - 1)
    <2>1. MapSize \in Nat /\ RingSize \in Nat
      BY MapSizeAssumption, RingSizeAssumption
    <2>2. m + 1 <= MapSize
      BY <1>6, <1>11, <2>1
    <2>3. n + 2 = b + 2 * (m + 1)
      BY <1>4, <1>5
    <2>4. 2 * (m + 1) <= 2 * most
      BY <1>11
    <2>5. b + 2 * (m + 1) <= b + (RingSize - 1)
      BY <1>6, <2>1, <2>4
    <2> QED
      BY <1>10, <2>2, <2>3, <2>5
  <1>13. initialize_phase < 4 => n + 2 < b + (RingSize - 1)
    BY <1>3
  <1>14. /\ Live(r, events, executed, setup, halted, initialize_phase, b, L \cup {n})
         /\ FreeBehind(r.setup_stage_map, m + 1)
    BY <1>4, <1>9, <1>10, <1>12, <1>13, AddedLive
  <1>15. PICK k \in Nat, M \in SUBSET Nat : k = m + 1 /\ M = L \cup {n}
    <2>1. m + 1 \in Nat /\ L \cup {n} \in SUBSET Nat
      OBVIOUS
    <2> QED
      BY <2>1
  <1>16. /\ Live(ep0, events, executed, setup, halted, initialize_phase, b, M)'
         /\ FreeBehind(ep0'.setup_stage_map, k)
    BY <1>2, <1>8, <1>14, <1>15
  <1>17. Stage(ep0, initialize_phase, M, k)'
    BY <1>2, <1>3, <1>16 DEF Stage
  <1>18. Counted(b, k)'
    <2>1. k + untold' <= Most
      BY <1>2, <1>3, <1>4, <1>5, <1>15
    <2>2. ep0'.pushed = b + 2 * k
      BY <1>8, <1>12, <1>15
    <2> QED
      BY <1>2, <1>3, <2>1, <2>2 DEF Counted
  <1>19. RequestsLive(b, k, M)'
    BY <1>16, <1>17, <1>18 DEF RequestsLive
  <1> QED
    BY <1>19 DEF RequestInv

\* The requests keep their entries and their places in every step.
LEMMA StepRequests ==
    DescriptorInv /\ TransferTypes /\ PollInv /\ RequestInv /\ [Next]_vars => RequestInv'
  <1> SUFFICES ASSUME DescriptorInv, TransferTypes, PollInv, RequestInv, [Next]_vars
               PROVE  RequestInv'
    OBVIOUS
  <1>1. CASE StartInitialize \/ InitializePhase1 \/ InitializePhase2 \/ InitializePhase3
             \/ CompleteConfiguration \/ OnEndpointsConfigured
    BY <1>1, StartRequests, Phase1Requests, Phase2Requests, Phase3Requests,
       CompleteConfigurationRequests, ConfiguredRequests
  <1>2. CASE InvalidPhase \/ HidControlCompleted
    <2>1. /\ ControlCompleted /\ ep0' = Forgotten(ep0) /\ executed' = executed /\ setup' = setup
          /\ halted' = halted /\ initialize_phase' = initialize_phase /\ command' = command
          /\ pc = "main" /\ (pc' = pc \/ pc' = "lost")
      BY <1>2 DEF InvalidPhase, HidControlCompleted, ControlCompleted, driver_vars, device_vars,
                  config_vars
    <2> QED
      BY <2>1, HandledRequests
  <1>3. CASE ConfigurationCompleted \/ TransferFailed \/ Evaluate \/ Keep \/ Rearm \/ Unplug
             \/ UNCHANGED vars
    <2>1. /\ ep0' = ep0 /\ executed' = executed /\ setup' = setup /\ halted' = halted
          /\ initialize_phase' = initialize_phase /\ command' = command
      BY <1>3 DEF ConfigurationCompleted, TransferFailed, Evaluate, Keep, Rearm, Unplug, vars,
                  transfer_vars, device_vars, config_vars
    <2>2. events' = events \/ (events # <<>> /\ events' = Tail(events))
      BY <1>3 DEF ConfigurationCompleted, TransferFailed, Evaluate, Completed, Pop, Keep, Rearm,
                  PollInv, Unplug, vars, transfer_vars
    <2>3. pc' \in {"main", "keep", "rearm"} \/ (pc' = pc /\ untold' = untold)
      BY <1>3 DEF ConfigurationCompleted, TransferFailed, Evaluate, Keep, Rearm, Unplug, vars,
                  driver_vars
    <2> QED
      BY <2>1, <2>2, <2>3, QuietRequests
  <1>4. CASE HcControlTransfer
    BY <1>4, HcControlRequests
  <1>5. CASE HcReport \/ HcReportFails
    BY <1>5, HcInterruptRequests
  <1> QED
    BY <1>1, <1>2, <1>3, <1>4, <1>5 DEF Next, Driver

\* At the start there is no request.
LEMMA InitRequests == Init => RequestInv
  <1> SUFFICES ASSUME Init PROVE RequestInv
    OBVIOUS
  <1>1. PICK b, m \in Nat, L \in SUBSET Nat : b = 0 /\ m = 0 /\ L = {}
    OBVIOUS
  <1>2. /\ ep0.pushed = 0 /\ ep0.setup_stage_map = EmptyMap(MapSize) /\ executed = 0
        /\ events = <<>> /\ halted = {} /\ pc = "start" /\ command = FALSE /\ initialize_phase = 0
    BY DEF Init, TransfersInit
  <1>3. RingLive(ep0, b, L)
    BY <1>1, <1>2, RingSizeAssumption DEF RingLive
  <1>4. \A s \in 1..MapSize : ep0.setup_stage_map[s] = {}
    BY <1>2 DEF EmptyMap
  <1>5. MapLive(ep0.setup_stage_map, L) /\ FreeBehind(ep0.setup_stage_map, m)
    BY <1>4 DEF MapLive, FreeBehind
  <1>6. ControllerAt(ep0, executed, setup, initialize_phase, b, L)
    BY <1>1, <1>2 DEF ControllerAt
  <1>7. EventsLive(ep0, events, executed, halted, L)
    BY <1>2 DEF EventsLive
  <1>8. Stage(ep0, initialize_phase, L, m)
    BY <1>1, <1>5 DEF Stage
  <1>9. Counted(b, m)
    BY <1>1, <1>2 DEF Counted
  <1>10. RequestsLive(b, m, L)
    BY <1>3, <1>5, <1>6, <1>7, <1>8, <1>9 DEF RequestsLive, Live
  <1> QED
    BY <1>10 DEF RequestInv

\* Since the base of the lap, every request has its three or two TRBs on the ring and its entry in
\* setup_stage_map_ until its event is handled (ControlIn, ControlOut, OnTransferEventReceived).
THEOREM RequestsKept == Spec => []RequestInv
  <1>1. DescriptorInv /\ TransferTypes /\ PollInv /\ RequestInv /\ [Next]_vars => RequestInv'
    BY StepRequests
  <1> QED
    BY <1>1, InitRequests, DescriptorsRead, ReportsKept, PTL DEF Spec

\* Whatever is on its way, the event of a control request leads to the Setup TRB of its own request:
\* neither the ring nor setup_stage_map_ runs over (Device::OnTransferEventReceived).
THEOREM KeepsSetupStage == Spec => []SetupStageKept
  <1>1. TransferTypes /\ RequestInv => SetupStageKept
    <2> SUFFICES ASSUME TransferTypes, RequestInv PROVE SetupStageKept
      OBVIOUS
    <2>1. PICK b \in Nat, m \in Nat, L \in SUBSET Nat : RequestsLive(b, m, L)
      BY DEF RequestInv
    <2> QED
      BY <2>1, LiveKept DEF TransferTypes, RequestsLive, Live
  <1> QED
    BY <1>1, RequestsKept, ReportsKept, PTL

=============================================================================
