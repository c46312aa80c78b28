----------------------------- MODULE PciProofs ------------------------------
(***************************************************************************)
(* The enumeration of the PCI buses, for any number of buses, devices and  *)
(* functions and whatever the bridges lead to: the array holds functions   *)
(* that exist, none twice on a well-numbered machine, and all of them when *)
(* the scan succeeds.  And the message signalled interrupt of the xHC that *)
(* was found, for every list of capabilities.                              *)
(***************************************************************************)
EXTENDS PciFunction, SequenceTheorems, TLAPS

-----------------------------------------------------------------------------
(* The inductive invariant of the scan.                                     *)

Frames == [bus : Buses, device : 0..DeviceCount, function : 0..(FunctionCount - 1)]

\* RegisteredFunctions, in a word
Registered == {devices[k] : k \in DOMAIN devices}

\* Function a exists for software.
IsVisible(a, space) ==
    /\ space[a] # Absent /\ space[<<a[1], a[2], 0>>] # Absent
    /\ a[3] > 0 => space[<<a[1], a[2], 0>>].multi

\* The loop of scan_bus has passed function a of its bus.
Before(a, call) == a[2] < call.device \/ (a[2] = call.device /\ a[3] < call.function)

\* All of a bus is in the array.
Complete(bus, space, registered) ==
    \A a \in Addresses : a[1] = bus /\ IsVisible(a, space) => a \in registered

\* A call that has come to a further function of a device has found function 0 to be one
\* of several; and what it has passed is in the array.
CallInv(call, space, registered) ==
    /\ call.device = DeviceCount => call.function = 0
    /\ call.function > 0 => LET zero == space[<<call.bus, call.device, 0>>]
                            IN zero # Absent /\ zero.multi
    /\ \A a \in Addresses :
          a[1] = call.bus /\ IsVisible(a, space) /\ Before(a, call) => a \in registered

\* The buses that scan_bus has been called for, below a single host bridge
Entered == {0} \cup {config[a].secondary : a \in Registered \cap Bridges}

SingleRoot == ~config[<<0, 0, 0>>].multi

TypeInv ==
    /\ config \in ConfigSpaces
    /\ devices \in Seq(Addresses) /\ Len(devices) <= MaxDevices
    /\ calls \in Seq(Frames)
    /\ root_function \in 1..FunctionCount
    /\ pc = "scan" <=> error = "none"
    /\ error = "Success" => calls = <<>>

VisitInv ==
    /\ \A a \in Registered : IsVisible(a, config)
    /\ \A k \in DOMAIN calls : CallInv(calls[k], config, Registered)

\* Below a single host bridge every bus that was entered is under way or complete, and
\* bridges have led to it.
SearchInv ==
    SingleRoot =>
        /\ root_function = FunctionCount
        /\ error # "Full" =>
             \A b \in Entered : \/ Complete(b, config, Registered)
                                \/ \E k \in DOMAIN calls : calls[k].bus = b
        /\ \A k \in DOMAIN calls : calls[k].bus \in Entered /\ calls[k].bus \in ReachableBuses
        /\ \A a \in Registered : a[1] \in Entered /\ a[1] \in ReachableBuses

\* If moreover the buses are well-numbered, no bus is entered twice, and a call has not
\* met the functions that are before it.
OnceInv ==
    SingleRoot /\ WellNumbered =>
        /\ \A k, m \in DOMAIN devices : devices[k] = devices[m] => k = m
        /\ \A k, m \in DOMAIN calls : calls[k].bus = calls[m].bus => k = m
        /\ \A k \in DOMAIN calls : \A a \in Registered : a[1] = calls[k].bus => Before(a, calls[k])

\* And the scan was given up only with the array full and a function left.
FullInv ==
    SingleRoot /\ WellNumbered /\ error = "Full" =>
        /\ Len(devices) = MaxDevices
        /\ \E a \in VisibleOn(ReachableBuses) : a \notin Registered

ScanInv == TypeInv /\ VisitInv /\ SearchInv /\ OnceInv /\ FullInv

-----------------------------------------------------------------------------
(* The loops of a call.                                                     *)

\* The stack of calls when the innermost one returns.
LEMMA StackReturn ==
    ASSUME NEW S, NEW s \in Seq(S), s # <<>>
    PROVE  /\ Front(s) \in Seq(S) /\ Len(Front(s)) = Len(s) - 1 /\ Len(s) \in Nat \ {0}
           /\ DOMAIN Front(s) = DOMAIN s \ {Len(s)}
           /\ \A k \in DOMAIN Front(s) : Front(s)[k] = s[k]
           /\ \A k \in 1..(Len(s) - 1) : Front(s)[k] = s[k]
           /\ Last(s) = s[Len(s)] /\ Len(s) \in DOMAIN s /\ Last(s) \in S
  <1>1. Len(s) \in Nat \ {0} /\ DOMAIN s = 1..Len(s) /\ \A k \in 1..Len(s) : s[k] \in S
    BY LenProperties, EmptySeq, ElementOfSeq
  <1>2. /\ Front(s) \in Seq(S) /\ Len(Front(s)) = Len(s) - 1
        /\ \A k \in 1..(Len(s) - 1) : Front(s)[k] = s[k]
    <2>1. \A k \in 1..(Len(s) - 1) : s[k] \in S
      BY <1>1
    <2> QED BY <1>1, <2>1, SubSeqProperties DEF Front
  <1>3. DOMAIN Front(s) = 1..(Len(s) - 1)
    BY <1>2, LenProperties
  <1> QED BY <1>1, <1>2, <1>3 DEF Last

\* When a call returns, the others stay as they are.
LEMMA CallReturned ==
    ASSUME TypeInv, ScanReturn
    PROVE  /\ calls' \in Seq(Frames)
           /\ DOMAIN calls' = DOMAIN calls \ {Len(calls)} /\ DOMAIN calls' \subseteq DOMAIN calls
           /\ \A k \in DOMAIN calls' : calls'[k] = calls[k]
  <1>1. calls \in Seq(Frames) /\ calls # <<>> /\ calls' = Front(calls)
    BY DEF TypeInv, ScanReturn
  <1>2. /\ Front(calls) \in Seq(Frames)
        /\ DOMAIN Front(calls) = DOMAIN calls \ {Len(calls)}
        /\ \A k \in DOMAIN Front(calls) : Front(calls)[k] = calls[k]
    BY <1>1, StackReturn
  <1> QED BY <1>1, <1>2

\* The stack of calls when the innermost one goes on at n.
LEMMA StackNext ==
    ASSUME NEW S, NEW s \in Seq(S), s # <<>>, NEW n \in S
    PROVE  LET t == Append(Front(s), n) \o <<>>
           IN  /\ t \in Seq(S) /\ Len(t) = Len(s) /\ DOMAIN t = DOMAIN s /\ t[Len(s)] = n
               /\ \A k \in DOMAIN s : k # Len(s) => t[k] = s[k]
  <1>0. PICK r \in Seq(S) : r = Front(s)
    BY StackReturn
  <1>a. Len(s) \in Nat \ {0} /\ Len(r) = Len(s) - 1 /\ \A k \in 1..(Len(s) - 1) : r[k] = s[k]
    BY <1>0, StackReturn
  <1>1. PICK u \in Seq(S) : u = Append(Front(s), n)
    BY <1>0, AppendProperties
  <1>2. /\ Len(u) = Len(s) /\ u[Len(s)] = n
        /\ \A k \in 1..Len(s) : k # Len(s) => u[k] = s[k]
    BY <1>0, <1>a, <1>1
  <1>3. u \o <<>> = u
    OBVIOUS
  <1> QED BY <1>1, <1>2, <1>3

\* The stack of calls when the innermost one goes on at n after a call c.
LEMMA StackCall ==
    ASSUME NEW S, NEW s \in Seq(S), s # <<>>, NEW n \in S, NEW c \in S
    PROVE  LET t == Append(Front(s), n) \o <<c>>
           IN  /\ t \in Seq(S) /\ Len(t) = Len(s) + 1 /\ DOMAIN t = DOMAIN s \cup {Len(s) + 1}
               /\ t[Len(s)] = n /\ t[Len(s) + 1] = c
               /\ \A k \in DOMAIN s : k # Len(s) => t[k] = s[k]
  <1>0. PICK r \in Seq(S) : r = Front(s)
    BY StackReturn
  <1>a. Len(s) \in Nat \ {0} /\ Len(r) = Len(s) - 1 /\ \A k \in 1..(Len(s) - 1) : r[k] = s[k]
    BY <1>0, StackReturn
  <1>1. PICK u \in Seq(S) : u = Append(Front(s), n)
    BY <1>0, AppendProperties
  <1>2. /\ Len(u) = Len(s) /\ u[Len(s)] = n
        /\ \A k \in 1..Len(s) : k # Len(s) => u[k] = s[k]
    BY <1>0, <1>a, <1>1
  <1>3. u \o <<c>> = Append(u, c)
    OBVIOUS
  <1>4. /\ Append(u, c) \in Seq(S) /\ Len(Append(u, c)) = Len(s) + 1 /\ Append(u, c)[Len(s) + 1] = c
        /\ \A k \in 1..Len(s) : Append(u, c)[k] = u[k]
    BY <1>2
  <1>5. Len(s) \in Nat \ {0} /\ DOMAIN s = 1..Len(s) /\ DOMAIN Append(u, c) = 1..(Len(s) + 1)
    BY <1>4
  <1>6. 1..(Len(s) + 1) = 1..Len(s) \cup {Len(s) + 1}
    BY <1>5
  <1>7. Append(Front(s), n) \o <<c>> = Append(u, c)
    BY <1>1, <1>3
  <1>8. Append(u, c)[Len(s)] = n /\ \A k \in DOMAIN s : k # Len(s) => Append(u, c)[k] = s[k]
    BY <1>2, <1>4, <1>5
  <1> QED BY <1>4, <1>5, <1>6, <1>7, <1>8, Zenon

\* An address is its three numbers.
LEMMA AddressParts ==
    ASSUME NEW a \in Addresses
    PROVE  /\ a = <<a[1], a[2], a[3]>>
           /\ a[1] \in Buses /\ a[2] \in 0..(DeviceCount - 1) /\ a[3] \in 0..(FunctionCount - 1)
           /\ <<a[1], a[2], 0>> \in Addresses
  BY CountsAssumption DEF Addresses

\* A new call has passed nothing yet.
LEMMA NewCall ==
    ASSUME NEW bus \in Buses
    PROVE  /\ Scan(bus) \in Frames /\ Scan(bus).bus = bus
           /\ \A a \in Addresses : ~Before(a, Scan(bus))
           /\ \A space, registered : CallInv(Scan(bus), space, registered)
  <1>1. Scan(bus) = [bus |-> bus, device |-> 0, function |-> 0]
    BY DEF Scan
  <1>2. 0 \in 0..DeviceCount /\ 0 \in 0..(FunctionCount - 1) /\ DeviceCount # 0
    BY CountsAssumption
  <1>3. Scan(bus) \in Frames
    BY <1>1, <1>2 DEF Frames
  <1>4. \A a \in Addresses : ~Before(a, Scan(bus))
    <2> SUFFICES ASSUME NEW a \in Addresses PROVE ~Before(a, Scan(bus))
      OBVIOUS
    <2>1. Scan(bus).device = 0 /\ Scan(bus).function = 0
      BY <1>1
    <2>2. a[2] \in 0..(DeviceCount - 1) /\ a[3] \in 0..(FunctionCount - 1)
      BY AddressParts
    <2>3. a[2] \in Nat /\ a[3] \in Nat
      BY <2>2, CountsAssumption
    <2> QED BY <2>1, <2>3 DEF Before
  <1> QED BY <1>1, <1>2, <1>3, <1>4 DEF CallInv

\* Where a call goes on.
LEMMA NextFrames ==
    ASSUME calls \in Seq(Frames), Looking
    PROVE  /\ Here \in Frames /\ Address \in Addresses
           /\ NextDevice \in Frames /\ NextFunction \in Frames
           /\ NextDevice = [bus |-> Here.bus, device |-> Here.device + 1, function |-> 0]
           /\ NextFunction = IF Here.function + 1 < FunctionCount
                             THEN [bus |-> Here.bus, device |-> Here.device,
                                   function |-> Here.function + 1]
                             ELSE NextDevice
  <1>1. Here \in Frames
    BY StackReturn DEF Here, Looking
  <1>2. PICK f \in Frames : f = Here
    BY <1>1
  <1>3. f.device < DeviceCount
    BY <1>2 DEF Looking
  <1>4. NextDevice = [bus |-> f.bus, device |-> f.device + 1, function |-> 0]
    BY <1>2 DEF NextDevice
  <1>5. NextFunction = IF f.function + 1 < FunctionCount
                       THEN [bus |-> f.bus, device |-> f.device, function |-> f.function + 1]
                       ELSE NextDevice
    BY <1>2 DEF NextFunction, Frames
  <1>6. f.bus \in Buses /\ f.device \in 0..DeviceCount /\ f.function \in 0..(FunctionCount - 1)
    BY DEF Frames
  <1>7. NextDevice \in Frames
    BY <1>3, <1>4, <1>6, CountsAssumption DEF Frames
  <1>8. NextFunction \in Frames
    BY <1>5, <1>6, <1>7, CountsAssumption DEF Frames
  <1>9. Address \in Addresses
    BY <1>2, <1>3, <1>6, CountsAssumption DEF Address, Addresses
  <1> QED BY <1>1, <1>2, <1>4, <1>5, <1>7, <1>8, <1>9

\* A loop passes one function at a time, or the rest of a device.
LEMMA BeforeNext ==
    ASSUME NEW f \in Frames, NEW a \in Addresses, NEW n \in Frames,
           \/ n = [bus |-> f.bus, device |-> f.device + 1, function |-> 0]
           \/ n = [bus |-> f.bus, device |-> f.device, function |-> f.function + 1]
    PROVE  /\ Before(a, f) => Before(a, n)
           /\ a[2] = f.device /\ a[3] = f.function => Before(a, n)
           /\ Before(a, n) => \/ Before(a, f)
                              \/ a[2] = f.device /\ a[3] = f.function
                              \/ /\ a[2] = f.device /\ a[3] > f.function
                                 /\ n.device = f.device + 1
  <1>1. /\ f.device \in Nat /\ f.function \in Nat /\ n.device \in Nat /\ n.function \in Nat
        /\ a[2] \in Nat /\ a[3] \in Nat
    <2>1. /\ f.device \in 0..DeviceCount /\ f.function \in 0..(FunctionCount - 1)
          /\ n.device \in 0..DeviceCount /\ n.function \in 0..(FunctionCount - 1)
      BY DEF Frames
    <2>2. a[2] \in 0..(DeviceCount - 1) /\ a[3] \in 0..(FunctionCount - 1)
      BY AddressParts
    <2> QED BY <2>1, <2>2, CountsAssumption
  <1>2. CASE n = [bus |-> f.bus, device |-> f.device + 1, function |-> 0]
    <2>1. n.device = f.device + 1 /\ n.function = 0
      BY <1>2
    <2> QED BY <1>1, <2>1 DEF Before
  <1>3. CASE n = [bus |-> f.bus, device |-> f.device, function |-> f.function + 1]
    <2>1. n.device = f.device /\ n.function = f.function + 1
      BY <1>3
    <2> QED BY <1>1, <2>1 DEF Before
  <1> QED BY <1>2, <1>3

\* More in the array does no harm to the calls that are under way.
LEMMA CallKept ==
    ASSUME NEW call, NEW space, NEW before, NEW after, before \subseteq after,
           CallInv(call, space, before)
    PROVE  CallInv(call, space, after)
  BY DEF CallInv

\* A call that goes on has its invariant: the function it was at is in the array or
\* absent, and the functions that it skips do not exist for software.
LEMMA CallAdvances ==
    ASSUME NEW space, NEW before, NEW after, before \subseteq after,
           NEW f \in Frames, f.device < DeviceCount, CallInv(f, space, before),
           NEW n \in Frames,
           space[<<f.bus, f.device, f.function>>] = Absent \/ <<f.bus, f.device, f.function>> \in after,
           \/ /\ n = [bus |-> f.bus, device |-> f.device + 1, function |-> 0]
              /\ \/ f.function = 0 /\ space[<<f.bus, f.device, 0>>] = Absent
                 \/ f.function = 0 /\ ~space[<<f.bus, f.device, 0>>].multi
                 \/ f.function + 1 = FunctionCount
           \/ /\ n = [bus |-> f.bus, device |-> f.device, function |-> f.function + 1]
              /\ space[<<f.bus, f.device, 0>>] # Absent /\ space[<<f.bus, f.device, 0>>].multi
    PROVE  CallInv(n, space, after)
  <1>0. /\ f.device \in Nat /\ f.function \in Nat
        /\ n.bus = f.bus
        /\ n.device = DeviceCount => n.function = 0
    BY CountsAssumption DEF Frames
  <1>1. n.function > 0 => LET zero == space[<<n.bus, n.device, 0>>] IN zero # Absent /\ zero.multi
    BY <1>0
  <1>2. ASSUME NEW a \in Addresses, a[1] = n.bus, IsVisible(a, space), Before(a, n)
        PROVE  a \in after
    <2>1. CASE Before(a, f)
      BY <1>0, <1>2, <2>1 DEF CallInv
    <2>2. CASE a[2] = f.device /\ a[3] = f.function
      <3>1. a = <<f.bus, f.device, f.function>>
        BY <2>2, <1>0, <1>2, AddressParts
      <3> QED BY <3>1, <1>2 DEF IsVisible
    <2>3. CASE a[2] = f.device /\ a[3] > f.function /\ n.device = f.device + 1
      <3>1. a[3] \in 0..(FunctionCount - 1) /\ <<a[1], a[2], 0>> = <<f.bus, f.device, 0>>
        BY <2>3, <1>0, <1>2, AddressParts
      <3>2. f.function = 0 /\ (\/ space[<<f.bus, f.device, 0>>] = Absent
                               \/ ~space[<<f.bus, f.device, 0>>].multi)
        BY <2>3, <3>1, <1>0, CountsAssumption
      <3> QED BY <2>3, <3>1, <3>2, <1>2 DEF IsVisible
    <2> QED BY <2>1, <2>2, <2>3, <1>2, BeforeNext
  <1> QED BY <1>0, <1>1, <1>2 DEF CallInv

-----------------------------------------------------------------------------
(* The steps of the scan.                                                   *)

\* The calls after a step of the innermost one's loop: they are on the same buses, have
\* passed what they had passed, and satisfy the invariant with the array as it is then.
LoopStepped ==
    /\ calls' \in Seq(Frames) /\ DOMAIN calls \subseteq DOMAIN calls'
    /\ \A k \in DOMAIN calls :
          /\ calls'[k].bus = calls[k].bus
          /\ CallInv(calls'[k], config, Registered')
          /\ \A a \in Addresses : Before(a, calls[k]) => Before(a, calls'[k])

\* An absent function: nothing else happens.
LEMMA AbsentStep ==
    ASSUME TypeInv, VisitInv, ScanAbsent
    PROVE  LoopStepped /\ DOMAIN calls' = DOMAIN calls /\ Registered' = Registered
  <1>1. Looking /\ Function = Absent /\ calls' = Append(Front(calls), AfterAbsent) \o <<>>
        /\ devices' = devices /\ calls # <<>> /\ calls \in Seq(Frames)
    BY DEF ScanAbsent, Continue, TypeInv, Looking
  <1>2. PICK f \in Frames : f = Here
    BY <1>1, NextFrames
  <1>3. f = calls[Len(calls)] /\ Len(calls) \in DOMAIN calls
    BY <1>1, <1>2, StackReturn DEF Here
  <1>4. CallInv(f, config, Registered) /\ f.device < DeviceCount
    BY <1>1, <1>2, <1>3 DEF VisitInv, Looking
  <1>5. config[<<f.bus, f.device, f.function>>] = Absent
    BY <1>1, <1>2 DEF Function, Address
  <1>6. PICK n \in Frames : n = AfterAbsent
    BY <1>1, NextFrames DEF AfterAbsent
  <1>7. f.function \in 0..(FunctionCount - 1)
    BY DEF Frames
  <1>8. \/ /\ n = [bus |-> f.bus, device |-> f.device + 1, function |-> 0]
           /\ \/ f.function = 0 /\ config[<<f.bus, f.device, 0>>] = Absent
              \/ f.function + 1 = FunctionCount
        \/ /\ n = [bus |-> f.bus, device |-> f.device, function |-> f.function + 1]
           /\ config[<<f.bus, f.device, 0>>] # Absent /\ config[<<f.bus, f.device, 0>>].multi
    <2>1. CASE f.function = 0
      BY <1>1, <1>2, <1>5, <1>6, <2>1, NextFrames DEF AfterAbsent
    <2>2. CASE f.function # 0
      <3>1. n = NextFunction
        BY <1>2, <1>6, <2>2 DEF AfterAbsent
      <3>2. config[<<f.bus, f.device, 0>>] # Absent /\ config[<<f.bus, f.device, 0>>].multi
        BY <1>4, <1>7, <2>2, CountsAssumption DEF CallInv
      <3>3. f.function + 1 < FunctionCount \/ f.function + 1 = FunctionCount
        BY <1>7, CountsAssumption
      <3> QED BY <1>1, <1>2, <3>1, <3>2, <3>3, NextFrames
    <2> QED BY <2>1, <2>2
  <1>9. Registered' = Registered
    BY <1>1 DEF Registered
  <1>10. CallInv(n, config, Registered)
    BY <1>4, <1>5, <1>8, CallAdvances
  <1>11. n.bus = f.bus /\ \A a \in Addresses : Before(a, f) => Before(a, n)
    BY <1>8, BeforeNext
  <1>12. /\ calls' \in Seq(Frames) /\ DOMAIN calls' = DOMAIN calls /\ calls'[Len(calls)] = n
         /\ \A k \in DOMAIN calls : k # Len(calls) => calls'[k] = calls[k]
    BY <1>1, <1>6, StackNext
  <1>13. \A k \in DOMAIN calls : CallInv(calls[k], config, Registered)
    BY DEF VisitInv
  <1> QED BY <1>3, <1>9, <1>10, <1>11, <1>12, <1>13 DEF LoopStepped

\* A call that comes to a function that is there: software can see it, and the call has
\* not passed it.
LEMMA FunctionHere ==
    ASSUME TypeInv, VisitInv, Looking, Function # Absent
    PROVE  /\ Address \in Addresses /\ IsVisible(Address, config)
           /\ Here = calls[Len(calls)] /\ Len(calls) \in DOMAIN calls
           /\ Address[1] = Here.bus /\ ~Before(Address, Here)
  <1>1. calls # <<>> /\ calls \in Seq(Frames)
    BY DEF TypeInv, Looking
  <1>2. PICK f \in Frames : f = Here
    BY <1>1, NextFrames
  <1>3. f = calls[Len(calls)] /\ Len(calls) \in DOMAIN calls
    BY <1>1, <1>2, StackReturn DEF Here
  <1>4. CallInv(f, config, Registered)
    BY <1>3 DEF VisitInv
  <1>5. PICK A \in Addresses : A = Address
    BY <1>1, NextFrames
  <1>6. A = <<f.bus, f.device, f.function>> /\ A[1] = f.bus /\ A[2] = f.device /\ A[3] = f.function
    BY <1>2, <1>5 DEF Address
  <1>7. f.function \in 0..(FunctionCount - 1) /\ f.device \in 0..DeviceCount
    BY DEF Frames
  <1>8. IsVisible(A, config)
    <2>1. config[A] # Absent
      BY <1>5 DEF Function
    <2>2. f.function = 0 => A = <<A[1], A[2], 0>>
      BY <1>6
    <2>3. f.function > 0 => config[<<A[1], A[2], 0>>] # Absent /\ config[<<A[1], A[2], 0>>].multi
      BY <1>4, <1>6 DEF CallInv
    <2>4. f.function = 0 \/ f.function > 0
      BY <1>7, CountsAssumption
    <2> QED BY <1>6, <2>1, <2>2, <2>3, <2>4 DEF IsVisible
  <1>9. ~Before(A, f)
    BY <1>6, <1>7, CountsAssumption DEF Before
  <1> QED BY <1>2, <1>3, <1>5, <1>6, <1>8, <1>9

\* A function that is there: it is registered, and a call is added if it is a bridge.
LEMMA FunctionStep ==
    ASSUME TypeInv, VisitInv, ScanFunction
    PROVE  /\ LoopStepped /\ Registered' = Registered \cup {Address}
           /\ Address \in Addresses /\ IsVisible(Address, config)
           /\ Here = calls[Len(calls)] /\ Len(calls) \in DOMAIN calls
           /\ Address[1] = Here.bus /\ Before(Address, calls'[Len(calls)])
           /\ ~Before(Address, Here)
           /\ \/ config[Address].class # "bridge" /\ DOMAIN calls' = DOMAIN calls
              \/ /\ Address \in Bridges
                 /\ DOMAIN calls' = DOMAIN calls \cup {Len(calls) + 1}
                 /\ Len(calls) + 1 \notin DOMAIN calls
                 /\ calls'[Len(calls) + 1] = Scan(config[Address].secondary)
                 /\ config[Address].secondary \in Buses
  <1>1. Looking /\ Function # Absent /\ devices' = Append(devices, Address)
        /\ calls' = Append(Front(calls), AfterPresent)
                      \o (IF Function.class = "bridge" THEN <<Scan(Function.secondary)>> ELSE <<>>)
        /\ calls # <<>> /\ calls \in Seq(Frames) /\ devices \in Seq(Addresses)
    BY DEF ScanFunction, Continue, TypeInv, Looking
  <1>2. PICK f \in Frames : f = Here
    BY <1>1, NextFrames
  <1>3. f = calls[Len(calls)] /\ Len(calls) \in DOMAIN calls
    BY <1>1, <1>2, StackReturn DEF Here
  <1>4. CallInv(f, config, Registered) /\ f.device < DeviceCount
    BY <1>1, <1>2, <1>3 DEF VisitInv, Looking
  <1>5. PICK A \in Addresses : A = Address
    BY <1>1, NextFrames
  <1>6. A = <<f.bus, f.device, f.function>> /\ A[1] = f.bus /\ A[2] = f.device /\ A[3] = f.function
    BY <1>2, <1>5 DEF Address
  <1>7. f.function \in 0..(FunctionCount - 1) /\ f.device \in 0..DeviceCount
    BY DEF Frames
  <1>8. IsVisible(A, config) /\ ~Before(A, f)
    BY <1>1, <1>2, <1>5, FunctionHere
  <1>9. PICK n \in Frames : n = AfterPresent
    BY <1>1, NextFrames DEF AfterPresent
  <1>10. \/ /\ n = [bus |-> f.bus, device |-> f.device + 1, function |-> 0]
            /\ \/ f.function = 0 /\ ~config[<<f.bus, f.device, 0>>].multi
               \/ f.function + 1 = FunctionCount
         \/ /\ n = [bus |-> f.bus, device |-> f.device, function |-> f.function + 1]
            /\ config[<<f.bus, f.device, 0>>] # Absent /\ config[<<f.bus, f.device, 0>>].multi
    <2>1. CASE f.function = 0 /\ ~config[A].multi
      BY <1>1, <1>2, <1>5, <1>6, <1>9, <2>1, NextFrames DEF AfterPresent, Function
    <2>2. CASE ~(f.function = 0 /\ ~config[A].multi)
      <3>1. n = NextFunction
        BY <1>2, <1>5, <1>9, <2>2 DEF AfterPresent, Function
      <3>2. config[<<f.bus, f.device, 0>>] # Absent /\ config[<<f.bus, f.device, 0>>].multi
        <4>1. CASE f.function = 0
          BY <1>6, <1>8, <2>2, <4>1 DEF IsVisible
        <4>2. CASE f.function # 0
          BY <1>4, <1>7, <4>2, CountsAssumption DEF CallInv
        <4> QED BY <4>1, <4>2
      <3>3. f.function + 1 < FunctionCount \/ f.function + 1 = FunctionCount
        BY <1>7, CountsAssumption
      <3> QED BY <1>1, <1>2, <3>1, <3>2, <3>3, NextFrames
    <2> QED BY <2>1, <2>2
  <1>11. Registered' = Registered \cup {A}
    <2>1. /\ Append(devices, A) \in Seq(Addresses) /\ Len(Append(devices, A)) = Len(devices) + 1
          /\ \A k \in 1..Len(devices) : Append(devices, A)[k] = devices[k]
          /\ Append(devices, A)[Len(devices) + 1] = A
      BY <1>1, AppendProperties
    <2>2. Len(devices) \in Nat /\ DOMAIN devices = 1..Len(devices)
          /\ DOMAIN devices' = 1..(Len(devices) + 1)
      BY <1>1, <1>5, <2>1, LenProperties
    <2>3. ASSUME NEW a PROVE a \in Registered' <=> a \in Registered \cup {A}
      <3>1. a \in Registered' <=> \E k \in 1..(Len(devices) + 1) : a = Append(devices, A)[k]
        BY <1>1, <1>5, <2>2 DEF Registered
      <3>2. a \in Registered <=> \E k \in 1..Len(devices) : a = devices[k]
        BY <2>2 DEF Registered
      <3>3. \A k \in 1..(Len(devices) + 1) : k \in 1..Len(devices) \/ k = Len(devices) + 1
        BY <2>2
      <3>4. Len(devices) + 1 \in 1..(Len(devices) + 1)
            /\ \A k \in 1..Len(devices) : k \in 1..(Len(devices) + 1)
        BY <2>2
      <3> QED BY <2>1, <3>1, <3>2, <3>3, <3>4
    <2> QED BY <2>3
  <1>12. CallInv(n, config, Registered')
    BY <1>4, <1>6, <1>10, <1>11, CallAdvances
  <1>13. n.bus = f.bus /\ (\A a \in Addresses : Before(a, f) => Before(a, n)) /\ Before(A, n)
    BY <1>6, <1>10, BeforeNext
  <1>15. ASSUME NEW k \in DOMAIN calls PROVE CallInv(calls[k], config, Registered')
    <2>1. CallInv(calls[k], config, Registered)
      BY DEF VisitInv
    <2> QED BY <1>11, <2>1, CallKept
  <1>16. CASE Function.class = "bridge"
    <2>1. A \in Bridges
      BY <1>1, <1>5, <1>16 DEF Bridges, Function
    <2>2. config[A].secondary \in Buses
      BY <1>5, ConfigAssumption, BusesAssumption DEF TypeInv, Functions, Absent
    <2>3. PICK c \in Frames : c = Scan(config[A].secondary)
      BY <2>2, NewCall
    <2>4. calls' = Append(Front(calls), n) \o <<c>>
      BY <1>1, <1>5, <1>9, <1>16, <2>3 DEF Function
    <2>5. /\ calls' \in Seq(Frames) /\ DOMAIN calls' = DOMAIN calls \cup {Len(calls) + 1}
          /\ calls'[Len(calls)] = n /\ calls'[Len(calls) + 1] = c
          /\ \A k \in DOMAIN calls : k # Len(calls) => calls'[k] = calls[k]
      BY <1>1, <2>4, StackCall
    <2>6. Len(calls) + 1 \notin DOMAIN calls
      BY <1>1, LenProperties
    <2>7. LoopStepped
      BY <1>3, <1>12, <1>13, <1>15, <2>5 DEF LoopStepped
    <2> QED BY <1>2, <1>3, <1>5, <1>6, <1>8, <1>11, <1>13, <2>1, <2>2, <2>3, <2>5, <2>6, <2>7
  <1>17. CASE Function.class # "bridge"
    <2>1. calls' = Append(Front(calls), n) \o <<>>
      BY <1>1, <1>9, <1>17
    <2>2. /\ calls' \in Seq(Frames) /\ DOMAIN calls' = DOMAIN calls /\ calls'[Len(calls)] = n
          /\ \A k \in DOMAIN calls : k # Len(calls) => calls'[k] = calls[k]
      BY <1>1, <2>1, StackNext
    <2>3. LoopStepped
      BY <1>3, <1>12, <1>13, <1>15, <2>2 DEF LoopStepped
    <2>4. config[A].class # "bridge"
      BY <1>5, <1>17 DEF Function
    <2> QED BY <1>2, <1>3, <1>5, <1>6, <1>8, <1>11, <1>13, <2>2, <2>3, <2>4
  <1> QED BY <1>16, <1>17

\* The machine does not change, and neither does what is reached on it.
LEMMA MachineKept ==
    ASSUME config' = config
    PROVE  /\ (SingleRoot' <=> SingleRoot) /\ Bridges' = Bridges
           /\ (WellNumbered' <=> WellNumbered) /\ ReachableBuses' = ReachableBuses
  <1>1. Bridges' = Bridges /\ (SingleRoot' <=> SingleRoot)
    BY DEF Bridges, SingleRoot
  <1>2. WellNumbered' <=> WellNumbered
    BY <1>1 DEF WellNumbered
  <1>3. ReachableBuses' = ReachableBuses
    BY <1>1 DEF ReachableBuses, VisibleOn
  <1> QED BY <1>1, <1>2, <1>3

\* The types are those of the initial state.
LEMMA InitTypeInv == Init => TypeInv
  <1> SUFFICES ASSUME Init PROVE TypeInv
    OBVIOUS
  <1>1. <<>> \in Seq(Addresses) /\ Len(<<>>) = 0 /\ <<>> \in Seq(Frames)
    BY EmptySeq, LenProperties
  <1>2. Scan(0) \in Frames
    BY NewCall, BusesAssumption
  <1>3. <<Scan(0)>> \in Seq(Frames)
    BY <1>2
  <1> QED BY <1>1, <1>3, CountsAssumption DEF Init, TypeInv

\* Every step keeps the types, and the array within its bounds.
LEMMA NextTypeInv == TypeInv /\ VisitInv /\ [Next]_vars => TypeInv'
  <1> SUFFICES ASSUME TypeInv, VisitInv, [Next]_vars PROVE TypeInv'
    OBVIOUS
  <1>1. CASE ScanAbsent
    <2>1. calls' \in Seq(Frames)
      BY <1>1, AbsentStep DEF LoopStepped
    <2> QED BY <1>1, <2>1 DEF ScanAbsent, TypeInv, Looking
  <1>2. CASE ScanFunction
    <2>1. calls' \in Seq(Frames) /\ Address \in Addresses
      BY <1>2, FunctionStep DEF LoopStepped
    <2>2. devices' \in Seq(Addresses) /\ Len(devices') = Len(devices) + 1 /\ Len(devices) \in Nat
      BY <1>2, <2>1, AppendProperties, LenProperties DEF ScanFunction, TypeInv
    <2>3. Len(devices') <= MaxDevices
      BY <1>2, <2>2, CountsAssumption DEF ScanFunction, IsFull, TypeInv
    <2> QED BY <1>2, <2>1, <2>2, <2>3 DEF ScanFunction, TypeInv, Looking
  <1>3. CASE ScanFull
    <2>1. <<>> \in Seq(Frames)
      BY EmptySeq
    <2> QED BY <1>3, <2>1 DEF ScanFull, TypeInv, Looking
  <1>4. CASE ScanReturn
    <2>1. calls' \in Seq(Frames)
      BY <1>4, CallReturned
    <2> QED BY <1>4, <2>1 DEF ScanReturn, TypeInv
  <1>5. CASE ScanRoot
    <2>1. root_function \in Buses /\ root_function + 1 \in 1..FunctionCount
      BY <1>5, CountsAssumption DEF ScanRoot, TypeInv
    <2>2. Scan(root_function) \in Frames
      BY <2>1, NewCall
    <2>3. calls' \in Seq(Frames)
      BY <1>5, <2>2 DEF ScanRoot
    <2> QED BY <1>5, <2>1, <2>3 DEF ScanRoot, TypeInv
  <1>6. CASE ScanDone
    BY <1>6 DEF ScanDone, TypeInv
  <1>7. CASE FindXhcDevice \/ FindDone
    BY <1>7 DEF FindXhcDevice, FindDone, TypeInv
  <1>8. CASE UNCHANGED vars
    BY <1>8 DEF vars, TypeInv
  <1> QED BY <1>1, <1>2, <1>3, <1>4, <1>5, <1>6, <1>7, <1>8 DEF Next

\* Steps outside the scan leave its state alone.
LEMMA NoScanStep ==
    ASSUME ScanDone \/ FindXhcDevice \/ FindDone \/ UNCHANGED vars
    PROVE  /\ config' = config /\ devices' = devices /\ calls' = calls
           /\ root_function' = root_function /\ Registered' = Registered
           /\ error' = "Full" => error = "Full"
  BY DEF ScanDone, FindXhcDevice, FindDone, vars, Registered

\* The array is empty at first, and the only call is at its beginning.
LEMMA InitVisitInv == Init => VisitInv
  <1> SUFFICES ASSUME Init PROVE VisitInv
    OBVIOUS
  <1>1. Registered = {}
    BY DEF Init, Registered
  <1>2. ASSUME NEW k \in DOMAIN calls PROVE calls[k] = Scan(0)
    BY DEF Init
  <1> QED BY <1>1, <1>2, NewCall, BusesAssumption DEF VisitInv

\* What is in the array exists for software, and no call skips a function.
LEMMA NextVisitInv == TypeInv /\ VisitInv /\ [Next]_vars => VisitInv'
  <1> SUFFICES ASSUME TypeInv, VisitInv, [Next]_vars PROVE VisitInv'
    OBVIOUS
  <1>1. CASE ScanAbsent
    <2>1. LoopStepped /\ DOMAIN calls' = DOMAIN calls /\ Registered' = Registered
      BY <1>1, AbsentStep
    <2>2. config' = config
      BY <1>1 DEF ScanAbsent
    <2> QED BY <2>1, <2>2 DEF LoopStepped, VisitInv
  <1>2. CASE ScanFunction
    <2>1. config' = config
      BY <1>2 DEF ScanFunction
    <2>2. LoopStepped /\ Registered' = Registered \cup {Address} /\ IsVisible(Address, config)
      BY <1>2, FunctionStep
    <2>3. ASSUME NEW k \in DOMAIN calls' PROVE CallInv(calls'[k], config, Registered')
      <3>1. CASE k \in DOMAIN calls
        BY <2>2, <3>1 DEF LoopStepped
      <3>2. CASE k \notin DOMAIN calls
        <4>1. calls'[k] = Scan(config[Address].secondary) /\ config[Address].secondary \in Buses
          BY <1>2, <2>3, <3>2, FunctionStep
        <4> QED BY <4>1, NewCall
      <3> QED BY <3>1, <3>2
    <2>4. \A a \in Registered' : IsVisible(a, config)
      BY <2>2 DEF VisitInv
    <2> QED BY <2>1, <2>3, <2>4 DEF VisitInv
  <1>3. CASE ScanFull
    BY <1>3 DEF ScanFull, VisitInv, Registered
  <1>4. CASE ScanReturn
    <2>1. DOMAIN calls' \subseteq DOMAIN calls /\ \A k \in DOMAIN calls' : calls'[k] = calls[k]
      BY <1>4, CallReturned
    <2> QED BY <1>4, <2>1 DEF ScanReturn, VisitInv, Registered
  <1>5. CASE ScanRoot
    <2>1. root_function \in Buses
      BY <1>5, CountsAssumption DEF ScanRoot, TypeInv
    <2>2. \A k \in DOMAIN calls' : calls'[k] = Scan(root_function)
      BY <1>5 DEF ScanRoot
    <2>3. \A k \in DOMAIN calls' : CallInv(calls'[k], config', Registered')
      BY <2>1, <2>2, NewCall
    <2> QED BY <1>5, <2>3 DEF ScanRoot, VisitInv, Registered
  <1>6. CASE ScanDone \/ FindXhcDevice \/ FindDone \/ UNCHANGED vars
    BY <1>6, NoScanStep DEF VisitInv
  <1> QED BY <1>1, <1>2, <1>3, <1>4, <1>5, <1>6 DEF Next

\* Bus 0 is reached, and so is the bus behind a bridge on a bus that is.
LEMMA Reached ==
    /\ 0 \in ReachableBuses
    /\ \A a \in Bridges : a[1] \in ReachableBuses /\ IsVisible(a, config)
                          /\ config[a].secondary \in Buses => config[a].secondary \in ReachableBuses
  <1> DEFINE Closed(S) == 0 \in S /\ \A a \in Bridges \cap VisibleOn(S) : config[a].secondary \in S
  <1>1. ReachableBuses = {b \in Buses : \A S \in {T \in SUBSET Buses : Closed(T)} : b \in S}
    BY DEF ReachableBuses
  <1>2. 0 \in ReachableBuses
    BY <1>1, BusesAssumption
  <1>3. ASSUME NEW a \in Bridges, a[1] \in ReachableBuses, IsVisible(a, config),
               config[a].secondary \in Buses
        PROVE  config[a].secondary \in ReachableBuses
    <2> SUFFICES ASSUME NEW S \in SUBSET Buses, Closed(S) PROVE config[a].secondary \in S
      BY <1>1, <1>3
    <2>1. a[1] \in S
      BY <1>1, <1>3
    <2>2. a \in Addresses
      BY DEF Bridges
    <2>3. a \in VisibleOn(S)
      BY <1>3, <2>1, <2>2 DEF VisibleOn, IsVisible
    <2> QED BY <2>3
  <1> QED BY <1>2, <1>3

\* The buses entered after a function is registered: one more if it is a bridge.
LEMMA EnteredNext ==
    ASSUME config' = config, NEW A, Registered' = Registered \cup {A}
    PROVE  /\ Entered \subseteq Entered'
           /\ A \in Bridges => Entered' = Entered \cup {config[A].secondary}
           /\ A \notin Bridges => Entered' = Entered
  <1>1. Bridges' = Bridges
    BY DEF Bridges
  <1> QED BY <1>1 DEF Entered

\* The same array, the same buses.
LEMMA EnteredKept ==
    ASSUME config' = config, Registered' = Registered
    PROVE  Entered' = Entered
  <1>1. Bridges' = Bridges
    BY DEF Bridges
  <1> QED BY <1>1 DEF Entered

\* More in the array does not make a bus incomplete.
LEMMA CompleteKept ==
    ASSUME NEW bus, NEW space, NEW before, NEW after, before \subseteq after,
           Complete(bus, space, before)
    PROVE  Complete(bus, space, after)
  BY DEF Complete

\* At first bus 0 is the only one entered.
LEMMA InitSearchInv == Init => SearchInv
  <1> SUFFICES ASSUME Init, SingleRoot PROVE SearchInv
    BY DEF SearchInv
  <1>1. Registered = {} /\ calls = <<Scan(0)>> /\ root_function = FunctionCount
    BY DEF Init, Registered, SingleRoot
  <1>2. Entered = {0}
    BY <1>1 DEF Entered
  <1>3. Scan(0).bus = 0
    BY DEF Scan
  <1>4. DOMAIN calls = {1} /\ calls[1].bus = 0
    BY <1>1, <1>3
  <1> QED BY <1>1, <1>2, <1>4, Reached DEF SearchInv

\* A call that returns leaves its bus complete.
LEMMA ReturnCompletes ==
    ASSUME TypeInv, VisitInv, ScanReturn
    PROVE  Complete(Here.bus, config, Registered) /\ Here = calls[Len(calls)]
  <1>1. Here = calls[Len(calls)] /\ Len(calls) \in DOMAIN calls /\ Here \in Frames
    BY StackReturn DEF ScanReturn, TypeInv, Here
  <1>2. CallInv(Here, config, Registered) /\ Here.device = DeviceCount
    BY <1>1 DEF VisitInv, ScanReturn
  <1>3. ASSUME NEW a \in Addresses PROVE Before(a, Here)
    <2>1. a[2] \in 0..(DeviceCount - 1)
      BY AddressParts
    <2> QED BY <1>2, <2>1, CountsAssumption DEF Before
  <1> QED BY <1>1, <1>2, <1>3 DEF CallInv, Complete

\* Every bus that is entered is under way or complete.
LEMMA NextSearchInv == TypeInv /\ VisitInv /\ SearchInv /\ [Next]_vars => SearchInv'
  <1> SUFFICES ASSUME TypeInv, VisitInv, SearchInv, [Next]_vars, SingleRoot' PROVE SearchInv'
    BY DEF SearchInv
  <1>0. config' = config
    BY DEF Next, ScanAbsent, ScanFunction, ScanFull, ScanReturn, ScanRoot, ScanDone,
           FindXhcDevice, FindDone, vars
  <1>a. SingleRoot /\ ReachableBuses' = ReachableBuses /\ Bridges' = Bridges
    BY <1>0, MachineKept
  <1>b. /\ root_function = FunctionCount
        /\ error # "Full" =>
             \A b \in Entered : \/ Complete(b, config, Registered)
                                \/ \E k \in DOMAIN calls : calls[k].bus = b
        /\ \A k \in DOMAIN calls : calls[k].bus \in Entered /\ calls[k].bus \in ReachableBuses
        /\ \A a \in Registered : a[1] \in Entered /\ a[1] \in ReachableBuses
    BY <1>a DEF SearchInv
  <1>1. CASE ScanAbsent
    <2>1. LoopStepped /\ DOMAIN calls' = DOMAIN calls /\ Registered' = Registered
      BY <1>1, AbsentStep
    <2>2. Entered' = Entered
      BY <1>0, <2>1, EnteredKept
    <2>3. root_function' = root_function /\ error' = error
      BY <1>1 DEF ScanAbsent
    <2>4. \A k \in DOMAIN calls : calls'[k].bus = calls[k].bus
      BY <2>1 DEF LoopStepped
    <2> QED BY <1>0, <1>a, <1>b, <2>1, <2>2, <2>3, <2>4 DEF SearchInv
  <1>2. CASE ScanFunction
    <2>1. /\ LoopStepped /\ Registered' = Registered \cup {Address}
          /\ Here = calls[Len(calls)] /\ Len(calls) \in DOMAIN calls
          /\ Address[1] = Here.bus /\ IsVisible(Address, config)
      BY <1>2, FunctionStep
    <2>2. root_function' = root_function /\ error' = error
      BY <1>2 DEF ScanFunction
    <2>3. /\ DOMAIN calls \subseteq DOMAIN calls'
          /\ \A k \in DOMAIN calls : calls'[k].bus = calls[k].bus
      BY <2>1 DEF LoopStepped
    <2>4. Entered \subseteq Entered'
      BY <1>0, <2>1, EnteredNext
    <2>5. Address[1] \in Entered /\ Address[1] \in ReachableBuses
      BY <1>b, <2>1
    <2>6. ASSUME NEW k \in DOMAIN calls' \ DOMAIN calls
          PROVE  /\ Address \in Bridges /\ calls'[k].bus = config[Address].secondary
                 /\ config[Address].secondary \in Entered'
                 /\ config[Address].secondary \in ReachableBuses
      <3>1. /\ Address \in Bridges /\ config[Address].secondary \in Buses
            /\ calls'[k] = Scan(config[Address].secondary)
        BY <1>2, <2>6, FunctionStep
      <3>2. calls'[k].bus = config[Address].secondary
        BY <3>1, NewCall
      <3> QED BY <1>0, <2>1, <2>5, <3>1, <3>2, EnteredNext, Reached
    <2>7. \A k \in DOMAIN calls' : calls'[k].bus \in Entered' /\ calls'[k].bus \in ReachableBuses
      BY <1>b, <2>3, <2>4, <2>6
    <2>8. \A a \in Registered' : a[1] \in Entered' /\ a[1] \in ReachableBuses
      BY <1>b, <2>1, <2>4, <2>5
    <2>9. ASSUME error # "Full", NEW b \in Entered'
          PROVE  Complete(b, config, Registered') \/ \E k \in DOMAIN calls' : calls'[k].bus = b
      <3>1. CASE b \in Entered
        <4>1. CASE Complete(b, config, Registered)
          BY <2>1, <4>1, CompleteKept
        <4>2. CASE \E k \in DOMAIN calls : calls[k].bus = b
          BY <2>3, <4>2
        <4> QED BY <1>b, <2>9, <3>1, <4>1, <4>2
      <3>2. CASE b \notin Entered
        <4>1. Address \in Bridges /\ b = config[Address].secondary
          BY <1>0, <2>1, <2>9, <3>2, EnteredNext
        <4>2. config[Address].class = "bridge"
          BY <4>1 DEF Bridges
        <4>3. /\ Len(calls) + 1 \in DOMAIN calls' /\ config[Address].secondary \in Buses
              /\ calls'[Len(calls) + 1] = Scan(config[Address].secondary)
          BY <1>2, <4>2, FunctionStep
        <4> QED BY <4>1, <4>3, NewCall
      <3> QED BY <3>1, <3>2
    <2> QED BY <1>0, <1>a, <1>b, <2>2, <2>7, <2>8, <2>9 DEF SearchInv
  <1>3. CASE ScanFull
    <2>1. Registered' = Registered /\ calls' = <<>> /\ error' = "Full"
          /\ root_function' = root_function
      BY <1>3 DEF ScanFull, Registered
    <2>2. Entered' = Entered
      BY <1>0, <2>1, EnteredKept
    <2> QED BY <1>a, <1>b, <2>1, <2>2 DEF SearchInv
  <1>4. CASE ScanReturn
    <2>1. Registered' = Registered /\ error' = error /\ root_function' = root_function
      BY <1>4 DEF ScanReturn, Registered
    <2>2. Entered' = Entered
      BY <1>0, <2>1, EnteredKept
    <2>3. /\ DOMAIN calls' = DOMAIN calls \ {Len(calls)}
          /\ \A k \in DOMAIN calls' : calls'[k] = calls[k]
      BY <1>4, CallReturned
    <2>4. Complete(calls[Len(calls)].bus, config, Registered)
      BY <1>4, ReturnCompletes
    <2>5. ASSUME error # "Full", NEW b \in Entered'
          PROVE  Complete(b, config, Registered) \/ \E k \in DOMAIN calls' : calls'[k].bus = b
      <3>1. CASE \E k \in DOMAIN calls : calls[k].bus = b
        BY <2>3, <2>4, <3>1
      <3> QED BY <1>b, <2>2, <2>5, <3>1
    <2> QED BY <1>0, <1>a, <1>b, <2>1, <2>2, <2>3, <2>5 DEF SearchInv
  <1>5. CASE ScanRoot
    BY <1>5, <1>b, CountsAssumption DEF ScanRoot
  <1>6. CASE ScanDone \/ FindXhcDevice \/ FindDone \/ UNCHANGED vars
    <2>1. /\ Registered' = Registered /\ calls' = calls /\ root_function' = root_function
          /\ error' = "Full" => error = "Full"
      BY <1>6, NoScanStep
    <2>2. Entered' = Entered
      BY <1>0, <2>1, EnteredKept
    <2>3. error # "Full" => error' # "Full"
      BY <1>6, <2>1 DEF ScanDone, FindXhcDevice, FindDone, vars
    <2>4. error' # "Full" => error # "Full"
      BY <1>6 DEF ScanDone, FindXhcDevice, FindDone, vars, TypeInv
    <2> QED BY <1>0, <1>a, <1>b, <2>1, <2>2, <2>3, <2>4 DEF SearchInv
  <1> QED BY <1>1, <1>2, <1>3, <1>4, <1>5, <1>6 DEF Next

\* At first there is at most one call, and nothing in the array.
LEMMA InitOnceInv == Init => OnceInv
  <1> SUFFICES ASSUME Init PROVE OnceInv
    OBVIOUS
  <1>1. Registered = {} /\ DOMAIN devices = {}
    BY DEF Init, Registered
  <1>2. \A k, m \in DOMAIN calls : k = m
    BY DEF Init
  <1> QED BY <1>1, <1>2 DEF OnceInv

\* No function is registered twice on a well-numbered machine: a call comes to each
\* function of its bus once, and no bus is entered twice, for the bridge that leads to it
\* would have been registered before.
LEMMA NextOnceInv == TypeInv /\ VisitInv /\ SearchInv /\ OnceInv /\ [Next]_vars => OnceInv'
  <1> SUFFICES ASSUME TypeInv, VisitInv, SearchInv, OnceInv, [Next]_vars,
                      SingleRoot', WellNumbered'
               PROVE  OnceInv'
    BY DEF OnceInv
  <1>0. config' = config
    BY DEF Next, ScanAbsent, ScanFunction, ScanFull, ScanReturn, ScanRoot, ScanDone,
           FindXhcDevice, FindDone, vars
  <1>a. SingleRoot /\ WellNumbered
    BY <1>0, MachineKept
  <1>b. /\ \A k, m \in DOMAIN devices : devices[k] = devices[m] => k = m
        /\ \A k, m \in DOMAIN calls : calls[k].bus = calls[m].bus => k = m
        /\ \A k \in DOMAIN calls : \A a \in Registered : a[1] = calls[k].bus => Before(a, calls[k])
    BY <1>a DEF OnceInv
  <1>c. Registered \subseteq Addresses
    BY ElementOfSeq DEF TypeInv, Registered
  <1>1. CASE ScanAbsent
    <2>1. LoopStepped /\ DOMAIN calls' = DOMAIN calls /\ Registered' = Registered
          /\ devices' = devices
      BY <1>1, AbsentStep DEF ScanAbsent
    <2>2. \A k \in DOMAIN calls : /\ calls'[k].bus = calls[k].bus
                                  /\ \A a \in Addresses : Before(a, calls[k]) => Before(a, calls'[k])
      BY <2>1 DEF LoopStepped
    <2> QED BY <1>b, <1>c, <2>1, <2>2 DEF OnceInv
  <1>2. CASE ScanFunction
    <2>1. /\ LoopStepped /\ Registered' = Registered \cup {Address} /\ Address \in Addresses
          /\ Here = calls[Len(calls)] /\ Len(calls) \in DOMAIN calls
          /\ Address[1] = Here.bus /\ Before(Address, calls'[Len(calls)])
          /\ ~Before(Address, Here)
      BY <1>2, FunctionStep
    <2>2. \A k \in DOMAIN calls : /\ calls'[k].bus = calls[k].bus
                                  /\ \A a \in Addresses : Before(a, calls[k]) => Before(a, calls'[k])
      BY <2>1 DEF LoopStepped
    <2>3. Address \notin Registered
      BY <1>b, <2>1
    <2>4. \A k, m \in DOMAIN devices' : devices'[k] = devices'[m] => k = m
      <3>1. PICK A \in Addresses : A = Address
        BY <2>1
      <3>2. devices \in Seq(Addresses) /\ devices' = Append(devices, A)
        BY <1>2, <3>1 DEF TypeInv, ScanFunction
      <3>3. /\ Len(devices) \in Nat /\ DOMAIN devices = 1..Len(devices)
            /\ DOMAIN devices' = 1..(Len(devices) + 1)
            /\ \A k \in 1..Len(devices) : devices'[k] = devices[k]
            /\ devices'[Len(devices) + 1] = A
        BY <3>2, AppendProperties, LenProperties
      <3>4. \A k \in DOMAIN devices : devices[k] # A
        BY <2>3, <3>1 DEF Registered
      <3>5. \A k \in DOMAIN devices' : k \in DOMAIN devices \/ k = Len(devices) + 1
        BY <3>3
      <3> QED BY <1>b, <3>3, <3>4, <3>5
    <2>5. ASSUME NEW k \in DOMAIN calls' \ DOMAIN calls
          PROVE  /\ k = Len(calls) + 1 /\ calls'[k].bus \notin Entered
      <3>1. /\ Address \in Bridges /\ config[Address].secondary \in Buses
            /\ k = Len(calls) + 1 /\ calls'[k] = Scan(config[Address].secondary)
        BY <1>2, <2>5, FunctionStep
      <3>2. calls'[k].bus = config[Address].secondary
        BY <3>1, NewCall
      <3>3. config[Address].secondary # 0
        BY <1>a, <3>1 DEF WellNumbered
      <3>4. \A a \in Registered \cap Bridges : config[a].secondary # config[Address].secondary
        BY <1>a, <2>3, <3>1 DEF WellNumbered
      <3> QED BY <3>1, <3>2, <3>3, <3>4 DEF Entered
    <2>6. /\ \A k \in DOMAIN calls : calls[k].bus \in Entered
          /\ \A a \in Registered : a[1] \in Entered
      BY <1>a DEF SearchInv
    <2>7. ASSUME NEW k \in DOMAIN calls', NEW m \in DOMAIN calls', calls'[k].bus = calls'[m].bus
          PROVE  k = m
      BY <1>b, <2>2, <2>5, <2>6, <2>7
    <2>8. ASSUME NEW k \in DOMAIN calls', NEW a \in Registered', a[1] = calls'[k].bus
          PROVE  Before(a, calls'[k])
      <3>1. CASE k \notin DOMAIN calls
        BY <2>1, <2>5, <2>6, <2>8, <3>1
      <3>2. CASE k \in DOMAIN calls /\ a \in Registered
        BY <1>b, <1>c, <2>2, <2>8, <3>2
      <3>3. CASE k \in DOMAIN calls /\ a = Address
        <4>1. calls[k].bus = calls[Len(calls)].bus
          BY <2>1, <2>2, <2>8, <3>3
        <4>2. k = Len(calls)
          BY <1>b, <2>1, <3>3, <4>1
        <4> QED BY <2>1, <3>3, <4>2
      <3> QED BY <2>1, <3>1, <3>2, <3>3
    <2> QED BY <2>4, <2>7, <2>8 DEF OnceInv
  <1>3. CASE ScanFull
    BY <1>3, <1>b DEF ScanFull, OnceInv
  <1>4. CASE ScanReturn
    <2>1. Registered' = Registered /\ devices' = devices
      BY <1>4 DEF ScanReturn, Registered
    <2>2. DOMAIN calls' \subseteq DOMAIN calls /\ \A k \in DOMAIN calls' : calls'[k] = calls[k]
      BY <1>4, CallReturned
    <2> QED BY <1>b, <2>1, <2>2 DEF OnceInv
  <1>5. CASE ScanRoot
    BY <1>5, <1>a, CountsAssumption DEF ScanRoot, SearchInv
  <1>6. CASE ScanDone \/ FindXhcDevice \/ FindDone \/ UNCHANGED vars
    BY <1>6, <1>b, NoScanStep DEF OnceInv
  <1> QED BY <1>1, <1>2, <1>3, <1>4, <1>5, <1>6 DEF Next

\* When the array is full, the function that the innermost call has come to is not in it.
LEMMA NextFullInv ==
    TypeInv /\ VisitInv /\ SearchInv /\ OnceInv /\ FullInv /\ [Next]_vars => FullInv'
  <1> SUFFICES ASSUME TypeInv, VisitInv, SearchInv, OnceInv, FullInv, [Next]_vars,
                      SingleRoot', WellNumbered', error' = "Full"
               PROVE  /\ Len(devices') = MaxDevices
                      /\ \E a \in VisibleOn(ReachableBuses)' : a \notin Registered'
    BY DEF FullInv
  <1>0. config' = config
    BY DEF Next, ScanAbsent, ScanFunction, ScanFull, ScanReturn, ScanRoot, ScanDone,
           FindXhcDevice, FindDone, vars
  <1>1. SingleRoot /\ WellNumbered /\ ReachableBuses' = ReachableBuses
    BY <1>0, MachineKept
  <1>2. VisibleOn(ReachableBuses)' = VisibleOn(ReachableBuses)
    BY <1>0, <1>1 DEF VisibleOn
  <1>3. CASE ScanFull
    <2>1. Looking /\ Function # Absent /\ Len(devices) = MaxDevices /\ devices' = devices
      BY <1>3 DEF ScanFull, IsFull
    <2>2. /\ Address \in Addresses /\ IsVisible(Address, config)
          /\ Here = calls[Len(calls)] /\ Len(calls) \in DOMAIN calls
          /\ Address[1] = Here.bus /\ ~Before(Address, Here)
      BY <2>1, FunctionHere
    <2>3. Address \notin Registered
      BY <1>1, <2>2 DEF OnceInv
    <2>4. Address[1] \in ReachableBuses
      BY <1>1, <2>2 DEF SearchInv
    <2>5. PICK A \in Addresses : A = Address
      BY <2>2
    <2>6. A \in VisibleOn(ReachableBuses)
      BY <2>2, <2>4, <2>5 DEF VisibleOn, IsVisible
    <2>7. Registered' = Registered
      BY <2>1 DEF Registered
    <2> QED BY <1>2, <2>1, <2>3, <2>5, <2>6, <2>7
  <1>4. CASE ~ScanFull
    <2>1. error = "Full" /\ devices' = devices
      BY <1>4 DEF TypeInv, Next, ScanAbsent, ScanFunction, ScanReturn, ScanRoot, ScanDone,
                  FindXhcDevice, FindDone, Looking, vars
    <2>2. Registered' = Registered
      BY <2>1 DEF Registered
    <2> QED BY <1>1, <1>2, <2>1, <2>2 DEF FullInv
  <1> QED BY <1>3, <1>4

\* The invariant of the scan.
LEMMA ScanInvariant == Spec => []ScanInv
  <1>1. Init => ScanInv
    <2>1. Init => FullInv
      BY DEF Init, FullInv
    <2> QED BY <2>1, InitTypeInv, InitVisitInv, InitSearchInv, InitOnceInv DEF ScanInv
  <1>2. ScanInv /\ [Next]_vars => ScanInv'
    BY NextTypeInv, NextVisitInv, NextSearchInv, NextOnceInv, NextFullInv DEF ScanInv
  <1> QED BY <1>1, <1>2, PTL DEF Spec

\* What the invariant says of the array.
LEMMA ScanInvDevices == ScanInv => DevicesSound
  <1> SUFFICES ASSUME ScanInv PROVE DevicesSound
    OBVIOUS
  <1>1. \A k \in DOMAIN devices : config[devices[k]] # Absent
    BY DEF ScanInv, VisitInv, IsVisible, Registered
  <1>2. WellNumbered /\ ~config[<<0, 0, 0>>].multi =>
          \A k, m \in DOMAIN devices : devices[k] = devices[m] => k = m
    BY DEF ScanInv, OnceInv, SingleRoot
  <1> QED BY <1>1, <1>2 DEF ScanInv, TypeInv, DevicesSound

\* When all calls have returned, every bus that was entered is complete; the buses entered
\* are then closed under the bridges on them, so that they are all that can be reached.
LEMMA SuccessRegistersAll ==
    ASSUME ScanInv, error = "Success", SingleRoot
    PROVE  Registered = VisibleOn(ReachableBuses)
  <1>1. \A b \in Entered : Complete(b, config, Registered)
    <2>1. calls = <<>>
      BY DEF ScanInv, TypeInv
    <2> QED BY <2>1 DEF ScanInv, SearchInv
  <1>2. /\ \A a \in Registered : a[1] \in ReachableBuses /\ IsVisible(a, config)
        /\ Registered \subseteq Addresses
    <2>1. Registered \subseteq Addresses
      BY ElementOfSeq DEF ScanInv, TypeInv, Registered
    <2> QED BY <2>1 DEF ScanInv, SearchInv, VisitInv
  <1>3. ASSUME NEW S, NEW a \in Addresses PROVE a \in VisibleOn(S) <=> a[1] \in S /\ IsVisible(a, config)
    BY DEF VisibleOn, IsVisible
  <1>4. Entered \in SUBSET Buses
    <2>1. ASSUME NEW a \in Registered \cap Bridges PROVE config[a].secondary \in Buses
      BY <1>2, ConfigAssumption, BusesAssumption DEF ScanInv, TypeInv, Functions, Absent
    <2> QED BY <2>1, BusesAssumption DEF Entered
  <1>5. 0 \in Entered /\ \A a \in Bridges \cap VisibleOn(Entered) : config[a].secondary \in Entered
    <2>1. 0 \in Entered
      BY DEF Entered
    <2>2. ASSUME NEW a \in Bridges \cap VisibleOn(Entered) PROVE config[a].secondary \in Entered
      <3>1. a \in Addresses
        BY DEF Bridges
      <3>2. a \in Registered
        BY <1>1, <1>3, <2>2, <3>1 DEF Complete
      <3> QED BY <2>2, <3>2 DEF Entered
    <2> QED BY <2>1, <2>2
  <1>6. ReachableBuses \subseteq Entered
    BY <1>4, <1>5 DEF ReachableBuses
  <1>7. VisibleOn(ReachableBuses) \subseteq Registered
    <2> SUFFICES ASSUME NEW a \in VisibleOn(ReachableBuses) PROVE a \in Registered
      OBVIOUS
    <2>1. a \in Addresses
      BY DEF VisibleOn
    <2> QED BY <1>1, <1>3, <1>6, <2>1 DEF Complete
  <1>8. Registered \subseteq VisibleOn(ReachableBuses)
    BY <1>2, <1>3
  <1> QED BY <1>7, <1>8

\* What the invariant says of the end of the scan.
LEMMA ScanInvComplete == ScanInv => ScanComplete
  <1> SUFFICES ASSUME ScanInv, SingleRoot PROVE ScanComplete
    BY DEF ScanComplete, SingleRoot
  <1>1. RegisteredFunctions = Registered
    BY DEF RegisteredFunctions, Registered
  <1>2. error = "Success" => Registered = VisibleOn(ReachableBuses)
    BY SuccessRegistersAll
  <1>3. FullInv
    BY DEF ScanInv
  <1> QED BY <1>1, <1>2, <1>3 DEF ScanComplete, FullInv

-----------------------------------------------------------------------------
(* The capabilities of the xHC.                                             *)

\* The capabilities V have been looked at, and lead on to next only; msi is the last MSI
\* capability among them, or 0.
Walked(V, x, next, msi) ==
    /\ x.first \in V \cup {next}
    /\ \A a \in V : x.headers[a].next \in V \cup {next, 0}
    /\ msi = 0 => \A a \in V : x.headers[a].id # "msi"
    /\ msi # 0 => msi \in V /\ x.headers[msi].id = "msi"

MsiInv ==
    /\ IsXhc(xhc)
    /\ cap_addr \in OnList \cup {0}
    /\ msi_error = "none" =>
          /\ headers = xhc.headers /\ registers = xhc.registers
          /\ \E V \in SUBSET OnList : Walked(V, xhc, cap_addr, msi_cap_addr)
    /\ MsiProgrammed

\* The set is only what the pointers lead to, so the first capability is on the list, and
\* so is the next one of each.
LEMMA ListClosed ==
    ASSUME IsXhc(xhc)
    PROVE  /\ OnList \subseteq DOMAIN xhc.headers
           /\ xhc.first \in OnList \cup {0}
           /\ \A a \in OnList : xhc.headers[a].next \in OnList \cup {0}
  <1> DEFINE Closed(S) == /\ xhc.first # 0 => xhc.first \in S
                          /\ \A a \in S : xhc.headers[a].next \in S \cup {0}
  <1>1. OnList = {a \in DOMAIN xhc.headers :
                    \A S \in {T \in SUBSET DOMAIN xhc.headers : Closed(T)} : a \in S}
    BY DEF OnList
  <1>2. xhc.first \in DOMAIN xhc.headers \cup {0}
    BY DEF IsXhc
  <1>3. \A a \in DOMAIN xhc.headers : xhc.headers[a].next \in DOMAIN xhc.headers \cup {0}
    BY DEF IsXhc
  <1> QED BY <1>1, <1>2, <1>3

\* A set that holds the first capability and what its members lead to holds them all.
LEMMA ListLeast ==
    ASSUME NEW V \in SUBSET DOMAIN xhc.headers,
           xhc.first # 0 => xhc.first \in V,
           \A a \in V : xhc.headers[a].next \in V \cup {0}
    PROVE  OnList \subseteq V
  BY DEF OnList

\* Steps that leave the function alone.
LEMMA MsiKept == MsiInv /\ UNCHANGED fn_vars => MsiInv'
  BY DEF MsiInv, fn_vars, OnList, MsiProgrammed, Message

\* At first no capability has been looked at.
LEMMA InitMsiInv == PciInit => MsiInv
  <1> SUFFICES ASSUME PciInit PROVE MsiInv
    OBVIOUS
  <1>1. IsXhc(xhc)
    BY XhcAssumption DEF PciInit, Init
  <1>2. xhc.first \in OnList \cup {0}
    BY <1>1, ListClosed
  <1>3. Walked({}, xhc, cap_addr, msi_cap_addr)
    BY DEF PciInit, Walked
  <1> QED BY <1>1, <1>2, <1>3 DEF PciInit, MsiInv, MsiProgrammed

\* One more capability is looked at.
LEMMA WalkMsiInv == MsiInv /\ WalkCapabilities => MsiInv'
  <1> SUFFICES ASSUME MsiInv, WalkCapabilities PROVE MsiInv'
    OBVIOUS
  <1>1. /\ xhc' = xhc /\ headers' = headers /\ registers' = registers /\ msi_error' = msi_error
        /\ msi_error = "none" /\ cap_addr # 0 /\ cap_addr' = headers[cap_addr].next
        /\ msi_cap_addr' = IF headers[cap_addr].id = "msi" THEN cap_addr ELSE msi_cap_addr
    BY DEF WalkCapabilities, Configuring
  <1>2. PICK V \in SUBSET OnList : Walked(V, xhc, cap_addr, msi_cap_addr)
    BY <1>1 DEF MsiInv
  <1>3. IsXhc(xhc) /\ headers = xhc.headers /\ registers = xhc.registers /\ cap_addr \in OnList
    BY <1>1 DEF MsiInv
  <1>4. OnList' = OnList
    BY <1>1 DEF OnList
  <1>5. cap_addr' \in OnList \cup {0}
    BY <1>1, <1>3, ListClosed
  <1>6. V \cup {cap_addr} \in SUBSET OnList
    BY <1>3
  <1>7. Walked(V \cup {cap_addr}, xhc, cap_addr', msi_cap_addr')
    BY <1>1, <1>2, <1>3 DEF Walked
  <1>8. MsiProgrammed'
    BY <1>1 DEF MsiProgrammed
  <1>9. \E W \in SUBSET OnList' : Walked(W, xhc', cap_addr', msi_cap_addr')
    BY <1>1, <1>4, <1>6, <1>7
  <1> QED BY <1>1, <1>3, <1>4, <1>5, <1>8, <1>9 DEF MsiInv

\* At the end of the list all capabilities on it have been looked at.
LEMMA ConfigureMsiInv == MsiInv /\ ConfigureMsi => MsiInv'
  <1> SUFFICES ASSUME MsiInv, ConfigureMsi PROVE MsiInv'
    OBVIOUS
  <1>1. /\ xhc' = xhc /\ cap_addr' = cap_addr /\ cap_addr = 0 /\ msi_error = "none"
        /\ msi_error' # "none"
    BY DEF ConfigureMsi, Configuring
  <1>2. PICK V \in SUBSET OnList : Walked(V, xhc, cap_addr, msi_cap_addr)
    BY <1>1 DEF MsiInv
  <1>3. IsXhc(xhc) /\ headers = xhc.headers /\ registers = xhc.registers
    BY <1>1 DEF MsiInv
  <1>4. OnList' = OnList
    BY <1>1 DEF OnList
  <1>5. OnList \subseteq DOMAIN xhc.headers /\ DOMAIN xhc.headers \subseteq Registers
    BY <1>3, ListClosed DEF IsXhc
  <1>6. V = OnList
    <2>1. /\ xhc.first # 0 => xhc.first \in V
          /\ \A a \in V : xhc.headers[a].next \in V \cup {0}
      BY <1>1, <1>2 DEF Walked
    <2>2. V \in SUBSET DOMAIN xhc.headers
      BY <1>5
    <2> QED BY <2>1, <2>2, ListLeast
  <1> DEFINE msis == {a \in OnList : xhc.headers[a].id = "msi"}
  <1>7. (msi_cap_addr # 0) => msi_cap_addr \in msis
    BY <1>2, <1>6 DEF Walked
  <1>8. (msi_cap_addr = 0) => msis = {}
    BY <1>2, <1>6 DEF Walked
  <1>9. MsiProgrammed'
    <2>1. CASE msi_cap_addr = 0
      <3>1. msi_error' # "Success"
        BY <2>1 DEF ConfigureMsi
      <3> QED BY <1>1, <1>4, <1>8, <2>1, <3>1 DEF MsiProgrammed
    <2>2. CASE msi_cap_addr # 0
      <3>1. PICK a \in msis : a = msi_cap_addr
        BY <1>7, <2>2
      <3>2. /\ msi_error' = "Success" /\ ConfigureMsiRegister(a)
        BY <2>2, <3>1 DEF ConfigureMsi
      <3>3. PICK h : h = xhc.headers
        OBVIOUS
      <3>4. a \in DOMAIN h /\ a \in Nat /\ h[a] \in Headers /\ h[a].id = "msi"
        BY <1>3, <1>5, <3>1, <3>3, RegistersAssumption DEF IsXhc
      <3>5. PICK hd : hd = [h[a] EXCEPT
                              !.multi_msg_enable = IF h[a].multi_msg_capable <= num_vector_exponent
                                                   THEN h[a].multi_msg_capable
                                                   ELSE num_vector_exponent,
                              !.msi_enable = TRUE]
        OBVIOUS
      <3>6. headers' = [h EXCEPT ![a] = hd]
        BY <1>3, <3>2, <3>3, <3>4, <3>5 DEF ConfigureMsiRegister
      <3>7. /\ hd.msi_enable /\ hd.multi_msg_capable = h[a].multi_msg_capable
            /\ hd.addr_64_capable = h[a].addr_64_capable
            /\ hd.multi_msg_enable = IF h[a].multi_msg_capable <= num_vector_exponent
                                     THEN h[a].multi_msg_capable ELSE num_vector_exponent
        BY <3>4, <3>5 DEF Headers
      <3>8. /\ headers'[a] = hd /\ DOMAIN headers' = DOMAIN h
            /\ \A b \in DOMAIN h \ {a} : headers'[b] = h[b]
        BY <3>4, <3>6
      <3>9. /\ hd.multi_msg_enable <= hd.multi_msg_capable
            /\ hd.multi_msg_enable <= num_vector_exponent
        <4>1. h[a].multi_msg_capable \in 0..5
          BY <3>4 DEF Headers
        <4> QED BY <3>7, <4>1, ExponentAssumption
      <3>10. PICK d : d = a + (IF h[a].addr_64_capable THEN 3 ELSE 2)
        OBVIOUS
      <3>11. registers' = [registers EXCEPT ![a + 1] = "msg_addr", ![d] = "msg_data"]
        BY <1>3, <3>2, <3>3, <3>10 DEF ConfigureMsiRegister, MsgDataAddr
      <3>12. /\ a + 1 \in DOMAIN registers /\ d \in DOMAIN registers /\ d # a + 1
        BY <1>3, <3>3, <3>4, <3>10 DEF IsXhc
      <3>13. /\ registers'[a + 1] = "msg_addr" /\ registers'[d] = "msg_data"
             /\ DOMAIN registers' = DOMAIN registers
             /\ \A r \in DOMAIN registers : r = a + 1 \/ r = d \/ registers'[r] = registers[r]
        BY <3>11, <3>12
      <3>14. Message(a)' = <<IF headers'[a].addr_64_capable THEN xhc'.registers[a + 2] ELSE "zero",
                            "msg_addr", "msg_data">>
        <4>1. CASE h[a].addr_64_capable
          <5>1. a + 2 \in DOMAIN registers /\ a + 2 # a + 1 /\ a + 2 # d /\ d = a + 3
            BY <1>3, <3>3, <3>4, <3>10, <4>1 DEF IsXhc
          <5>2. registers'[a + 2] = xhc'.registers[a + 2]
            BY <1>1, <1>3, <3>13, <5>1
          <5> QED BY <3>7, <3>8, <3>13, <4>1, <5>1, <5>2 DEF Message
        <4>2. CASE ~h[a].addr_64_capable
          <5>1. d = a + 2
            BY <3>10, <4>2
          <5> QED BY <3>7, <3>8, <3>13, <4>2, <5>1 DEF Message
        <4> QED BY <4>1, <4>2
      <3>15. /\ headers'[a].msi_enable
             /\ Message(a)' = <<IF headers'[a].addr_64_capable THEN xhc'.registers[a + 2] ELSE "zero",
                               "msg_addr", "msg_data">>
             /\ headers'[a].multi_msg_enable <= headers'[a].multi_msg_capable
             /\ headers'[a].multi_msg_enable <= num_vector_exponent
             /\ \A b \in DOMAIN headers' \ {a} : headers'[b] = xhc'.headers[b]
             /\ \A r \in DOMAIN registers' :
                   \/ registers'[r] = xhc'.registers[r]
                   \/ r = a + 1
                   \/ r = a + (IF headers'[a].addr_64_capable THEN 3 ELSE 2)
        BY <1>1, <1>3, <3>3, <3>7, <3>8, <3>9, <3>10, <3>13, <3>14
      <3> HIDE DEF Message
      <3> QED BY <1>1, <1>4, <3>1, <3>2, <3>15 DEF MsiProgrammed
    <2> QED BY <2>1, <2>2
  <1> QED BY <1>1, <1>3, <1>4, <1>9 DEF MsiInv

-----------------------------------------------------------------------------
(* The xHC and the address of its registers.                                *)

\* Where the array has xHCs
XhcIndices == {k \in DOMAIN devices : config[devices[k]].class = "xhc"}

\* Of the functions that find_xhc_device has looked at: the one it has is an xHC, there is
\* one if any of them is, an Intel one if any of those is, and then the search has ended.
FindInv ==
    /\ i \in Nat \ {0} /\ xhc_device \in 0..Len(devices)
    /\ pc = "scan" => i = 1 /\ xhc_device = 0
    /\ xhc_device # 0 => xhc_device \in XhcIndices
    /\ \A k \in XhcIndices : k < i =>
          xhc_device # 0 /\ (config[devices[k]].intel => config[devices[xhc_device]].intel)
    /\ xhc_device # 0 /\ config[devices[xhc_device]].intel => i > Len(devices)
    /\ pc = "found" => i > Len(devices) /\ xhc_device # 0
    /\ pc = "panic" => i > Len(devices) /\ xhc_device = 0

\* The search begins with the first function.
LEMMA InitFindInv == Init => FindInv
  <1> SUFFICES ASSUME Init PROVE FindInv
    OBVIOUS
  <1>1. Len(devices) = 0 /\ XhcIndices = {}
    BY LenProperties, EmptySeq DEF Init, XhcIndices
  <1> QED BY <1>1 DEF Init, FindInv

\* Every step keeps the search's invariant.
LEMMA NextFindInv == ScanInv /\ FindInv /\ [Next]_vars => FindInv'
  <1> SUFFICES ASSUME TypeInv, VisitInv, FindInv, [Next]_vars PROVE FindInv'
    BY DEF ScanInv
  <1>0. Len(devices) \in Nat /\ DOMAIN devices = 1..Len(devices)
    BY LenProperties DEF TypeInv
  <1>1. CASE UNCHANGED <<config, devices, i, xhc_device, pc>>
    BY <1>1 DEF FindInv, XhcIndices
  <1>2. CASE ScanFull \/ ScanDone
    BY <1>2 DEF ScanFull, ScanDone, Looking, FindInv, XhcIndices
  <1>3. CASE ScanFunction
    <2>1. pc = "scan" /\ pc' = pc /\ i' = i /\ xhc_device' = xhc_device
          /\ devices' = Append(devices, Address)
      BY <1>3 DEF ScanFunction, Looking
    <2>2. i = 1 /\ xhc_device = 0
      BY <2>1 DEF FindInv
    <2>3. devices' \in Seq(Addresses)
      BY NextTypeInv DEF TypeInv
    <2>4. Len(devices') \in Nat /\ DOMAIN devices' = 1..Len(devices')
      BY <2>3, LenProperties
    <2>5. \A k \in XhcIndices' : ~(k < 1)
      BY <2>4 DEF XhcIndices
    <2> QED BY <2>1, <2>2, <2>4, <2>5 DEF FindInv
  <1>4. CASE FindXhcDevice
    <2>1. /\ pc = "find" /\ i <= Len(devices) /\ devices' = devices /\ config' = config /\ pc' = pc
          /\ xhc_device' = IF config[devices[i]].class = "xhc" THEN i ELSE xhc_device
          /\ i' = IF config[devices[i]].class = "xhc" /\ config[devices[i]].intel
                  THEN Len(devices) + 1 ELSE i + 1
      BY <1>4 DEF FindXhcDevice, Stops
    <2>2. i \in 1..Len(devices) /\ XhcIndices' = XhcIndices
      BY <1>0, <2>1 DEF FindInv, XhcIndices
    <2>3. ~(xhc_device # 0 /\ config[devices[xhc_device]].intel)
      BY <1>0, <2>1, <2>2 DEF FindInv
    <2>4. \A k \in XhcIndices : k < i => ~config[devices[k]].intel /\ xhc_device # 0
      BY <2>3 DEF FindInv
    <2>5. XhcIndices \subseteq 1..Len(devices) /\ (i \in XhcIndices <=> config[devices[i]].class = "xhc")
      BY <1>0, <2>2 DEF XhcIndices
    <2>6. CASE i \in XhcIndices
      <3>1. xhc_device' = i /\ i' \in {Len(devices) + 1, i + 1}
            /\ (config[devices[i]].intel => i' = Len(devices) + 1)
            /\ (~config[devices[i]].intel => i' = i + 1)
        BY <2>1, <2>5, <2>6
      <3>2. CASE config[devices[i]].intel
        BY <1>0, <2>1, <2>2, <2>5, <2>6, <3>1, <3>2 DEF FindInv
      <3>3. CASE ~config[devices[i]].intel
        <4>1. \A k \in XhcIndices : k < i' => ~config[devices[k]].intel
          BY <2>2, <2>4, <2>5, <3>1, <3>3
        <4> QED BY <1>0, <2>1, <2>2, <2>5, <2>6, <3>1, <3>3, <4>1 DEF FindInv
      <3> QED BY <3>2, <3>3
    <2>7. CASE i \notin XhcIndices
      <3>1. xhc_device' = xhc_device /\ i' = i + 1
        BY <2>1, <2>5, <2>7
      <3>2. \A k \in XhcIndices : k < i' => k < i
        BY <2>2, <2>5, <2>7, <3>1
      <3> QED BY <1>0, <2>1, <2>2, <2>3, <2>4, <3>1, <3>2 DEF FindInv
    <2> QED BY <2>6, <2>7
  <1>5. CASE FindDone
    BY <1>5, <1>0 DEF FindDone, FindInv, XhcIndices
  <1>6. CASE ScanAbsent \/ ScanReturn \/ ScanRoot \/ UNCHANGED vars
    BY <1>1, <1>6 DEF ScanAbsent, ScanReturn, ScanRoot, vars
  <1> QED BY <1>2, <1>3, <1>4, <1>5, <1>6 DEF Next

\* The remainder of a multiple of 16 by a multiple of 16 is a multiple of 16.
LEMMA LowHalf ==
    ASSUME NEW m \in Nat, NEW R \in Nat \ {0}, m % 16 = 0, R % 16 = 0
    PROVE  /\ m \div R \in Nat /\ m % R \in Nat /\ m = (m \div R) * R + (m % R)
           /\ \E c \in Nat : m % R = 16 * c
  <1>1. PICK q \in Nat, r \in Nat : q = m \div R /\ r = m % R /\ m = q * R + r /\ r < R
    <2>1. m \div R \in Nat /\ m % R \in Nat /\ m = (m \div R) * R + (m % R) /\ m % R < R
      OBVIOUS
    <2> QED BY <2>1
  <1>2. PICK a \in Nat : m = 16 * a
    <2>1. m = 16 * (m \div 16) /\ m \div 16 \in Nat
      OBVIOUS
    <2> QED BY <2>1
  <1>3. PICK b \in Nat : R = 16 * b
    <2>1. R = 16 * (R \div 16) /\ R \div 16 \in Nat
      OBVIOUS
    <2> QED BY <2>1
  <1>4. PICK p \in Nat : p = q * b
    OBVIOUS
  <1>5. q * R = 16 * p
    BY <1>3, <1>4
  <1>6. r = 16 * (a - p) /\ a - p \in Int
    BY <1>1, <1>2, <1>5
  <1>7. a - p \in Nat
    BY <1>6
  <1> QED BY <1>1, <1>6, <1>7

\* The address without the flags in the low bits, with its upper half if there is one.
LEMMA BaseRead ==
    ASSUME IsXhc(xhc)
    PROVE  ReadBar - (ReadBar % 16) = xhc.mmio
  <1>1. PICK m \in Nat, w \in BOOLEAN : m = xhc.mmio /\ w = xhc.wide
    BY DEF IsXhc
  <1>2. m % 16 = 0 /\ (~w => m < RegisterSize)
    BY <1>1 DEF IsXhc
  <1>3. PICK R \in Nat \ {0} : R = RegisterSize
    BY SizeAssumption
  <1>4. R % 16 = 0
    BY <1>3, SizeAssumption
  <1>5. PICK q \in Nat, c \in Nat : q = m \div R /\ m % R = 16 * c /\ m = q * R + 16 * c
    <2>1. /\ m \div R \in Nat /\ m % R \in Nat /\ m = (m \div R) * R + (m % R)
          /\ \E c \in Nat : m % R = 16 * c
      BY <1>2, <1>4, LowHalf
    <2> QED BY <2>1
  <1>6. CASE w
    <2>1. Bar(0) = 16 * c + 4 /\ Bar(1) = q
      BY <1>1, <1>3, <1>5, <1>6 DEF Bar
    <2>2. ((16 * c + 4) \div 4) % 2 = 1
      <3>1. (16 * c + 4) \div 4 = 4 * c + 1
        OBVIOUS
      <3>2. (4 * c + 1) % 2 = 1
        OBVIOUS
      <3> QED BY <3>1, <3>2
    <2>3. ReadBar = 16 * c + 4 + q * R
      BY <1>3, <2>1, <2>2 DEF ReadBar
    <2>4. PICK n \in Nat : n = ReadBar /\ n = m + 4
      BY <1>5, <2>3
    <2>5. n - (n % 16) = m
      BY <1>2, <2>4
    <2> QED BY <1>1, <2>4, <2>5
  <1>7. CASE ~w
    <2>1. m % R = m
      BY <1>2, <1>3, <1>7
    <2>2. Bar(0) = m
      BY <1>1, <1>3, <1>7, <2>1 DEF Bar
    <2>3. (m \div 4) % 2 = 0
      BY <1>2
    <2>4. ReadBar = m
      BY <2>2, <2>3 DEF ReadBar
    <2>5. m - (m % 16) = m
      BY <1>2
    <2> QED BY <1>1, <2>4, <2>5
  <1> QED BY <1>6, <1>7

\* What kernel_main hands to the driver: an xHC if there is one among those that count, an
\* Intel one if any of them is, and the address that it decodes.
XhcSound ==
    /\ pc = "panic" => Xhcs = {}
    /\ pc = "found" => /\ devices[xhc_device] \in Xhcs
                       /\ \A a \in Xhcs : config[a].intel => config[devices[xhc_device]].intel
    /\ xhc_mmio_base # <<>> => xhc_mmio_base = <<xhc.mmio>>

BaseInv == xhc_mmio_base # <<>> => xhc_mmio_base = <<xhc.mmio>>

\* The invariant of the walk through the capabilities.
LEMMA MsiInvariant == PciSpec => []MsiInv
  <1>1. MsiInv /\ [PciNext]_<<vars, fn_vars>> => MsiInv'
    <2> SUFFICES ASSUME MsiInv, [PciNext]_<<vars, fn_vars>> PROVE MsiInv'
      OBVIOUS
    <2>1. CASE UNCHANGED fn_vars
      BY <2>1, MsiKept
    <2>2. CASE ReadMmioBase
      <3>1. UNCHANGED <<xhc, headers, registers, cap_addr, msi_cap_addr, msi_error>>
        BY <2>2 DEF ReadMmioBase
      <3>2. OnList' = OnList /\ \A a : Message(a)' = Message(a)
        BY <3>1 DEF OnList, Message
      <3>3. MsiProgrammed'
        BY <3>1, <3>2 DEF MsiInv, MsiProgrammed
      <3> QED BY <3>1, <3>2, <3>3 DEF MsiInv
    <2> QED BY <2>1, <2>2, WalkMsiInv, ConfigureMsiInv DEF PciNext
  <1> QED BY <1>1, InitMsiInv, PTL DEF PciSpec

\* What follows the scan leaves its variables alone.
LEMMA PciSpecScans == PciSpec => Spec
  <1>1. PciInit => Init
    BY DEF PciInit
  <1>2. [PciNext]_<<vars, fn_vars>> => [Next]_vars
    BY DEF PciNext, WalkCapabilities, ConfigureMsi, ReadMmioBase
  <1> QED BY <1>1, <1>2, PTL DEF PciSpec, Spec

\* The device array never overflows and holds functions that exist, none twice on a
\* well-numbered machine: for any number of buses, any array and any bridges, those
\* that lead back to each other included (add_device, scan_bus).
THEOREM DevicesStaySound == PciSpec => []DevicesSound
  BY PciSpecScans, ScanInvariant, ScanInvDevices, PTL

\* Below a single host bridge, a scan that reports success has registered every function
\* that can be reached, and nothing else; and on a well-numbered machine it is given up only
\* with the array full and a function left (scan_device, scan_function).
THEOREM ScanIsComplete == PciSpec => []ScanComplete
  BY PciSpecScans, ScanInvariant, ScanInvComplete, PTL

\* After a complete scan below a single host bridge kernel_main ends up with an xHC if one
\* can be reached, one of Intel's if there is one, and after any other scan if one is
\* registered; and with the address that it decodes, be its base address register one of 32
\* or of 64 bits (find_xhc_device, read_bar): the safety half of XhcReady.
THEOREM XhcIsSound == PciSpec => []XhcSound
  <1>1. Init => FindInv
    BY InitFindInv
  <1>2. Spec => []FindInv
    BY <1>1, ScanInvariant, NextFindInv, PTL DEF Spec
  <1>3. PciInit => BaseInv
    BY DEF PciInit, BaseInv
  <1>4. MsiInv /\ BaseInv /\ [PciNext]_<<vars, fn_vars>> => BaseInv'
    <2> SUFFICES ASSUME MsiInv, BaseInv, [PciNext]_<<vars, fn_vars>> PROVE BaseInv'
      OBVIOUS
    <2>1. CASE ReadMmioBase
      BY <2>1, BaseRead DEF ReadMmioBase, BaseInv, MsiInv
    <2> QED BY <2>1 DEF PciNext, WalkCapabilities, ConfigureMsi, fn_vars, BaseInv
  <1>5. PciSpec => []BaseInv
    BY <1>3, <1>4, MsiInvariant, PTL DEF PciSpec
  <1>6. ScanInv /\ FindInv /\ BaseInv => XhcSound
    <2> SUFFICES ASSUME ScanInv, FindInv, BaseInv PROVE XhcSound
      OBVIOUS
    <2>1. XhcIndices \subseteq 1..Len(devices) /\ Len(devices) \in Nat
      BY LenProperties DEF ScanInv, TypeInv, XhcIndices
    <2>2. i > Len(devices) => \A k \in XhcIndices : k < i
      BY <2>1 DEF FindInv
    <2>3. Xhcs = {devices[k] : k \in XhcIndices}
      <3>1. Xhcs = {a \in Registered : config[a].class = "xhc"}
        BY SuccessRegistersAll DEF Xhcs, RegisteredFunctions, Registered, SingleRoot
      <3> QED BY <3>1 DEF Registered, XhcIndices
    <2>4. pc = "panic" => XhcIndices = {}
      BY <2>2 DEF FindInv
    <2>5. pc = "found" =>
            /\ xhc_device \in XhcIndices
            /\ \A k \in XhcIndices : config[devices[k]].intel => config[devices[xhc_device]].intel
      BY <2>2 DEF FindInv
    <2> QED BY <2>3, <2>4, <2>5 DEF BaseInv, XhcSound
  <1> QED BY <1>2, <1>5, <1>6, PciSpecScans, ScanInvariant, PTL

\* Whatever list of capabilities the xHC has, its MSI capability, if it is on it, ends up
\* enabled with the message asked for and nothing else changes (configure_msi).
THEOREM MsiIsProgrammed == PciSpec => []MsiProgrammed
  BY MsiInvariant, PTL DEF MsiInv

=============================================================================
