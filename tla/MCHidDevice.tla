---------------------------- MODULE MCHidDevice -----------------------------
(* HidDevice for TLC: devices as they should be, devices that the kernel has   *)
(* no driver for, and devices whose descriptors are wrong or too long.         *)
EXTENDS HidDevice

Configuration == [type |-> "Configuration", offset |-> 0, length |-> 9, value |-> 2]
Interface(number, class, sub_class, protocol, num_endpoints) ==
    [type |-> "Interface", offset |-> 0, length |-> 9, number |-> number, class |-> class,
     sub_class |-> sub_class, protocol |-> protocol, num_endpoints |-> num_endpoints]
Endpoint(number, in, transfer_type, interval) ==
    [type |-> "Endpoint", offset |-> 0, length |-> 7, number |-> number, in |-> in,
     transfer_type |-> transfer_type, interval |-> interval]
HID == [type |-> "HID", offset |-> 0, length |-> 9, num_descriptors |-> 1]
Other(length) == [type |-> "Other", offset |-> 0, length |-> length]

\* The bytes of the first descriptors, and the descriptors where they begin
Bytes(c, k) == FoldSeq(LAMBDA d, sum : sum + d.length, 0, SubSeq(c, 1, k))
Placed(c) == [k \in 1..Len(c) |-> [c[k] EXCEPT !.offset = Bytes(c, k - 1)]]

Keys(modifiers, a, b) == <<modifiers, 0, a, b, 0, 0, 0, 0>>

\* Nothing, two keys that swap places, left Alt, whose code is that of A, and a report
\* that is cut off
KeyboardReports ==
    {Keys(0, 0, 0), Keys(0, 4, 0), Keys(0, 4, 5), Keys(0, 5, 4), Keys(4, 0, 0), Keys(4, 4, 0),
     <<0, 0, 5>>}
MouseReports == {<<0, 1, 255>>, <<1, 128, 127>>, <<0, 0, 0>>}

\* A device that sends this many bytes, and one that sends all of its descriptors
ShortDevice(speed, reports, configuration, bytes) ==
    [speed |-> speed, reports |-> reports, configuration |-> Placed(configuration),
     bytes |-> bytes]
MCDevice(speed, reports, configuration) ==
    ShortDevice(speed, reports, configuration, Bytes(configuration, Len(configuration)))

WellFormedDevices ==
    {MCDevice(1, KeyboardReports,
        <<Configuration, Interface(0, 3, 1, 1, 1), HID, Endpoint(1, TRUE, 3, 10)>>),
     \* A mouse behind an interface that is no HID
     MCDevice(3, MouseReports,
        <<Configuration, Interface(0, 8, 6, 80, 1), Endpoint(1, FALSE, 2, 0),
          Interface(1, 3, 1, 2, 1), HID, Endpoint(3, TRUE, 3, 4)>>),
     \* A mouse and a keyboard
     MCDevice(3, {<<1, 0, 0>>},
        <<Configuration, Interface(0, 3, 1, 2, 1), Endpoint(1, TRUE, 3, 4),
          Interface(1, 3, 1, 1, 1), Endpoint(2, TRUE, 3, 8)>>),
     \* A keyboard without the boot protocol before one that has it and more endpoints, and
     \* a mouse behind it, whose interface lies across the end of the buffer
     MCDevice(2, {Keys(0, 4, 0), Keys(0, 0, 0)},
        <<Configuration, Interface(0, 3, 0, 1, 0), Interface(1, 3, 1, 1, 3), HID,
          Endpoint(1, TRUE, 3, 255), Endpoint(2, FALSE, 3, 1), Endpoint(3, TRUE, 1, 1),
          Interface(2, 3, 1, 2, 1), Endpoint(4, TRUE, 3, 8), Interface(3, 3, 1, 2, 1)>>)}

Storage == Interface(0, 8, 6, 80, 1)
Mouse(num_endpoints) == Interface(0, 3, 1, 2, num_endpoints)
In(number) == Endpoint(number, TRUE, 3, 4)

OtherDevices ==
    {MCDevice(3, {}, c) : c \in
        {<<Configuration, Storage, Endpoint(1, TRUE, 2, 0)>>,
         <<Other(9)>>,
         \* More endpoints claimed than there are, or than ep_configs_ has room for
         <<Configuration, Mouse(2), In(1)>>,
         <<Configuration, Mouse(5), In(1), Endpoint(1, FALSE, 3, 4), In(2),
           Endpoint(2, FALSE, 3, 4), In(3)>>,
         \* No interrupt endpoint
         <<Configuration, Interface(0, 3, 1, 1, 1), Endpoint(1, TRUE, 2, 0)>>,
         \* Across the end of the buffer: the interface, its endpoint, and of devices without
         \* a driver an interface, the type of a descriptor, and more that nobody looks at
         <<Configuration, Other(50), Mouse(1), In(1)>>,
         <<Configuration, Other(42), Mouse(1), In(1)>>,
         <<Configuration, Other(50), Storage, Endpoint(1, TRUE, 2, 0)>>,
         <<Configuration, Other(54), Other(9)>>,
         <<Configuration, Other(50), Other(9), Storage>>,
         \* An endpoint that is too short
         <<Configuration, Mouse(1), [In(1) EXCEPT !.length = 3]>>}}
    \* Descriptors without a length, an endpoint and an interface that end in the middle, and
    \* an answer of one byte
    \cup {ShortDevice(3, {}, <<Configuration, Storage, Other(0)>>, 20),
          ShortDevice(3, {}, <<Configuration, Mouse(1), [In(1) EXCEPT !.length = 0]>>, 25),
          ShortDevice(3, {}, <<Configuration, Mouse(2), [In(1) EXCEPT !.length = 0]>>, 25),
          ShortDevice(3, {}, <<Configuration, Mouse(1), In(1)>>, 22),
          ShortDevice(3, {}, <<Configuration, Storage>>, 15),
          ShortDevice(3, {}, <<Configuration>>, 1)}

MCDevices == WellFormedDevices \cup OtherDevices
=============================================================================
