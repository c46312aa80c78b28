----------------------------- MODULE MCPci ----------------------------------
(* Machines of three buses with the host bridge and at most three functions *)
(* more, of an Intel and another xHC, bridges to every bus, something else;  *)
(* and machines with one function too many for the array.                    *)
EXTENDS PciFunction

Kind(class, intel, multi, secondary) ==
    [class |-> class, intel |-> intel, multi |-> multi, secondary |-> secondary]

MCFunctions == {Kind("xhc", TRUE, FALSE, 0), Kind("xhc", FALSE, TRUE, 0),
                Kind("bridge", FALSE, FALSE, 0), Kind("bridge", FALSE, TRUE, 1),
                Kind("bridge", FALSE, FALSE, 2), Kind("other", FALSE, FALSE, 0)}

MCPlaces == {<<0, 0, 1>>, <<0, 1, 0>>, <<0, 1, 1>>, <<1, 0, 0>>, <<1, 0, 1>>, <<2, 1, 0>>}

MCConfigSpaces ==
    LET Present(k) == Cardinality({a \in MCPlaces : k[a] # Absent})
        kinds == {k \in [MCPlaces -> MCFunctions \cup {Absent}] : Present(k) <= 3}
                 \cup {k \in [MCPlaces -> {Kind("xhc", FALSE, TRUE, 0), Absent,
                                           Kind("bridge", FALSE, TRUE, 1)}] : Present(k) = 4}
        Machine(k, multi) ==
            [a \in Addresses |-> IF a = <<0, 0, 0>> THEN Kind("other", FALSE, multi, 0)
                                 ELSE IF a \in MCPlaces THEN k[a] ELSE Absent]
    IN  {Machine(k, multi) : k \in kinds, multi \in BOOLEAN}

\* Three capabilities in any order on the list, or off it: an MSI capability in each
\* of its four layouts, and two others of any kind.
MCRegisters == 1..8

MCHeader(id, next, capable, addr64, mask) ==
    [id |-> id, next |-> next, msi_enable |-> FALSE, multi_msg_capable |-> capable,
     multi_msg_enable |-> 0, addr_64_capable |-> addr64, per_vector_mask_capable |-> mask]

\* The lists through the capabilities at 1, 7 and 8, from the first one
MCLists == {<<>>, <<1>>, <<7>>, <<1, 7>>, <<7, 1>>, <<7, 8>>, <<1, 7, 8>>, <<7, 1, 8>>, <<8, 7, 1>>}

After(list, a) ==
    LET after == {k \in 1..Len(list) - 1 : list[k] = a}
    IN  IF after = {} THEN 0 ELSE list[(CHOOSE k \in after : TRUE) + 1]

MCXhc(list, capable, addr64, mask, seven, mmio, wide) ==
    [first |-> IF list = <<>> THEN 0 ELSE list[1],
     headers |-> [a \in {1, 7, 8} |->
         IF a = 1 THEN MCHeader("msi", After(list, a), capable, addr64, mask)
                  ELSE MCHeader(IF a = 7 THEN seven ELSE "other", After(list, a), 0, FALSE, FALSE)],
     registers |-> [r \in 2..6 |-> "firmware"],
     mmio |-> mmio, wide |-> wide]

\* A machine with a single xHC has every kind of it, the others one.
MCXhcOf(space) ==
    IF space = [a \in Addresses |->
                  IF a = <<0, 0, 0>> THEN Kind("other", FALSE, FALSE, 0)
                  ELSE IF a = <<0, 1, 0>> THEN Kind("xhc", FALSE, TRUE, 0) ELSE Absent]
    THEN {MCXhc(list, capable, addr64, mask, seven, mmio, wide) :
            list \in MCLists, capable \in {0, 2}, addr64 \in BOOLEAN, mask \in BOOLEAN,
            seven \in {"msix", "other"}, mmio \in {0, 48}, wide \in BOOLEAN}
         \cup {MCXhc(<<1>>, 0, TRUE, FALSE, "other", mmio, TRUE) : mmio \in {64, 176}}
    ELSE {MCXhc(<<7, 1>>, 0, TRUE, FALSE, "msix", 176, TRUE)}
=============================================================================
