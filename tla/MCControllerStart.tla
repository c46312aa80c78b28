------------------------- MODULE MCControllerStart --------------------------
(* ControllerStart for TLC, with scaled-down sizes: a pool that has room for  *)
(* two scratchpad buffers and the rings; with three a buffer is missing, with *)
(* 49 the rings, and with 60 the array is null while the rings still fit.     *)
EXTENDS ControllerStart, Bitwise, TLC

\* What Initialize asks for, and further requests of every kind
MCRequests ==
    {DevicesRequest, ContextsRequest, PageRequest, RingRequest, TableRequest,
     ScratchpadRequest(1), ScratchpadRequest(3), ScratchpadRequest(49), ScratchpadRequest(60)}
    \cup [size : {3}, alignment : {0, 4, 8}, boundary : {0, 4, 8}]

MCController(scratchpads, xecp, ids) ==
    [scratchpads |-> scratchpads, xecp |-> xecp,
     extended |-> [a \in {2, 3, 5} |->
        [id |-> ids[a], next |-> IF a = 2 THEN 3 ELSE IF a = 3 THEN 2 ELSE 0]]]

\* USBLEGSUP last on the list, first, beside it, nowhere, or no list at all
MCControllers ==
    {MCController(n, 2, (2 :> 7 @@ 3 :> 1 @@ 5 :> 1)) : n \in {0, 1, 3, 49, 60}}
    \cup {MCController(1, 2, (2 :> 1 @@ 3 :> 7 @@ 5 :> 7)),
          MCController(1, 2, (2 :> 7 @@ 3 :> 1 @@ 5 :> 7)),
          MCController(1, 3, (2 :> 1 @@ 3 :> 7 @@ 5 :> 7)),
          MCController(1, 0, (2 :> 1 @@ 3 :> 1 @@ 5 :> 1))}

\* Ceil is what the code's bit operations compute: clearing the low bits of a sum.
ASSUME CeilAssumption ==
    \A value \in 0..70, alignment \in {1, 2, 4, 8, 16, 32} :
        LET sum == value + alignment - 1
        IN Ceil(value, alignment) = sum - (sum & (alignment - 1))
=============================================================================
