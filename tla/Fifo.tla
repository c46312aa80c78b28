-------------------------------- MODULE Fifo --------------------------------
(***************************************************************************)
(* What a TRB ring promises to its two ends: the items 1, 2, 3, ... that   *)
(* one end puts in come out at the other end once each and in order, and   *)
(* every one of them comes out.                                            *)
(***************************************************************************)
EXTENDS Naturals, Sequences

VARIABLES
    queue,  \* items put in and not taken yet, oldest first
    sent,   \* the number of items put in
    taken   \* the item taken last, 0 before the first

fifoVars == <<queue, sent, taken>>

Init == queue = <<>> /\ sent = 0 /\ taken = 0

Put ==
    /\ sent' = sent + 1
    /\ queue' = Append(queue, sent + 1)
    /\ UNCHANGED taken

Take ==
    /\ queue # <<>>
    /\ taken' = Head(queue)
    /\ queue' = Tail(queue)
    /\ UNCHANGED sent

Next == Put \/ Take

Spec == Init /\ [][Next]_fifoVars

\* Whatever is put in is taken.
Fairness == WF_fifoVars(Take)

FairSpec == Spec /\ Fairness

=============================================================================
