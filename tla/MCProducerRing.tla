--------------------------- MODULE MCProducerRing ---------------------------
(* Instances of ProducerRing for TLC; the bounds are given in the cfg files. *)
EXTENDS ProducerRing
=============================================================================
