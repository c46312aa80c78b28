---------------------------- MODULE MCPortConfig ----------------------------
(* Instances of PortConfig for TLC; the bounds are given in the cfg files. *)
EXTENDS PortConfig
=============================================================================
