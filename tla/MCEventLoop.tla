----------------------------- MODULE MCEventLoop -----------------------------
(* Instances of EventLoop for TLC; the bounds are given in the cfg files. *)
EXTENDS EventLoop
=============================================================================
