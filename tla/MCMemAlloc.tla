----------------------------- MODULE MCMemAlloc -----------------------------
(* Instances of MemAlloc for TLC: the constants are given in the cfg files. *)
EXTENDS MemAlloc
=============================================================================
