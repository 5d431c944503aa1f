------------------------------- MODULE MCLrSc -------------------------------
(* Two warps of one core, and a warp of another that uses AMOADD.          *)
EXTENDS LrSc

MCWarps == {[core |-> 0, id |-> 0, uses |-> "lr"], [core |-> 0, id |-> 1, uses |-> "lr"],
            [core |-> 1, id |-> 0, uses |-> "amoadd"]}
=============================================================================
