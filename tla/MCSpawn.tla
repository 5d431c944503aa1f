------------------------------ MODULE MCSpawn ------------------------------
(* A device of three cores and eleven tasks: four, four and three of them. *)
EXTENDS Spawn

ElevenTasks == {[cores |-> 3, warps |-> 2, threads |-> 2, groups |-> 11, size |-> 1]}
=============================================================================
