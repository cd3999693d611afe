------------------------------ MODULE Callers -------------------------------
(***************************************************************************)
(* The threads of a node that call its shared structures: tasks of the     *)
(* async runtime, several of which run at the same time.                   *)
(***************************************************************************)
CONSTANT Thread
=============================================================================
