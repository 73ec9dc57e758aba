-------------------------- MODULE MCWorkspaceTasks --------------------------
(* WorkspaceTasks on small instances. *)
EXTENDS WorkspaceTasks

CONSTANTS c1, c2, t1, t2
=============================================================================
