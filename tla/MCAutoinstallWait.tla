------------------------ MODULE MCAutoinstallWait ------------------------
(* AutoinstallWait on small instances. *)
EXTENDS AutoinstallWait

CONSTANTS a1, a2
=============================================================================
