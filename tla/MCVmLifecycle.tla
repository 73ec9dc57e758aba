--------------------------- MODULE MCVmLifecycle ---------------------------
(* VmLifecycle on small instances. *)
EXTENDS VmLifecycle

CONSTANTS c1, c2, s1, s2
=============================================================================
