--------------------------- MODULE MCSyncSession ---------------------------
(* SyncSession on small instances. *)
EXTENDS SyncSession, TLC

CONSTANT Alike   \* runtimes for which all checkouts are configured with one address

VmAddress(k, r) == IF r \in Alike THEN <<r>> ELSE <<k, r>>

CommandSymmetry == Permutations(Commands)
=============================================================================
