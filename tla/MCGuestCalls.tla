---------------------------- MODULE MCGuestCalls ----------------------------
(* GuestCalls on small instances. *)
EXTENDS GuestCalls

CONSTANTS t1, m1, p1

OneRead == <<{"read", "download"}>>

TwoCalls == <<{"append", "write", "exec", "search"}, {"append", "upload", "read", "list"}>>
=============================================================================
