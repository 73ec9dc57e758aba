------------------------- MODULE MCSandboxProvider -------------------------
(* SandboxProvider on small instances: thread t1 has the runtime t1, "agent" *)
(* is the runtime of thread t2 and of the anonymous thread.                  *)
EXTENDS SandboxProvider

CONSTANTS t1, t2, anon, p0, p1

OnePoolVM == <<p0>>
TwoPoolVMs == <<p0, p1>>
AllRuntimes == {t1, t2, anon, p0, p1}
KnownRuntimes == {t2, p0, p1}
StaticRuntimes == {t2, p0}
=============================================================================
