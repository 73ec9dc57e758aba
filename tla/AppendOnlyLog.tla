--------------------------- MODULE AppendOnlyLog ---------------------------
(* What the evidence chain promises (docs/evidence.md: "new entries can only *)
(* be added at the end"): each log only ever grows by one entry at its end,  *)
(* until something outside the promise (a spoilt log) has happened to it.    *)
EXTENDS Naturals, Sequences

CONSTANT Logs

VARIABLES log, spoilt

vars == <<log, spoilt>>

Init ==
  /\ log = [l \in Logs |-> <<>>]
  /\ spoilt = {}

Grow(l) ==
  /\ l \notin spoilt /\ UNCHANGED spoilt
  /\ Len(log'[l]) = Len(log[l]) + 1
  /\ log' = [log EXCEPT ![l] = Append(@, log'[l][Len(@) + 1])]

\* Nothing is promised of a spoilt log, then or later.
Spoil(l) ==
  /\ spoilt' = spoilt \cup {l}
  /\ log' = [log EXCEPT ![l] = log'[l]]

Next == \E l \in Logs : Grow(l) \/ Spoil(l)

Spec == Init /\ [][Next]_vars
=============================================================================
