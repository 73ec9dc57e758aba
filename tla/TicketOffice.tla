---------------------------- MODULE TicketOffice ----------------------------
(* What refresh tokens promise (server.py:188: "Refresh tokens are          *)
(* single-use"): a ticket is bought, or exchanged for a live one that gives *)
(* its bearer exactly the same and is void from then on; a ticket that has  *)
(* lapsed stays void.                                                       *)
EXTENDS Naturals

CONSTANT Subjects

VARIABLES
  handed,  \* every ticket ever handed out
  live,    \* those that are still worth something
  bought   \* how many each subject has bought

Init == handed = {} /\ live = {} /\ bought = [s \in Subjects |-> 0]

Bearer(t) == <<t.sub, t.role, t.scopes>>

New(t) == t \notin handed /\ handed' = handed \cup {t}

Buy(t) ==
  /\ New(t)
  /\ live' = live \cup {t}
  /\ bought' = [bought EXCEPT ![t.sub] = @ + 1]

Exchange(old, t) ==
  /\ New(t) /\ Bearer(t) = Bearer(old)
  /\ live' = (live \ {old}) \cup {t}
  /\ UNCHANGED bought

Lapse == live' \subseteq live /\ UNCHANGED <<handed, bought>>

Next ==
  \/ \E t \in handed' : Buy(t)
  \/ \E old \in live, t \in handed' : Exchange(old, t)
  \/ Lapse

Spec == Init /\ [][Next]_<<handed, live, bought>>
=============================================================================
