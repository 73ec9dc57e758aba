------------------------------ MODULE VMLeases ------------------------------
(* What the pool of warm VMs promises its threads (registry.py, VMPool: each *)
(* acquire takes one VM out of the pool): a VM is offered once, the VM       *)
(* offered first is lent to one thread, and a VM that its thread has given   *)
(* up, or that a crash has taken out of the offer, is never lent again.  The *)
(* promise is void from the moment a VM is offered a second time.            *)
EXTENDS Sequences

CONSTANTS VMs, Threads

VARIABLES
  fresh,    \* the VMs that were never offered
  waiting,  \* those offered and not yet lent, oldest first
  lent,     \* what each thread has
  void      \* a VM was offered twice

Init == fresh = VMs /\ waiting = <<>> /\ lent = [t \in Threads |-> {}] /\ void = FALSE

Offer(r) ==
  /\ fresh' = fresh \ {r}
  /\ waiting' = Append(waiting, r)
  /\ UNCHANGED lent

Lend(t) ==
  /\ waiting # <<>>
  /\ waiting' = Tail(waiting)
  /\ lent' = [lent EXCEPT ![t] = @ \cup {Head(waiting)}]
  /\ UNCHANGED fresh

\* Threads give VMs up; in a crash so does the offer.
GiveUp ==
  /\ DOMAIN lent' = Threads /\ \A t \in Threads : lent'[t] \subseteq lent[t]
  /\ waiting' \in {waiting, <<>>}
  /\ UNCHANGED fresh

Keep ==
  \/ \E r \in fresh : Offer(r)
  \/ \E t \in Threads : Lend(t)
  \/ GiveUp

\* Nothing is promised with the second offer, then or later.
Void == void' = TRUE

Next == (Keep /\ ~void /\ UNCHANGED void) \/ Void

Spec == Init /\ [][Next]_<<fresh, waiting, lent, void>>
=============================================================================
