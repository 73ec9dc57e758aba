-------------------------- MODULE AutoinstallWait --------------------------
(***************************************************************************)
(* How `adpos up` waits for the installation of a new VM                   *)
(* (Wait-AutoinstallComplete of runtimes/vmware/vm-factory.ps1 over        *)
(* core/utility/circuit-breaker.ps1): it sleeps, asks the guest for its    *)
(* provision marker at every address it knows, and goes on until it has    *)
(* the marker, the deadline is over, or a breaker opens because the same   *)
(* kind of answer has come too often in a row.                             *)
(*                                                                         *)
(* An answer is a text in the language of the user interface, and the      *)
(* breaker's key is found by matching English words in it.                 *)
(***************************************************************************)
EXTENDS Naturals, FiniteSets

CONSTANTS
  Addresses,  \* where the guest may be found: the configured one, or what VMware reports
  Nowhere,    \* of a line that names no address
  Chinese,    \* the user interface is in Chinese
  Timeout, Interval, Threshold,  \* the wait, its sleep and the breaker's threshold
  Advice,     \* after so long of the same answer the user is told to look for himself
  MaxProbe    \* bound: what the questions of one check take

ASSUME WaitAssumption ==
  /\ Nowhere \notin Addresses /\ Chinese \in BOOLEAN
  /\ Timeout \in Nat \ {0} /\ Interval \in Nat \ {0}
  /\ Threshold \in Nat /\ Advice \in Nat /\ MaxProbe \in Nat
  /\ Threshold <= Advice

\* $cbIterations
MaxConsecutiveErrors == IF Threshold \div Interval = 0 THEN 1 ELSE Threshold \div Interval

-----------------------------------------------------------------------------
(* What a check sees *)

\* What an address may answer, in the order in which the key is looked for.
Order == <<"auth-pending", "ssh-not-ready", "ssh-key-missing", "provision-not-ready", "probe-unavailable">>
Answers == {Order[i] : i \in 1..4}

Unavailable == [at |-> Nowhere, says |-> "probe-unavailable"]
Line == [at : Addresses, says : Answers] \cup {Unavailable}

\* The details of a check that did not find the marker: no address at all, or an answer of
\* each of at most two, or a question that could not be put and was the last.
Details ==
  {d \in SUBSET Line : /\ Cardinality(d) <= 2
                       /\ \A l, m \in d : l.at = m.at => l = m}

\* The key that the words of some answers give.
KeyOf(words, d) ==
  LET hits == {i \in DOMAIN Order : Order[i] \in words /\ \E l \in d : l.says = Order[i]}
  IN CASE d = {} -> "no-guest-ip"
       [] d # {} /\ hits = {} -> "installer-running"
       [] OTHER -> Order[CHOOSE i \in hits : \A j \in hits : i <= j]

Words == {Order[i] : i \in DOMAIN Order}

\* What the answers are about, in any language.
Category(d) == KeyOf(Words, d)

\* Mutant: the last answer in the order wins.
LastKey(d) ==
  LET hits == {i \in DOMAIN Order : \E l \in d : l.says = Order[i]}
  IN IF d = {} THEN "no-guest-ip" ELSE Order[CHOOSE i \in hits : \A j \in hits : i >= j]

\* $cbErrorKey: of the Chinese texts only one has the words that are looked for.
ErrorKey(d) == KeyOf(IF Chinese THEN {"auth-pending"} ELSE Words, d)

Keys == Words \cup {"no-guest-ip", "installer-running"}
None == "none"

\* The text of no check.
Blank == {[at |-> Nowhere, says |-> None]}

-----------------------------------------------------------------------------
(* The circuit breaker *)

\* New-CircuitBreaker
NewBreaker == [key |-> None, count |-> 0, open |-> FALSE]

\* Mutant: another key does not start a new count.
TestedOnce(b, key) ==
  LET n == b.count + 1 IN [key |-> key, count |-> n, open |-> n >= MaxConsecutiveErrors]

\* Test-CircuitBreaker, of a breaker that is closed.
Tested(b, key) ==
  LET n == IF b.key = key THEN b.count + 1 ELSE 1
  IN [key |-> key, count |-> n, open |-> n >= MaxConsecutiveErrors]

-----------------------------------------------------------------------------
VARIABLES
  now,      \* the time since the wait began
  pc,       \* the wait: about to look at the deadline, about to ask, or over
  answer,   \* how it ended
  breaker,
  last,     \* $lastDetail
  same,     \* $sameDetailCount
  advised,  \* the user was told to look for himself
  category, streak, since  \* history: what the last checks were about, how many of them
                           \* in a row, and the time before the first of these

monitor == <<last, same, advised>>
history == <<category, streak, since>>
vars == <<now, pc, answer, breaker, monitor, history>>

Init ==
  /\ now = 0 /\ pc = "loop" /\ answer = None
  /\ breaker = NewBreaker
  /\ last = Blank /\ same = 0 /\ advised = FALSE
  /\ category = None /\ streak = 0 /\ since = 0

Over(how) == pc' = "over" /\ answer' = how

\* Mutant: the deadline is not looked at.
SleepAnyway ==
  /\ pc = "loop"
  /\ pc' = "ask" /\ now' = now + Interval
  /\ UNCHANGED <<answer, breaker, monitor, history>>

\* Mutant: the deadline is set anew for every check.
SleepRestarts ==
  /\ pc = "loop" /\ now < Timeout
  /\ pc' = "ask" /\ now' = Interval
  /\ UNCHANGED <<answer, breaker, monitor, history>>

Sleep ==
  /\ pc = "loop" /\ now < Timeout
  /\ pc' = "ask" /\ now' = now + Interval
  /\ UNCHANGED <<answer, breaker, monitor, history>>

TimesOut ==
  /\ pc = "loop" /\ now >= Timeout
  /\ Over("timeout")
  /\ UNCHANGED <<now, breaker, monitor, history>>

\* An address has the marker.
Ready ==
  /\ pc = "ask"
  /\ \E took \in 0..MaxProbe : now' = now + took
  /\ Over("ready")
  /\ UNCHANGED <<breaker, monitor, history>>

\* The heartbeat, with its advice.
Watch(d) ==
  /\ last' = d
  /\ same' = IF d = last THEN same + 1 ELSE 0
  /\ advised' = (advised \/ (d = last /\ same' * Interval >= Advice))

\* No address has it: the breaker counts the answer, and the wait is over or goes on.
Check(d) ==
  /\ pc = "ask"
  /\ \E took \in 0..MaxProbe : now' = now + took
  /\ breaker' = Tested(breaker, ErrorKey(d))
  /\ IF breaker'.open
     THEN Over("opened") /\ UNCHANGED monitor
     ELSE pc' = "loop" /\ Watch(d) /\ UNCHANGED answer
  /\ category' = Category(d)
  /\ IF Category(d) = category
     THEN streak' = streak + 1 /\ UNCHANGED since
     ELSE streak' = 1 /\ since' = now - Interval

Next == Sleep \/ TimesOut \/ Ready \/ \E d \in Details : Check(d)

Spec == Init /\ [][Next]_vars

\* A sleep ends, and so do the questions of a check: vmrun has a timeout, ssh one for its
\* connection.
FairSpec == Spec /\ WF_vars(Next)

-----------------------------------------------------------------------------
(* Properties *)

\* Every variable has its type.
TypeOK ==
  /\ now \in Nat /\ pc \in {"loop", "ask", "over"}
  /\ answer \in {None, "ready", "timeout", "opened"}
  /\ breaker \in [key : Keys \cup {None}, count : 0..MaxConsecutiveErrors, open : BOOLEAN]
  /\ last \in Details \cup {Blank} /\ same \in Nat /\ advised \in BOOLEAN
  /\ category \in Keys \cup {None} /\ streak \in Nat /\ since \in Nat

\* The wait is never longer than the timeout and one round of the loop
\* (vm-factory.ps1:476: the deadline is only looked at before a sleep).
EndsInTime == now < Timeout + Interval + MaxProbe

\* The breaker gives up only a guest that has been in the same state for as many checks as
\* the threshold has intervals (vm-factory.ps1:461: "if the same error category repeats for
\* too long").
OpensOnPersistence == answer = "opened" => streak >= MaxConsecutiveErrors

\* Nobody watches a guest that stays in one state for longer than the threshold and what
\* the questions took, whatever the language and the addresses that answer
\* (circuit-breaker.ps1:4-6).
StuckIsNoticed ==
  /\ streak >= MaxConsecutiveErrors => pc = "over"
  /\ now - since <= MaxConsecutiveErrors * (Interval + MaxProbe)

\* A wait that is given up on a guest that gave one kind of answer for so long has told the
\* user to look for himself (docs/operations.md:154, vm-factory.ps1:591).  It does not
\* hold: the breaker opens first.
AdviceIsGiven == answer = "opened" /\ now - since >= Advice => advised

\* What holds instead, while the threshold is no longer than that time.
NeverAdvised == ~ advised

\* Every wait ends.
WaitEnds == <>(pc = "over")
=============================================================================
