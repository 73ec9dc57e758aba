----------------------- MODULE AutoinstallWaitProofs -----------------------
(***************************************************************************)
(* Theorems about the wait for the installation, for any timeout,          *)
(* interval, threshold and number of addresses.                            *)
(*                                                                         *)
(* The breaker's key is a function of what the answers are about           *)
(* (KeyIsOfCategory), so its count is never behind the checks that saw one *)
(* category in a row, and with the English texts the two are the same      *)
(* (CountInv).                                                             *)
(***************************************************************************)
EXTENDS AutoinstallWait, TLAPS

-----------------------------------------------------------------------------
(* Numbers *)

LEMMA DivFacts ==
  ASSUME NEW t \in Nat, NEW i \in Nat \ {0}
  PROVE  t \div i \in Nat /\ (t \div i) * i <= t
OBVIOUS

LEMMA TimesMono ==
  ASSUME NEW m \in Nat, NEW n \in Nat, m <= n, NEW k \in Nat
  PROVE  m * k <= n * k /\ m * k \in Nat /\ n * k \in Nat
OBVIOUS

LEMMA TimesSucc ==
  ASSUME NEW n \in Nat, NEW k \in Nat
  PROVE  (n + 1) * k = n * k + k
OBVIOUS

LEMMA MaxFacts ==
  /\ MaxConsecutiveErrors \in Nat \ {0}
  /\ MaxConsecutiveErrors > 1 => MaxConsecutiveErrors * Interval <= Threshold
BY DivFacts, WaitAssumption DEF MaxConsecutiveErrors

-----------------------------------------------------------------------------
(* The keys *)

LEMMA OrderFacts ==
  /\ DOMAIN Order = 1..5
  /\ Order[1] = "auth-pending"
  /\ \A i \in 1..5 : Order[i] \in Words /\ (Order[i] = "auth-pending" => i = 1)
  /\ Words \subseteq Keys /\ "no-guest-ip" \notin Words /\ "installer-running" \notin Words
BY DEF Order, Words, Keys

LEMMA LineSays ==
  ASSUME NEW l \in Line
  PROVE  \E i \in 1..5 : l.says = Order[i]
BY DEF Line, Answers, Unavailable, Order

Hits(words, d) == {i \in DOMAIN Order : Order[i] \in words /\ \E l \in d : l.says = Order[i]}

LEMMA LeastOf ==
  ASSUME NEW H \in SUBSET (1..5), H # {}
  PROVE  \E i \in H : \A j \in H : i <= j
<1>1. CASE 1 \in H
  BY <1>1
<1>2. CASE 1 \notin H /\ 2 \in H
  BY <1>2
<1>3. CASE 1 \notin H /\ 2 \notin H /\ 3 \in H
  BY <1>3
<1>4. CASE 1 \notin H /\ 2 \notin H /\ 3 \notin H /\ 4 \in H
  BY <1>4
<1>5. CASE 1 \notin H /\ 2 \notin H /\ 3 \notin H /\ 4 \notin H
  <2>1. \A i \in H : i = 5
    BY <1>5
  <2>2. 5 \in H
    BY <2>1
  <2> QED BY <2>1, <2>2
<1> QED BY <1>1, <1>2, <1>3, <1>4, <1>5

LEMMA KeyIsFirst ==
  ASSUME NEW words, NEW d
  PROVE  /\ d = {} => KeyOf(words, d) = "no-guest-ip"
         /\ d # {} /\ Hits(words, d) = {} => KeyOf(words, d) = "installer-running"
         /\ d # {} /\ Hits(words, d) # {} =>
              \E i \in Hits(words, d) : /\ KeyOf(words, d) = Order[i]
                                       /\ \A j \in Hits(words, d) : i <= j
<1> DEFINE H == Hits(words, d)
<1>1. KeyOf(words, d) = CASE d = {} -> "no-guest-ip"
                          [] d # {} /\ H = {} -> "installer-running"
                          [] OTHER -> Order[CHOOSE i \in H : \A j \in H : i <= j]
  BY DEF KeyOf, Hits
<1>2. H \subseteq 1..5
  BY OrderFacts DEF Hits
<1>3. CASE d # {} /\ H # {}
  <2> HIDE DEF H
  <2>1. \E i \in H : \A j \in H : i <= j
    BY <1>2, <1>3, LeastOf
  <2>2. PICK i \in H : i = (CHOOSE k \in H : \A j \in H : k <= j) /\ \A j \in H : i <= j
    BY <2>1
  <2>3. KeyOf(words, d) = Order[i]
    BY <1>1, <1>3, <2>2
  <2> QED BY <1>3, <2>2, <2>3 DEF H
<1>4. CASE d = {}
  BY <1>1, <1>4
<1>5. CASE d # {} /\ H = {}
  BY <1>1, <1>5
<1> QED BY <1>3, <1>4, <1>5

LEMMA KeyType ==
  ASSUME NEW words, NEW d
  PROVE  KeyOf(words, d) \in Keys
BY KeyIsFirst, OrderFacts DEF Hits, Keys

\* What the breaker counts by is determined by what the answers are about, in English
\* the very same.
LEMMA KeyIsOfCategory ==
  ASSUME NEW d \in Details
  PROVE  ErrorKey(d) = IF ~ Chinese \/ Category(d) \in {"no-guest-ip", "auth-pending"}
                       THEN Category(d) ELSE "installer-running"
<1>1. CASE ~ Chinese
  BY <1>1 DEF ErrorKey, Category
<1>2. CASE Chinese /\ d = {}
  BY <1>2, KeyIsFirst DEF ErrorKey, Category
<1>3. CASE Chinese /\ d # {}
  <2> DEFINE H == Hits({"auth-pending"}, d)
             G == Hits(Words, d)
  <2>1. ErrorKey(d) = KeyOf({"auth-pending"}, d) /\ Category(d) = KeyOf(Words, d)
    BY <1>3 DEF ErrorKey, Category
  <2>2. G # {} /\ G \subseteq 1..5
    <3>1. PICK l \in d : l \in Line
      BY <1>3 DEF Details
    <3> QED BY <3>1, LineSays, OrderFacts DEF Hits
  <2>3. H = G \cap {1}
    BY OrderFacts DEF Hits
  <2>4. CASE 1 \in G
    <3>1. PICK i \in H : ErrorKey(d) = Order[i]
      BY <1>3, <2>1, <2>3, <2>4, KeyIsFirst
    <3>2. PICK k \in G : Category(d) = Order[k] /\ \A j \in G : k <= j
      BY <1>3, <2>1, <2>2, KeyIsFirst
    <3>3. i = 1 /\ k = 1
      BY <2>2, <2>3, <2>4, <3>1, <3>2
    <3> QED BY <3>1, <3>2, <3>3, OrderFacts
  <2>5. CASE 1 \notin G
    <3>1. ErrorKey(d) = "installer-running"
      BY <1>3, <2>1, <2>3, <2>5, KeyIsFirst
    <3>2. PICK k \in G : Category(d) = Order[k]
      BY <1>3, <2>1, <2>2, KeyIsFirst
    <3>3. k \in 1..5 /\ k # 1
      BY <2>2, <2>5, <3>2
    <3> QED BY <1>3, <3>1, <3>2, <3>3, OrderFacts
  <2> QED BY <2>4, <2>5
<1> QED BY <1>1, <1>2, <1>3, WaitAssumption

-----------------------------------------------------------------------------
(* Types and time *)

LEMMA TestedFacts ==
  ASSUME NEW b, b \in [key : Keys \cup {None}, count : 0..MaxConsecutiveErrors, open : BOOLEAN],
         b.count < MaxConsecutiveErrors, NEW key \in Keys
  PROVE  LET n == IF b.key = key THEN b.count + 1 ELSE 1
         IN /\ Tested(b, key) \in [key : Keys \cup {None}, count : 0..MaxConsecutiveErrors, open : BOOLEAN]
            /\ Tested(b, key).key = key /\ Tested(b, key).count = n
            /\ Tested(b, key).open <=> n >= MaxConsecutiveErrors
<1>1. PICK n \in 1..MaxConsecutiveErrors : n = IF b.key = key THEN b.count + 1 ELSE 1
  BY MaxFacts
<1>2. PICK o \in BOOLEAN : o <=> n >= MaxConsecutiveErrors
  OBVIOUS
<1>3. o = (n >= MaxConsecutiveErrors)
  BY <1>2
<1>4. Tested(b, key) = [key |-> key, count |-> n, open |-> o]
  BY <1>1, <1>3, Zenon DEF Tested
<1> QED BY <1>1, <1>2, <1>4

\* Where the wait is, and what the breaker has counted by then.
CourseInv ==
  /\ pc # "over" <=> answer = None
  /\ breaker.open <=> answer = "opened"
  /\ ~ breaker.open => breaker.count < MaxConsecutiveErrors
  /\ breaker.open => breaker.count = MaxConsecutiveErrors
  /\ pc = "ask" => Interval <= now /\ now < Timeout + Interval
  /\ now < Timeout + Interval + MaxProbe

LEMMA CourseInit == Init => TypeOK /\ CourseInv
<1> SUFFICES ASSUME Init PROVE TypeOK /\ CourseInv
  OBVIOUS
<1>1. breaker = [key |-> None, count |-> 0, open |-> FALSE]
  BY DEF Init, NewBreaker
<1>2. TypeOK
  <2>1. breaker \in [key : Keys \cup {None}, count : 0..MaxConsecutiveErrors, open : BOOLEAN]
    BY <1>1, MaxFacts
  <2>2. now = 0 /\ pc = "loop" /\ answer = None /\ last = Blank /\ same = 0 /\ advised = FALSE
    BY DEF Init
  <2>3. category = None /\ streak = 0 /\ since = 0
    BY DEF Init
  <2> QED BY <2>1, <2>2, <2>3 DEF TypeOK
<1>3. CourseInv
  BY <1>1, MaxFacts, WaitAssumption DEF Init, CourseInv, None
<1> QED BY <1>2, <1>3

\* A check, in the parts that the invariants speak of.
LEMMA CheckFacts ==
  ASSUME TypeOK, CourseInv, NEW d \in Details, Check(d)
  PROVE  /\ pc = "ask" /\ now' \in Nat /\ now <= now' /\ now' <= now + MaxProbe
         /\ breaker'.key = ErrorKey(d) /\ ErrorKey(d) \in Keys /\ Category(d) \in Keys
         /\ breaker'.count = IF breaker.key = ErrorKey(d) THEN breaker.count + 1 ELSE 1
         /\ breaker' \in [key : Keys \cup {None}, count : 0..MaxConsecutiveErrors, open : BOOLEAN]
         /\ breaker'.open <=> breaker'.count >= MaxConsecutiveErrors
         /\ ~ breaker.open
<1>1. ErrorKey(d) \in Keys /\ Category(d) \in Keys
  BY KeyType DEF ErrorKey, Category
<1>2. pc = "ask" /\ ~ breaker.open /\ breaker.count < MaxConsecutiveErrors
  BY DEF Check, CourseInv, None
<1>3. PICK took \in 0..MaxProbe : now' = now + took
  BY DEF Check
<1> QED BY <1>1, <1>2, <1>3, TestedFacts, WaitAssumption DEF Check, TypeOK

LEMMA CourseStep == TypeOK /\ CourseInv /\ [Next]_vars => TypeOK' /\ CourseInv'
<1> SUFFICES ASSUME TypeOK, CourseInv, [Next]_vars PROVE TypeOK' /\ CourseInv'
  OBVIOUS
<1>0. None \notin {"ready", "timeout", "opened"}
  BY DEF None
<1>1. CASE Sleep
  BY <1>1, <1>0, WaitAssumption DEF Sleep, TypeOK, CourseInv, monitor, history
<1>2. CASE TimesOut
  BY <1>2, <1>0, WaitAssumption DEF TimesOut, Over, TypeOK, CourseInv, monitor, history
<1>3. CASE Ready
  <2>1. PICK took \in 0..MaxProbe : now' = now + took
    BY <1>3 DEF Ready
  <2> QED BY <1>3, <1>0, <2>1, WaitAssumption DEF Ready, Over, TypeOK, CourseInv, monitor, history
<1>4. ASSUME NEW d \in Details, Check(d) PROVE TypeOK' /\ CourseInv'
  <2>1. /\ pc = "ask" /\ now' \in Nat /\ now' <= now + MaxProbe /\ now - Interval \in Nat
        /\ breaker' \in [key : Keys \cup {None}, count : 0..MaxConsecutiveErrors, open : BOOLEAN]
        /\ breaker'.open <=> breaker'.count >= MaxConsecutiveErrors
        /\ Category(d) \in Keys
    BY <1>4, CheckFacts, WaitAssumption DEF TypeOK, CourseInv
  <2>2. \/ breaker'.open /\ pc' = "over" /\ answer' = "opened" /\ UNCHANGED monitor
        \/ ~ breaker'.open /\ pc' = "loop" /\ answer' = answer /\ Watch(d)
    BY <1>4 DEF Check, Over
  <2>3. last' \in Details \cup {Blank} /\ same' \in Nat /\ advised' \in BOOLEAN
    <3>1. CASE UNCHANGED monitor
      BY <3>1 DEF monitor, TypeOK
    <3>2. CASE Watch(d)
      <4>1. last' = d /\ same' = IF d = last THEN same + 1 ELSE 0
        BY <3>2 DEF Watch
      <4>2. advised' \in BOOLEAN
        BY <3>2 DEF Watch
      <4> QED BY <4>1, <4>2 DEF TypeOK
    <3> QED BY <2>2, <3>1, <3>2
  <2>4. category' \in Keys \cup {None} /\ streak' \in Nat /\ since' \in Nat
    BY <1>4, <2>1 DEF Check, TypeOK
  <2>5. TypeOK'
    BY <2>1, <2>2, <2>3, <2>4 DEF TypeOK
  <2> QED BY <1>0, <2>1, <2>2, <2>5, MaxFacts, WaitAssumption DEF CourseInv, TypeOK
<1>5. CASE UNCHANGED vars
  BY <1>5 DEF vars, monitor, history, TypeOK, CourseInv
<1> QED BY <1>1, <1>2, <1>3, <1>4, <1>5 DEF Next

\* Every variable of the wait always has its type; the breaker never counts beyond its limit.
THEOREM WaitTypes == Spec => []TypeOK
BY CourseInit, CourseStep, PTL DEF Spec

\* The wait is never longer than its timeout and one round of its loop.
THEOREM WaitsEndInTime == Spec => []EndsInTime
<1>1. CourseInv => EndsInTime
  BY DEF CourseInv, EndsInTime
<1> QED BY <1>1, CourseInit, CourseStep, PTL DEF Spec

-----------------------------------------------------------------------------
(* What the breaker's count says of the checks *)

\* The key of a category.
KeyFor(c) == IF ~ Chinese \/ c \in {"no-guest-ip", "auth-pending"} THEN c ELSE "installer-running"

CountInv ==
  /\ streak <= breaker.count
  /\ ~ Chinese => streak = breaker.count
  /\ breaker.count = 0 => category = None
  /\ breaker.count > 0 => breaker.key = KeyFor(category)

LEMMA CountInit == Init => CountInv
BY DEF Init, CountInv, NewBreaker

LEMMA CountStep == TypeOK /\ CourseInv /\ CountInv /\ [Next]_vars => CountInv'
<1> SUFFICES ASSUME TypeOK, CourseInv, CountInv, [Next]_vars PROVE CountInv'
  OBVIOUS
<1>1. CASE UNCHANGED <<breaker, history>>
  BY <1>1 DEF CountInv, history
<1>2. ASSUME NEW d \in Details, Check(d) PROVE CountInv'
  <2>1. /\ breaker'.key = ErrorKey(d) /\ Category(d) \in Keys
        /\ breaker'.count = IF breaker.key = ErrorKey(d) THEN breaker.count + 1 ELSE 1
    BY <1>2, CheckFacts
  <2>2. ErrorKey(d) = KeyFor(Category(d))
    BY KeyIsOfCategory DEF KeyFor
  <2>3. /\ category' = Category(d)
        /\ streak' = IF Category(d) = category THEN streak + 1 ELSE 1
    BY <1>2 DEF Check
  <2>4. None \notin Keys
    BY DEF None, Keys, Words, Order
  <2>5. breaker.count \in Nat /\ streak \in Nat
    BY MaxFacts DEF TypeOK
  <2>6. CASE Category(d) = category
    BY <2>1, <2>2, <2>3, <2>4, <2>5, <2>6 DEF CountInv
  <2>7. CASE Category(d) # category
    <3>1. ~ Chinese /\ breaker.count > 0 => breaker.key # ErrorKey(d)
      BY <2>2, <2>7 DEF CountInv, KeyFor
    <3>2. ~ Chinese /\ breaker.count = 0 => breaker'.count = 1
      BY <2>1, <2>5
    <3> QED BY <2>1, <2>2, <2>3, <2>5, <2>7, <3>1, <3>2 DEF CountInv
  <2> QED BY <2>6, <2>7
<1>3. CASE Sleep \/ TimesOut \/ Ready \/ UNCHANGED vars
  BY <1>1, <1>3 DEF Sleep, TimesOut, Ready, vars
<1> QED BY <1>2, <1>3 DEF Next

\* With the English texts the breaker opens only on a guest that has been in one state for
\* as many checks as the threshold has intervals.
THEOREM PersistenceOpens == ASSUME ~ Chinese PROVE Spec => []OpensOnPersistence
<1>1. TypeOK /\ CourseInv /\ CountInv => OpensOnPersistence
  BY MaxFacts DEF CourseInv, CountInv, OpensOnPersistence
<1> QED BY <1>1, CourseInit, CourseStep, CountInit, CountStep, PTL DEF Spec

-----------------------------------------------------------------------------
(* How long one category lasts *)

Round == Interval + MaxProbe

LastingInv ==
  /\ pc = "loop" => now <= since + streak * Round
  /\ pc = "ask" => now <= since + streak * Round + Interval
  /\ pc = "over" => now <= since + streak * Round + (IF answer = "ready" THEN Round ELSE 0)

LEMMA LastingInit == Init => LastingInv
BY WaitAssumption DEF Init, LastingInv, Round

LEMMA LastingStep == TypeOK /\ CourseInv /\ LastingInv /\ [Next]_vars => LastingInv'
<1> SUFFICES ASSUME TypeOK, CourseInv, LastingInv, [Next]_vars PROVE LastingInv'
  OBVIOUS
<1>0. Round \in Nat /\ Round = Interval + MaxProbe /\ streak * Round \in Nat
  BY TimesMono, WaitAssumption DEF Round, TypeOK
<1> DEFINE total == streak * Round
<1>6. total \in Nat /\ now \in Nat /\ since \in Nat
  BY <1>0 DEF TypeOK
<1>1. CASE Sleep
  <2>1. total' = total /\ since' = since /\ now <= since + total /\ now' = now + Interval /\ pc' = "ask"
    BY <1>1 DEF Sleep, LastingInv, history, Round
  <2> HIDE DEF total
  <2>2. now' <= since' + total' + Interval
    BY <2>1, <1>6, WaitAssumption
  <2> QED BY <2>1, <2>2 DEF LastingInv, total
<1>2. CASE TimesOut
  BY <1>2, <1>0 DEF TimesOut, Over, LastingInv, history, TypeOK, Round
<1>3. CASE Ready
  <2>1. PICK took \in 0..MaxProbe : now' = now + took
    BY <1>3 DEF Ready
  <2>2. total' = total /\ since' = since /\ now <= since + total + Interval /\ pc' = "over" /\ answer' = "ready"
    BY <1>3 DEF Ready, Over, LastingInv, history, Round
  <2> HIDE DEF total
  <2>3. now' <= since' + total' + Round
    BY <2>1, <2>2, <1>0, WaitAssumption DEF TypeOK, total
  <2> QED BY <1>0, <2>2, <2>3 DEF LastingInv, total
<1>4. ASSUME NEW d \in Details, Check(d) PROVE LastingInv'
  <2>1. /\ pc = "ask" /\ now' \in Nat /\ now' <= now + MaxProbe
        /\ pc' = "loop" \/ (pc' = "over" /\ answer' = "opened")
    BY <1>4, CheckFacts DEF Check, Over
  <2>2. now <= since + total + Interval /\ Interval <= now
    BY <2>1 DEF LastingInv, CourseInv
  <2>3. CASE Category(d) = category
    <3>1. streak' = streak + 1 /\ since' = since
      BY <1>4, <2>3 DEF Check
    <3>2. streak' * Round = total + Round
      BY <3>1, <1>0, TimesSucc DEF TypeOK
    <3>3. PICK u \in Nat : u = total + Round
      BY <1>0, <1>6
    <3>4. PICK v \in Nat : v = since'
      BY <3>1, <1>6
    <3>5. now' <= v + u /\ now' <= v + u + 0
      BY <2>1, <2>2, <3>1, <3>3, <3>4, <1>6, WaitAssumption DEF Round
    <3>6. Round' = Round
      BY DEF Round
    <3> QED BY <2>1, <3>2, <3>3, <3>4, <3>5, <3>6 DEF LastingInv
  <2>4. CASE Category(d) # category
    <3>1. streak' = 1 /\ since' = now - Interval
      BY <1>4, <2>4 DEF Check
    <3>3. now' <= since' + Round
      BY <2>1, <3>1, <1>6, WaitAssumption DEF Round
    <3>4. since' \in Nat
      BY <2>2, <3>1, <1>6, WaitAssumption
    <3>5. now' <= since' + Round + 0
      BY <2>1, <3>3, <3>4, <1>0
    <3>6. streak' * Round = Round
      BY <3>1, <1>0
    <3>7. Round' = Round
      BY DEF Round
    <3> QED BY <2>1, <3>3, <3>5, <3>6, <3>7 DEF LastingInv
  <2> QED BY <2>3, <2>4
<1>5. CASE UNCHANGED vars
  BY <1>5 DEF vars, history, LastingInv, Round
<1> QED BY <1>1, <1>2, <1>3, <1>4, <1>5 DEF Next

\* A guest that stays in one state is not watched for longer than the threshold and its
\* questions take, in either language.
THEOREM StuckGuestsAreNoticed == Spec => []StuckIsNoticed
<1>1. TypeOK /\ CourseInv /\ CountInv /\ LastingInv => StuckIsNoticed
  <2> SUFFICES ASSUME TypeOK, CourseInv, CountInv, LastingInv PROVE StuckIsNoticed
    OBVIOUS
  <2>1. breaker.count \in Nat /\ breaker.count <= MaxConsecutiveErrors /\ streak \in Nat /\ streak <= breaker.count
    BY MaxFacts DEF TypeOK, CountInv
  <2>2. pc # "over" \/ answer = "ready" => streak + 1 <= MaxConsecutiveErrors
    BY <2>1, MaxFacts DEF CourseInv, None
  <2>3. Round \in Nat /\ Interval <= Round
    BY WaitAssumption DEF Round
  <2>4. streak * Round \in Nat /\ (streak + 1) * Round = streak * Round + Round
    BY <2>1, <2>3, TimesMono, TimesSucc
  <2>5. now <= since + MaxConsecutiveErrors * Round
    <3>1. CASE pc # "over" \/ answer = "ready"
      <4>1. streak * Round + Round <= MaxConsecutiveErrors * Round /\ MaxConsecutiveErrors * Round \in Nat
        <5>1. streak + 1 \in Nat /\ MaxConsecutiveErrors \in Nat
          BY <2>1, MaxFacts
        <5> QED BY <2>2, <2>3, <2>4, <3>1, <5>1, TimesMono
      <4>2. now <= since + streak * Round + Round
        BY <2>3, <2>4, <3>1, WaitAssumption DEF LastingInv, TypeOK
      <4> HIDE DEF Round
      <4> QED BY <4>1, <4>2, <2>3, <2>4, MaxFacts DEF TypeOK
    <3>2. CASE pc = "over" /\ answer # "ready"
      <4>1. streak * Round <= MaxConsecutiveErrors * Round /\ MaxConsecutiveErrors * Round \in Nat
        BY <2>1, <2>3, MaxFacts, TimesMono
      <4>2. now <= since + streak * Round
        BY <2>4, <3>2 DEF LastingInv, TypeOK
      <4> QED BY <4>1, <4>2, <2>3, <2>4, MaxFacts DEF TypeOK
    <3> QED BY <3>1, <3>2
  <2>6. MaxConsecutiveErrors * Round \in Nat
    BY <2>3, MaxFacts, TimesMono
  <2> QED BY <2>2, <2>5, <2>6, <2>1, MaxFacts DEF StuckIsNoticed, Round, TypeOK
<1> QED BY <1>1, CourseInit, CourseStep, CountInit, CountStep, LastingInit, LastingStep, PTL DEF Spec

-----------------------------------------------------------------------------
(* The two counters of repetitions *)

AdviceInv ==
  /\ ~ advised
  /\ breaker.count = 0 => last = Blank /\ same = 0
  /\ breaker.count > 0 => same < breaker.count
  /\ breaker.count > 0 /\ ~ breaker.open => last \in Details /\ breaker.key = ErrorKey(last)

LEMMA AdviceInit == Init => AdviceInv
BY DEF Init, AdviceInv, NewBreaker

\* So few repetitions do not add up to the time of the advice.
LEMMA TooEarly ==
  ASSUME NEW n \in Nat, n + 1 < MaxConsecutiveErrors
  PROVE  ~ (n * Interval >= Advice)
<1>1. MaxConsecutiveErrors \in Nat /\ MaxConsecutiveErrors * Interval <= Threshold /\ n + 1 <= MaxConsecutiveErrors
  BY MaxFacts
<1>2. (n + 1) * Interval <= MaxConsecutiveErrors * Interval
  BY <1>1, TimesMono, WaitAssumption
<1>3. (n + 1) * Interval = n * Interval + Interval
  BY TimesSucc, WaitAssumption
<1>4. n * Interval \in Nat /\ MaxConsecutiveErrors * Interval \in Nat
  BY <1>1, TimesMono, WaitAssumption
<1> QED BY <1>1, <1>2, <1>3, <1>4, WaitAssumption

LEMMA BlankIsNoDetail == Blank \notin Details
<1>1. [at |-> Nowhere, says |-> None] \notin Line
  BY WaitAssumption DEF Line, Unavailable, None
<1> QED BY <1>1 DEF Blank, Details

LEMMA AdviceStep == TypeOK /\ CourseInv /\ AdviceInv /\ [Next]_vars => AdviceInv'
<1> SUFFICES ASSUME TypeOK, CourseInv, AdviceInv, [Next]_vars PROVE AdviceInv'
  OBVIOUS
<1>1. CASE UNCHANGED <<breaker, monitor>>
  BY <1>1 DEF AdviceInv, monitor
<1>2. ASSUME NEW d \in Details, Check(d) PROVE AdviceInv'
  <2>1. /\ breaker'.key = ErrorKey(d) /\ ~ breaker.open
        /\ breaker'.count = IF breaker.key = ErrorKey(d) THEN breaker.count + 1 ELSE 1
        /\ breaker'.open <=> breaker'.count >= MaxConsecutiveErrors
    BY <1>2, CheckFacts
  <2>2. breaker.count \in Nat /\ same \in Nat /\ breaker.count < MaxConsecutiveErrors
    BY <2>1, MaxFacts DEF TypeOK, CourseInv
  <2>3. CASE breaker'.open
    <3>1. UNCHANGED <<last, same, advised>>
      BY <1>2, <2>3 DEF Check, monitor
    <3>2. breaker'.count > 0 /\ same < breaker'.count
      BY <2>1, <2>2, <2>3, MaxFacts DEF AdviceInv
    <3> QED BY <2>3, <3>1, <3>2 DEF AdviceInv
  <2>4. CASE ~ breaker'.open
    <3>1. /\ last' = d /\ same' = IF d = last THEN same + 1 ELSE 0
          /\ advised' = (advised \/ (d = last /\ same' * Interval >= Advice))
      BY <1>2, <2>4 DEF Check, Watch
    <3>2. breaker'.count > 0 /\ same' < breaker'.count /\ same' \in Nat
      <4>1. CASE d = last
        <5>1. breaker.count > 0
          BY <4>1, <2>2, BlankIsNoDetail DEF AdviceInv
        <5> QED BY <4>1, <5>1, <2>1, <2>2, <3>1 DEF AdviceInv
      <4>2. CASE d # last
        BY <4>2, <2>1, <2>2, <3>1
      <4> QED BY <4>1, <4>2
    <3>3. same' + 1 < MaxConsecutiveErrors
      <4>1. breaker'.count \in Nat
        BY <2>1, <2>2
      <4>2. breaker'.count < MaxConsecutiveErrors
        BY <2>1, <2>4, <4>1, MaxFacts
      <4>3. PICK n \in Nat : n = breaker'.count
        BY <4>1
      <4>4. PICK m \in Nat : m = MaxConsecutiveErrors
        BY MaxFacts
      <4>5. PICK k \in Nat : k = same'
        BY <3>2
      <4>6. k < n /\ n < m
        BY <3>2, <4>2, <4>3, <4>4, <4>5
      <4>7. k + 1 < m
        BY <4>6
      <4> QED BY <4>4, <4>5, <4>7
    <3>4. ~ advised'
      BY <3>1, <3>2, <3>3, TooEarly DEF AdviceInv
    <3>5. breaker'.key = ErrorKey(last') /\ last' \in Details
      BY <2>1, <3>1
    <3>6. ErrorKey(last') = ErrorKey(last)'
      BY DEF ErrorKey, KeyOf
    <3> QED BY <2>4, <3>2, <3>4, <3>5, <3>6 DEF AdviceInv
  <2> QED BY <2>3, <2>4
<1>3. CASE Sleep \/ TimesOut \/ Ready \/ UNCHANGED vars
  BY <1>1, <1>3 DEF Sleep, TimesOut, Ready, vars
<1> QED BY <1>2, <1>3 DEF Next

\* The user is never told to look for himself: by the time of the advice the breaker has
\* opened, in either language and with any addresses.
THEOREM AdviceIsNeverGiven == Spec => []NeverAdvised
<1>1. AdviceInv => NeverAdvised
  BY DEF AdviceInv, NeverAdvised
<1> QED BY <1>1, CourseInit, CourseStep, AdviceInit, AdviceStep, PTL DEF Spec
=============================================================================
