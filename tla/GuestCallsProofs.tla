-------------------------- MODULE GuestCallsProofs --------------------------
(***************************************************************************)
(* Theorems about the calls into a guest, for any number of threads,       *)
(* servers, files, calls and faults.                                       *)
(***************************************************************************)
EXTENDS GuestCalls, TLAPS

-----------------------------------------------------------------------------
(* The invariant *)

\* The types, with puts not bounded yet.
CallShape == [by : Callers, op : Operations, path : Paths, st : {"open", "ok", "taken", "failed", "refused", "unsent"},
              data : Data, runs : 0..4, puts : Nat, before : SUBSET (1..MaxCalls)]

Shapes ==
  /\ up \in BOOLEAN /\ dir \in BOOLEAN /\ faults \in 0..MaxFaults
  /\ client \in {"none", "live", "dead"}
  /\ calls \in Seq(CallShape) /\ Len(calls) <= MaxCalls
  /\ file \in [Paths -> {Missing} \cup Seq(1..Len(calls))]
  /\ jobs \subseteq JobType /\ \A j \in jobs : j.call \in DOMAIN calls
  /\ pc \in [Callers -> [at : Places, call : 0..MaxCalls, try : 0..4]]

\* Where a caller is tells how often it has tried.
CallerOK(a) ==
  pc[a].at # "idle" =>
    /\ pc[a].call \in DOMAIN calls
    /\ calls[pc[a].call].by = a /\ calls[pc[a].call].st = "open" /\ calls[pc[a].call].runs <= pc[a].try
    /\ a \in Servers => \/ pc[a].at \in {"resolve", "ssh"} /\ pc[a].try = 0
                        \/ pc[a].at = "waitssh" /\ pc[a].try = 1
    /\ a \in Threads => \/ pc[a].at = "connect" /\ pc[a].try \in {0, 2}
                        \/ pc[a].at \in {"wait", "status", "ssh"} /\ pc[a].try \in {1, 3}
                        \/ pc[a].at = "waitssh" /\ pc[a].try \in {2, 4}
    /\ calls[pc[a].call].op # "list" => pc[a].try <= 2 /\ (pc[a].at = "connect" => pc[a].try = 0)

\* A job is one attempt of its call, and none that its caller has not made yet.
JobOK(j) ==
  /\ Op(j) \in Changing => j.try <= 2
  /\ calls[j.call].by \in Servers => j.try = 1
  /\ j.at \in {"made", "opened"} => Op(j) \in Changing
  /\ j.at = "opened" => file[Path(j)] # Missing
  /\ calls[j.call].by \in Servers /\ calls[j.call].op # "exec" /\ j.at = "done" /\ j.exit = "1" => calls[j.call].puts = 0
  /\ \A a \in Callers : pc[a].at # "idle" /\ pc[a].call = j.call => j.try <= pc[a].try

OneJobEach == \A i, j \in jobs : i.call = j.call /\ i.try = j.try => i = j

\* The attempts of call n that have yet to write.
Busy(n, k) == \E j \in jobs : j.call = n /\ j.try = k /\ j.at \in {"start", "made", "opened"}
Owed(n) == (IF Busy(n, 1) THEN 1 ELSE 0) + (IF Busy(n, 2) THEN 1 ELSE 0)

\* Each run of a call writes once at most.
CallOK(n) ==
  /\ calls[n].op \in Changing => calls[n].puts + Owed(n) <= calls[n].runs /\ calls[n].runs <= 2
  /\ calls[n].op \notin Changing => calls[n].puts = 0
  /\ calls[n].by \in Servers => calls[n].runs <= 1
  /\ calls[n].by \in Servers /\ calls[n].st \in {"unsent", "refused"} =>
       /\ calls[n].puts = 0 \/ (calls[n].st = "refused" /\ calls[n].op = "exec")
       /\ \A j \in jobs : j.call # n

GuestInv ==
  /\ Shapes /\ OneJobEach
  /\ \A a \in Callers : CallerOK(a)
  /\ \A j \in jobs : JobOK(j)
  /\ \A n \in DOMAIN calls : CallOK(n)

-----------------------------------------------------------------------------
(* Types *)

LEMMA SeqReplace ==
  ASSUME NEW S, NEW s \in Seq(S), NEW n \in DOMAIN s, NEW x \in S, NEW t, t = [s EXCEPT ![n] = x]
  PROVE  /\ t \in Seq(S) /\ Len(t) = Len(s) /\ DOMAIN t = DOMAIN s
         /\ t[n] = x /\ \A m \in DOMAIN s \ {n} : t[m] = s[m]
OBVIOUS

LEMMA SeqWider ==
  ASSUME NEW S, NEW T, S \subseteq T, NEW s \in Seq(S) PROVE s \in Seq(T)
OBVIOUS

LEMMA JobShape ==
  ASSUME Shapes, NEW j \in jobs
  PROVE  /\ j \in JobType /\ j.call \in DOMAIN calls /\ calls[j.call] \in CallShape
         /\ Path(j) \in Paths /\ file[Path(j)] \in {Missing} \cup Seq(1..Len(calls))
         /\ calls[j.call].by \in Callers /\ Op(j) \in Operations
<1>1. j.call \in DOMAIN calls /\ calls[j.call] \in CallShape
  BY DEF Shapes
<1> QED BY <1>1 DEF Shapes, Path, Op, CallShape

LEMMA CallBounds == Shapes => /\ Len(calls) \in Nat /\ DOMAIN calls = 1..Len(calls)
                              /\ MaxCalls \in Nat /\ DOMAIN calls \subseteq 1..MaxCalls
BY GuestAssumption DEF Shapes, MaxCalls

LEMMA DataTypes ==
  /\ NoData \in Data /\ ErrorText \in Data /\ \A found \in SUBSET Present : found \in Data
  /\ Shapes => \A p \in Paths : Blocks(p) \in Data
<1>0. NoData \in Data /\ ErrorText \in Data
  <2>1. NoData \in {ErrorText, NoData} /\ ErrorText \in {ErrorText, NoData}
    OBVIOUS
  <2> QED BY <2>1 DEF Data
<1>1. \A found \in SUBSET Present : found \in Data
  <2>1. Present \subseteq Paths
    BY DEF Present
  <2> QED BY <2>1 DEF Data
<1>2. ASSUME Shapes, NEW p \in Paths PROVE Blocks(p) \in Data
  <2>0. \A s \in SUBSET (1..MaxCalls) : s \in Data
    BY DEF Data
  <2>1. CASE file[p] = Missing
    BY <2>0, <2>1 DEF Blocks
  <2>2. CASE file[p] # Missing
    <3>1. file[p] \in Seq(1..Len(calls)) /\ 1..Len(calls) \subseteq 1..MaxCalls
      BY <1>2, <2>2, CallBounds DEF Shapes
    <3>2. \A i \in DOMAIN file[p] : file[p][i] \in 1..MaxCalls
      BY <3>1
    <3> QED BY <2>0, <2>2, <3>2 DEF Blocks
  <2> QED BY <2>1, <2>2
<1> QED BY <1>0, <1>1, <1>2

\* Job j goes on to at, or is gone; the other jobs stay.
Led(j, at, exit) ==
  /\ \A i \in jobs' : \/ i \in jobs \ {j}
                      \/ i \in JobType /\ i.call = j.call /\ i.try = j.try /\ i.at = at /\ i.exit = exit
  /\ \A i, k \in jobs' : i \in jobs \ {j} \/ k \in jobs \ {j} \/ i = k

LEMMA ExitLeads ==
  ASSUME Shapes, NEW j \in jobs, NEW exit \in Exits, NEW out \in Data, Exit(j, exit, out)
  PROVE  Led(j, "done", exit)
<1> DEFINE i == [j EXCEPT !.at = "done", !.exit = exit, !.out = out]
<1>1. i \in JobType /\ i.call = j.call /\ i.try = j.try /\ i.at = "done" /\ i.exit = exit
  BY JobShape DEF JobType
<1>2. jobs' \subseteq (jobs \ {j}) \cup {i}
  BY DEF Exit, Replace
<1> HIDE DEF i
<1> QED BY <1>1, <1>2 DEF Led

LEMMA MoveLeads ==
  ASSUME Shapes, NEW j \in jobs, NEW at \in {"start", "made", "opened", "quiet", "prints", "done"},
         Replace(j, {[j EXCEPT !.at = at]})
  PROVE  Led(j, at, j.exit)
<1> DEFINE i == [j EXCEPT !.at = at]
<1>1. i \in JobType /\ i.call = j.call /\ i.try = j.try /\ i.at = at /\ i.exit = j.exit
  BY JobShape DEF JobType
<1>2. jobs' = (jobs \ {j}) \cup {i}
  BY DEF Replace
<1> HIDE DEF i
<1> QED BY <1>1, <1>2 DEF Led

LEMMA LedShape ==
  ASSUME Shapes, NEW j \in jobs, NEW at, NEW exit, Led(j, at, exit)
  PROVE  jobs' \subseteq JobType /\ \A i \in jobs' : i.call \in DOMAIN calls
BY JobShape DEF Led, Shapes

\* A job is as it was, but for the connection of its caller.
Like(j, i) == j.call = i.call /\ j.try = i.try /\ j.at = i.at /\ j.exit = i.exit

\* No job goes on or begins.
Fades ==
  /\ jobs' \subseteq JobType
  /\ \A j \in jobs' : \E i \in jobs : Like(j, i)
  /\ \A i, j \in jobs' : i.call = j.call /\ i.try = j.try => i = j

LEMMA GoneShape ==
  ASSUME NEW i \in JobType
  PROVE  [i EXCEPT !.via = "gone"] \in JobType /\ Like([i EXCEPT !.via = "gone"], i)
BY DEF JobType, Like

LEMMA AbandonFades ==
  ASSUME Shapes, OneJobEach, NEW a \in Callers, jobs' = Abandon(a)
  PROVE  Fades
<1>1. ASSUME NEW j \in jobs'
      PROVE  j \in JobType /\ \E i \in jobs : /\ Like(j, i)
                                            /\ j = IF i \in Awaiting(a) THEN [i EXCEPT !.via = "gone"] ELSE i
  <2>1. CASE j \in jobs \ Awaiting(a)
    BY <2>1, JobShape DEF Like
  <2>2. CASE j \notin jobs \ Awaiting(a)
    <3>1. PICK i \in Awaiting(a) : j = [i EXCEPT !.via = "gone"]
      BY <1>1, <2>2 DEF Abandon
    <3>2. i \in jobs
      BY DEF Awaiting
    <3> QED BY <3>1, <3>2, GoneShape, JobShape
  <2> QED BY <2>1, <2>2
<1>2. ASSUME NEW j \in jobs', NEW k \in jobs', j.call = k.call, j.try = k.try PROVE j = k
  <2>1. PICK i \in jobs : Like(j, i) /\ j = IF i \in Awaiting(a) THEN [i EXCEPT !.via = "gone"] ELSE i
    BY <1>1
  <2>2. PICK m \in jobs : Like(k, m) /\ k = IF m \in Awaiting(a) THEN [m EXCEPT !.via = "gone"] ELSE m
    BY <1>1
  <2>3. i = m
    BY <1>2, <2>1, <2>2 DEF OneJobEach, Like
  <2> QED BY <2>1, <2>2, <2>3
<1> QED BY <1>1, <1>2 DEF Fades

LEMMA CutFades ==
  ASSUME Shapes, OneJobEach, NEW vias, Cut(vias)
  PROVE  Fades
<1>1. ASSUME NEW j \in jobs'
      PROVE  \E i \in jobs : j = IF i.via \in vias THEN [i EXCEPT !.via = "gone"] ELSE i
  BY <1>1 DEF Cut
<1>2. ASSUME NEW j \in jobs', NEW i \in jobs, j = IF i.via \in vias THEN [i EXCEPT !.via = "gone"] ELSE i
      PROVE  j \in JobType /\ Like(j, i)
  BY <1>2, GoneShape, JobShape DEF Like
<1>3. ASSUME NEW j \in jobs', NEW k \in jobs', j.call = k.call, j.try = k.try PROVE j = k
  <2>1. PICK i \in jobs : j = IF i.via \in vias THEN [i EXCEPT !.via = "gone"] ELSE i
    BY <1>1
  <2>2. PICK m \in jobs : k = IF m.via \in vias THEN [m EXCEPT !.via = "gone"] ELSE m
    BY <1>1
  <2>3. i = m
    BY <1>2, <1>3, <2>1, <2>2 DEF OneJobEach, Like
  <2> QED BY <2>1, <2>2, <2>3
<1>4. \A j \in jobs' : j \in JobType /\ \E i \in jobs : Like(j, i)
  BY <1>1, <1>2
<1> QED BY <1>3, <1>4 DEF Fades

LEMMA FadesShape == Shapes /\ Fades => jobs' \subseteq JobType /\ \A j \in jobs' : j.call \in DOMAIN calls
BY DEF Shapes, Fades, Like

\* The record of call n changes, and no other.
Amended(n, r) ==
  /\ calls' \in Seq(CallShape) /\ Len(calls') = Len(calls) /\ DOMAIN calls' = DOMAIN calls
  /\ r \in CallShape /\ calls'[n] = r
  /\ r.by = calls[n].by /\ r.op = calls[n].op /\ r.path = calls[n].path
  /\ \A m \in DOMAIN calls \ {n} : calls'[m] = calls[m]

LEMMA PutAmends ==
  ASSUME Shapes, NEW n \in DOMAIN calls, calls' = [calls EXCEPT ![n].puts = @ + 1]
  PROVE  \E r : /\ Amended(n, r) /\ r.puts = calls[n].puts + 1 /\ r.runs = calls[n].runs /\ r.st = calls[n].st
<1>0. calls[n] \in CallShape /\ calls \in Seq(CallShape)
  BY DEF Shapes
<1>a. PICK k \in Nat : k = calls[n].puts + 1
  BY <1>0 DEF CallShape
<1> DEFINE r == [calls[n] EXCEPT !.puts = k]
<1>1. /\ r \in CallShape /\ r.by = calls[n].by /\ r.op = calls[n].op /\ r.path = calls[n].path
      /\ r.puts = k /\ r.runs = calls[n].runs /\ r.st = calls[n].st
  BY <1>0 DEF CallShape
<1>2. calls' = [calls EXCEPT ![n] = r]
  BY <1>a
<1> HIDE DEF r
<1>3. Amended(n, r)
  BY <1>0, <1>1, <1>2, SeqReplace DEF Amended
<1> QED BY <1>1, <1>3, <1>a

LEMMA RunAmends ==
  ASSUME Shapes, NEW n \in DOMAIN calls, calls[n].runs < 4, calls' = [calls EXCEPT ![n].runs = @ + 1]
  PROVE  \E r : /\ Amended(n, r) /\ r.runs = calls[n].runs + 1 /\ r.puts = calls[n].puts /\ r.st = calls[n].st
<1>0. calls[n] \in CallShape /\ calls \in Seq(CallShape)
  BY DEF Shapes
<1>a. PICK k \in 0..4 : k = calls[n].runs + 1
  BY <1>0 DEF CallShape
<1> DEFINE r == [calls[n] EXCEPT !.runs = k]
<1>1. /\ r \in CallShape /\ r.by = calls[n].by /\ r.op = calls[n].op /\ r.path = calls[n].path
      /\ r.runs = k /\ r.puts = calls[n].puts /\ r.st = calls[n].st
  BY <1>0 DEF CallShape
<1>2. calls' = [calls EXCEPT ![n] = r]
  BY <1>a
<1> HIDE DEF r
<1>3. Amended(n, r)
  BY <1>0, <1>1, <1>2, SeqReplace DEF Amended
<1> QED BY <1>1, <1>3, <1>a

Answered(n, st, out) == calls' = [calls EXCEPT ![n].st = st, ![n].data = out]

LEMMA AnswerAmends ==
  ASSUME Shapes, NEW n \in DOMAIN calls, NEW out \in Data,
         NEW st \in {"open", "ok", "taken", "failed", "refused", "unsent"}, Answered(n, st, out)
  PROVE  \E r : /\ Amended(n, r) /\ r.st = st /\ r.runs = calls[n].runs /\ r.puts = calls[n].puts
<1> DEFINE r == [calls[n] EXCEPT !.st = st, !.data = out]
<1>0. calls[n] \in CallShape /\ calls \in Seq(CallShape)
  BY DEF Shapes
<1>1. /\ r \in CallShape /\ r.by = calls[n].by /\ r.op = calls[n].op /\ r.path = calls[n].path
      /\ r.st = st /\ r.runs = calls[n].runs /\ r.puts = calls[n].puts
  BY <1>0 DEF CallShape
<1>2. calls' = [calls EXCEPT ![n] = r]
  BY <1>0 DEF Answered
<1> HIDE DEF r
<1>3. PICK t : t = [calls EXCEPT ![n] = r]
  OBVIOUS
<1>4. /\ t \in Seq(CallShape) /\ Len(t) = Len(calls) /\ DOMAIN t = DOMAIN calls
      /\ t[n] = r /\ \A m \in DOMAIN calls \ {n} : t[m] = calls[m]
  BY <1>0, <1>1, <1>3, SeqReplace
<1>5. calls' = t
  BY <1>2, <1>3
<1>6. Amended(n, r)
  BY <1>1, <1>4, <1>5 DEF Amended
<1> QED BY <1>1, <1>6

\* A call begins, or is answered without one.
LEMMA RecordAppends ==
  ASSUME Shapes, NEW a \in Callers, NEW op \in Operations, NEW p \in Paths,
         NEW st \in {"open", "unsent"}, Len(calls) < MaxCalls, Record(a, op, p, st)
  PROVE  /\ calls' \in Seq(CallShape) /\ Len(calls') = Len(calls) + 1 /\ DOMAIN calls' = 1..(Len(calls) + 1)
         /\ \A m \in DOMAIN calls : calls'[m] = calls[m]
         /\ calls'[Len(calls) + 1].by = a /\ calls'[Len(calls) + 1].op = op
         /\ calls'[Len(calls) + 1].st = st /\ calls'[Len(calls) + 1].runs = 0 /\ calls'[Len(calls) + 1].puts = 0
<1>1. PICK settled : settled = Settled
  OBVIOUS
<1>2. settled \subseteq 1..MaxCalls
  BY <1>1, CallBounds DEF Settled
<1> DEFINE r == [by |-> a, op |-> op, path |-> p, st |-> st, data |-> NoData, runs |-> 0, puts |-> 0, before |-> settled]
<1>3. r \in CallShape
  BY <1>2, DataTypes DEF CallShape
<1>4. r.by = a /\ r.op = op /\ r.st = st /\ r.runs = 0 /\ r.puts = 0
  OBVIOUS
<1>5. calls' = Append(calls, r)
  BY <1>1 DEF Record
<1>6. calls \in Seq(CallShape) /\ Len(calls) \in Nat
  BY DEF Shapes
<1> HIDE DEF r
<1> QED BY <1>3, <1>4, <1>5, <1>6

-----------------------------------------------------------------------------
(* What a step does to the parts of the invariant *)

\* Call n stays the same call: its caller, its operation and its path.
Steady(n) == /\ n \in DOMAIN calls'
             /\ calls'[n].by = calls[n].by /\ calls'[n].op = calls[n].op /\ calls'[n].path = calls[n].path

LEMMA OwedTypes == \A n : Owed(n) \in 0..2
BY DEF Owed

LEMMA OwedLess ==
  ASSUME NEW n, \A k \in {1, 2} : Busy(n, k)' => Busy(n, k)
  PROVE  Owed(n)' \in 0..2 /\ Owed(n)' <= Owed(n)
<1>1. (Busy(n, 1)' => Busy(n, 1)) /\ (Busy(n, 2)' => Busy(n, 2))
  <2>1. 1 \in {1, 2} /\ 2 \in {1, 2}
    OBVIOUS
  <2> QED BY <2>1 DEF Busy
<1> QED BY <1>1 DEF Owed

LEMMA FadesOwe ==
  ASSUME Fades, NEW n PROVE Owed(n)' \in 0..2 /\ Owed(n)' <= Owed(n)
<1>1. ASSUME NEW k PROVE Busy(n, k)' => Busy(n, k)
  BY DEF Fades, Like, Busy
<1> QED BY <1>1, OwedLess

LEMMA LedOwes ==
  ASSUME NEW j \in jobs, NEW at, NEW exit, Led(j, at, exit), NEW n,
         at \in {"start", "made", "opened"} => j.at \in {"start", "made", "opened"}
  PROVE  Owed(n)' \in 0..2 /\ Owed(n)' <= Owed(n)
<1>1. ASSUME NEW k PROVE Busy(n, k)' => Busy(n, k)
  BY DEF Led, Busy
<1> QED BY <1>1, OwedLess

\* A job that has written is owed no more.
LEMMA PutOwes ==
  ASSUME OneJobEach, NEW j \in jobs, j.at = "opened", j.try \in {1, 2}, NEW at \in {"quiet", "prints", "done"}, NEW exit, Led(j, at, exit)
  PROVE  Owed(j.call)' \in 0..2 /\ Owed(j.call)' + 1 <= Owed(j.call)
<1>1. PICK n : n = j.call
  OBVIOUS
<1>2. PICK t \in {1, 2} : t = j.try
  OBVIOUS
<1>3. ASSUME NEW k PROVE Busy(n, k)' => Busy(n, k)
  BY DEF Led, Busy
<1>4. Busy(n, t) /\ ~ Busy(n, t)'
  BY <1>1, <1>2 DEF Led, Busy, OneJobEach
<1>5. Owed(n)' \in 0..2 /\ Owed(n)' + 1 <= Owed(n)
  <2>1. (Busy(n, 1)' => Busy(n, 1)) /\ (Busy(n, 2)' => Busy(n, 2))
    BY <1>3
  <2>2. CASE t = 1
    BY <1>4, <2>1, <2>2 DEF Owed
  <2>3. CASE t = 2
    BY <1>4, <2>1, <2>3 DEF Owed
  <2> QED BY <2>2, <2>3
<1> QED BY <1>1, <1>5

LEMMA LedEach ==
  ASSUME OneJobEach, NEW j \in jobs, NEW at, NEW exit, Led(j, at, exit)
  PROVE  OneJobEach'
BY DEF OneJobEach, Led

LEMMA FadesEach == Fades => OneJobEach'
BY DEF Fades, OneJobEach

\* Every caller stays where it is.
LEMMA CallersKeep ==
  ASSUME GuestInv, pc' = pc,
         \A n \in DOMAIN calls : Steady(n) /\ calls'[n].st = calls[n].st /\ calls'[n].runs = calls[n].runs
  PROVE  \A a \in Callers : CallerOK(a)'
<1>1. ASSUME NEW a \in Callers PROVE CallerOK(a)'
  <2>1. CallerOK(a)
    BY DEF GuestInv
  <2> QED BY <2>1 DEF CallerOK, Steady
<1> QED BY <1>1

\* Caller a and its call go on: the other callers stay.
LEMMA OthersKeep ==
  ASSUME GuestInv, NEW a \in Callers, NEW b \in Callers, b # a, pc'[b] = pc[b], NEW n, calls[n].by = a,
         DOMAIN calls \subseteq DOMAIN calls', \A m \in DOMAIN calls \ {n} : calls'[m] = calls[m]
  PROVE  CallerOK(b)'
<1>1. CallerOK(b)
  BY DEF GuestInv
<1>2. pc[b].at # "idle" => pc[b].call # n
  BY <1>1 DEF CallerOK
<1> QED BY <1>1, <1>2 DEF CallerOK

LEMMA JobKeeps ==
  ASSUME GuestInv, NEW k \in jobs, NEW i, i.call = k.call, i.try = k.try, Steady(k.call),
         i.at \in {"made", "opened"} => Op(k) \in Changing,
         i.at = "opened" => file'[Path(k)] # Missing,
         calls[k.call].by \in Servers /\ calls[k.call].op # "exec" /\ i.at = "done" /\ i.exit = "1" => calls'[k.call].puts = 0,
         \A a \in Callers : pc'[a].at # "idle" /\ pc'[a].call = k.call => k.try <= pc'[a].try
  PROVE  JobOK(i)'
<1>1. JobOK(k)
  BY DEF GuestInv
<1> QED BY <1>1 DEF JobOK, Op, Path, Steady

LEMMA CallKeeps ==
  ASSUME GuestInv, NEW n \in DOMAIN calls, Steady(n),
         calls'[n].puts = calls[n].puts, calls'[n].runs = calls[n].runs, calls'[n].st = calls[n].st,
         Owed(n)' \in 0..2, Owed(n)' <= Owed(n), \A j \in jobs' : j.call = n => \E k \in jobs : k.call = n
  PROVE  CallOK(n)'
<1>1. CallOK(n) /\ calls[n] \in CallShape
  BY DEF GuestInv, Shapes
<1>2. calls[n].puts \in Nat /\ calls[n].runs \in Nat
  BY <1>1 DEF CallShape
<1>3. PICK o \in 0..2 : o = Owed(n)'
  OBVIOUS
<1>4. Owed(n) \in 0..2
  BY OwedTypes
<1>5. calls'[n].op \in Changing => calls'[n].puts + o <= calls'[n].runs /\ calls'[n].runs <= 2
  BY <1>1, <1>2, <1>3, <1>4 DEF CallOK, Steady
<1>6. calls'[n].op \notin Changing => calls'[n].puts = 0
  BY <1>1 DEF CallOK, Steady
<1>7. /\ calls'[n].by \in Servers => calls'[n].runs <= 1
      /\ calls'[n].by \in Servers /\ calls'[n].st \in {"unsent", "refused"} =>
           /\ calls'[n].puts = 0 \/ (calls'[n].st = "refused" /\ calls'[n].op = "exec")
           /\ \A j \in jobs' : j.call # n
  BY <1>1 DEF CallOK, Steady
<1> QED BY <1>3, <1>5, <1>6, <1>7 DEF CallOK

-----------------------------------------------------------------------------
(* The jobs *)

\* A job goes on or ends without a write.
LEMMA JobMoves ==
  ASSUME GuestInv, NEW j \in jobs, NEW at, NEW exit, Led(j, at, exit), UNCHANGED <<up, client, pc, calls, faults>>,
         dir' \in BOOLEAN, file' \in [Paths -> {Missing} \cup Seq(1..Len(calls))],
         \A p \in Paths : file[p] # Missing => file'[p] # Missing,
         at \in {"start", "made", "opened"} => j.at \in {"start", "made", "opened"},
         at \in {"made", "opened"} => Op(j) \in Changing,
         at = "opened" => file'[Path(j)] # Missing,
         calls[j.call].by \in Servers /\ calls[j.call].op # "exec" /\ at = "done" /\ exit = "1" => calls[j.call].puts = 0
  PROVE  GuestInv'
<1>0. Shapes /\ OneJobEach
  BY DEF GuestInv
<1>1. \A n \in DOMAIN calls : Steady(n)
  BY DEF Steady
<1>2. Shapes'
  <2>1. jobs' \subseteq JobType /\ \A i \in jobs' : i.call \in DOMAIN calls
    BY <1>0, LedShape
  <2> QED BY <1>0, <2>1 DEF Shapes
<1>3. OneJobEach'
  BY <1>0, LedEach
<1>4. \A a \in Callers : CallerOK(a)'
  BY <1>1, CallersKeep
<1>5. ASSUME NEW i \in jobs' PROVE JobOK(i)'
  <2>1. \A k \in jobs : \A a \in Callers : pc[a].at # "idle" /\ pc[a].call = k.call => k.try <= pc[a].try
    BY DEF GuestInv, JobOK
  <2>2. CASE i \in jobs \ {j}
    <3>1. JobOK(i) /\ Path(i) \in Paths /\ i.call \in DOMAIN calls
      BY <1>0, <2>2, JobShape DEF GuestInv
    <3>2. /\ i.at \in {"made", "opened"} => Op(i) \in Changing
          /\ i.at = "opened" => file'[Path(i)] # Missing
          /\ calls[i.call].by \in Servers /\ calls[i.call].op # "exec" /\ i.at = "done" /\ i.exit = "1" => calls'[i.call].puts = 0
          /\ \A a \in Callers : pc'[a].at # "idle" /\ pc'[a].call = i.call => i.try <= pc'[a].try
      BY <2>1, <2>2, <3>1 DEF JobOK
    <3> QED BY <1>1, <2>2, <3>1, <3>2, JobKeeps
  <2>3. CASE i \notin jobs \ {j}
    <3>1. i.call = j.call /\ i.try = j.try /\ i.at = at /\ i.exit = exit
      BY <2>3 DEF Led
    <3>2. j.call \in DOMAIN calls
      BY <1>0, JobShape
    <3>3. \A a \in Callers : pc'[a].at # "idle" /\ pc'[a].call = j.call => j.try <= pc'[a].try
      BY <2>1
    <3> QED BY <1>1, <3>1, <3>2, <3>3, JobKeeps
  <2> QED BY <2>2, <2>3
<1>6. ASSUME NEW n \in DOMAIN calls PROVE CallOK(n)'
  <2>1. Owed(n)' \in 0..2 /\ Owed(n)' <= Owed(n)
    BY LedOwes
  <2>2. \A i \in jobs' : i.call = n => \E k \in jobs : k.call = n
    BY DEF Led
  <2> QED BY <1>1, <2>1, <2>2, CallKeeps
<1>7. (\A i \in jobs : JobOK(i))' /\ (\A n \in DOMAIN calls : CallOK(n))'
  BY <1>5, <1>6
<1> QED BY <1>2, <1>3, <1>4, <1>7 DEF GuestInv

\* A tool's job that is about to write is the only one of its call, and has written nothing.
LEMMA NothingYet ==
  ASSUME GuestInv, NEW j \in jobs, calls[j.call].by \in Servers, j.at \in {"start", "made", "opened"}
  PROVE  calls[j.call].puts = 0
<1>1. JobOK(j) /\ j.call \in DOMAIN calls /\ calls[j.call] \in CallShape /\ CallOK(j.call)
  BY JobShape DEF GuestInv
<1>2. calls[j.call].puts \in Nat /\ calls[j.call].runs \in Nat
  BY <1>1 DEF CallShape
<1>3. CASE calls[j.call].op \notin Changing
  BY <1>1, <1>3 DEF CallOK
<1>4. CASE calls[j.call].op \in Changing
  <2>1. Busy(j.call, 1)
    BY <1>1 DEF JobOK, Busy
  <2>2. Owed(j.call) \in Nat /\ Owed(j.call) >= 1
    BY <2>1 DEF Owed
  <2> QED BY <1>1, <1>2, <1>4, <2>2 DEF CallOK
<1> QED BY <1>3, <1>4

LEMMA ReadStep == ASSUME GuestInv, NEW j \in jobs, Read(j) PROVE GuestInv'
<1>0. Shapes
  BY DEF GuestInv
<1>1. file \in [Paths -> {Missing} \cup Seq(1..Len(calls))] /\ dir \in BOOLEAN /\ Path(j) \in Paths
  BY <1>0, JobShape DEF Shapes
<1>2. PICK exit \in Exits : Led(j, "done", exit)
  <2>1. CASE file[Path(j)] = Missing
    <3>1. \E out \in Data : Exit(j, "1", out)
      BY <2>1, DataTypes DEF Read, CannotRead
    <3> QED BY <1>0, <3>1, ExitLeads DEF Exits
  <2>2. CASE file[Path(j)] # Missing
    <3>1. \E out \in Data : Exit(j, "0", out)
      BY <1>0, <1>1, <2>2, DataTypes DEF Read
    <3> QED BY <1>0, <3>1, ExitLeads DEF Exits
  <2> QED BY <2>1, <2>2
<1>3. calls[j.call].by \in Servers => calls[j.call].puts = 0
  BY NothingYet DEF Read
<1> QED BY <1>1, <1>2, <1>3, JobMoves DEF Read

LEMMA LookStep == ASSUME GuestInv, NEW j \in jobs, Look(j) PROVE GuestInv'
<1>0. Shapes
  BY DEF GuestInv
<1>1. file \in [Paths -> {Missing} \cup Seq(1..Len(calls))] /\ dir \in BOOLEAN
  BY <1>0 DEF Shapes
<1>2. Led(j, "done", "0")
  <2>1. PICK found \in Data : Exit(j, "0", found)
    BY DataTypes DEF Look
  <2> QED BY <1>0, <2>1, ExitLeads DEF Exits
<1> QED BY <1>1, <1>2, JobMoves DEF Look

LEMMA EndStep == ASSUME GuestInv, NEW j \in jobs, End(j) PROVE GuestInv'
<1>0. Shapes
  BY DEF GuestInv
<1>1. file \in [Paths -> {Missing} \cup Seq(1..Len(calls))] /\ dir \in BOOLEAN
  BY <1>0 DEF Shapes
<1>2. PICK exit \in Ends(j) : Exit(j, exit, NoData)
  BY DEF End
<1>3. Led(j, "done", exit)
  BY <1>0, <1>2, DataTypes, ExitLeads DEF Ends, Exits
<1>4. exit = "1" => Op(j) = "exec"
  BY DEF Ends
<1> QED BY <1>1, <1>3, <1>4, JobMoves DEF End, Op

LEMMA MakeDirectoryStep == ASSUME GuestInv, NEW j \in jobs, MakeDirectory(j) PROVE GuestInv'
<1>0. Shapes
  BY DEF GuestInv
<1>1. file \in [Paths -> {Missing} \cup Seq(1..Len(calls))]
  BY <1>0 DEF Shapes
<1>2. Led(j, "made", j.exit)
  BY <1>0, MoveLeads DEF MakeDirectory
<1>3. Op(j) \in Changing
  BY DEF MakeDirectory, Changing, Overwriting
<1> QED BY <1>1, <1>2, <1>3, JobMoves DEF MakeDirectory

LEMMA OpenStep == ASSUME GuestInv, NEW j \in jobs, Open(j) PROVE GuestInv'
<1>0. Shapes
  BY DEF GuestInv
<1>1. /\ file \in [Paths -> {Missing} \cup Seq(1..Len(calls))] /\ dir \in BOOLEAN /\ Path(j) \in Paths
      /\ Op(j) \in Changing /\ j.at \in {"start", "made"}
  BY <1>0, JobShape DEF Shapes, Open
<1>2. CASE dir
  <2>1. PICK x : x = IF Truncates(j) \/ file[Path(j)] = Missing THEN <<>> ELSE file[Path(j)]
    OBVIOUS
  <2>2. x \in Seq(1..Len(calls)) /\ x # Missing
    <3>1. <<>> \in Seq(1..Len(calls))
      OBVIOUS
    <3>2. <<>> \in Seq(Nat)
      OBVIOUS
    <3>3. <<>> # Missing
      BY <3>2, GuestAssumption, Zenon
    <3> QED BY <1>1, <2>1, <3>1, <3>3
  <2>3. file' = [file EXCEPT ![Path(j)] = x]
    BY <1>2, <2>1 DEF Open
  <2>4. /\ file' \in [Paths -> {Missing} \cup Seq(1..Len(calls))] /\ file'[Path(j)] # Missing
        /\ \A p \in Paths : file[p] # Missing => file'[p] # Missing
    BY <1>1, <2>2, <2>3
  <2>5. Led(j, "opened", j.exit)
    BY <1>0, <1>2, MoveLeads DEF Open
  <2> QED BY <1>1, <2>4, <2>5, JobMoves DEF Open
<1>3. CASE ~ dir
  <2>1. Led(j, "done", "1")
    BY <1>0, <1>3, DataTypes, ExitLeads DEF Open, Exits
  <2>2. calls[j.call].by \in Servers => calls[j.call].puts = 0
    BY <1>1, NothingYet
  <2> QED BY <1>1, <1>3, <2>1, <2>2, JobMoves DEF Open
<1> QED BY <1>1, <1>2, <1>3

LEMMA PutStep == ASSUME GuestInv, NEW j \in jobs, Put(j) PROVE GuestInv'
<1>0. Shapes /\ OneJobEach /\ JobOK(j)
  BY DEF GuestInv
<1>1. /\ j \in JobType /\ j.call \in DOMAIN calls /\ Path(j) \in Paths /\ Op(j) \in Changing
      /\ j.at = "opened" /\ j.try \in {1, 2}
      /\ file \in [Paths -> {Missing} \cup Seq(1..Len(calls))] /\ file[Path(j)] \in Seq(1..Len(calls))
  <2>1. j \in JobType /\ j.call \in DOMAIN calls /\ Path(j) \in Paths /\ j.at = "opened"
        /\ file[Path(j)] \in {Missing} \cup Seq(1..Len(calls))
    BY <1>0, JobShape DEF Put
  <2>2. Op(j) \in Changing /\ j.try <= 2 /\ file[Path(j)] # Missing /\ j.try \in 1..4
    BY <1>0, <2>1 DEF JobOK, JobType
  <2> QED BY <1>0, <2>1, <2>2 DEF Shapes
<1>2. PICK n : n = j.call
  OBVIOUS
<1>3. n \in DOMAIN calls /\ n \in 1..Len(calls) /\ calls[n] \in CallShape
  BY <1>0, <1>1, <1>2, CallBounds DEF Shapes
<1>4. PICK r : Amended(n, r) /\ r.puts = calls[n].puts + 1 /\ r.runs = calls[n].runs /\ r.st = calls[n].st
  <2>1. calls' = [calls EXCEPT ![n].puts = @ + 1]
    BY <1>2 DEF Put
  <2> QED BY <1>0, <1>3, <2>1, PutAmends
<1>5. \A m \in DOMAIN calls : /\ Steady(m) /\ calls'[m].st = calls[m].st /\ calls'[m].runs = calls[m].runs
                              /\ m # n => calls'[m] = calls[m]
  BY <1>4 DEF Amended, Steady
<1>6. PICK at \in {"quiet", "prints", "done"} : \E exit : Led(j, at, exit) /\ (at = "done" /\ exit = "1" => Op(j) = "exec")
  <2>1. CASE \E exit \in Ends(j) : Exit(j, exit, NoData)
    <3>1. PICK exit \in Ends(j) : Exit(j, exit, NoData)
      BY <2>1
    <3>2. exit \in Exits /\ (exit = "1" => Op(j) = "exec")
      BY DEF Ends, Exits
    <3>3. Led(j, "done", exit)
      BY <1>0, <3>1, <3>2, DataTypes, ExitLeads
    <3> QED BY <3>2, <3>3
  <2>2. CASE \E at \in {"quiet", "prints"} : Replace(j, {[j EXCEPT !.at = at]})
    <3>1. PICK at \in {"quiet", "prints"} : Replace(j, {[j EXCEPT !.at = at]})
      BY <2>2
    <3>2. Led(j, at, j.exit)
      BY <1>0, <3>1, MoveLeads
    <3> QED BY <3>2
  <2> QED BY <2>1, <2>2 DEF Put
<1>7. PICK exit : Led(j, at, exit) /\ (at = "done" /\ exit = "1" => Op(j) = "exec")
  BY <1>6
<1>8. /\ file' \in [Paths -> {Missing} \cup Seq(1..Len(calls))]
      /\ \A p \in Paths : file[p] # Missing => file'[p] # Missing
  <2>1. PICK x : x = Written(j)
    OBVIOUS
  <2>2. x \in Seq(1..Len(calls))
    <3>1. CASE Op(j) \in Overwriting /\ file[Path(j)] # <<>>
      BY <1>1, <1>2, <1>3, <2>1, <3>1 DEF Written
    <3>2. CASE ~ (Op(j) \in Overwriting /\ file[Path(j)] # <<>>)
      <4>1. x = Append(file[Path(j)], n)
        BY <1>2, <2>1, <3>2 DEF Written
      <4> QED BY <1>1, <1>3, <4>1
    <3> QED BY <3>1, <3>2
  <2>3. x # Missing
    <3>1. Len(calls) \in Nat
      BY <1>0, CallBounds
    <3>2. x \in Seq(Nat)
      BY <2>2, <3>1
    <3> QED BY <3>2, GuestAssumption, Zenon
  <2>4. file' = [file EXCEPT ![Path(j)] = x]
    BY <2>1 DEF Put
  <2> QED BY <1>1, <2>2, <2>3, <2>4
<1>9. Shapes'
  <2>1. jobs' \subseteq JobType /\ \A i \in jobs' : i.call \in DOMAIN calls
    BY <1>0, <1>7, LedShape
  <2>2. /\ calls' \in Seq(CallShape) /\ Len(calls') = Len(calls) /\ DOMAIN calls' = DOMAIN calls
    BY <1>4 DEF Amended
  <2> QED BY <1>0, <1>8, <2>1, <2>2 DEF Shapes, Put
<1>10. OneJobEach'
  BY <1>0, <1>7, LedEach
<1>11. \A a \in Callers : CallerOK(a)'
  BY <1>5, CallersKeep DEF Put
<1>12. ASSUME NEW i \in jobs' PROVE JobOK(i)'
  <2>1. \A k \in jobs : \A a \in Callers : pc'[a].at # "idle" /\ pc'[a].call = k.call => k.try <= pc'[a].try
    BY DEF GuestInv, JobOK, Put
  <2>2. CASE i \in jobs \ {j}
    <3>1. JobOK(i) /\ Path(i) \in Paths /\ i.call \in DOMAIN calls
      BY <1>0, <2>2, JobShape DEF GuestInv
    <3>2. calls[i.call].by \in Servers => i.call # n
      BY <1>0, <1>1, <1>2, <2>2, <3>1 DEF JobOK, OneJobEach
    <3>3. /\ i.at \in {"made", "opened"} => Op(i) \in Changing
          /\ i.at = "opened" => file'[Path(i)] # Missing
          /\ calls[i.call].by \in Servers /\ calls[i.call].op # "exec" /\ i.at = "done" /\ i.exit = "1" => calls'[i.call].puts = 0
      BY <1>5, <1>8, <3>1, <3>2 DEF JobOK
    <3>4. \A a \in Callers : pc'[a].at # "idle" /\ pc'[a].call = i.call => i.try <= pc'[a].try
      BY <2>1, <2>2
    <3> QED BY <1>5, <2>2, <3>1, <3>3, <3>4, JobKeeps
  <2>3. CASE i \notin jobs \ {j}
    <3>1. i.call = j.call /\ i.try = j.try /\ i.at = at /\ i.exit = exit
      BY <1>7, <2>3 DEF Led
    <3>2. \A a \in Callers : pc'[a].at # "idle" /\ pc'[a].call = j.call => j.try <= pc'[a].try
      BY <2>1
    <3> QED BY <1>1, <1>5, <1>7, <3>1, <3>2, JobKeeps DEF Op
  <2> QED BY <2>2, <2>3
<1>13. ASSUME NEW m \in DOMAIN calls PROVE CallOK(m)'
  <2>0. \A i \in jobs' : i.call = m => \E k \in jobs : k.call = m
    BY <1>7 DEF Led
  <2>1. CASE m # n
    <3>1. Owed(m)' \in 0..2 /\ Owed(m)' <= Owed(m)
      BY <1>7, LedOwes
    <3>2. calls'[m] = calls[m] /\ Steady(m)
      BY <1>5, <2>1
    <3> QED BY <2>0, <3>1, <3>2, CallKeeps
  <2>2. CASE m = n
    <3>1. PICK o \in 0..2 : o = Owed(m)' /\ o + 1 <= Owed(m)
      BY <1>0, <1>1, <1>2, <1>7, <2>2, PutOwes
    <3>2. CallOK(m) /\ Owed(m) \in 0..2 /\ calls[m].puts \in Nat /\ calls[m].runs \in Nat
      BY <1>3, <2>2, OwedTypes DEF GuestInv, CallShape
    <3>3. /\ calls'[m].puts = calls[m].puts + 1 /\ calls'[m].runs = calls[m].runs /\ calls'[m].st = calls[m].st
          /\ calls'[m].by = calls[m].by /\ calls'[m].op = calls[m].op
      BY <1>4, <1>5, <2>2 DEF Amended, Steady
    <3>4. calls[m].op \in Changing
      BY <1>1, <1>2, <2>2 DEF Op
    <3>5. ~ (calls[m].by \in Servers /\ calls[m].st \in {"unsent", "refused"})
      BY <1>2, <2>2, <3>2 DEF CallOK
    <3>6. calls'[m].puts + o <= calls'[m].runs /\ calls'[m].runs <= 2
      BY <3>1, <3>2, <3>3, <3>4 DEF CallOK
    <3>7. calls'[m].by \in Servers => calls'[m].runs <= 1
      BY <3>2, <3>3 DEF CallOK
    <3> QED BY <3>1, <3>3, <3>4, <3>5, <3>6, <3>7 DEF CallOK
  <2> QED BY <2>1, <2>2
<1>14. (\A i \in jobs : JobOK(i))' /\ (\A m \in DOMAIN calls : CallOK(m))'
  <2>1. DOMAIN calls' = DOMAIN calls
    BY <1>4 DEF Amended
  <2> QED BY <1>12, <1>13, <2>1
<1> QED BY <1>9, <1>10, <1>11, <1>14 DEF GuestInv

LEMMA JobStep == ASSUME GuestInv, NEW j \in jobs, Job(j) PROVE GuestInv'
BY ReadStep, LookStep, MakeDirectoryStep, OpenStep, PutStep, EndStep DEF Job

-----------------------------------------------------------------------------
(* The calls *)

\* What is left of the jobs is as it was.
LEMMA JobsFade ==
  ASSUME GuestInv, Fades, UNCHANGED file, DOMAIN calls' = DOMAIN calls,
         \A n \in DOMAIN calls : Steady(n) /\ calls'[n].puts = calls[n].puts,
         \A k \in jobs : \A a \in Callers : pc'[a].at # "idle" /\ pc'[a].call = k.call => k.try <= pc'[a].try
  PROVE  (\A i \in jobs : JobOK(i))'
<1>1. ASSUME NEW i \in jobs' PROVE JobOK(i)'
  <2>1. PICK k \in jobs : Like(i, k)
    BY DEF Fades
  <2>2. JobOK(k) /\ k.call \in DOMAIN calls
    BY DEF GuestInv, Shapes
  <2>3. i.call = k.call /\ i.try = k.try /\ i.at = k.at /\ i.exit = k.exit
    BY <2>1 DEF Like
  <2>4. /\ i.at \in {"made", "opened"} => Op(k) \in Changing
        /\ i.at = "opened" => file'[Path(k)] # Missing
        /\ calls[k.call].by \in Servers /\ calls[k.call].op # "exec" /\ i.at = "done" /\ i.exit = "1" => calls'[k.call].puts = 0
    BY <2>2, <2>3 DEF JobOK
  <2>5. \A a \in Callers : pc'[a].at # "idle" /\ pc'[a].call = k.call => k.try <= pc'[a].try
    OBVIOUS
  <2> QED BY <2>2, <2>3, <2>4, <2>5, JobKeeps
<1> QED BY <1>1

LEMMA TriesBound ==
  ASSUME GuestInv
  PROVE  \A k \in jobs : \A a \in Callers : pc[a].at # "idle" /\ pc[a].call = k.call => k.try <= pc[a].try
BY DEF GuestInv, JobOK

\* The calls and the callers stay, and the guest's jobs at most fade.
LEMMA FaultStep ==
  ASSUME GuestInv, Fades, UNCHANGED <<dir, file, pc, calls>>, up' \in BOOLEAN, client' \in {"none", "live", "dead"},
         faults' \in 0..MaxFaults
  PROVE  GuestInv'
<1>0. Shapes
  BY DEF GuestInv
<1>1. \A n \in DOMAIN calls : Steady(n)
  BY DEF Steady
<1>2. Shapes'
  <2>1. jobs' \subseteq JobType /\ \A i \in jobs' : i.call \in DOMAIN calls
    BY <1>0, FadesShape
  <2> QED BY <1>0, <2>1 DEF Shapes
<1>3. OneJobEach'
  BY FadesEach
<1>4. \A a \in Callers : CallerOK(a)'
  BY <1>1, CallersKeep
<1>5. (\A i \in jobs : JobOK(i))'
  <2>1. \A k \in jobs : \A a \in Callers : pc'[a].at # "idle" /\ pc'[a].call = k.call => k.try <= pc'[a].try
    BY TriesBound
  <2> QED BY <1>1, <2>1, JobsFade
<1>6. ASSUME NEW n \in DOMAIN calls PROVE CallOK(n)'
  <2>1. Owed(n)' \in 0..2 /\ Owed(n)' <= Owed(n)
    BY FadesOwe
  <2>2. \A i \in jobs' : i.call = n => \E k \in jobs : k.call = n
    BY DEF Fades, Like
  <2> QED BY <1>1, <2>1, <2>2, CallKeeps
<1> QED BY <1>2, <1>3, <1>4, <1>5, <1>6 DEF GuestInv

LEMMA SameFades == ASSUME Shapes, OneJobEach, UNCHANGED jobs PROVE Fades
BY DEF Shapes, OneJobEach, Fades, Like

LEMMA ClosesStep == ASSUME GuestInv, Close \/ Stop \/ Boot \/ Disconnect PROVE GuestInv'
<1>0. Shapes /\ OneJobEach /\ MaxFaults \in Nat
  BY GuestAssumption DEF GuestInv
<1>1. Fault => faults' \in 0..MaxFaults
  BY <1>0 DEF Fault, Shapes
<1>2. Dead \in {"none", "live", "dead"}
  BY <1>0 DEF Dead, Shapes
<1>3. CASE Close
  <2>1. Fades
    BY <1>0, <1>3, CutFades DEF Close
  <2> QED BY <1>0, <1>1, <1>3, <2>1, FaultStep DEF Close, Shapes
<1>4. CASE Stop
  <2>1. Fades
    BY <1>4 DEF Stop, Fades
  <2> QED BY <1>1, <1>2, <1>4, <2>1, FaultStep DEF Stop
<1>5. CASE Boot
  <2>1. Fades
    BY <1>0, <1>5, SameFades DEF Boot
  <2> QED BY <1>0, <1>5, <2>1, FaultStep DEF Boot, Shapes
<1>6. CASE Disconnect
  <2>1. Fades
    BY <1>0, <1>6, CutFades DEF Disconnect
  <2> QED BY <1>0, <1>1, <1>2, <1>6, <2>1, FaultStep DEF Disconnect, Shapes
<1> QED BY <1>3, <1>4, <1>5, <1>6

\* Caller a moves within its call.
PcMoves(a) ==
  /\ pc' \in [Callers -> [at : Places, call : 0..MaxCalls, try : 0..4]]
  /\ pc'[a].call = pc[a].call /\ \A b \in Callers \ {a} : pc'[b] = pc[b]

\* Caller a goes on with its call, and no job begins.
LEMMA CallerGoes ==
  ASSUME GuestInv, Fades, UNCHANGED <<up, dir, file, client, calls, faults>>, NEW a \in Callers, pc[a].at # "idle",
         PcMoves(a), \A j \in jobs : j.call = pc[a].call => j.try <= pc'[a].try, CallerOK(a)'
  PROVE  GuestInv'
<1>0. Shapes /\ OneJobEach /\ CallerOK(a)
  BY DEF GuestInv
<1>1. \A n \in DOMAIN calls : Steady(n)
  BY DEF Steady
<1>2. /\ pc' \in [Callers -> [at : Places, call : 0..MaxCalls, try : 0..4]]
      /\ pc'[a].call = pc[a].call /\ \A b \in Callers \ {a} : pc'[b] = pc[b]
  BY DEF PcMoves
<1>3. Shapes'
  <2>1. jobs' \subseteq JobType /\ \A i \in jobs' : i.call \in DOMAIN calls
    BY <1>0, FadesShape
  <2> QED BY <1>0, <1>2, <2>1 DEF Shapes
<1>4. OneJobEach'
  BY FadesEach
<1>5. ASSUME NEW b \in Callers PROVE CallerOK(b)'
  <2>1. CASE b = a
    BY <2>1
  <2>2. CASE b # a
    <3>1. calls[pc[a].call].by = a /\ pc'[b] = pc[b]
      BY <1>0, <1>2, <2>2 DEF CallerOK
    <3> QED BY <2>2, <3>1, OthersKeep
  <2> QED BY <2>1, <2>2
<1>6. (\A i \in jobs : JobOK(i))'
  <2>1. ASSUME NEW i \in jobs, NEW b \in Callers, pc'[b].at # "idle", pc'[b].call = i.call PROVE i.try <= pc'[b].try
    <3>1. CASE b # a
      BY <1>2, <2>1, <3>1, TriesBound
    <3>2. CASE b = a
      BY <1>2, <2>1, <3>2
    <3> QED BY <3>1, <3>2
  <2> QED BY <1>1, <2>1, JobsFade
<1>7. ASSUME NEW n \in DOMAIN calls PROVE CallOK(n)'
  <2>1. Owed(n)' \in 0..2 /\ Owed(n)' <= Owed(n)
    BY FadesOwe
  <2>2. \A i \in jobs' : i.call = n => \E j \in jobs : j.call = n
    BY DEF Fades, Like
  <2> QED BY <1>1, <2>1, <2>2, CallKeeps
<1> QED BY <1>3, <1>4, <1>5, <1>6, <1>7 DEF GuestInv

LEMMA GoesStep ==
  ASSUME GuestInv, NEW a \in Callers, Goes(a, "ssh"), pc[a].at \in {"wait", "resolve"}
  PROVE  GuestInv'
<1>0. Shapes /\ OneJobEach /\ CallerOK(a)
  BY DEF GuestInv
<1>1. Fades
  BY <1>0, AbandonFades DEF Goes
<1>2. PcMoves(a) /\ pc'[a].at = "ssh" /\ pc'[a].try = pc[a].try /\ pc'[a].call = pc[a].call
  BY <1>0 DEF Goes, Shapes, PcMoves, Places
<1>3. CallerOK(a)'
  BY <1>0, <1>2 DEF CallerOK, Goes
<1>4. \A j \in jobs : j.call = pc[a].call => j.try <= pc'[a].try
  BY <1>2, TriesBound
<1> QED BY <1>1, <1>2, <1>3, <1>4, CallerGoes DEF Goes

LEMMA SendFailsStep == ASSUME GuestInv, NEW a \in Callers, SendFails(a) PROVE GuestInv'
<1>0. Shapes /\ OneJobEach /\ CallerOK(a)
  BY DEF GuestInv
<1>1. Fades
  BY <1>0, SameFades DEF SendFails
<1>2. pc[a].try \in 0..4 /\ calls[pc[a].call].runs \in Nat /\ pc[a].try \in {0, 2} /\ a \notin Servers
  <2>1. pc[a].at = "connect" /\ pc[a].try \in 0..4 /\ pc[a].call \in DOMAIN calls
    BY <1>0 DEF Shapes, CallerOK, SendFails
  <2>2. a \notin Servers /\ pc[a].try \in {0, 2}
    BY <1>0, <2>1 DEF CallerOK, Callers
  <2>3. calls[pc[a].call] \in CallShape
    BY <1>0, <2>1 DEF Shapes
  <2> QED BY <2>1, <2>2, <2>3 DEF CallShape
<1>3. PcMoves(a) /\ pc'[a].at = "ssh" /\ pc'[a].try = pc[a].try + 1 /\ pc'[a].call = pc[a].call
  BY <1>0, <1>2 DEF SendFails, Shapes, PcMoves, Places
<1>4. CallerOK(a)'
  BY <1>0, <1>2, <1>3 DEF CallerOK, SendFails
<1>5. \A j \in jobs : j.call = pc[a].call => j.try <= pc'[a].try
  <2>1. ASSUME NEW j \in jobs, j.call = pc[a].call PROVE j.try <= pc[a].try /\ j.try \in Nat
    BY <1>0, <2>1, TriesBound, JobShape DEF SendFails, JobType
  <2> QED BY <1>2, <1>3, <2>1
<1> QED BY <1>1, <1>3, <1>4, <1>5, CallerGoes DEF SendFails

LEMMA ReadsAllStep == ASSUME GuestInv, NEW a \in Callers, ReadsAll(a) PROVE GuestInv'
<1>0. Shapes /\ OneJobEach /\ CallerOK(a)
  BY DEF GuestInv
<1>1. Fades
  BY <1>0, SameFades DEF ReadsAll
<1>2. PcMoves(a) /\ pc'[a].at = "status" /\ pc'[a].try = pc[a].try /\ pc'[a].call = pc[a].call
  BY <1>0 DEF ReadsAll, Shapes, PcMoves, Places
<1>3. CallerOK(a)'
  BY <1>0, <1>2 DEF CallerOK, ReadsAll
<1>4. \A j \in jobs : j.call = pc[a].call => j.try <= pc'[a].try
  BY <1>2, TriesBound DEF ReadsAll
<1> QED BY <1>1, <1>2, <1>3, <1>4, CallerGoes DEF ReadsAll

\* Caller a is answered.
LEMMA SettleStep ==
  ASSUME GuestInv, NEW a \in Callers, pc[a].at # "idle", NEW out \in Data,
         NEW st \in {"ok", "taken", "failed", "refused"}, pc' = [pc EXCEPT ![a] = Idle],
         calls' = [calls EXCEPT ![pc[a].call].st = st, ![pc[a].call].data = out],
         jobs' = Abandon(a), UNCHANGED <<up, dir, file, client, faults>>,
         a \in Servers /\ st = "refused" => (calls[pc[a].call].puts = 0 \/ calls[pc[a].call].op = "exec") /\ \A j \in jobs' : j.call # pc[a].call
  PROVE  GuestInv'
<1>0. Shapes /\ OneJobEach /\ CallerOK(a)
  BY DEF GuestInv
<1>1. Fades
  BY <1>0, AbandonFades
<1>2. PICK n : n = pc[a].call
  OBVIOUS
<1>3. n \in DOMAIN calls /\ calls[n].by = a
  BY <1>0, <1>2 DEF CallerOK
<1>4. PICK r : Amended(n, r) /\ r.st = st /\ r.runs = calls[n].runs /\ r.puts = calls[n].puts
  <2>1. Answered(n, st, out)
    BY <1>2 DEF Answered
  <2>2. st \in {"open", "ok", "taken", "failed", "refused", "unsent"}
    OBVIOUS
  <2> QED BY <1>0, <1>3, <2>1, <2>2, AnswerAmends
<1>5. /\ DOMAIN calls' = DOMAIN calls /\ calls'[n].st = st /\ calls'[n].runs = calls[n].runs
      /\ \A m \in DOMAIN calls : Steady(m) /\ calls'[m].puts = calls[m].puts /\ (m # n => calls'[m] = calls[m])
  BY <1>4 DEF Amended, Steady
<1>6. /\ pc' \in [Callers -> [at : Places, call : 0..MaxCalls, try : 0..4]]
      /\ pc'[a].at = "idle" /\ \A b \in Callers \ {a} : pc'[b] = pc[b]
  <2>1. Idle \in [at : Places, call : 0..MaxCalls, try : 0..4] /\ Idle.at = "idle"
    BY <1>0, CallBounds DEF Idle, Places
  <2> QED BY <1>0, <2>1 DEF Shapes
<1>7. Shapes'
  <2>1. jobs' \subseteq JobType /\ \A i \in jobs' : i.call \in DOMAIN calls
    BY <1>0, <1>1, FadesShape
  <2>2. calls' \in Seq(CallShape) /\ Len(calls') = Len(calls)
    BY <1>4 DEF Amended
  <2> QED BY <1>0, <1>5, <1>6, <2>1, <2>2 DEF Shapes
<1>8. OneJobEach'
  BY <1>1, FadesEach
<1>9. ASSUME NEW b \in Callers PROVE CallerOK(b)'
  <2>1. CASE b = a
    BY <1>6, <2>1 DEF CallerOK
  <2>2. CASE b # a
    BY <1>3, <1>5, <1>6, <2>2, OthersKeep
  <2> QED BY <2>1, <2>2
<1>10. (\A i \in jobs : JobOK(i))'
  <2>1. \A k \in jobs : \A b \in Callers : pc'[b].at # "idle" /\ pc'[b].call = k.call => k.try <= pc'[b].try
    BY <1>6, TriesBound
  <2> QED BY <1>1, <1>5, <2>1, JobsFade
<1>11. ASSUME NEW m \in DOMAIN calls PROVE CallOK(m)'
  <2>0. Owed(m)' \in 0..2 /\ Owed(m)' <= Owed(m)
    BY <1>1, FadesOwe
  <2>1. CASE m # n
    <3>1. \A i \in jobs' : i.call = m => \E j \in jobs : j.call = m
      BY <1>1 DEF Fades, Like
    <3> QED BY <1>5, <2>0, <2>1, <3>1, CallKeeps
  <2>2. CASE m = n
    <3>1. PICK o \in 0..2 : o = Owed(m)' /\ o <= Owed(m)
      BY <2>0
    <3>2. CallOK(m) /\ Owed(m) \in 0..2 /\ calls[m] \in CallShape
      BY <1>0, OwedTypes DEF GuestInv, Shapes
    <3>3. calls[m].puts \in Nat /\ calls[m].runs \in Nat
      BY <3>2 DEF CallShape
    <3>4. /\ calls'[m].puts = calls[m].puts /\ calls'[m].runs = calls[m].runs /\ calls'[m].st = st
          /\ calls'[m].by = a /\ calls'[m].op = calls[m].op /\ calls[m].by = a
      BY <1>3, <1>5, <2>2 DEF Steady
    <3>5. calls'[m].op \in Changing => calls'[m].puts + o <= calls'[m].runs /\ calls'[m].runs <= 2
      BY <3>1, <3>2, <3>3, <3>4 DEF CallOK
    <3>6. /\ calls'[m].op \notin Changing => calls'[m].puts = 0
          /\ calls'[m].by \in Servers => calls'[m].runs <= 1
      BY <3>2, <3>4 DEF CallOK
    <3>7. calls'[m].by \in Servers /\ calls'[m].st \in {"unsent", "refused"} =>
            /\ calls'[m].puts = 0 \/ (calls'[m].st = "refused" /\ calls'[m].op = "exec")
            /\ \A j \in jobs' : j.call # m
      BY <1>2, <2>2, <3>4
    <3> QED BY <3>1, <3>5, <3>6, <3>7 DEF CallOK
  <2> QED BY <2>1, <2>2
<1> QED BY <1>5, <1>7, <1>8, <1>9, <1>10, <1>11 DEF GuestInv

\* What a broken connection had brought is data.
LEMMA PartsAreData ==
  ASSUME Shapes, NEW a \in Callers PROVE Parts(a) \subseteq Data
<1>1. ASSUME NEW j \in jobs PROVE Part(j) \subseteq Data
  <2>1. j.out \in Data
    BY <1>1, JobShape DEF JobType
  <2>2. CASE j.out \in {ErrorText, NoData}
    BY <2>1, <2>2, DataTypes DEF Part
  <2>3. CASE j.out \notin {ErrorText, NoData}
    <3>1. Part(j) = SUBSET j.out
      BY <2>3 DEF Part
    <3>2. j.out \in (SUBSET (1..MaxCalls)) \cup (SUBSET Paths)
      BY <2>1, <2>3 DEF Data
    <3>3. \A s \in SUBSET j.out : s \in (SUBSET (1..MaxCalls)) \cup (SUBSET Paths)
      BY <3>2
    <3> QED BY <3>1, <3>3 DEF Data
  <2> QED BY <2>2, <2>3
<1>2. Awaiting(a) \subseteq jobs
  BY DEF Awaiting
<1> QED BY <1>1, <1>2, DataTypes DEF Parts

LEMMA AnswerStep ==
  ASSUME GuestInv, NEW a \in Callers, pc[a].at # "idle", NEW exit, NEW out \in Data, Answer(a, exit, out),
         exit = "1" => \E j \in Awaiting(a) : j.at = "done" /\ j.exit = "1"
  PROVE  GuestInv'
<1>0. Shapes /\ OneJobEach /\ CallerOK(a) /\ a \in Callers
  BY DEF GuestInv
<1>1. CASE ListsAgain(a, exit, out)
  <2>1. a \in Threads /\ a \notin Servers /\ pc[a].try <= 2 /\ calls[pc[a].call].op = "list"
    BY <1>1, GuestAssumption DEF ListsAgain
  <2>2. Fades
    BY <1>0, AbandonFades DEF Answer
  <2>3. PcMoves(a) /\ pc'[a].at = "connect" /\ pc'[a].try = 2 /\ UNCHANGED calls
    <3>1. pc' = [pc EXCEPT ![a].at = "connect", ![a].try = 2] /\ UNCHANGED calls
      BY <1>1, <2>1 DEF Answer
    <3>2. PICK k \in 0..4 : k = 2
      OBVIOUS
    <3>3. PICK place \in Places : place = "connect"
      BY DEF Places
    <3>4. pc' = [pc EXCEPT ![a].at = place, ![a].try = k]
      BY <3>1, <3>2, <3>3
    <3>5. PcMoves(a) /\ pc'[a].at = place /\ pc'[a].try = k
      BY <1>0, <3>4 DEF Shapes, PcMoves
    <3> QED BY <3>1, <3>2, <3>3, <3>5
  <2>4. calls[pc[a].call].runs <= pc'[a].try
    <3>1. pc[a].call \in DOMAIN calls /\ calls[pc[a].call].runs <= pc[a].try /\ pc[a].try \in 0..4
      BY <1>0 DEF CallerOK, Shapes
    <3>2. calls[pc[a].call] \in CallShape
      BY <1>0, <3>1 DEF Shapes
    <3>3. calls[pc[a].call].runs \in Nat
      BY <3>2 DEF CallShape
    <3> QED BY <2>1, <2>3, <3>1, <3>3
  <2>5. CallerOK(a)'
    BY <1>0, <2>1, <2>3, <2>4 DEF CallerOK, PcMoves
  <2>6. ASSUME NEW j \in jobs, j.call = pc[a].call PROVE j.try <= pc'[a].try
    <3>1. j.try <= pc[a].try
      BY <2>6, TriesBound
    <3>2. j.try \in Nat
      BY <1>0, <2>6, JobShape DEF JobType
    <3>3. pc[a].try \in Nat
      BY <1>0 DEF Shapes
    <3> QED BY <2>1, <2>3, <3>1, <3>2, <3>3
  <2> QED BY <2>2, <2>3, <2>5, <2>6, CallerGoes DEF Answer
<1>2. CASE ~ ListsAgain(a, exit, out)
  <2>1. PICK st : st = Outcome(a, exit, out)
    OBVIOUS
  <2>2. st \in {"ok", "taken", "failed", "refused"} /\ (a \in Servers /\ st = "refused" => exit = "1")
    BY <2>1, GuestAssumption DEF Outcome, Accepted
  <2>3. ASSUME a \in Servers, st = "refused"
        PROVE  (calls[pc[a].call].puts = 0 \/ calls[pc[a].call].op = "exec") /\ \A j \in jobs' : j.call # pc[a].call
    <3>1. PICK j \in Awaiting(a) : j.at = "done" /\ j.exit = "1"
      BY <2>2, <2>3
    <3>2. j \in jobs /\ j.call = pc[a].call /\ j.try = pc[a].try /\ calls[j.call].by = a /\ j.call \in DOMAIN calls
      BY <1>0, <3>1 DEF Awaiting, CallerOK
    <3>3. (calls[pc[a].call].puts = 0 \/ calls[pc[a].call].op = "exec") /\ j.try = 1
      BY <2>3, <3>1, <3>2 DEF GuestInv, JobOK
    <3>4. ASSUME NEW i \in jobs, i.call = pc[a].call PROVE i = j
      BY <1>0, <2>3, <3>2, <3>3, <3>4 DEF GuestInv, JobOK, OneJobEach
    <3>5. ~ Pending(j)
      BY <3>1 DEF Pending
    <3>6. \A i \in jobs' : i.call # pc[a].call
      BY <3>1, <3>4, <3>5 DEF Answer, Abandon, Awaiting
    <3> QED BY <3>3, <3>6
  <2>4. /\ pc' = [pc EXCEPT ![a] = Idle] /\ jobs' = Abandon(a) /\ UNCHANGED <<up, dir, file, client, faults>>
        /\ calls' = [calls EXCEPT ![pc[a].call].st = st, ![pc[a].call].data = out]
    BY <1>2, <2>1 DEF Answer
  <2> QED BY <2>2, <2>3, <2>4, SettleStep
<1> QED BY <1>1, <1>2

LEMMA AwaitedOut == ASSUME Shapes, NEW a \in Callers, NEW j \in Awaiting(a) PROVE j \in jobs /\ j.out \in Data
<1>1. j \in jobs
  BY DEF Awaiting
<1> QED BY <1>1, JobShape DEF JobType

LEMMA EndsStep ==
  ASSUME GuestInv, NEW a \in Callers,
         ExitStatus(a) \/ NoExitStatus(a) \/ SshFails(a) \/ SshEnds(a) \/ SshTimesOut(a)
  PROVE  GuestInv'
<1>0. Shapes /\ pc[a].at # "idle"
  BY DEF GuestInv, ExitStatus, NoExitStatus, SshFails, SshEnds, SshTimesOut
<1>1. \/ \E j \in Awaiting(a) : j.at = "done" /\ Answer(a, j.exit, j.out)
      \/ \E out \in Data : Answer(a, "-1", out) \/ Answer(a, "255", out)
  BY <1>0, DataTypes, PartsAreData DEF ExitStatus, NoExitStatus, SshFails, SshEnds, SshTimesOut
<1>2. CASE \E j \in Awaiting(a) : j.at = "done" /\ Answer(a, j.exit, j.out)
  <2>1. PICK j \in Awaiting(a) : j.at = "done" /\ Answer(a, j.exit, j.out)
    BY <1>2
  <2>2. j.out \in Data
    BY <1>0, AwaitedOut
  <2>3. j.exit = "1" => \E i \in Awaiting(a) : i.at = "done" /\ i.exit = "1"
    BY <2>1
  <2> QED BY <1>0, <2>1, <2>2, <2>3, AnswerStep
<1>3. CASE \E out \in Data : Answer(a, "-1", out) \/ Answer(a, "255", out)
  <2>1. PICK out \in Data, exit \in {"-1", "255"} : Answer(a, exit, out)
    BY <1>3
  <2>2. exit # "1"
    OBVIOUS
  <2> QED BY <1>0, <2>1, <2>2, AnswerStep
<1> QED BY <1>1, <1>2, <1>3

LEMMA ResolveStep == ASSUME GuestInv, NEW a \in Callers, Resolve(a) PROVE GuestInv'
<1>1. CASE Goes(a, "ssh")
  BY <1>1, GoesStep DEF Resolve
<1>2. CASE Answer(a, "none", NoData)
  <2>1. "none" # "1" /\ pc[a].at # "idle"
    BY DEF Resolve
  <2> QED BY <1>2, <2>1, DataTypes, AnswerStep
<1> QED BY <1>1, <1>2 DEF Resolve

\* Caller a sends its command: one more job, one more run.
LEMMA StartsStep ==
  ASSUME GuestInv, NEW a \in Callers, NEW via \in {"client", "own"}, NEW at \in {"wait", "waitssh"}, Starts(a, via, at),
         pc[a].at = IF at = "wait" THEN "connect" ELSE "ssh", client' \in {"none", "live", "dead"}
  PROVE  GuestInv'
<1>0. Shapes /\ OneJobEach /\ CallerOK(a) /\ pc[a].at # "idle"
  BY DEF GuestInv
<1>1. PICK n : n = pc[a].call
  OBVIOUS
<1>2. /\ n \in DOMAIN calls /\ n \in 1..MaxCalls /\ calls[n] \in CallShape /\ calls[n].by = a /\ calls[n].st = "open"
      /\ calls[n].runs <= pc[a].try
  BY <1>0, <1>1, CallBounds DEF CallerOK, Shapes
<1>3. pc[a].try \in 0..3 /\ calls[n].runs \in 0..3
  <2>1. pc[a].try \in 0..4
    BY <1>0 DEF Shapes
  <2>2. pc[a].try # 4
    BY <1>0 DEF CallerOK, Callers
  <2> QED BY <1>2, <2>1, <2>2 DEF CallShape
<1>4. PICK k \in 1..4 : k = pc[a].try + 1
  BY <1>3
<1>5. /\ a \in Servers => at = "waitssh" /\ k = 1 /\ calls[n].runs = 0
      /\ a \in Threads => (at = "wait" /\ k \in {1, 3}) \/ (at = "waitssh" /\ k \in {2, 4})
      /\ calls[n].op # "list" => k <= 2
  <2>1. /\ a \in Servers => at = "waitssh" /\ pc[a].try = 0
        /\ a \in Threads => (at = "wait" /\ pc[a].try \in {0, 2}) \/ (at = "waitssh" /\ pc[a].try \in {1, 3})
        /\ calls[n].op # "list" => pc[a].try <= 2 /\ (at = "wait" => pc[a].try = 0)
    <3>1. CASE at = "wait"
      BY <1>0, <1>1, <3>1 DEF CallerOK
    <3>2. CASE at = "waitssh"
      BY <1>0, <1>1, <3>2 DEF CallerOK
    <3> QED BY <3>1, <3>2
  <2>2. a \in Servers \/ a \in Threads
    BY DEF Callers
  <2> QED BY <1>2, <1>3, <1>4, <2>1, <2>2
<1>6. PICK new : new = NewJob(n, k, via)
  OBVIOUS
<1>7. new \in JobType /\ new.call = n /\ new.try = k /\ new.at = "start" /\ new.exit = "none"
  <2>1. k \in 1..4 /\ n \in 1..MaxCalls /\ NoData \in Data
    BY <1>2, DataTypes
  <2> QED BY <1>6, <2>1 DEF NewJob, JobType, Exits
<1>8. jobs' = jobs \cup {new}
  BY <1>1, <1>4, <1>6 DEF Starts
<1>9. \A j \in jobs : j.call = n => j.try < k
  <2>1. ASSUME NEW j \in jobs, j.call = n PROVE j.try <= pc[a].try /\ j.try \in Nat
    BY <1>0, <1>1, <2>1, TriesBound, JobShape DEF JobType
  <2> QED BY <1>3, <1>4, <2>1
<1>10. /\ pc' \in [Callers -> [at : Places, call : 0..MaxCalls, try : 0..4]]
       /\ pc'[a].at = at /\ pc'[a].call = n /\ pc'[a].try = k /\ \A b \in Callers \ {a} : pc'[b] = pc[b]
  BY <1>0, <1>1, <1>3, <1>4 DEF Starts, Shapes, Places
<1>11. PICK r : Amended(n, r) /\ r.runs = calls[n].runs + 1 /\ r.puts = calls[n].puts /\ r.st = calls[n].st
  <2>1. calls' = [calls EXCEPT ![n].runs = @ + 1] /\ calls[n].runs < 4
    BY <1>1, <1>3 DEF Starts
  <2> QED BY <1>0, <1>2, <2>1, RunAmends
<1>12. /\ DOMAIN calls' = DOMAIN calls /\ calls'[n].st = "open" /\ calls'[n].runs = calls[n].runs + 1
       /\ \A m \in DOMAIN calls : Steady(m) /\ calls'[m].puts = calls[m].puts /\ (m # n => calls'[m] = calls[m])
  BY <1>2, <1>11 DEF Amended, Steady
<1>13. Shapes'
  <2>1. calls' \in Seq(CallShape) /\ Len(calls') = Len(calls)
    BY <1>11 DEF Amended
  <2>2. jobs' \subseteq JobType /\ \A j \in jobs' : j.call \in DOMAIN calls
    BY <1>0, <1>2, <1>7, <1>8 DEF Shapes
  <2> QED BY <1>0, <1>10, <1>12, <2>1, <2>2 DEF Shapes, Starts
<1>14. OneJobEach'
  <2>1. \A j \in jobs : j.call = n => j.try # k
    BY <1>0, <1>4, <1>9, JobShape DEF JobType
  <2> QED BY <1>0, <1>7, <1>8, <2>1 DEF OneJobEach
<1>15. ASSUME NEW b \in Callers PROVE CallerOK(b)'
  <2>1. CASE b = a
    <3>1. calls'[n].by = a /\ calls'[n].op = calls[n].op /\ n \in DOMAIN calls'
      BY <1>2, <1>12 DEF Steady
    <3>2. calls'[n].runs <= k
      BY <1>2, <1>3, <1>4, <1>12
    <3>3. at # "connect" /\ at # "resolve" /\ at # "ssh"
      OBVIOUS
    <3> QED BY <1>5, <1>10, <1>12, <2>1, <3>1, <3>2, <3>3 DEF CallerOK
  <2>2. CASE b # a
    BY <1>2, <1>10, <1>12, <2>2, OthersKeep
  <2> QED BY <2>1, <2>2
<1>16. ASSUME NEW i \in jobs, NEW b \in Callers, pc'[b].at # "idle", pc'[b].call = i.call PROVE i.try <= pc'[b].try
  <2>1. CASE b = a
    BY <1>0, <1>4, <1>9, <1>10, <1>16, <2>1, JobShape DEF JobType
  <2>2. CASE b # a
    BY <1>10, <1>16, <2>2, TriesBound
  <2> QED BY <2>1, <2>2
<1>17. ASSUME NEW i \in jobs' PROVE JobOK(i)'
  <2>1. CASE i \in jobs
    <3>1. JobOK(i) /\ i.call \in DOMAIN calls
      BY <1>0, <2>1, JobShape DEF GuestInv
    <3>2. /\ i.at \in {"made", "opened"} => Op(i) \in Changing
          /\ i.at = "opened" => file'[Path(i)] # Missing
          /\ calls[i.call].by \in Servers /\ calls[i.call].op # "exec" /\ i.at = "done" /\ i.exit = "1" => calls'[i.call].puts = 0
      BY <1>12, <3>1 DEF JobOK, Starts
    <3>3. \A b \in Callers : pc'[b].at # "idle" /\ pc'[b].call = i.call => i.try <= pc'[b].try
      BY <1>16, <2>1
    <3> QED BY <1>12, <2>1, <3>1, <3>2, <3>3, JobKeeps
  <2>2. CASE i \notin jobs
    <3>1. i.call = n /\ i.try = k /\ i.at = "start"
      BY <1>7, <1>8, <2>2
    <3>2. calls'[n].op = calls[n].op /\ calls'[n].by = a
      BY <1>2, <1>12 DEF Steady
    <3>3. calls'[n].op \in Changing => k <= 2
      BY <1>5, <3>2 DEF Changing, Overwriting, Appending
    <3>4. calls'[n].by \in Servers => k = 1
      BY <1>5, <3>2
    <3>5. ASSUME NEW b \in Callers, pc'[b].at # "idle", pc'[b].call = n PROVE k <= pc'[b].try
      <4>1. b = a
        BY <1>15, <3>2, <3>5 DEF CallerOK
      <4> QED BY <1>10, <4>1
    <3> QED BY <3>1, <3>3, <3>4, <3>5 DEF JobOK, Op
  <2> QED BY <2>1, <2>2
<1>18. ASSUME NEW m \in DOMAIN calls PROVE CallOK(m)'
  <2>1. CASE m # n
    <3>1. \A t : Busy(m, t)' => Busy(m, t)
      BY <1>7, <1>8, <2>1 DEF Busy
    <3>2. Owed(m)' \in 0..2 /\ Owed(m)' <= Owed(m)
      BY <3>1, OwedLess
    <3>3. \A i \in jobs' : i.call = m => \E j \in jobs : j.call = m
      BY <1>7, <1>8, <2>1
    <3> QED BY <1>12, <2>1, <3>2, <3>3, CallKeeps
  <2>2. CASE m = n
    <3>1. CallOK(m) /\ Owed(m) \in 0..2 /\ calls[m].puts \in Nat
      BY <1>2, <2>2, OwedTypes DEF GuestInv, CallShape
    <3>2. /\ calls'[m].puts = calls[m].puts /\ calls'[m].runs = calls[m].runs + 1 /\ calls'[m].st = "open"
          /\ calls'[m].by = a /\ calls'[m].op = calls[m].op
      BY <1>2, <1>12, <2>2 DEF Steady
    <3>3. \A t : t # k => (Busy(m, t)' => Busy(m, t))
      BY <1>7, <1>8 DEF Busy
    <3>4. PICK o \in 0..2 : o = Owed(m)' /\ o <= Owed(m) + 1
      <4>1. (k # 1 => (Busy(m, 1)' => Busy(m, 1))) /\ (k # 2 => (Busy(m, 2)' => Busy(m, 2)))
        BY <3>3
      <4> QED BY <4>1 DEF Owed
    <3>5. calls[m].op \in Changing => calls[m].runs <= 1
      BY <1>2, <1>3, <1>4, <1>5, <2>2 DEF Changing, Overwriting, Appending
    <3>6. calls'[m].op \in Changing => calls'[m].puts + o <= calls'[m].runs /\ calls'[m].runs <= 2
      BY <1>3, <2>2, <3>1, <3>2, <3>4, <3>5 DEF CallOK
    <3>7. /\ calls'[m].op \notin Changing => calls'[m].puts = 0
          /\ calls'[m].by \in Servers => calls'[m].runs <= 1
      BY <1>5, <2>2, <3>1, <3>2 DEF CallOK
    <3> QED BY <3>2, <3>4, <3>6, <3>7 DEF CallOK
  <2> QED BY <2>1, <2>2
<1> QED BY <1>12, <1>13, <1>14, <1>15, <1>17, <1>18 DEF GuestInv

LEMMA CallStepKeeps == ASSUME GuestInv, NEW a \in Callers, CallStep(a) PROVE GuestInv'
<1>1. CASE Send(a)
  BY <1>1, StartsStep DEF Send
<1>2. CASE Ssh(a)
  <2>1. client' \in {"none", "live", "dead"}
    BY <1>2 DEF Ssh, GuestInv, Shapes
  <2> QED BY <1>2, <2>1, StartsStep DEF Ssh
<1>3. CASE ReadFails(a) \/ TimesOut(a)
  BY <1>3, GoesStep DEF ReadFails, TimesOut
<1> QED BY <1>1, <1>2, <1>3, SendFailsStep, ReadsAllStep, ResolveStep, EndsStep DEF CallStep

\* A call that begins, or is answered without a command.
LEMMA CallBegins ==
  ASSUME GuestInv, NEW a \in Callers, NEW op \in Operations, NEW p \in Paths, Call(a, op, p) \/ AnswerAlone(a, op, p)
  PROVE  GuestInv'
<1>0. Shapes /\ OneJobEach /\ pc[a].at = "idle" /\ Len(calls) \in Nat /\ Len(calls) < MaxCalls /\ MaxCalls \in Nat
  BY CallBounds DEF GuestInv, Call, AnswerAlone, MayCall
<1>1. PICK st \in {"open", "unsent"} : Record(a, op, p, st) /\ (st = "open" <=> Call(a, op, p))
  <2>1. CASE Call(a, op, p)
    BY <2>1 DEF Call
  <2>2. CASE ~ Call(a, op, p)
    BY <2>2 DEF AnswerAlone
  <2> QED BY <2>1, <2>2
<1>2. PICK n : n = Len(calls) + 1
  OBVIOUS
<1>3. /\ calls' \in Seq(CallShape) /\ Len(calls') = n /\ DOMAIN calls' = 1..n /\ \A m \in DOMAIN calls : calls'[m] = calls[m]
      /\ calls'[n].by = a /\ calls'[n].op = op /\ calls'[n].st = st /\ calls'[n].runs = 0 /\ calls'[n].puts = 0
  BY <1>0, <1>1, <1>2, RecordAppends
<1>4. /\ DOMAIN calls = 1..Len(calls) /\ DOMAIN calls' = DOMAIN calls \cup {n} /\ n \notin DOMAIN calls /\ n \in 1..MaxCalls
  BY <1>0, <1>2, <1>3, CallBounds
<1>5. \A m \in DOMAIN calls : Steady(m) /\ calls'[m].puts = calls[m].puts
  BY <1>3, <1>4 DEF Steady
<1>6. /\ pc' \in [Callers -> [at : Places, call : 0..MaxCalls, try : 0..4]] /\ \A b \in Callers \ {a} : pc'[b] = pc[b]
      /\ st = "open" => /\ pc'[a].at = IF a \in Threads THEN "connect" ELSE "resolve"
                        /\ pc'[a].call = n /\ pc'[a].try = 0
      /\ st # "open" => pc'[a].at = "idle"
  <2>1. CASE st = "open"
    <3>0. PICK place \in Places : place = IF a \in Threads THEN "connect" ELSE "resolve"
      BY DEF Places
    <3>1. PICK q : q = [at |-> place, call |-> n, try |-> 0]
      OBVIOUS
    <3>2. /\ q \in [at : Places, call : 0..MaxCalls, try : 0..4] /\ q.call = n /\ q.try = 0
          /\ q.at = IF a \in Threads THEN "connect" ELSE "resolve"
      BY <1>0, <1>4, <3>0, <3>1
    <3>3. pc' = [pc EXCEPT ![a] = q]
      BY <1>1, <1>2, <2>1, <3>0, <3>1 DEF Call, Idle
    <3> QED BY <1>0, <2>1, <3>2, <3>3 DEF Shapes
  <2>2. CASE st # "open"
    <3>1. pc' = pc
      BY <1>1, <2>2 DEF AnswerAlone
    <3> QED BY <1>0, <2>2, <3>1 DEF Shapes
  <2> QED BY <2>1, <2>2
<1>7. UNCHANGED <<up, dir, file, jobs, client, faults>>
  BY DEF Call, AnswerAlone
<1>8. Shapes'
  <2>1. file' \in [Paths -> {Missing} \cup Seq(1..n)]
    <3>1. \A s : s \in Seq(1..Len(calls)) => s \in Seq(1..n)
      BY <1>0, <1>2, SeqWider
    <3> QED BY <1>0, <1>7, <3>1 DEF Shapes
  <2>2. jobs' \subseteq JobType /\ \A j \in jobs' : j.call \in DOMAIN calls'
    BY <1>0, <1>4, <1>7 DEF Shapes
  <2>3. Len(calls') <= MaxCalls
    BY <1>0, <1>2, <1>3
  <2> QED BY <1>0, <1>3, <1>6, <1>7, <2>1, <2>2, <2>3 DEF Shapes
<1>9. OneJobEach'
  BY <1>0, <1>7 DEF OneJobEach
<1>10. ASSUME NEW b \in Callers PROVE CallerOK(b)'
  <2>1. CASE b # a
    <3>1. CallerOK(b) /\ pc'[b] = pc[b]
      BY <1>6, <2>1 DEF GuestInv
    <3> QED BY <1>3, <1>4, <3>1 DEF CallerOK
  <2>2. CASE b = a /\ st # "open"
    BY <1>6, <2>2 DEF CallerOK
  <2>3. CASE b = a /\ st = "open"
    <3>1. /\ pc'[a].call = n /\ pc'[a].try = 0 /\ pc'[a].at \in {"connect", "resolve"}
          /\ a \in Threads => pc'[a].at = "connect" /\ a \notin Servers
          /\ a \in Servers => pc'[a].at = "resolve"
      BY <1>6, <2>3, GuestAssumption DEF Callers
    <3> QED BY <1>3, <1>4, <2>3, <3>1 DEF CallerOK
  <2> QED BY <2>1, <2>2, <2>3
<1>11. ASSUME NEW i \in jobs PROVE JobOK(i)'
  <2>1. JobOK(i) /\ i.call \in DOMAIN calls /\ i.call # n
    BY <1>0, <1>4, JobShape DEF GuestInv
  <2>2. /\ i.at \in {"made", "opened"} => Op(i) \in Changing
        /\ i.at = "opened" => file'[Path(i)] # Missing
        /\ calls[i.call].by \in Servers /\ calls[i.call].op # "exec" /\ i.at = "done" /\ i.exit = "1" => calls'[i.call].puts = 0
    BY <1>5, <1>7, <2>1 DEF JobOK
  <2>3. ASSUME NEW b \in Callers, pc'[b].at # "idle", pc'[b].call = i.call PROVE i.try <= pc'[b].try
    <3>1. b # a
      BY <1>6, <2>1, <2>3
    <3> QED BY <1>6, <2>3, <3>1, TriesBound
  <2> QED BY <1>5, <2>1, <2>2, <2>3, JobKeeps
<1>12. ASSUME NEW m \in DOMAIN calls PROVE CallOK(m)'
  <2>1. calls'[m] = calls[m] /\ Steady(m)
    BY <1>3, <1>5
  <2>2. Owed(m)' \in 0..2 /\ Owed(m)' <= Owed(m)
    BY <1>7, OwedTypes DEF Owed, Busy
  <2>3. \A j \in jobs' : j.call = m => \E k \in jobs : k.call = m
    BY <1>7
  <2> QED BY <2>1, <2>2, <2>3, CallKeeps
<1>13. CallOK(n)'
  <2>1. \A j \in jobs' : j.call # n
    BY <1>0, <1>4, <1>7, JobShape
  <2>2. Owed(n)' = 0
    BY <2>1 DEF Owed, Busy
  <2>3. calls'[n].puts + Owed(n)' <= calls'[n].runs /\ calls'[n].runs <= 2 /\ calls'[n].runs <= 1
    BY <1>3, <2>2
  <2> QED BY <1>3, <2>1, <2>3 DEF CallOK
<1>14. (\A m \in DOMAIN calls : CallOK(m))' /\ (\A i \in jobs : JobOK(i))'
  <2>1. \A m \in DOMAIN calls : CallOK(m)'
    BY <1>12
  <2> QED BY <1>4, <1>7, <1>11, <1>13, <2>1
<1> QED BY <1>8, <1>9, <1>10, <1>14 DEF GuestInv

-----------------------------------------------------------------------------
(* The theorems *)

LEMMA GuestInit == Init => GuestInv
<1> SUFFICES ASSUME Init PROVE GuestInv
  OBVIOUS
<1>1. calls = <<>> /\ DOMAIN calls = {} /\ Len(calls) = 0 /\ calls \in Seq(CallShape)
  BY DEF Init
<1>2. MaxCalls \in Nat /\ MaxFaults \in Nat
  BY GuestAssumption DEF MaxCalls
<1>3. Idle \in [at : Places, call : 0..MaxCalls, try : 0..4] /\ Idle.at = "idle"
  BY <1>2 DEF Idle, Places
<1>4. Shapes
  BY <1>1, <1>2, <1>3 DEF Init, Shapes
<1>5. \A a \in Callers : CallerOK(a)
  BY <1>3 DEF Init, CallerOK
<1> QED BY <1>1, <1>4, <1>5 DEF Init, GuestInv, OneJobEach

LEMMA GuestNext == GuestInv /\ [Next]_vars => GuestInv'
<1> SUFFICES ASSUME GuestInv, [Next]_vars PROVE GuestInv'
  OBVIOUS
<1>1. CASE UNCHANGED vars
  BY <1>1 DEF vars, GuestInv, Shapes, OneJobEach, CallerOK, JobOK, CallOK, Owed, Busy, Op, Path
<1>2. CASE Next
  BY <1>2, CallBegins, CallStepKeeps, JobStep, ClosesStep DEF Next
<1> QED BY <1>1, <1>2

LEMMA GuestInvariant == Spec => []GuestInv
BY GuestInit, GuestNext, PTL DEF Spec

\* Every variable has its type; a call is tried four times at most.
THEOREM GuestTypes == Spec => []TypeOK
<1>1. GuestInv => TypeOK
  <2> SUFFICES ASSUME GuestInv PROVE TypeOK
    OBVIOUS
  <2>0. Shapes
    BY DEF GuestInv
  <2>1. ASSUME NEW p \in Paths PROVE file[p] = Missing \/ \A i \in DOMAIN file[p] : file[p][i] \in DOMAIN calls
    <3>1. file[p] \in {Missing} \cup Seq(1..Len(calls)) /\ DOMAIN calls = 1..Len(calls)
      BY <2>0, CallBounds DEF Shapes
    <3> QED BY <3>1
  <2>2. ASSUME NEW n \in DOMAIN calls PROVE calls[n] \in CallType
    <3>1. CallOK(n) /\ calls[n] \in CallShape /\ Owed(n) \in 0..2
      BY <2>0, OwedTypes DEF GuestInv, Shapes
    <3>2. calls[n].puts \in 0..2
      BY <3>1 DEF CallOK, CallShape
    <3> QED BY <3>1, <3>2 DEF CallShape, CallType
  <2> QED BY <2>0, <2>1, <2>2 DEF TypeOK, Shapes
<1> QED BY <1>1, GuestInvariant, PTL

\* A tool changes the guest once at most, and not at all when it sent nothing or when
\* the guest refused its write, append or upload; a sandbox call changes it twice at most.
THEOREM ToolsOnce == Spec => []ToolsApplyOnce
<1>1. GuestInv => ToolsApplyOnce
  <2> SUFFICES ASSUME GuestInv, NEW n \in DOMAIN calls
               PROVE  /\ calls[n].puts <= IF calls[n].by \in Servers THEN 1 ELSE 2
                      /\ calls[n].by \in Servers /\ calls[n].puts > 0 =>
                           calls[n].st # "unsent" /\ (calls[n].st = "refused" => calls[n].op = "exec")
    BY DEF ToolsApplyOnce
  <2>1. CallOK(n) /\ calls[n] \in CallShape /\ Owed(n) \in 0..2
    BY OwedTypes DEF GuestInv, Shapes
  <2>2. calls[n].puts \in Nat /\ calls[n].runs \in Nat
    BY <2>1 DEF CallShape
  <2>3. calls[n].puts <= 2 /\ (calls[n].by \in Servers => calls[n].puts <= 1)
    BY <2>1, <2>2 DEF CallOK
  <2>4. calls[n].by \in Servers /\ calls[n].puts > 0 =>
          calls[n].st # "unsent" /\ (calls[n].st = "refused" => calls[n].op = "exec")
    BY <2>1, <2>2 DEF CallOK
  <2> QED BY <2>3, <2>4
<1> QED BY <1>1, GuestInvariant, PTL

-----------------------------------------------------------------------------
(***************************************************************************)
(* What the guest's files keep of the changes that were acknowledged, and  *)
(* what reads see of them.                                                 *)
(***************************************************************************)

(* The invariant of the files *)

\* Call n has written, and its block is there or an overwrite may have taken it.
Done(n) == calls[n].puts >= 1 /\ (Overwritten(n) \/ n \in Blocks(calls[n].path))

\* Call w was answered and changes nothing any more.
Over(w) == w \in DOMAIN calls /\ calls[w].st # "open" /\ ~ \E j \in jobs : j.call = w /\ Pending(j)

\* The output of call n shows what had been acknowledged before n began.
Sees(n, out) ==
  \A m \in calls[n].before :
    Acknowledged(m) /\ calls[n].op \in Reading /\ calls[n].path = calls[m].path => m \in out \/ Overwritten(m)

\* What an exit status of 0 with this output says of call n.
Told(n, out) ==
  /\ calls[n].op \in Changing => Done(n)
  /\ calls[n].op \notin Changing => out \notin {ErrorText, NoData} /\ Sees(n, out)

\* A command that ends or is about to end with 0 tells the truth.
JobFact(j) ==
  /\ j.at \in {"quiet", "prints"} => Op(j) \in Changing
  /\ j.at \in {"quiet", "prints"} \/ (j.at = "done" /\ j.exit = "0") => Told(j.call, j.out)

\* So does the answer of a call; a file once written stays; and what a call found settled is.
CallFact(n) ==
  /\ calls[n].puts >= 1 => file[calls[n].path] # Missing
  /\ calls[n].st = "ok" => Told(n, calls[n].data)
  /\ \A w \in calls[n].before : Over(w)

KeptInv ==
  /\ GuestInv
  /\ \A j \in jobs : JobFact(j)
  /\ \A n \in DOMAIN calls : CallFact(n)

-----------------------------------------------------------------------------
(* What outlasts a step *)

\* Call n keeps what it was sent with, and its answer once it has one.
Grows(n) ==
  /\ n \in DOMAIN calls'
  /\ calls'[n].by = calls[n].by /\ calls'[n].op = calls[n].op /\ calls'[n].path = calls[n].path
  /\ calls'[n].before = calls[n].before
  /\ calls'[n].runs >= calls[n].runs /\ calls'[n].puts >= calls[n].puts
  /\ calls[n].st # "open" => calls'[n].st = calls[n].st /\ calls'[n].data = calls[n].data

AllGrow == \A n \in DOMAIN calls : Grows(n)

LEMMA CallNumbers ==
  ASSUME Shapes, NEW n \in DOMAIN calls
  PROVE  /\ calls[n] \in CallShape /\ calls[n].runs \in Nat /\ calls[n].puts \in Nat
         /\ calls[n].path \in Paths /\ calls[n].before \subseteq 1..MaxCalls
<1>1. calls[n] \in CallShape
  BY DEF Shapes
<1> QED BY <1>1 DEF CallShape

LEMMA OverwrittenStays ==
  ASSUME Shapes, Shapes', AllGrow, NEW n \in DOMAIN calls, Overwritten(n)
  PROVE  Overwritten(n)'
<1>1. PICK w \in DOMAIN calls : /\ w \notin calls[n].before /\ (w # n \/ calls[n].runs > 1)
                                /\ calls[w].op \in Overwriting /\ calls[w].path = calls[n].path
  BY DEF Overwritten
<1>2. Grows(w) /\ Grows(n)
  BY DEF AllGrow
<1>3. calls[n].runs > 1 => calls'[n].runs > 1
  <2>1. n \in DOMAIN calls' /\ calls'[n].runs >= calls[n].runs
    BY <1>2 DEF Grows
  <2>2. calls'[n] \in CallShape
    BY <2>1 DEF Shapes
  <2>3. calls[n].runs \in Nat /\ calls'[n].runs \in Nat
    BY <2>2, CallNumbers DEF CallShape
  <2> QED BY <2>1, <2>3
<1> QED BY <1>1, <1>2, <1>3 DEF Grows, Overwritten

\* No job that may still write is new to a settled call.
NoneReturns ==
  \A j \in jobs' : Pending(j)' =>
    calls[j.call].st = "open" \/ \E i \in jobs : i.call = j.call /\ Pending(i)

LEMMA OverStays ==
  ASSUME AllGrow, NoneReturns, NEW w, Over(w)
  PROVE  Over(w)'
<1>1. Grows(w)
  BY DEF AllGrow, Over
<1> QED BY <1>1 DEF Grows, NoneReturns, Over

LEMMA AcknowledgedBefore ==
  ASSUME AllGrow, NEW m, Over(m), Acknowledged(m)'
  PROVE  Acknowledged(m) /\ m \in DOMAIN calls
<1>1. Grows(m)
  BY DEF AllGrow, Over
<1> QED BY <1>1 DEF Grows, Over, Acknowledged

LEMMA ToldStays ==
  ASSUME KeptInv, GuestInv', AllGrow, \A m \in DOMAIN calls : Done(m) => Done(m)',
         NEW n \in DOMAIN calls, NEW out, Told(n, out)
  PROVE  Told(n, out)'
<1>1. Grows(n) /\ Shapes /\ Shapes'
  BY DEF AllGrow, KeptInv, GuestInv
<1>2. ASSUME NEW m \in calls[n].before, Acknowledged(m)'
      PROVE  Acknowledged(m) /\ m \in DOMAIN calls /\ calls'[m].path = calls[m].path
             /\ (Overwritten(m) => Overwritten(m)')
  <2>1. Over(m)
    BY DEF KeptInv, CallFact
  <2>2. Acknowledged(m) /\ m \in DOMAIN calls
    BY <1>2, <2>1, AcknowledgedBefore
  <2> QED BY <1>1, <2>2, OverwrittenStays DEF AllGrow, Grows
<1>3. Sees(n, out) => Sees(n, out)'
  BY <1>1, <1>2 DEF Sees, Grows
<1> QED BY <1>1, <1>3 DEF Told, Grows

\* What a step owes for the invariant.
LEMMA KeptStep ==
  ASSUME KeptInv, GuestInv', AllGrow, NoneReturns,
         \A m \in DOMAIN calls : Done(m) => Done(m)',
         \A p \in Paths : file[p] # Missing => file'[p] # Missing,
         \A j \in jobs' : JobFact(j)' \/ \E i \in jobs : /\ j.call = i.call /\ j.at = i.at
                                                        /\ j.exit = i.exit /\ j.out = i.out,
         \A n \in DOMAIN calls :
           /\ calls'[n].puts >= 1 => calls[n].puts >= 1 \/ file'[calls[n].path] # Missing
           /\ calls'[n].st = "ok" => calls[n].st = "ok" \/ Told(n, calls[n].data)',
         \A n \in DOMAIN calls' \ DOMAIN calls : CallFact(n)'
  PROVE  KeptInv'
<1>0. Shapes /\ Shapes'
  BY DEF KeptInv, GuestInv
<1>1. ASSUME NEW j \in jobs' PROVE JobFact(j)'
  <2>1. CASE JobFact(j)'
    BY <2>1
  <2>2. ASSUME NEW i \in jobs, j.call = i.call, j.at = i.at, j.exit = i.exit, j.out = i.out
        PROVE  JobFact(j)'
    <3>1. JobFact(i) /\ i.call \in DOMAIN calls
      BY <1>0 DEF KeptInv, Shapes
    <3>2. Grows(i.call)
      BY <3>1 DEF AllGrow
    <3>3. Told(i.call, i.out) => Told(i.call, i.out)'
      BY <3>1, ToldStays
    <3> QED BY <2>2, <3>1, <3>2, <3>3 DEF JobFact, Op, Grows
  <2> QED BY <2>1, <2>2
<1>2. ASSUME NEW n \in DOMAIN calls PROVE CallFact(n)'
  <2>1. CallFact(n) /\ Grows(n) /\ calls[n].path \in Paths
    BY <1>0, CallNumbers DEF KeptInv, AllGrow
  <2>2. calls'[n].puts >= 1 => file'[calls'[n].path] # Missing
    BY <2>1 DEF CallFact, Grows
  <2>3. calls'[n].st = "ok" => Told(n, calls[n].data)'
    <3>1. CASE calls[n].st = "ok"
      <4>1. Told(n, calls[n].data)
        BY <2>1, <3>1 DEF CallFact
      <4>2. PICK out : out = calls[n].data
        OBVIOUS
      <4>3. Told(n, out)'
        BY <4>1, <4>2, ToldStays
      <4>4. calls'[n].data = out
        BY <2>1, <3>1, <4>2 DEF Grows
      <4> QED BY <4>3, <4>4 DEF Told, Sees
    <3> QED BY <3>1
  <2>4. \A w \in calls'[n].before : Over(w)'
    BY <2>1, OverStays DEF CallFact, Grows
  <2> QED BY <2>2, <2>3, <2>4 DEF CallFact
<1>3. \A n \in DOMAIN calls' : CallFact(n)'
  BY <1>2
<1> QED BY <1>1, <1>3 DEF KeptInv

-----------------------------------------------------------------------------
(* The jobs *)

LEMMA DoneSame ==
  ASSUME Shapes, Shapes', AllGrow, file' = file
  PROVE  \A m \in DOMAIN calls : Done(m) => Done(m)'
<1> SUFFICES ASSUME NEW m \in DOMAIN calls, Done(m) PROVE Done(m)'
  OBVIOUS
<1>1. Grows(m)
  BY DEF AllGrow
<1>2. Overwritten(m) => Overwritten(m)'
  BY OverwrittenStays
<1>3. calls'[m].puts >= 1
  <2>1. m \in DOMAIN calls' /\ calls'[m].puts >= calls[m].puts /\ calls[m].puts >= 1
    BY <1>1 DEF Grows, Done
  <2>2. calls'[m] \in CallShape /\ calls[m].puts \in Nat
    BY <2>1, CallNumbers DEF Shapes
  <2> QED BY <2>1, <2>2 DEF CallShape
<1>4. PICK p : p = calls[m].path
  OBVIOUS
<1>5. calls'[m].path = p /\ Blocks(p)' = Blocks(p)
  BY <1>1, <1>4 DEF Grows, Blocks
<1> QED BY <1>2, <1>3, <1>4, <1>5 DEF Done

LEMMA SameCalls ==
  ASSUME Shapes, calls' = calls
  PROVE  AllGrow
BY CallNumbers DEF AllGrow, Grows

\* What was done stays done, and no file goes away.
DoneStays == /\ \A m \in DOMAIN calls : Done(m) => Done(m)'
             /\ \A p \in Paths : file[p] # Missing => file'[p] # Missing

\* No job changes but j, which goes on or ends.
Onward(j) == \A i \in jobs' : \/ i \in jobs
                              \/ i.call = j.call /\ (Pending(i) => Pending(j)) /\ JobFact(i)'

\* Job j goes on or ends, and the calls stay as they are.
LEMMA JobGoesOn ==
  ASSUME KeptInv, GuestInv', NEW j \in jobs, calls' = calls, DoneStays, Onward(j)
  PROVE  KeptInv'
<1>1. Shapes
  BY DEF KeptInv, GuestInv
<1>2. NoneReturns
  BY DEF NoneReturns, Onward, Pending, Op
<1>3. \A i \in jobs' : JobFact(i)' \/ \E k \in jobs : /\ i.call = k.call /\ i.at = k.at
                                                      /\ i.exit = k.exit /\ i.out = k.out
  BY DEF Onward
<1>4. \A n \in DOMAIN calls :
           /\ calls'[n].puts >= 1 => calls[n].puts >= 1 \/ file'[calls[n].path] # Missing
           /\ calls'[n].st = "ok" => calls[n].st = "ok" \/ Told(n, calls[n].data)'
  OBVIOUS
<1> QED BY <1>1, <1>2, <1>3, <1>4, SameCalls, KeptStep DEF DoneStays

\* The last step of a job, and what its caller may learn.
LEMMA ExitKeeps ==
  ASSUME KeptInv, GuestInv', NEW j \in jobs, NEW exit \in Exits, NEW out \in Data, Exit(j, exit, out),
         calls' = calls, file' = file, exit = "0" => Told(j.call, out)
  PROVE  KeptInv'
<1>0. Shapes /\ Shapes' /\ j \in JobType /\ j.call \in DOMAIN calls
  BY JobShape DEF KeptInv, GuestInv
<1>1. PICK i : i = [j EXCEPT !.at = "done", !.exit = exit, !.out = out]
  OBVIOUS
<1>2. i.call = j.call /\ i.at = "done" /\ i.exit = exit /\ i.out = out
  BY <1>0, <1>1 DEF JobType
<1>3. \A k \in jobs' : k \in jobs \/ k = i
  BY <1>1 DEF Exit, Replace
<1>4. AllGrow /\ \A m \in DOMAIN calls : Done(m) => Done(m)'
  BY <1>0, SameCalls, DoneSame
<1>5. exit = "0" => Told(j.call, out)'
  BY <1>0, <1>4, ToldStays
<1>6. JobFact(i)' /\ ~ Pending(i)
  BY <1>2, <1>5 DEF JobFact, Pending
<1>7. Onward(j)
  BY <1>2, <1>3, <1>6 DEF Onward
<1>8. DoneStays
  BY <1>4 DEF DoneStays
<1> QED BY <1>7, <1>8, JobGoesOn

\* What was acknowledged before call n began is in its file, or was overwritten.
LEMMA BeforeIsThere ==
  ASSUME KeptInv, NEW n \in DOMAIN calls, NEW m \in calls[n].before, Acknowledged(m)
  PROVE  /\ m \in DOMAIN calls /\ calls[m].path \in Paths /\ file[calls[m].path] # Missing
         /\ m \in Blocks(calls[m].path) \/ Overwritten(m)
<1>1. m \in DOMAIN calls /\ CallFact(m)
  BY DEF KeptInv, CallFact, Over
<1>2. calls[m].st = "ok" /\ calls[m].op \in Changing
  BY DEF Acknowledged
<1>3. Done(m)
  BY <1>1, <1>2 DEF CallFact, Told
<1>4. calls[m].path \in Paths
  BY <1>1, CallNumbers DEF KeptInv, GuestInv
<1> QED BY <1>1, <1>3, <1>4 DEF Done, CallFact

LEMMA ReadKept == ASSUME KeptInv, GuestInv', NEW j \in jobs, Read(j) PROVE KeptInv'
<1>0. Shapes /\ j.call \in DOMAIN calls /\ Path(j) \in Paths
  BY JobShape DEF KeptInv, GuestInv
<1>1. calls' = calls /\ file' = file /\ Op(j) \in Reading /\ Op(j) \notin Changing /\ Op(j) \notin Looking
  BY DEF Read, Reading, Changing, Overwriting, Appending, Looking
<1>2. CASE file[Path(j)] = Missing
  <2>1. PICK out \in Data : Exit(j, "1", out)
    BY <1>2, DataTypes DEF Read, CannotRead
  <2> QED BY <1>1, <2>1, ExitKeeps DEF Exits
<1>3. CASE file[Path(j)] # Missing
  <2>1. PICK out : out = Blocks(Path(j))
    OBVIOUS
  <2>2. out \in Data
    BY <1>0, <2>1, DataTypes
  <2>3. out \in SUBSET (1..MaxCalls)
    <3>1. file[Path(j)] \in Seq(1..Len(calls)) /\ 1..Len(calls) \subseteq 1..MaxCalls
      BY <1>0, <1>3, CallBounds DEF Shapes
    <3>2. \A i \in DOMAIN file[Path(j)] : file[Path(j)][i] \in 1..MaxCalls
      BY <3>1
    <3> QED BY <1>3, <2>1, <3>2 DEF Blocks
  <2>4. out \notin {ErrorText, NoData}
    BY <2>3, GuestAssumption
  <2>5. Sees(j.call, out)
    BY <1>0, <1>1, <2>1, BeforeIsThere DEF Sees, Path, Op
  <2>6. Told(j.call, out)
    BY <1>1, <2>4, <2>5 DEF Told, Op
  <2>7. Exit(j, "0", out)
    BY <1>3, <2>1 DEF Read
  <2> QED BY <1>1, <2>2, <2>6, <2>7, ExitKeeps DEF Exits
<1> QED BY <1>2, <1>3

LEMMA LookKept == ASSUME KeptInv, GuestInv', NEW j \in jobs, Look(j) PROVE KeptInv'
<1>0. Shapes /\ j.call \in DOMAIN calls
  BY JobShape DEF KeptInv, GuestInv
<1>1. calls' = calls /\ file' = file /\ Op(j) \in Looking /\ Op(j) \notin Changing /\ Op(j) \notin Reading
  BY DEF Look, Reading, Changing, Overwriting, Appending, Looking
<1>2. PICK out \in SUBSET Present : Exit(j, "0", out)
  BY DEF Look
<1>3. out \in Data /\ out \in SUBSET Paths
  BY DataTypes DEF Present
<1>4. out \notin {ErrorText, NoData}
  BY <1>3, GuestAssumption
<1>5. Sees(j.call, out)
  BY <1>1 DEF Sees, Op
<1>6. Told(j.call, out)
  BY <1>1, <1>4, <1>5 DEF Told, Op
<1> QED BY <1>1, <1>2, <1>3, <1>6, ExitKeeps DEF Exits

LEMMA EndKept == ASSUME KeptInv, GuestInv', NEW j \in jobs, End(j) PROVE KeptInv'
<1>1. JobFact(j) /\ j.at \in {"quiet", "prints"}
  BY DEF KeptInv, End
<1>2. Told(j.call, NoData)
  BY <1>1 DEF JobFact, Told, Op
<1>3. PICK exit \in Ends(j) : Exit(j, exit, NoData)
  BY DEF End
<1>4. exit \in Exits
  BY DEF Ends, Exits
<1> QED BY <1>2, <1>3, <1>4, DataTypes, ExitKeeps DEF End

LEMMA MakeDirectoryKept == ASSUME KeptInv, GuestInv', NEW j \in jobs, MakeDirectory(j) PROVE KeptInv'
<1>0. Shapes /\ Shapes' /\ j \in JobType
  BY JobShape DEF KeptInv, GuestInv
<1>1. calls' = calls /\ file' = file /\ Op(j) \in Changing /\ j.at = "start"
  BY DEF MakeDirectory, Changing, Overwriting
<1>2. PICK i : i = [j EXCEPT !.at = "made"]
  OBVIOUS
<1>3. i.call = j.call /\ i.at = "made"
  BY <1>0, <1>2 DEF JobType
<1>4. \A k \in jobs' : k \in jobs \/ k = i
  BY <1>2 DEF MakeDirectory, Replace
<1>5. JobFact(i)' /\ Pending(j)
  BY <1>1, <1>3 DEF JobFact, Pending
<1>6. \A m \in DOMAIN calls : Done(m) => Done(m)'
  BY <1>0, <1>1, SameCalls, DoneSame
<1>7. Onward(j)
  BY <1>3, <1>4, <1>5 DEF Onward
<1>8. DoneStays
  BY <1>1, <1>6 DEF DoneStays
<1> QED BY <1>1, <1>7, <1>8, JobGoesOn

\* A job that may still overwrite a file is one that call m, written before, need not survive.
LEMMA PendingOverwrites ==
  ASSUME KeptInv, NEW j \in jobs, Pending(j), Op(j) \in Overwriting,
         NEW m \in DOMAIN calls, Done(m), calls[m].path = Path(j)
  PROVE  Overwritten(m)
<1>0. Shapes /\ j.call \in DOMAIN calls /\ j \in JobType /\ JobOK(j) /\ CallOK(m) /\ CallFact(m)
  BY JobShape DEF KeptInv, GuestInv
<1>1. j.call \notin calls[m].before
  BY <1>0 DEF CallFact, Over
<1>2. ASSUME j.call = m PROVE calls[m].runs > 1
  <2>1. PICK t \in {1, 2} : t = j.try
    BY <1>0 DEF Pending, JobOK, JobType
  <2>2. Busy(m, t)
    BY <1>2, <2>1 DEF Busy, Pending
  <2>3. PICK o \in 0..2 : o = Owed(m) /\ o >= 1
    <3>1. CASE t = 1
      BY <2>2, <3>1 DEF Owed
    <3>2. CASE t = 2
      BY <2>2, <3>2 DEF Owed
    <3> QED BY <3>1, <3>2
  <2>4. calls[m].puts + o <= calls[m].runs
    BY <1>0, <1>2, <2>3 DEF CallOK, Pending, Op
  <2>5. calls[m].runs \in Nat /\ calls[m].puts \in Nat /\ calls[m].puts >= 1
    BY <1>0, CallNumbers DEF Done
  <2> QED BY <2>3, <2>4, <2>5
<1> QED BY <1>0, <1>1, <1>2 DEF Overwritten, Op, Path

LEMMA OpenKept == ASSUME KeptInv, GuestInv', NEW j \in jobs, Open(j) PROVE KeptInv'
<1>0. Shapes /\ Shapes' /\ j \in JobType /\ Path(j) \in Paths
  BY JobShape DEF KeptInv, GuestInv
<1>1. calls' = calls /\ Op(j) \in Changing /\ Pending(j)
  BY DEF Open, Pending
<1>2. CASE ~ dir
  <2>1. Exit(j, "1", NoData) /\ file' = file
    BY <1>2 DEF Open
  <2> QED BY <1>1, <2>1, DataTypes, ExitKeeps DEF Exits
<1>3. CASE dir
  <2>1. /\ Replace(j, {[j EXCEPT !.at = "opened"]})
        /\ file' = [file EXCEPT ![Path(j)] = IF Truncates(j) \/ @ = Missing THEN <<>> ELSE @]
    BY <1>3 DEF Open
  <2>2. <<>> # Missing
    <3>1. <<>> \in Seq(Nat)
      OBVIOUS
    <3> QED BY <3>1, GuestAssumption
  <2>3. /\ \A q \in Paths \ {Path(j)} : file'[q] = file[q]
        /\ file'[Path(j)] # Missing
        /\ ~ Truncates(j) /\ file[Path(j)] # Missing => file'[Path(j)] = file[Path(j)]
    BY <1>0, <2>1, <2>2 DEF Shapes
  <2>4. ASSUME NEW m \in DOMAIN calls, Done(m) PROVE Done(m)'
    <3>1. AllGrow
      BY <1>0, <1>1, SameCalls
    <3>2. Overwritten(m) => Overwritten(m)'
      BY <1>0, <3>1, OverwrittenStays
    <3>3. PICK p \in Paths : p = calls[m].path
      BY <1>0, CallNumbers
    <3>4. ~ Overwritten(m) => Blocks(p)' = Blocks(p)
      <4>1. CASE p # Path(j)
        BY <2>3, <4>1 DEF Blocks
      <4>2. CASE p = Path(j)
        <5>1. Overwritten(m) \/ ~ Truncates(j)
          BY <1>1, <2>4, <3>3, <4>2, PendingOverwrites DEF Truncates
        <5>2. ~ Overwritten(m) => file[p] # Missing
          BY <2>4, <3>3 DEF Done, Blocks
        <5> QED BY <2>3, <4>2, <5>1, <5>2 DEF Blocks
      <4> QED BY <4>1, <4>2
    <3> QED BY <1>1, <2>4, <3>2, <3>3, <3>4 DEF Done
  <2>5. PICK i : i = [j EXCEPT !.at = "opened"]
    OBVIOUS
  <2>6. i.call = j.call /\ i.at = "opened"
    BY <1>0, <2>5 DEF JobType
  <2>7. \A k \in jobs' : k \in jobs \/ k = i
    BY <2>1, <2>5 DEF Replace
  <2>8. JobFact(i)'
    BY <2>6 DEF JobFact
  <2>9. Onward(j)
    BY <1>1, <2>6, <2>7, <2>8 DEF Onward
  <2>10. DoneStays
    BY <2>3, <2>4 DEF DoneStays
  <2> QED BY <1>1, <2>9, <2>10, JobGoesOn
<1> QED BY <1>2, <1>3

\* The one more block of a call is counted.
LEMMA PutGrows ==
  ASSUME Shapes, NEW c \in DOMAIN calls, calls' = [calls EXCEPT ![c].puts = @ + 1]
  PROVE  /\ AllGrow /\ DOMAIN calls' = DOMAIN calls /\ calls'[c].puts = calls[c].puts + 1
         /\ \A n \in DOMAIN calls : calls'[n].st = calls[n].st /\ (n # c => calls'[n] = calls[n])
<1>0. calls[c] \in CallShape /\ calls \in Seq(CallShape)
  BY DEF Shapes
<1>1. PICK k \in Nat : k = calls[c].puts + 1 /\ k >= calls[c].puts
  BY <1>0 DEF CallShape
<1>2. PICK r : r = [calls[c] EXCEPT !.puts = k]
  OBVIOUS
<1>3. /\ r.by = calls[c].by /\ r.op = calls[c].op /\ r.path = calls[c].path /\ r.before = calls[c].before
      /\ r.runs = calls[c].runs /\ r.puts = k /\ r.st = calls[c].st /\ r.data = calls[c].data
  BY <1>0, <1>2 DEF CallShape
<1>4. calls' = [calls EXCEPT ![c] = r]
  BY <1>1, <1>2
<1>5. DOMAIN calls' = DOMAIN calls /\ calls'[c] = r /\ \A n \in DOMAIN calls : n # c => calls'[n] = calls[n]
  BY <1>0, <1>4
<1>6. ASSUME NEW n \in DOMAIN calls PROVE Grows(n) /\ calls'[n].st = calls[n].st
  <2>1. calls[n].runs \in Nat /\ calls[n].puts \in Nat
    BY CallNumbers
  <2> QED BY <1>1, <1>3, <1>5, <2>1 DEF Grows
<1> QED BY <1>1, <1>3, <1>5, <1>6 DEF AllGrow

\* A block written: the file has it, and those it had but for what an overwrite takes.
LEMMA WrittenHas ==
  ASSUME KeptInv, NEW j \in jobs, j.at = "opened", file' = [file EXCEPT ![Path(j)] = Written(j)],
         NEW p \in Paths, p = Path(j), NEW c, c = j.call
  PROVE  /\ \A q \in Paths \ {p} : file'[q] = file[q]
         /\ file'[p] # Missing /\ c \in Blocks(p)'
         /\ Op(j) \notin Overwriting => Blocks(p) \subseteq Blocks(p)'
<1>0. Shapes /\ j.call \in DOMAIN calls /\ Path(j) \in Paths /\ JobOK(j)
  BY JobShape DEF KeptInv, GuestInv
<1>1. PICK s \in Seq(1..Len(calls)) : s = file[Path(j)]
  <2>1. file[Path(j)] # Missing
    BY <1>0 DEF JobOK
  <2> QED BY <1>0, <2>1 DEF Shapes
<1>2. c \in 1..Len(calls)
  BY <1>0, CallBounds
<1>5. PICK t : t = IF Op(j) \in Overwriting /\ s # <<>> THEN [s EXCEPT ![1] = c] ELSE Append(s, c)
  OBVIOUS
<1>6. file' = [file EXCEPT ![p] = t]
  BY <1>1, <1>5 DEF Written
<1>7. file'[p] = t /\ \A q \in Paths \ {p} : file'[q] = file[q]
  BY <1>0, <1>6 DEF Shapes
<1>8. /\ t \in Seq(1..Len(calls)) /\ \E i \in DOMAIN t : t[i] = c
      /\ Op(j) \notin Overwriting => \A i \in DOMAIN s : i \in DOMAIN t /\ t[i] = s[i]
  <2>1. CASE Op(j) \in Overwriting /\ s # <<>>
    <3>1. t \in Seq(1..Len(calls)) /\ 1 \in DOMAIN t /\ t[1] = c
      BY <1>2, <1>5, <2>1
    <3> QED BY <2>1, <3>1
  <2>2. CASE ~ (Op(j) \in Overwriting /\ s # <<>>)
    <3>1. t = Append(s, c)
      BY <1>5, <2>2
    <3>2. /\ t \in Seq(1..Len(calls)) /\ Len(s) + 1 \in DOMAIN t /\ t[Len(s) + 1] = c
          /\ \A i \in DOMAIN s : i \in DOMAIN t /\ t[i] = s[i]
      BY <1>2, <3>1
    <3> QED BY <3>2
  <2> QED BY <2>1, <2>2
<1>9. t # Missing /\ s # Missing
  <2>1. t \in Seq(Nat) /\ s \in Seq(Nat)
    BY <1>8
  <2> QED BY <2>1, GuestAssumption
<1>10. Blocks(p)' = {t[i] : i \in DOMAIN t} /\ Blocks(p) = {s[i] : i \in DOMAIN s}
  BY <1>1, <1>7, <1>9 DEF Blocks
<1>11. c \in Blocks(p)' /\ (Op(j) \notin Overwriting => Blocks(p) \subseteq Blocks(p)')
  BY <1>8, <1>10
<1> QED BY <1>7, <1>9, <1>11

LEMMA PutKept == ASSUME KeptInv, GuestInv', NEW j \in jobs, Put(j) PROVE KeptInv'
<1>0. /\ Shapes /\ Shapes' /\ j \in JobType /\ j.call \in DOMAIN calls /\ Path(j) \in Paths
      /\ Op(j) \in Changing /\ Pending(j) /\ j.at = "opened"
  BY JobShape DEF KeptInv, GuestInv, Put, JobOK, Pending
<1>1. PICK c \in DOMAIN calls, p \in Paths : c = j.call /\ p = Path(j)
  BY <1>0
<1>2. /\ AllGrow /\ DOMAIN calls' = DOMAIN calls /\ calls'[c].puts = calls[c].puts + 1
      /\ \A n \in DOMAIN calls : calls'[n].st = calls[n].st /\ (n # c => calls'[n] = calls[n])
  BY <1>0, <1>1, PutGrows DEF Put
<1>3. /\ \A q \in Paths \ {p} : file'[q] = file[q]
      /\ file'[p] # Missing /\ c \in Blocks(p)'
      /\ Op(j) \notin Overwriting => Blocks(p) \subseteq Blocks(p)'
  BY <1>0, <1>1, WrittenHas DEF Put
<1>4. Done(c)'
  <2>1. calls[c].puts \in Nat /\ calls'[c].path = p /\ c \in DOMAIN calls
    BY <1>0, <1>1, <1>2, CallNumbers DEF AllGrow, Grows, Path
  <2>2. calls'[c].puts >= 1
    BY <1>2, <2>1
  <2> QED BY <1>3, <2>1, <2>2 DEF Done
<1>5. ASSUME NEW m \in DOMAIN calls, Done(m), m # c PROVE Done(m)'
  <2>1. Overwritten(m) => Overwritten(m)'
    BY <1>0, <1>2, OverwrittenStays
  <2>2. PICK q \in Paths : q = calls[m].path
    BY <1>0, CallNumbers
  <2>3. ~ Overwritten(m) => m \in Blocks(q)'
    <3>1. CASE q # p
      BY <1>3, <1>5, <2>2, <3>1 DEF Done, Blocks
    <3>2. CASE q = p
      <4>1. Overwritten(m) \/ Op(j) \notin Overwriting
        BY <1>0, <1>1, <1>5, <2>2, <3>2, PendingOverwrites
      <4> QED BY <1>3, <1>5, <2>2, <3>2, <4>1 DEF Done
    <3> QED BY <3>1, <3>2
  <2>4. calls'[m] = calls[m]
    BY <1>2, <1>5
  <2> QED BY <1>5, <2>1, <2>2, <2>3, <2>4 DEF Done
<1>6. \A m \in DOMAIN calls : Done(m) => Done(m)'
  BY <1>4, <1>5
<1>7. ASSUME NEW i \in jobs', i \notin jobs PROVE i.call = c /\ i.at \in {"quiet", "prints", "done"}
  <2>1. \/ \E exit : i = [j EXCEPT !.at = "done", !.exit = exit, !.out = NoData]
        \/ \E at \in {"quiet", "prints"} : i = [j EXCEPT !.at = at]
    BY <1>7 DEF Put, Exit, Replace
  <2> QED BY <1>0, <1>1, <2>1 DEF JobType
<1>8. calls'[c].op = calls[c].op /\ calls[c].op \in Changing
  BY <1>0, <1>1, <1>2 DEF AllGrow, Grows, Op
<1>9. ASSUME NEW i \in jobs', i \notin jobs PROVE JobFact(i)' /\ ~ Pending(i)'
  BY <1>4, <1>7, <1>8, <1>9 DEF JobFact, Told, Op, Pending
<1>10. NoneReturns
  <2>1. ASSUME NEW i \in jobs, Pending(i)' PROVE Pending(i)
    BY <1>0, <1>2, <2>1, JobShape DEF Pending, Op, AllGrow, Grows
  <2> QED BY <1>9, <2>1 DEF NoneReturns
<1>11. \A i \in jobs' : JobFact(i)' \/ \E k \in jobs : /\ i.call = k.call /\ i.at = k.at
                                                       /\ i.exit = k.exit /\ i.out = k.out
  BY <1>9
<1>12. \A n \in DOMAIN calls :
           /\ calls'[n].puts >= 1 => calls[n].puts >= 1 \/ file'[calls[n].path] # Missing
           /\ calls'[n].st = "ok" => calls[n].st = "ok" \/ Told(n, calls[n].data)'
  BY <1>1, <1>2, <1>3 DEF Path
<1>13. \A q \in Paths : file[q] # Missing => file'[q] # Missing
  BY <1>3
<1> QED BY <1>2, <1>6, <1>10, <1>11, <1>12, <1>13, KeptStep

LEMMA JobKept == ASSUME KeptInv, GuestInv', NEW j \in jobs, Job(j) PROVE KeptInv'
BY ReadKept, LookKept, MakeDirectoryKept, OpenKept, PutKept, EndKept DEF Job

-----------------------------------------------------------------------------
(* The callers *)

\* No job changes but for the connection of its caller.
Alike == \A j \in jobs' : \E i \in jobs : j.call = i.call /\ j.at = i.at /\ j.exit = i.exit /\ j.out = i.out

LEMMA AlikeReturns == ASSUME Shapes, AllGrow, Alike PROVE NoneReturns
<1> SUFFICES ASSUME NEW j \in jobs', Pending(j)'
             PROVE  \E i \in jobs : i.call = j.call /\ Pending(i)
  BY DEF NoneReturns
<1>1. PICK i \in jobs : j.call = i.call /\ j.at = i.at
  BY DEF Alike
<1>2. Grows(i.call)
  BY JobShape DEF AllGrow
<1> QED BY <1>1, <1>2 DEF Grows, Pending, Op

LEMMA AbandonAlike == ASSUME Shapes, NEW a \in Callers, jobs' = Abandon(a) PROVE Alike
<1> SUFFICES ASSUME NEW j \in jobs'
             PROVE  \E i \in jobs : j.call = i.call /\ j.at = i.at /\ j.exit = i.exit /\ j.out = i.out
  BY DEF Alike
<1>1. PICK i \in jobs : j = i \/ j = [i EXCEPT !.via = "gone"]
  BY DEF Abandon, Awaiting
<1>2. i \in JobType
  BY JobShape
<1> QED BY <1>1, <1>2 DEF JobType

LEMMA CutAlike == ASSUME Shapes, NEW vias, Cut(vias) PROVE Alike
<1> SUFFICES ASSUME NEW j \in jobs'
             PROVE  \E i \in jobs : j.call = i.call /\ j.at = i.at /\ j.exit = i.exit /\ j.out = i.out
  BY DEF Alike
<1>1. PICK i \in jobs : j = i \/ j = [i EXCEPT !.via = "gone"]
  BY DEF Cut
<1>2. i \in JobType
  BY JobShape
<1> QED BY <1>1, <1>2 DEF JobType

\* Neither a file changes nor a call.
LEMMA QuietKept ==
  ASSUME KeptInv, GuestInv', calls' = calls, file' = file, Alike
  PROVE  KeptInv'
<1>1. Shapes /\ Shapes' /\ AllGrow
  BY SameCalls DEF KeptInv, GuestInv
<1>2. NoneReturns /\ \A m \in DOMAIN calls : Done(m) => Done(m)'
  BY <1>1, AlikeReturns, DoneSame
<1>3. \A p \in Paths : file[p] # Missing => file'[p] # Missing
  OBVIOUS
<1>4. \A j \in jobs' : JobFact(j)' \/ \E i \in jobs : /\ j.call = i.call /\ j.at = i.at
                                                      /\ j.exit = i.exit /\ j.out = i.out
  BY DEF Alike
<1>5. \A n \in DOMAIN calls :
           /\ calls'[n].puts >= 1 => calls[n].puts >= 1 \/ file'[calls[n].path] # Missing
           /\ calls'[n].st = "ok" => calls[n].st = "ok" \/ Told(n, calls[n].data)'
  OBVIOUS
<1> QED BY <1>1, <1>2, <1>3, <1>4, <1>5, KeptStep

\* The one more run of a call is counted.
LEMMA RunGrows ==
  ASSUME Shapes, NEW n \in DOMAIN calls, calls' = [calls EXCEPT ![n].runs = @ + 1]
  PROVE  /\ AllGrow /\ DOMAIN calls' = DOMAIN calls
         /\ \A m \in DOMAIN calls : calls'[m].st = calls[m].st /\ calls'[m].puts = calls[m].puts
<1>0. calls[n] \in CallShape /\ calls \in Seq(CallShape)
  BY DEF Shapes
<1>1. PICK k \in Nat : k = calls[n].runs + 1 /\ k >= calls[n].runs
  BY <1>0 DEF CallShape
<1>2. PICK r : r = [calls[n] EXCEPT !.runs = k]
  OBVIOUS
<1>3. /\ r.by = calls[n].by /\ r.op = calls[n].op /\ r.path = calls[n].path /\ r.before = calls[n].before
      /\ r.runs = k /\ r.puts = calls[n].puts /\ r.st = calls[n].st /\ r.data = calls[n].data
  BY <1>0, <1>2 DEF CallShape
<1>4. calls' = [calls EXCEPT ![n] = r]
  BY <1>1, <1>2
<1>5. DOMAIN calls' = DOMAIN calls /\ calls'[n] = r /\ \A m \in DOMAIN calls : m # n => calls'[m] = calls[m]
  BY <1>0, <1>4
<1>6. ASSUME NEW m \in DOMAIN calls PROVE Grows(m) /\ calls'[m].st = calls[m].st /\ calls'[m].puts = calls[m].puts
  <2>1. calls[m].runs \in Nat /\ calls[m].puts \in Nat
    BY CallNumbers
  <2> QED BY <1>1, <1>3, <1>5, <2>1 DEF Grows
<1> QED BY <1>5, <1>6 DEF AllGrow

\* A command is sent.
LEMMA StartsKept ==
  ASSUME KeptInv, GuestInv', NEW a \in Callers, pc[a].at # "idle", NEW via, NEW at, Starts(a, via, at)
  PROVE  KeptInv'
<1>0. Shapes /\ Shapes' /\ CallerOK(a) /\ file' = file
  BY DEF KeptInv, GuestInv, Starts
<1>1. PICK n \in DOMAIN calls : n = pc[a].call /\ calls[n].st = "open"
  BY <1>0 DEF CallerOK
<1>2. /\ AllGrow /\ DOMAIN calls' = DOMAIN calls
      /\ \A m \in DOMAIN calls : calls'[m].st = calls[m].st /\ calls'[m].puts = calls[m].puts
  <2>1. calls' = [calls EXCEPT ![n].runs = @ + 1]
    BY <1>1 DEF Starts
  <2> QED BY <1>0, <2>1, RunGrows
<1>3. ASSUME NEW j \in jobs', j \notin jobs PROVE j.call = n /\ j.at = "start"
  BY <1>1, <1>3 DEF Starts, NewJob
<1>4. NoneReturns
  <2>1. ASSUME NEW j \in jobs, Pending(j)' PROVE Pending(j)
    BY <1>0, <1>2, <2>1, JobShape DEF Pending, Op, AllGrow, Grows
  <2> QED BY <1>1, <1>3, <2>1 DEF NoneReturns
<1>5. \A m \in DOMAIN calls : Done(m) => Done(m)'
  BY <1>0, <1>2, DoneSame
<1>6. \A p \in Paths : file[p] # Missing => file'[p] # Missing
  BY <1>0
<1>7. \A j \in jobs' : JobFact(j)' \/ \E i \in jobs : /\ j.call = i.call /\ j.at = i.at
                                                      /\ j.exit = i.exit /\ j.out = i.out
  BY <1>3 DEF JobFact
<1>8. \A m \in DOMAIN calls :
           /\ calls'[m].puts >= 1 => calls[m].puts >= 1 \/ file'[calls[m].path] # Missing
           /\ calls'[m].st = "ok" => calls[m].st = "ok" \/ Told(m, calls[m].data)'
  BY <1>2
<1> QED BY <1>2, <1>4, <1>5, <1>6, <1>7, <1>8, KeptStep

\* The one answer of a call.
LEMMA AnswerGrows ==
  ASSUME Shapes, NEW n \in DOMAIN calls, calls[n].st = "open", NEW st, NEW out, Answered(n, st, out)
  PROVE  /\ AllGrow /\ DOMAIN calls' = DOMAIN calls
         /\ \A m \in DOMAIN calls : calls'[m].puts = calls[m].puts /\ (m # n => calls'[m].st = calls[m].st)
         /\ calls'[n].st = st /\ calls'[n].data = out
<1>0. calls[n] \in CallShape /\ calls \in Seq(CallShape)
  BY DEF Shapes
<1>1. PICK r : r = [calls[n] EXCEPT !.st = st, !.data = out]
  OBVIOUS
<1>2. /\ r.by = calls[n].by /\ r.op = calls[n].op /\ r.path = calls[n].path /\ r.before = calls[n].before
      /\ r.runs = calls[n].runs /\ r.puts = calls[n].puts /\ r.st = st /\ r.data = out
  BY <1>0, <1>1 DEF CallShape
<1>3. calls' = [calls EXCEPT ![n] = r]
  BY <1>0, <1>1 DEF Answered
<1>4. DOMAIN calls' = DOMAIN calls /\ calls'[n] = r /\ \A m \in DOMAIN calls : m # n => calls'[m] = calls[m]
  BY <1>0, <1>3
<1>5. ASSUME NEW m \in DOMAIN calls PROVE Grows(m) /\ calls'[m].puts = calls[m].puts
  <2>1. calls[m].runs \in Nat /\ calls[m].puts \in Nat
    BY CallNumbers
  <2> QED BY <1>2, <1>4, <2>1 DEF Grows
<1> QED BY <1>2, <1>4, <1>5 DEF AllGrow

LEMMA AnswerKept ==
  ASSUME KeptInv, GuestInv', NEW a \in Callers, pc[a].at # "idle", NEW exit, NEW out,
         Answer(a, exit, out), exit = "0" => Told(pc[a].call, out)
  PROVE  KeptInv'
<1>0. Shapes /\ Shapes' /\ CallerOK(a) /\ file' = file /\ Alike
  BY AbandonAlike DEF KeptInv, GuestInv, Answer
<1>1. CASE ListsAgain(a, exit, out)
  BY <1>0, <1>1, QuietKept DEF Answer
<1>2. CASE ~ ListsAgain(a, exit, out)
  <2>1. PICK n \in DOMAIN calls : n = pc[a].call /\ calls[n].st = "open"
    BY <1>0 DEF CallerOK
  <2>2. PICK st : st = Outcome(a, exit, out)
    OBVIOUS
  <2>3. Answered(n, st, out)
    BY <1>2, <2>1, <2>2 DEF Answer, Answered
  <2>4. /\ AllGrow /\ DOMAIN calls' = DOMAIN calls
        /\ \A m \in DOMAIN calls : calls'[m].puts = calls[m].puts /\ (m # n => calls'[m].st = calls[m].st)
        /\ calls'[n].st = st /\ calls'[n].data = out
    BY <1>0, <2>1, <2>3, AnswerGrows
  <2>5. st = "ok" => exit = "0"
    BY <2>2 DEF Outcome
  <2>6. NoneReturns /\ \A m \in DOMAIN calls : Done(m) => Done(m)'
    BY <1>0, <2>4, AlikeReturns, DoneSame
  <2>7. exit = "0" => Told(n, out)'
    BY <1>0, <2>1, <2>4, <2>6, ToldStays
  <2>8. ASSUME NEW m \in DOMAIN calls
        PROVE  /\ calls'[m].puts >= 1 => calls[m].puts >= 1 \/ file'[calls[m].path] # Missing
               /\ calls'[m].st = "ok" => calls[m].st = "ok" \/ Told(m, calls[m].data)'
    <3>1. CASE m # n
      BY <2>4, <3>1
    <3>2. CASE m = n
      <4>1. calls'[n].st = "ok" => Told(n, calls[n].data)'
        BY <2>4, <2>5, <2>7 DEF Told, Sees
      <4> QED BY <2>4, <3>2, <4>1
    <3> QED BY <3>1, <3>2
  <2>9. \A p \in Paths : file[p] # Missing => file'[p] # Missing
    BY <1>0
  <2>10. \A j \in jobs' : JobFact(j)' \/ \E i \in jobs : /\ j.call = i.call /\ j.at = i.at
                                                         /\ j.exit = i.exit /\ j.out = i.out
    BY <1>0 DEF Alike
  <2> QED BY <2>4, <2>6, <2>8, <2>9, <2>10, KeptStep
<1> QED BY <1>1, <1>2

LEMMA CallStepKept == ASSUME KeptInv, GuestInv', NEW a \in Callers, CallStep(a) PROVE KeptInv'
<1>0. Shapes
  BY DEF KeptInv, GuestInv
<1>1. CASE Send(a) \/ Ssh(a)
  <2>1. pc[a].at # "idle" /\ \E via, at : Starts(a, via, at)
    BY <1>1 DEF Send, Ssh
  <2> QED BY <2>1, StartsKept
<1>2. CASE ReadFails(a) \/ TimesOut(a) \/ (Resolve(a) /\ Goes(a, "ssh"))
  <2>1. calls' = calls /\ file' = file /\ jobs' = Abandon(a)
    BY <1>2 DEF ReadFails, TimesOut, Goes
  <2> QED BY <1>0, <2>1, AbandonAlike, QuietKept
<1>3. CASE SendFails(a) \/ ReadsAll(a)
  <2>1. calls' = calls /\ file' = file /\ Alike
    BY <1>3 DEF SendFails, ReadsAll, Alike
  <2> QED BY <2>1, QuietKept
<1>4. CASE ExitStatus(a) \/ NoExitStatus(a) \/ SshFails(a) \/ SshEnds(a) \/ SshTimesOut(a)
           \/ (Resolve(a) /\ Answer(a, "none", NoData))
  <2>1. pc[a].at # "idle"
    BY <1>4 DEF ExitStatus, NoExitStatus, SshFails, SshEnds, SshTimesOut, Resolve
  <2>2. \/ \E j \in Awaiting(a) : j.at = "done" /\ Answer(a, j.exit, j.out)
        \/ \E out : Answer(a, "-1", out) \/ Answer(a, "255", out) \/ Answer(a, "none", out)
    BY <1>4 DEF ExitStatus, NoExitStatus, SshFails, SshEnds, SshTimesOut
  <2>3. CASE \E j \in Awaiting(a) : j.at = "done" /\ Answer(a, j.exit, j.out)
    <3>1. PICK j \in Awaiting(a) : j.at = "done" /\ Answer(a, j.exit, j.out)
      BY <2>3
    <3>2. j \in jobs /\ j.call = pc[a].call
      BY <3>1 DEF Awaiting
    <3>3. j.exit = "0" => Told(pc[a].call, j.out)
      BY <3>1, <3>2 DEF KeptInv, JobFact
    <3> QED BY <2>1, <3>1, <3>3, AnswerKept
  <2>4. CASE \E out : Answer(a, "-1", out) \/ Answer(a, "255", out) \/ Answer(a, "none", out)
    <3>1. PICK exit \in {"-1", "255", "none"} : \E out : Answer(a, exit, out)
      BY <2>4
    <3>2. PICK out : Answer(a, exit, out)
      BY <3>1
    <3>3. exit # "0"
      OBVIOUS
    <3> QED BY <2>1, <3>2, <3>3, AnswerKept
  <2> QED BY <2>2, <2>3, <2>4
<1> QED BY <1>1, <1>2, <1>3, <1>4 DEF CallStep, Resolve

\* A call that begins, or is answered without a command, finds the settled calls over.
LEMMA CallKept ==
  ASSUME KeptInv, GuestInv', NEW a \in Callers, NEW op \in Operations, NEW p \in Paths,
         Call(a, op, p) \/ AnswerAlone(a, op, p)
  PROVE  KeptInv'
<1>0. /\ Shapes /\ Shapes' /\ file' = file /\ jobs' = jobs /\ Len(calls) \in Nat /\ Len(calls) < MaxCalls
      /\ DOMAIN calls = 1..Len(calls)
  BY CallBounds DEF KeptInv, GuestInv, Call, AnswerAlone, MayCall
<1>1. PICK st \in {"open", "unsent"} : Record(a, op, p, st)
  BY DEF Call, AnswerAlone
<1>2. PICK n : n = Len(calls) + 1
  OBVIOUS
<1>3. PICK settled : settled = Settled
  OBVIOUS
<1>4. PICK r : r = [by |-> a, op |-> op, path |-> p, st |-> st, data |-> NoData,
                    runs |-> 0, puts |-> 0, before |-> settled]
  OBVIOUS
<1>5. calls' = Append(calls, r)
  BY <1>1, <1>3, <1>4 DEF Record
<1>6. /\ \A m \in DOMAIN calls : m \in DOMAIN calls' /\ calls'[m] = calls[m]
      /\ DOMAIN calls' = DOMAIN calls \cup {n} /\ calls'[n] = r
  <2>1. calls \in Seq(CallShape) /\ r \in CallShape
    <3>1. settled \subseteq 1..MaxCalls
      BY <1>3, CallBounds, <1>0 DEF Settled
    <3> QED BY <1>0, <1>4, <3>1, DataTypes DEF CallShape, Shapes
  <2> QED BY <1>0, <1>2, <1>5, <2>1
<1>7. AllGrow
  BY <1>0, <1>6, CallNumbers DEF AllGrow, Grows
<1>8. NoneReturns
  BY <1>0, <1>6, JobShape DEF NoneReturns, Pending, Op
<1>9. \A m \in DOMAIN calls : Done(m) => Done(m)'
  BY <1>0, <1>7, DoneSame
<1>10. ASSUME NEW m \in DOMAIN calls' \ DOMAIN calls PROVE CallFact(m)'
  <2>1. m = n /\ calls'[m].puts = 0 /\ calls'[m].st # "ok" /\ calls'[m].before = settled
    BY <1>4, <1>6
  <2>2. ASSUME NEW w \in settled PROVE Over(w)'
    <3>1. Over(w)
      BY <1>3 DEF Settled, Over
    <3> QED BY <1>7, <1>8, <3>1, OverStays
  <2> QED BY <2>1, <2>2 DEF CallFact
<1>11. \A q \in Paths : file[q] # Missing => file'[q] # Missing
  BY <1>0
<1>12. \A j \in jobs' : JobFact(j)' \/ \E i \in jobs : /\ j.call = i.call /\ j.at = i.at
                                                       /\ j.exit = i.exit /\ j.out = i.out
  BY <1>0
<1>13. \A m \in DOMAIN calls :
           /\ calls'[m].puts >= 1 => calls[m].puts >= 1 \/ file'[calls[m].path] # Missing
           /\ calls'[m].st = "ok" => calls[m].st = "ok" \/ Told(m, calls[m].data)'
  BY <1>6
<1> QED BY <1>7, <1>8, <1>9, <1>10, <1>11, <1>12, <1>13, KeptStep

\* The handle is closed, the VM stops or boots, the network breaks.
LEMMA FaultKept == ASSUME KeptInv, GuestInv', Close \/ Stop \/ Boot \/ Disconnect PROVE KeptInv'
<1>1. calls' = calls /\ file' = file
  BY DEF Close, Stop, Boot, Disconnect
<1>2. Alike
  <2>1. CASE Close \/ Disconnect
    <3>1. \E vias : Cut(vias)
      BY <2>1 DEF Close, Disconnect
    <3> QED BY <3>1, CutAlike DEF KeptInv, GuestInv
  <2>2. CASE Stop \/ Boot
    BY <2>2 DEF Stop, Boot, Alike
  <2> QED BY <2>1, <2>2
<1> QED BY <1>1, <1>2, QuietKept

-----------------------------------------------------------------------------
(* The theorems *)

LEMMA KeptInit == Init => KeptInv
<1> SUFFICES ASSUME Init PROVE KeptInv
  OBVIOUS
<1>1. jobs = {} /\ calls = <<>> /\ DOMAIN calls = {}
  BY DEF Init
<1> QED BY <1>1, GuestInit DEF KeptInv

LEMMA KeptNext == KeptInv /\ [Next]_vars => KeptInv'
<1> SUFFICES ASSUME KeptInv, [Next]_vars PROVE KeptInv'
  OBVIOUS
<1>1. GuestInv'
  BY GuestNext DEF KeptInv
<1>2. CASE UNCHANGED vars
  BY <1>1, <1>2, QuietKept DEF vars, Alike
<1>3. CASE Next
  BY <1>1, <1>3, CallKept, CallStepKept, JobKept, FaultKept DEF Next
<1> QED BY <1>2, <1>3

LEMMA KeptInvariant == Spec => []KeptInv
BY KeptInit, KeptNext, PTL DEF Spec

\* An acknowledged change is in its file, unless an overwrite came with it or after it.
THEOREM AcknowledgedStays == Spec => []AcknowledgedIsKept
<1>1. KeptInv => AcknowledgedIsKept
  BY DEF KeptInv, CallFact, Acknowledged, Told, Done, AcknowledgedIsKept
<1> QED BY <1>1, KeptInvariant, PTL

\* A read shows what had been acknowledged, and had ended in the guest, before it
\* began.
THEOREM ReadsSee == Spec => []ReadsSeeAcknowledged
<1>1. KeptInv => ReadsSeeAcknowledged
  <2> SUFFICES ASSUME KeptInv, NEW r \in DOMAIN calls, NEW n \in calls[r].before,
                      calls[r].st = "ok", Acknowledged(n), calls[r].op \in Reading, calls[r].path = calls[n].path
               PROVE  n \in BlocksOf(r) \/ Overwritten(n)
    BY DEF ReadsSeeAcknowledged
  <2>1. calls[r].op \notin Changing
    BY DEF Reading, Changing, Overwriting, Appending
  <2>2. Told(r, calls[r].data)
    BY DEF KeptInv, CallFact
  <2>3. BlocksOf(r) = calls[r].data
    BY <2>1, <2>2 DEF Told, BlocksOf
  <2> QED BY <2>1, <2>2, <2>3 DEF Told, Sees
<1> QED BY <1>1, KeptInvariant, PTL
=============================================================================
