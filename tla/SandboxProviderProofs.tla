----------------------- MODULE SandboxProviderProofs -----------------------
(***************************************************************************)
(* The provider keeps its types, and a pool VM has one user at a time      *)
(* until it is appended a second time; mappings survive until their        *)
(* release and not longer; without faults no running pool VM that has an   *)
(* address is lost.  For any number of threads, pool VMs, calls, warm-ups, *)
(* faults and restarts.                                                    *)
(***************************************************************************)
EXTENDS SandboxProvider, TLAPS

LEMMA LoadedType ==
  ASSUME file \in Mapping \cup {Torn}
  PROVE  Loaded \in Mapping
BY SandboxAssumption DEF Loaded, Mapping, NoMapping

LEMMA ResolveType ==
  ASSUME TypeOK, NEW t \in Threads
  PROVE  Resolve(t) \in Runtimes
BY LoadedType, SandboxAssumption DEF Resolve, Mapping, TypeOK

LEMMA EmptyPool == <<>> \in Seq(PoolNames)
OBVIOUS

LEMMA PoolVMsRange ==
  /\ Len(PoolVMs) \in Nat /\ DOMAIN PoolVMs = 1..Len(PoolVMs)
  /\ \A i \in 1..Len(PoolVMs) : PoolVMs[i] \in PoolNames /\ PoolVMs[i] \in Runtimes
BY SandboxAssumption DEF PoolNames

LEMMA NoMappingType == NoMapping \in Mapping
BY DEF NoMapping, Mapping

LEMMA InitType == Init => TypeOK
<1> SUFFICES ASSUME Init PROVE TypeOK
  OBVIOUS
<1>1. pooled \in [Threads -> BOOLEAN] /\ upRan \in [Threads -> BOOLEAN] /\ wup \in BOOLEAN
  BY DEF Init
<1>2. wnext \in 0..Len(PoolVMs)
  BY PoolVMsRange DEF Init
<1>3. pool \in Seq(PoolNames)
  BY EmptyPool DEF Init
<1>4. vm \in [Runtimes -> {"stopped", "booting", "reachable"}] /\ held \in [Threads -> SUBSET Runtimes]
  BY DEF Init
<1> QED BY <1>1, <1>2, <1>3, <1>4, NoMappingType DEF Init, TypeOK, Concerned, Labels

\* Taking from the pool leaves a sequence of pool VMs and a pool VM.
LEMMA PopPool ==
  ASSUME pool \in Seq(PoolNames), pool # <<>>
  PROVE  Head(pool) \in PoolNames /\ Tail(pool) \in Seq(PoolNames) /\ Head(pool) \in Runtimes
<1>1. Head(pool) \in PoolNames /\ Tail(pool) \in Seq(PoolNames)
  OBVIOUS
<1> QED BY <1>1, SandboxAssumption DEF PoolNames

\* What acquire returns is a runtime.
LEMMA ReturnType ==
  ASSUME TypeOK, NEW t \in Threads, Return(t), Concerned(t)
  PROVE  /\ held' \in [Threads -> SUBSET Runtimes]
         /\ pc' \in [Threads -> Labels] /\ pc'[t] = "idle"
         /\ lock' = None
BY DEF Return, TypeOK, Labels

\* The parts of TypeOK by the variables a group of actions writes.
LEMMA TypeStep == TypeOK /\ [Next]_vars => TypeOK'
<1> SUFFICES ASSUME TypeOK, [Next]_vars PROVE TypeOK'
  OBVIOUS
<1> USE SandboxAssumption
<1> USE DEF TypeOK, Concerned, Mapping, Labels
<1>1. CASE UNCHANGED vars
  BY <1>1 DEF vars, registry, callState, warming, bounds
<1>2. ASSUME NEW t \in Threads, Call(t) PROVE TypeOK'
  <2>1. CASE CallAcquire(t)
    BY <2>1, SMTT(30) DEF CallAcquire, Goto, registry, warming
  <2>2. CASE Get(t)
    BY <2>2, SMTT(30) DEF Get, callState, registry, warming, bounds
  <2>3. CASE CallRelease(t)
    BY <2>3, SMTT(30) DEF CallRelease, Goto, registry, warming
  <2>4. CASE CallShutdown(t)
    BY <2>4, SMTT(30) DEF CallShutdown, Goto, registry, warming
  <2> QED BY <1>2, <2>1, <2>2, <2>3, <2>4 DEF Call
<1>3. ASSUME NEW t \in Threads, Step(t) PROVE TypeOK'
  <2>1. CASE AcquireFromPool(t)
    <3>1. CASE pool # <<>>
      <4>1. pooled' \in [Threads -> BOOLEAN] /\ upRan' \in [Threads -> BOOLEAN]
        BY <2>1 DEF AcquireFromPool
      <4>2. pool' \in Seq(PoolNames) /\ cur' = [cur EXCEPT ![t] = Head(pool)]
        BY <2>1, <3>1, PopPool DEF AcquireFromPool
      <4>3. Head(pool) \in Runtimes
        BY <3>1, PopPool
      <4>4. /\ lock' = t /\ lock = None /\ pc[t] = "acquire"
            /\ pc' = [pc EXCEPT ![t] = "poolCheck"]
            /\ UNCHANGED <<vm, registry, held, handles, warming, bounds>>
        BY <2>1, <3>1 DEF AcquireFromPool, Goto
      <4>5. cur' \in [Threads -> Runtimes \cup {None}] /\ cur'[t] \in Runtimes
        BY <4>2, <4>3
      <4>6. \A u \in Threads : u # t => cur'[u] = cur[u] /\ pc'[u] = pc[u]
        BY <4>2, <4>4
      <4> QED BY <4>1, <4>2, <4>4, <4>5, <4>6, SMTT(30) DEF registry, warming, bounds
    <3>2. CASE pool = <<>>
      BY <2>1, <3>2, ResolveType, SMTT(30) DEF AcquireFromPool, Goto, registry, warming, bounds
    <3> QED BY <3>1, <3>2
  <2>2. CASE PoolVMRuns(t)
    <3>1. CASE t = Anonymous
      <4>1. Return(t) /\ Concerned(t)
        BY <2>2, <3>1 DEF PoolVMRuns
      <4> QED BY <2>2, <4>1, ReturnType, SMTT(30) DEF PoolVMRuns, Return, StatusOk, registry, warming
    <3>2. CASE t # Anonymous
      <4>1. /\ pc[t] = "poolCheck" /\ pc' = [pc EXCEPT ![t] = "record"]
            /\ UNCHANGED <<vm, file, mem, promised, pool, lock, cur, pooled, upRan, held,
                           handles, wnext, wup, offered, again, calls, warms, faults, boots>>
        BY <2>2, <3>2 DEF PoolVMRuns, Goto, StatusOk, registry, warming
      <4> QED BY <4>1, SMTT(30)
    <3> QED BY <3>1, <3>2
  <2>3. CASE PoolVMDiscarded(t)
    BY <2>3, ResolveType, SMTT(30) DEF PoolVMDiscarded, Goto, StatusFails, TimesOut, registry, warming
  <2>4. CASE AcquireStatus(t)
    <3>1. faults' \in Nat
      BY <2>4 DEF AcquireStatus, StatusOk, StatusFails, TimesOut
    <3>2. PICK l \in {"wait", "record", "up"} : Goto(t, l)
      BY <2>4 DEF AcquireStatus, AfterStart
    <3> QED BY <2>4, <3>1, <3>2, SMTT(30) DEF AcquireStatus, Goto, registry, warming
  <2>5. CASE AcquireUp(t)
    <3>1. pc[t] = "up" /\ cur[t] \in Runtimes
      BY <2>5 DEF AcquireUp
    <3>2. upRan' \in [Threads -> BOOLEAN]
      BY <2>5 DEF AcquireUp
    <3>3. faults' \in Nat
      BY <2>5 DEF AcquireUp, UpOk, UpFails, TimesOut
    <3>4. vm' \in [Runtimes -> {"stopped", "booting", "reachable"}]
      BY <2>5, <3>1 DEF AcquireUp, UpOk, UpFails
    <3>5. CASE UpOk(cur[t]) /\ Goto(t, AfterStart(t)) /\ UNCHANGED <<lock, held>>
      <4>1. PICK l \in {"wait", "record"} : Goto(t, l)
        BY <3>5 DEF AfterStart
      <4> HIDE DEF Concerned
      <4>2. /\ pc' = [pc EXCEPT ![t] = l]
            /\ UNCHANGED <<lock, held, file, mem, promised, pool, cur, pooled, handles, wnext, wup, offered, again>>
            /\ UNCHANGED <<calls, warms, boots>>
        BY <2>5, <3>5, <4>1 DEF AcquireUp, Goto, registry, warming
      <4>3. \A u \in Threads : pc'[u] \notin {"idle", "acquire", "release", "shutdown"} => lock' = u
        BY <3>1, <4>2
      <4>4. \A u \in Threads : Concerned(u)' => cur'[u] \in Runtimes
        BY <3>1, <4>2 DEF Concerned
      <4> QED BY <3>2, <3>3, <3>4, <4>2, <4>3, <4>4
    <3>6. CASE Raise(t)
      <4> HIDE DEF Concerned
      <4>1. /\ pc' = [pc EXCEPT ![t] = "idle"] /\ lock' = None
            /\ UNCHANGED <<held, file, mem, promised, pool, cur, pooled, handles, wnext, wup, offered, again>>
            /\ UNCHANGED <<calls, warms, boots>>
        BY <2>5, <3>6 DEF AcquireUp, Raise, registry, warming
      <4>2. \A u \in Threads : pc'[u] \notin {"idle", "acquire", "release", "shutdown"} => lock' = u
        BY <3>1, <4>1
      <4>3. \A u \in Threads : Concerned(u)' => cur'[u] \in Runtimes
        BY <3>1, <4>1 DEF Concerned
      <4> QED BY <3>2, <3>3, <3>4, <4>1, <4>2, <4>3
    <3> QED BY <2>5, <3>5, <3>6, SMTT(30) DEF AcquireUp
  <2>6. CASE RecordBegin(t)
    BY <2>6, LoadedType, SMTT(30) DEF RecordBegin, Goto, warming, bounds
  <2>7. CASE RecordEnd(t)
    <3>1. CASE pooled[t]
      <4>1. Return(t) /\ Concerned(t)
        BY <2>7, <3>1 DEF RecordEnd
      <4> QED BY <2>7, <4>1, ReturnType, SMTT(30) DEF RecordEnd, Return, warming, bounds
    <3>2. CASE ~pooled[t]
      BY <2>7, <3>2, SMTT(30) DEF RecordEnd, Goto, warming, bounds
    <3> QED BY <3>1, <3>2
  <2>8. CASE WaitForSsh(t)
    <3>1. faults' \in Nat
      BY <2>8 DEF WaitForSsh, StatusOk, StatusFails, TimesOut
    <3>2. CASE Return(t)
      BY <2>8, <3>1, <3>2, ReturnType, SMTT(30) DEF WaitForSsh, Return, registry, warming
    <3>3. CASE Raise(t)
      BY <2>8, <3>1, <3>3, SMTT(30) DEF WaitForSsh, Raise, registry, warming
    <3> QED BY <2>8, <3>2, <3>3, SMTT(30) DEF WaitForSsh
  <2>9. CASE ReleaseHandle(t)
    BY <2>9, SMTT(30) DEF ReleaseHandle, Goto, registry, warming, bounds
  <2>10. CASE ReleaseStop(t)
    BY <2>10, SMTT(30) DEF ReleaseStop, Goto, StopVM, TimesOut, registry, warming
  <2>11. CASE RemoveBegin(t)
    BY <2>11, LoadedType, SMTT(30) DEF RemoveBegin, Goto, warming, bounds
  <2>12. CASE RemoveEnd(t)
    BY <2>12, SMTT(30) DEF RemoveEnd, Goto, warming, bounds
  <2>13. CASE ReleaseDone(t)
    BY <2>13, LoadedType, SMTT(30) DEF ReleaseDone, Raise, warming, bounds
  <2>14. CASE Shutdown(t)
    <3>1. CASE handles = {}
      BY <2>14, <3>1, SMTT(30) DEF Shutdown, Raise, registry, warming, bounds
    <3>2. CASE handles # {}
      <4>1. pc' = [pc EXCEPT ![t] = "selflock"] /\ lock' = t /\ UNCHANGED <<cur, held>>
        BY <2>14, <3>2 DEF Shutdown, Goto
      <4> QED BY <2>14, <4>1, SMTT(30) DEF Shutdown, registry, warming, bounds
    <3> QED BY <3>1, <3>2
  <2> QED BY <1>3, <2>1, <2>2, <2>3, <2>4, <2>5, <2>6, <2>7, <2>8, <2>9, <2>10, <2>11, <2>12,
             <2>13, <2>14 DEF Step
<1>4. CASE Warm
  <2>0. offered' \subseteq PoolNames /\ again' \subseteq offered'
    BY <1>4, PoolVMsRange DEF Warm, WarmBegin, WarmUp, WarmAppend
  <2>1. CASE WarmBegin
    <3>1. wup' \in BOOLEAN
      BY <2>1 DEF WarmBegin
    <3>2. wnext' \in 0..Len(PoolVMs) /\ warms' \in Nat
      BY <2>1, PoolVMsRange DEF WarmBegin
    <3> QED BY <2>0, <2>1, <3>1, <3>2, SMTT(30) DEF WarmBegin, callState, registry
  <2>2. CASE WarmUp
    <3>0. wup' \in BOOLEAN
      BY <2>2 DEF WarmUp
    <3>1. wnext' \in 0..Len(PoolVMs)
      BY <2>2, PoolVMsRange DEF WarmUp, WarmNext
    <3>2. faults' \in Nat /\ vm' \in [Runtimes -> {"stopped", "booting", "reachable"}]
      BY <2>2 DEF WarmUp, UpOk, UpFails, TimesOut
    <3> QED BY <2>0, <2>2, <3>0, <3>1, <3>2, SMTT(30) DEF WarmUp, callState, registry
  <2>3. CASE WarmAppend
    <3>0. wup' \in BOOLEAN
      BY <2>3 DEF WarmAppend
    <3>1. wnext' \in 0..Len(PoolVMs)
      BY <2>3, PoolVMsRange DEF WarmAppend, WarmNext
    <3>2. pool' \in Seq(PoolNames)
      BY <2>3, PoolVMsRange DEF WarmAppend
    <3> QED BY <2>0, <2>3, <3>0, <3>1, <3>2, SMTT(30) DEF WarmAppend, callState, registry, bounds
  <2> QED BY <1>4, <2>1, <2>2, <2>3 DEF Warm
<1>5. CASE Environment
  <2>1. CASE Restart
    <3>1. /\ pooled' \in [Threads -> BOOLEAN] /\ upRan' \in [Threads -> BOOLEAN]
          /\ wup' \in BOOLEAN
      BY <2>1 DEF Restart
    <3>2. wnext' \in 0..Len(PoolVMs) /\ pool' \in Seq(PoolNames) /\ mem' \in Mapping
      BY <2>1, PoolVMsRange, EmptyPool, NoMappingType DEF Restart
    <3>3. held' \in [Threads -> SUBSET Runtimes]
      BY <2>1 DEF Restart
    <3>4. promised' \in Mapping
      BY <2>1, NoMappingType DEF Restart
    <3> QED BY <2>1, <3>1, <3>2, <3>3, <3>4, SMTT(30) DEF Restart
  <2>2. ASSUME NEW r \in Runtimes, GuestBoots(r) PROVE TypeOK'
    BY <2>2, SMTT(30) DEF GuestBoots, callState, registry, warming, bounds
  <2>3. ASSUME NEW r \in Runtimes, StoppedOutside(r) PROVE TypeOK'
    BY <2>3, SMTT(30) DEF StoppedOutside, TimesOut, callState, registry, warming
  <2> QED BY <1>5, <2>1, <2>2, <2>3 DEF Environment
<1> QED BY <1>1, <1>2, <1>3, <1>4, <1>5 DEF Next

\* Every variable keeps its type, and a thread past its first step holds the provider's lock.
THEOREM ProviderTypes == Spec => []TypeOK
BY InitType, TypeStep, PTL DEF Spec

-----------------------------------------------------------------------------
(* PoolExclusive.  Every action but the pop and the append leaves each       *)
(* thread at most the pool VMs it used before: PoolInv then follows from     *)
(* lemma Shrink.                                                             *)

\* Only the thread that holds the provider's lock writes the registry.
LEMMA OnlyHolderWrites ==
  ASSUME TypeOK, NEW t \in Threads, NEW u \in Threads, lock = t, Writing(u)
  PROVE  u = t
BY SandboxAssumption DEF TypeOK, Writing

\* get sends a thread to a pool VM only if the registry maps it there.
LEMMA ResolvePool ==
  ASSUME NEW t \in Threads, Resolve(t) \in PoolNames
  PROVE  Resolve(t) = Loaded[t]
BY SandboxAssumption DEF Resolve, PoolNames

\* No thread comes by a pool VM, and nothing enters the pool.
Shrinks ==
  /\ pool' \in {pool, <<>>}
  /\ UNCHANGED <<offered, again>>
  /\ \A u \in Threads : Uses(u)' \subseteq Uses(u)

LEMMA Shrink ==
  ASSUME PoolInv, TypeOK', Shrinks
  PROVE  PoolInv'
<1> USE DEF Shrinks, PoolInv
<1>1. \A i \in DOMAIN pool' : i \in DOMAIN pool /\ pool'[i] = pool[i]
  OBVIOUS
<1>2. PoolExclusive'
  BY <1>1 DEF PoolExclusive
<1>3. ASSUME NEW r \in PoolNames \ offered'
      PROVE  /\ \A i \in DOMAIN pool' : pool'[i] # r
             /\ \A t \in Threads : r \notin Uses(t)'
  BY <1>1, <1>3
<1>4. PoolNames' = PoolNames
  BY DEF PoolNames
<1> QED BY <1>2, <1>3, <1>4

\* A step of t that leaves the registry alone and whose claims grow by what the registry
\* told it, if at all.
LEMMA SameRegistry ==
  ASSUME UNCHANGED <<file, mem>>,
         \A u \in Threads : Writing(u)' <=> Writing(u),
         \A u \in Threads : Claims(u)' \subseteq Claims(u) \cup {Loaded[u]} \cup (Runtimes \ PoolNames)
  PROVE  \A u \in Threads : Uses(u)' \subseteq Uses(u)
<1>1. Loaded' = Loaded
  BY DEF Loaded, NoMapping
<1>2. \A u \in Threads : SentTo(u)' = SentTo(u)
  BY <1>1 DEF SentTo
<1> QED BY <1>1, <1>2 DEF Uses, SentTo, PoolNames

\* A call that begins, and get, claim nothing new.
LEMMA CallShrinks ==
  ASSUME PoolInv, TypeOK', NEW t \in Threads, Call(t)
  PROVE  Shrinks
<1> USE DEF PoolInv, TypeOK
<1>1. \A u \in Threads : (Writing(u)' <=> Writing(u)) /\ Claims(u)' \subseteq Claims(u)
  <2>1. CASE CallAcquire(t)
    BY <2>1 DEF CallAcquire, Goto, Writing, Claims, Concerned
  <2>2. CASE Get(t)
    BY <2>2 DEF Get, callState, Writing, Claims, Concerned
  <2>3. CASE CallRelease(t)
    BY <2>3 DEF CallRelease, Goto, Writing, Claims, Concerned
  <2>4. CASE CallShutdown(t)
    BY <2>4 DEF CallShutdown, Goto, Writing, Claims, Concerned
  <2> QED BY <2>1, <2>2, <2>3, <2>4 DEF Call
<1>2. UNCHANGED <<file, mem, pool, warming>>
  BY DEF Call, CallAcquire, Get, CallRelease, CallShutdown, registry, bounds
<1>3. \A u \in Threads : Uses(u)' \subseteq Uses(u)
  BY <1>1, <1>2, SameRegistry
<1> QED BY <1>2, <1>3 DEF Shrinks, warming

\* The steps of acquire and release between the pop and the registry.
QuietStep(t) ==
  \/ AcquireFromPool(t) /\ pool = <<>>
  \/ PoolVMRuns(t) \/ PoolVMDiscarded(t) \/ AcquireStatus(t) \/ AcquireUp(t) \/ WaitForSsh(t)
  \/ ReleaseHandle(t) \/ ReleaseStop(t) \/ Shutdown(t)

LEMMA QuietShrinks ==
  ASSUME PoolInv, TypeOK', NEW t \in Threads, QuietStep(t)
  PROVE  Shrinks
<1> USE DEF PoolInv, TypeOK
<1>0. Resolve(t) \in {Loaded[t]} \cup (Runtimes \ PoolNames)
  BY ResolvePool, ResolveType
<1>1. \A u \in Threads : /\ Writing(u)' <=> Writing(u)
                         /\ Claims(u)' \subseteq Claims(u) \cup {Loaded[u]} \cup (Runtimes \ PoolNames)
  <2>1. CASE AcquireFromPool(t) /\ pool = <<>>
    BY <1>0, <2>1 DEF AcquireFromPool, Goto, Writing, Claims, Concerned
  <2>2. CASE PoolVMRuns(t)
    BY <2>2 DEF PoolVMRuns, Return, Goto, Writing, Claims, Concerned
  <2>3. CASE PoolVMDiscarded(t)
    BY <1>0, <2>3 DEF PoolVMDiscarded, Goto, Writing, Claims, Concerned
  <2>4. CASE AcquireStatus(t)
    <3>1. PICK l \in {"wait", "record", "up"} : Goto(t, l)
      BY <2>4 DEF AcquireStatus, AfterStart
    <3> QED BY <2>4, <3>1 DEF AcquireStatus, Goto, Writing, Claims, Concerned
  <2>5. CASE AcquireUp(t)
    <3>1. PICK l \in {"wait", "record", "idle"} : Goto(t, l) /\ UNCHANGED held
      BY <2>5 DEF AcquireUp, AfterStart, Raise, Goto
    <3> QED BY <2>5, <3>1 DEF AcquireUp, Goto, Writing, Claims, Concerned
  <2>6. CASE WaitForSsh(t)
    BY <2>6 DEF WaitForSsh, Return, Raise, Writing, Claims, Concerned
  <2>7. CASE ReleaseHandle(t)
    BY <2>7 DEF ReleaseHandle, Goto, Writing, Claims, Concerned
  <2>8. CASE ReleaseStop(t)
    BY <2>8 DEF ReleaseStop, Goto, Writing, Claims, Concerned
  <2>9. CASE Shutdown(t)
    BY <2>9 DEF Shutdown, Raise, Goto, Writing, Claims, Concerned
  <2> QED BY <2>1, <2>2, <2>3, <2>4, <2>5, <2>6, <2>7, <2>8, <2>9 DEF QuietStep
<1>2. UNCHANGED <<file, mem, pool, warming>>
  BY DEF QuietStep, AcquireFromPool, PoolVMRuns, PoolVMDiscarded, AcquireStatus, AcquireUp, WaitForSsh,
         ReleaseHandle, ReleaseStop, Shutdown, registry, bounds
<1>3. \A u \in Threads : Uses(u)' \subseteq Uses(u)
  BY <1>1, <1>2, SameRegistry
<1> QED BY <1>2, <1>3 DEF Shrinks, warming

\* The registry: what a write adds, the writing thread already claims.
RegistryStep(t) ==
  RecordBegin(t) \/ RecordEnd(t) \/ RemoveBegin(t) \/ RemoveEnd(t) \/ ReleaseDone(t)

LEMMA RegistryShrinks ==
  ASSUME PoolInv, TypeOK', NEW t \in Threads, RegistryStep(t)
  PROVE  Shrinks
<1> USE DEF PoolInv
<1>0. lock = t /\ Concerned(t)
  BY DEF TypeOK, RegistryStep, RecordBegin, RecordEnd, RemoveBegin, RemoveEnd, ReleaseDone, Concerned
<1>a. \A u \in Threads : Writing(u) => u = t
  BY <1>0, OnlyHolderWrites
<1>b. \A u \in Threads : Loaded[u] \in Runtimes \cup {None}
  BY LoadedType DEF TypeOK, Mapping
<1>1. \A u \in Threads : Claims(u)' \subseteq Claims(u)
  <2>1. CASE RecordBegin(t)
    BY <2>1 DEF RecordBegin, Goto, Claims, Concerned, TypeOK
  <2>2. CASE RecordEnd(t)
    BY <2>2 DEF RecordEnd, Goto, Return, Claims, Concerned, TypeOK
  <2>3. CASE RemoveBegin(t)
    BY <2>3 DEF RemoveBegin, Goto, Claims, Concerned, TypeOK
  <2>4. CASE RemoveEnd(t)
    BY <2>4 DEF RemoveEnd, Goto, Claims, Concerned, TypeOK
  <2>5. CASE ReleaseDone(t)
    BY <2>5 DEF ReleaseDone, Raise, Claims, Concerned, TypeOK
  <2> QED BY <2>1, <2>2, <2>3, <2>4, <2>5 DEF RegistryStep
<1>2. \A u \in Threads : SentTo(u)' \cap PoolNames \subseteq SentTo(u) \cup Claims(u)
  <2>n. None \notin PoolNames
    BY SandboxAssumption DEF PoolNames
  <2>1. CASE RecordBegin(t)
    <3>1. Loaded' = NoMapping
      BY <2>1 DEF RecordBegin, Loaded, NoMapping
    <3>2. \A u \in Threads : mem'[u] \in {Loaded[u]} \cup Claims(u)
      BY <2>1, <1>0, LoadedType DEF RecordBegin, TypeOK, Mapping, Claims
    <3> QED BY <2>n, <3>1, <3>2 DEF SentTo, NoMapping
  <2>2. CASE RecordEnd(t) \/ RemoveEnd(t)
    <3>1. Loaded' = mem
      BY <2>2, SandboxAssumption DEF RecordEnd, RemoveEnd, Loaded, TypeOK, Mapping
    <3>2. Writing(t) /\ mem' = mem
      BY <2>2 DEF RecordEnd, RemoveEnd, Writing
    <3> QED BY <3>1, <3>2 DEF SentTo
  <2>3. CASE RemoveBegin(t)
    <3>1. Loaded' = NoMapping
      BY <2>3 DEF RemoveBegin, Loaded, NoMapping
    <3>2. \A u \in Threads : mem'[u] \in {Loaded[u], None}
      BY <2>3, LoadedType DEF RemoveBegin, TypeOK, Mapping
    <3> QED BY <2>n, <3>1, <3>2 DEF SentTo, NoMapping
  <2>4. CASE ReleaseDone(t)
    <3>1. Loaded' = Loaded /\ mem' = Loaded
      BY <2>4 DEF ReleaseDone, Loaded, NoMapping
    <3> QED BY <3>1 DEF SentTo
  <2> QED BY <2>1, <2>2, <2>3, <2>4 DEF RegistryStep
<1>3. UNCHANGED <<pool, warming>>
  BY DEF RegistryStep, RecordBegin, RecordEnd, RemoveBegin, RemoveEnd, ReleaseDone, bounds
<1>4. \A u \in Threads : Uses(u)' \subseteq Uses(u)
  BY <1>1, <1>2 DEF Uses, PoolNames
<1> QED BY <1>3, <1>4 DEF Shrinks, warming

\* The pop gives the thread the oldest VM of the pool, and nobody anything else.
LEMMA PopLends ==
  ASSUME PoolInv, NEW t \in Threads, AcquireFromPool(t), pool # <<>>
  PROVE  /\ 1 \in DOMAIN pool /\ Head(pool) = pool[1] /\ pool[1] \in PoolNames
         /\ pool' = Tail(pool) /\ UNCHANGED warming
         /\ \A u \in Threads \ {t} : Uses(u)' = Uses(u)
         /\ Uses(t)' = Uses(t) \cup {pool[1]}
<1> USE DEF PoolInv, TypeOK
<1>1. pool' = Tail(pool) /\ cur' = [cur EXCEPT ![t] = Head(pool)] /\ pc' = [pc EXCEPT ![t] = "poolCheck"]
      /\ UNCHANGED <<file, mem, held, warming>>
  BY DEF AcquireFromPool, Goto, registry, bounds
<1>2. 1 \in DOMAIN pool /\ Head(pool) = pool[1] /\ pool[1] \in PoolNames
  BY PopPool
<1>3. Loaded' = Loaded /\ \A u \in Threads : Writing(u)' <=> Writing(u)
  BY <1>1 DEF Loaded, NoMapping, Writing, AcquireFromPool
<1>4. \A u \in Threads : SentTo(u)' = SentTo(u)
  BY <1>1, <1>3 DEF SentTo
<1>5. \A u \in Threads \ {t} : Uses(u)' = Uses(u)
  BY <1>1, <1>4 DEF Uses, Claims, Concerned, PoolNames
<1>6. Claims(t)' = Claims(t) \cup {pool[1]}
  BY <1>1, <1>2 DEF Claims, Concerned, AcquireFromPool
<1>7. Uses(t)' = Uses(t) \cup {pool[1]}
  BY <1>2, <1>4, <1>6 DEF Uses, PoolNames
<1> QED BY <1>1, <1>2, <1>5, <1>7

LEMMA PopKeeps ==
  ASSUME PoolInv, TypeOK', NEW t \in Threads, AcquireFromPool(t), pool # <<>>
  PROVE  PoolInv'
<1> USE DEF PoolInv, TypeOK
<1>1. pool' = Tail(pool) /\ UNCHANGED warming
  BY PopLends
<1>2. \A k \in DOMAIN pool' : k + 1 \in DOMAIN pool /\ pool'[k] = pool[k + 1]
  BY <1>1
<1>3. 1 \in DOMAIN pool /\ Head(pool) = pool[1] /\ pool[1] \in PoolNames
  BY PopLends
<1>6. \A u \in Threads \ {t} : Uses(u)' = Uses(u)
  BY PopLends
<1>7. Uses(t)' \subseteq Uses(t) \cup {pool[1]}
  BY PopLends
<1>8. \A u \in Threads : Uses(u)' \subseteq Uses(u) \cup {pool[1]}
  BY <1>6, <1>7
<1>0. UNCHANGED <<offered, again>>
  BY <1>1 DEF warming
<1>9. PoolExclusive'
  <2>1. ASSUME NEW u \in Threads, NEW v \in Threads, u # v, NEW r \in Uses(u)', r \in Uses(v)'
        PROVE  r \in again'
    <3>1. CASE r = pool[1]
      <4>1. r \in Uses(u) \/ r \in Uses(v)
        BY <1>6, <2>1
      <4> QED BY <1>0, <1>3, <3>1, <4>1 DEF PoolExclusive
    <3>2. CASE r # pool[1]
      <4>1. r \in Uses(u) /\ r \in Uses(v)
        BY <1>8, <2>1, <3>2
      <4> QED BY <1>0, <2>1, <4>1 DEF PoolExclusive
    <3> QED BY <3>1, <3>2
  <2>2. ASSUME NEW k \in DOMAIN pool', NEW u \in Threads, pool'[k] \in Uses(u)' PROVE pool'[k] \in again'
    <3>1. k + 1 \in DOMAIN pool /\ pool'[k] = pool[k + 1] /\ k + 1 # 1
      BY <1>1, <1>2
    <3>2. CASE pool[k + 1] = pool[1]
      BY <1>0, <1>3, <3>1, <3>2 DEF PoolExclusive
    <3>3. CASE pool[k + 1] # pool[1]
      <4>1. pool[k + 1] \in Uses(u)
        BY <1>8, <2>2, <3>1, <3>3
      <4> QED BY <1>0, <3>1, <4>1 DEF PoolExclusive
    <3> QED BY <3>2, <3>3
  <2>3. ASSUME NEW k \in DOMAIN pool', NEW l \in DOMAIN pool', pool'[k] = pool'[l], k # l
        PROVE  pool'[k] \in again'
    <3>1. k + 1 # l + 1
      BY <1>1, <2>3
    <3> QED BY <1>0, <1>2, <2>3, <3>1 DEF PoolExclusive
  <2> QED BY <2>1, <2>2, <2>3 DEF PoolExclusive
<1>10. ASSUME NEW r \in PoolNames \ offered'
       PROVE  /\ \A k \in DOMAIN pool' : pool'[k] # r
              /\ \A u \in Threads : r \notin Uses(u)'
  BY <1>0, <1>2, <1>3, <1>8, <1>10
<1>11. PoolNames' = PoolNames
  BY DEF PoolNames
<1> QED BY <1>9, <1>10, <1>11

\* The append: a VM appended for the first time was known to nobody, another is from now
\* on among those appended again.
LEMMA AppendKeeps ==
  ASSUME PoolInv, TypeOK', WarmAppend
  PROVE  PoolInv'
<1> USE DEF PoolInv, TypeOK
<1> DEFINE v == PoolVMs[wnext]
<1>1. /\ pool' = Append(pool, v) /\ UNCHANGED <<file, mem, pc, cur, held>>
      /\ offered' = offered \cup {v} /\ again' = again \cup ({v} \cap offered)
  BY DEF WarmAppend, registry, callState
<1>2. v \in PoolNames
  BY PoolVMsRange DEF WarmAppend
<1>3. \A u \in Threads : Uses(u)' = Uses(u)
  BY <1>1 DEF Uses, Claims, SentTo, Loaded, NoMapping, Concerned, Writing, PoolNames
<1>4. v \in again' \/ /\ \A k \in DOMAIN pool : pool[k] # v
                      /\ \A u \in Threads : v \notin Uses(u)
  BY <1>1, <1>2
<1>5. /\ DOMAIN pool' = DOMAIN pool \cup {Len(pool) + 1} /\ pool'[Len(pool) + 1] = v
      /\ \A k \in DOMAIN pool : pool'[k] = pool[k]
  BY <1>1
<1>6. PoolExclusive'
  <2>1. \A t, u \in Threads : t # u => Uses(t)' \cap Uses(u)' \subseteq again'
    BY <1>1, <1>3 DEF PoolExclusive
  <2>2. \A i \in DOMAIN pool' : \A t \in Threads : pool'[i] \in Uses(t)' => pool'[i] \in again'
    BY <1>1, <1>3, <1>4, <1>5 DEF PoolExclusive
  <2>3. \A i, j \in DOMAIN pool' : pool'[i] = pool'[j] => i = j \/ pool'[i] \in again'
    BY <1>1, <1>4, <1>5 DEF PoolExclusive
  <2> QED BY <2>1, <2>2, <2>3 DEF PoolExclusive
<1>7. ASSUME NEW r \in PoolNames \ offered'
      PROVE  /\ \A k \in DOMAIN pool' : pool'[k] # r
             /\ \A u \in Threads : r \notin Uses(u)'
  BY <1>1, <1>3, <1>5, <1>7
<1>8. PoolNames' = PoolNames
  BY DEF PoolNames
<1> QED BY <1>6, <1>7, <1>8

LEMMA WarmShrinks ==
  ASSUME PoolInv, WarmBegin \/ WarmUp
  PROVE  Shrinks
<1>1. UNCHANGED <<file, mem, pool, pc, cur, held, offered, again>>
  BY DEF WarmBegin, WarmUp, registry, callState
<1>2. \A u \in Threads : Uses(u)' = Uses(u)
  BY <1>1 DEF Uses, Claims, SentTo, Loaded, NoMapping, Concerned, Writing, PoolNames
<1> QED BY <1>1, <1>2 DEF Shrinks

LEMMA EnvironmentShrinks ==
  ASSUME PoolInv, Environment
  PROVE  Shrinks
<1> USE DEF PoolInv, TypeOK
<1>1. CASE Restart
  <2>1. \A u \in Threads : ~Writing(u)' /\ Claims(u)' = {}
    BY <1>1 DEF Restart, Writing, Claims, Concerned
  <2>2. Loaded' = Loaded
    BY <1>1 DEF Restart, Loaded, NoMapping
  <2>3. \A u \in Threads : Uses(u)' \subseteq Uses(u)
    BY <2>1, <2>2 DEF Uses, SentTo, PoolNames
  <2>4. pool' = <<>> /\ UNCHANGED <<offered, again>>
    BY <1>1 DEF Restart
  <2> QED BY <2>3, <2>4 DEF Shrinks
<1>2. ASSUME NEW r \in Runtimes, GuestBoots(r) \/ StoppedOutside(r)
      PROVE  Shrinks
  <2>1. UNCHANGED <<file, mem, pool, pc, cur, held, offered, again>>
    BY <1>2 DEF GuestBoots, StoppedOutside, registry, callState, warming
  <2>2. \A u \in Threads : Uses(u)' = Uses(u)
    BY <2>1 DEF Uses, Claims, SentTo, Loaded, NoMapping, Concerned, Writing, PoolNames
  <2> QED BY <2>1, <2>2 DEF Shrinks
<1> QED BY <1>1, <1>2 DEF Environment

LEMMA PoolInit == Init => PoolInv
<1> SUFFICES ASSUME Init PROVE PoolInv
  OBVIOUS
<1>1. TypeOK
  BY InitType
<1>2. \A u \in Threads : Uses(u) = {}
  <2>1. \A u \in Threads : Loaded[u] = None /\ mem[u] = None /\ Claims(u) = {}
    BY DEF Init, Loaded, NoMapping, Claims, Concerned
  <2> QED BY <2>1, SandboxAssumption DEF Uses, SentTo, PoolNames
<1>3. PoolExclusive
  BY <1>2 DEF Init, PoolExclusive
<1> QED BY <1>1, <1>2, <1>3 DEF Init, PoolInv

LEMMA PoolStep == PoolInv /\ [Next]_vars => PoolInv'
<1> SUFFICES ASSUME PoolInv, [Next]_vars PROVE PoolInv'
  OBVIOUS
<1>1. TypeOK'
  BY TypeStep DEF PoolInv
<1>2. CASE UNCHANGED vars
  <2>1. UNCHANGED <<file, mem, pool, pc, cur, held, offered, again>>
    BY <1>2 DEF vars, registry, callState, warming
  <2>2. \A u \in Threads : Uses(u)' = Uses(u)
    BY <2>1 DEF Uses, Claims, SentTo, Loaded, NoMapping, Concerned, Writing, PoolNames
  <2> QED BY <1>1, <2>1, <2>2, Shrink DEF Shrinks
<1>3. ASSUME NEW t \in Threads, Call(t) PROVE PoolInv'
  BY <1>1, <1>3, CallShrinks, Shrink
<1>4. ASSUME NEW t \in Threads, Step(t) PROVE PoolInv'
  <2>1. QuietStep(t) \/ RegistryStep(t) \/ (AcquireFromPool(t) /\ pool # <<>>)
    BY <1>4 DEF Step, QuietStep, RegistryStep
  <2> QED BY <2>1, <1>1, QuietShrinks, RegistryShrinks, Shrink, PopKeeps
<1>5. CASE Warm
  BY <1>1, <1>5, WarmShrinks, Shrink, AppendKeeps DEF Warm
<1>6. CASE Environment
  BY <1>1, <1>6, EnvironmentShrinks, Shrink
<1> QED BY <1>2, <1>3, <1>4, <1>5, <1>6 DEF Next

\* The invariant of the pool holds for any number of threads, pool VMs, calls, warm-ups,
\* faults and restarts.
THEOREM PoolInvariant == Spec => []PoolInv
BY PoolInit, PoolStep, PTL DEF Spec

\* Until it is appended a second time, a pool VM has one user (VMPool.acquire and warm,
\* registry.set, release), however often the pool is warmed.
THEOREM PoolVMsAreExclusive == Spec => []PoolExclusive
<1>1. PoolInv => PoolExclusive
  BY DEF PoolInv
<1> QED BY <1>1, PoolInvariant, PTL

-----------------------------------------------------------------------------
(***************************************************************************)
(* The refinement of VMLeases: the pop lends, the append offers or makes   *)
(* the promise void, and every other step only gives up.                   *)
(***************************************************************************)

\* Once the promise is void it stays so, and every step is allowed.
LEMMA VoidAllows ==
  ASSUME TypeOK, TypeOK', [Next]_vars, again' # {}
  PROVE  Leases!Next
BY DEF Leases!Next, Leases!Void

LEMMA ShrinkGivesUp ==
  ASSUME Shrinks, again = {}
  PROVE  Leases!Next
<1>1. PoolNames \ offered' = PoolNames \ offered /\ PoolNames' = PoolNames
  BY DEF Shrinks, PoolNames
<1>2. Leases!GiveUp
  BY <1>1 DEF Shrinks, Leases!GiveUp
<1>3. (again # {})' = (again # {}) /\ ~(again # {})
  BY DEF Shrinks
<1> QED BY <1>2, <1>3 DEF Leases!Next, Leases!Keep

LEMMA PopIsLend ==
  ASSUME PoolInv, NEW t \in Threads, AcquireFromPool(t), pool # <<>>, again = {}
  PROVE  Leases!Next
<1> DEFINE lent == [u \in Threads |-> Uses(u)]
<1>1. UNCHANGED <<offered, again, PoolNames>>
  BY PopLends DEF warming, PoolNames
<1>2. \A u \in Threads : Uses(u)' = IF u = t THEN Uses(t) \cup {Head(pool)} ELSE Uses(u)
  BY PopLends
<1>3. lent' = [lent EXCEPT ![t] = @ \cup {Head(pool)}]
  BY <1>2
<1>4. Leases!Lend(t)
  BY <1>1, <1>3, PopLends DEF Leases!Lend
<1> QED BY <1>1, <1>4 DEF Leases!Next, Leases!Keep

\* The append of a VM that was never appended is its offer.
LEMMA AppendIsOffer ==
  ASSUME PoolInv, WarmAppend, again' = {}
  PROVE  Leases!Next
<1> DEFINE v == PoolVMs[wnext]
<1>1. UNCHANGED <<file, mem, pc, cur, held>> /\ pool' = Append(pool, v)
  BY DEF WarmAppend, registry, callState
<1>2. \A u \in Threads : Uses(u)' = Uses(u)
  BY <1>1 DEF Uses, Claims, SentTo, Loaded, NoMapping, Concerned, Writing, PoolNames
<1>3. [u \in Threads |-> Uses(u)]' = [u \in Threads |-> Uses(u)]
  BY <1>2
<1>4. /\ offered' = offered \cup {v} /\ v \notin offered /\ again = {}
      /\ v \in PoolNames /\ PoolNames' = PoolNames
  BY PoolVMsRange DEF WarmAppend, PoolNames, PoolInv, TypeOK
<1>5. PoolNames' \ offered' = (PoolNames \ offered) \ {v} /\ v \in PoolNames \ offered
  BY <1>4
<1>6. Leases!Offer(v)
  BY <1>1, <1>3, <1>5 DEF Leases!Offer
<1> QED BY <1>4, <1>5, <1>6 DEF Leases!Next, Leases!Keep

LEMMA StepIsLeaseStep ==
  ASSUME PoolInv, TypeOK', [Next]_vars
  PROVE  [Leases!Next]_<<PoolNames \ offered, pool, [t \in Threads |-> Uses(t)], again # {}>>
<1>0. SUFFICES ASSUME again' = {} PROVE Leases!Next
  BY VoidAllows DEF PoolInv
<1>a. TypeOK /\ again \subseteq again'
  <2>1. CASE UNCHANGED vars
    BY <2>1 DEF vars, warming, PoolInv
  <2>2. CASE Next
    BY <2>2 DEF Next, Call, CallAcquire, Get, CallRelease, CallShutdown, Step, AcquireFromPool,
       PoolVMRuns, PoolVMDiscarded, AcquireStatus, AcquireUp, WaitForSsh, ReleaseHandle, ReleaseStop,
       Shutdown, RecordBegin, RecordEnd, RemoveBegin, RemoveEnd, ReleaseDone, Warm, WarmBegin,
       WarmUp, WarmAppend, Environment, Restart, GuestBoots, StoppedOutside, warming, PoolInv
  <2> QED BY <2>1, <2>2
<1>b. again = {}
  BY <1>0, <1>a
<1>1. CASE UNCHANGED vars
  <2>1. UNCHANGED <<file, mem, pool, pc, cur, held, offered, again>>
    BY <1>1 DEF vars, registry, callState, warming
  <2>2. \A u \in Threads : Uses(u)' = Uses(u)
    BY <2>1 DEF Uses, Claims, SentTo, Loaded, NoMapping, Concerned, Writing, PoolNames
  <2> QED BY <1>b, <2>1, <2>2, ShrinkGivesUp DEF Shrinks
<1>2. ASSUME NEW t \in Threads, Call(t) \/ QuietStep(t) \/ RegistryStep(t) PROVE Leases!Next
  BY <1>b, <1>2, CallShrinks, QuietShrinks, RegistryShrinks, ShrinkGivesUp
<1>3. ASSUME NEW t \in Threads, Step(t) PROVE Leases!Next
  <2>1. QuietStep(t) \/ RegistryStep(t) \/ (AcquireFromPool(t) /\ pool # <<>>)
    BY <1>3 DEF Step, QuietStep, RegistryStep
  <2> QED BY <1>b, <2>1, <1>2, PopIsLend
<1>4. CASE Warm
  BY <1>0, <1>b, <1>4, WarmShrinks, ShrinkGivesUp, AppendIsOffer DEF Warm
<1>5. CASE Environment
  BY <1>b, <1>5, EnvironmentShrinks, ShrinkGivesUp
<1> QED BY <1>1, <1>2, <1>3, <1>4, <1>5 DEF Next

\* Until a VM is appended a second time the pool lends as VMLeases says: VMPool.acquire hands
\* out the oldest VM, and no mapping, release, fault or restart brings one back.
THEOREM PoolRefinesLeases == Spec => PoolLendsOnce
<1>1. Init => Leases!Init
  <2> SUFFICES ASSUME Init PROVE Leases!Init
    OBVIOUS
  <2>1. \A u \in Threads : Uses(u) = {}
    <3>1. \A u \in Threads : Loaded[u] = None /\ mem[u] = None /\ Claims(u) = {}
      BY DEF Init, Loaded, NoMapping, Claims, Concerned
    <3> QED BY <3>1, SandboxAssumption DEF Uses, SentTo, PoolNames
  <2>2. PoolNames \ offered = PoolNames /\ pool = <<>> /\ ~(again # {})
    BY DEF Init
  <2> QED BY <2>1, <2>2 DEF Leases!Init
<1>2. PoolInv /\ TypeOK' /\ [Next]_vars
        => [Leases!Next]_<<PoolNames \ offered, pool, [t \in Threads |-> Uses(t)], again # {}>>
  BY StepIsLeaseStep
<1> QED BY <1>1, <1>2, PoolInvariant, ProviderTypes, PTL DEF Spec, PoolLendsOnce, Leases!Spec

-----------------------------------------------------------------------------
(* MappingSurvives and ReleaseUnmaps                                         *)

\* What a writer of the registry file is about to store is what was promised, but for the
\* mapping it is there to record.
MapInv ==
  /\ TypeOK
  /\ MappingSurvives
  /\ \A t \in Threads : pc[t] = "recording" =>
       /\ mem[t] = cur[t]
       /\ \A u \in Threads \ {t} : promised[u] # None => mem[u] = promised[u]
  /\ \A t \in Threads : pc[t] = "removing" =>
       \A u \in Threads : promised[u] # None => mem[u] = promised[u]

LEMMA MapInit == Init => MapInv
<1> SUFFICES ASSUME Init PROVE MapInv
  OBVIOUS
<1>1. TypeOK
  BY InitType
<1>2. \A t \in Threads : promised[t] = None /\ pc[t] = "idle"
  BY DEF Init, NoMapping
<1> QED BY <1>1, <1>2 DEF MapInv, MappingSurvives

\* A step outside the registry: no write begins or ends, and no call in one changes.
AwayFromRegistry ==
  /\ UNCHANGED registry
  /\ \A u \in Threads : Writing(u) \/ Writing(u)' => pc'[u] = pc[u] /\ cur'[u] = cur[u]

LEMMA AwayKeeps ==
  ASSUME MapInv, TypeOK', AwayFromRegistry
  PROVE  MapInv'
<1>1. Loaded' = Loaded /\ mem' = mem /\ promised' = promised
  BY DEF AwayFromRegistry, registry, Loaded, NoMapping
<1>2. \A u \in Threads : Writing(u)' => Writing(u)
  BY DEF AwayFromRegistry, Writing
<1>3. \A u \in Threads : Writing(u) => Writing(u)'
  BY DEF AwayFromRegistry, Writing
<1>4. MappingSurvives'
  BY <1>1, <1>3 DEF MapInv, MappingSurvives
<1>5. \A u \in Threads : Writing(u)' => pc'[u] = pc[u] /\ cur'[u] = cur[u]
  BY DEF AwayFromRegistry
<1> QED BY <1>1, <1>4, <1>5 DEF MapInv, Writing

LEMMA CallsAreAway ==
  ASSUME TypeOK, NEW t \in Threads, Call(t)
  PROVE  AwayFromRegistry
<1> USE DEF TypeOK, AwayFromRegistry, Writing, Goto
<1>1. CASE CallAcquire(t)
  BY <1>1 DEF CallAcquire
<1>2. CASE Get(t)
  BY <1>2 DEF Get, callState
<1>3. CASE CallRelease(t)
  BY <1>3 DEF CallRelease
<1>4. CASE CallShutdown(t)
  BY <1>4 DEF CallShutdown
<1> QED BY <1>1, <1>2, <1>3, <1>4 DEF Call

LEMMA StepsAreAway ==
  ASSUME TypeOK, NEW t \in Threads, Step(t), ~RegistryStep(t)
  PROVE  AwayFromRegistry
<1> USE DEF TypeOK, AwayFromRegistry, Writing, Goto, Return, Raise
<1>1. CASE AcquireFromPool(t)
  BY <1>1 DEF AcquireFromPool
<1>2. CASE PoolVMRuns(t)
  BY <1>2 DEF PoolVMRuns
<1>3. CASE PoolVMDiscarded(t)
  BY <1>3 DEF PoolVMDiscarded
<1>4. CASE AcquireStatus(t)
  <2>1. PICK l \in {"wait", "record", "up"} : Goto(t, l)
    BY <1>4 DEF AcquireStatus, AfterStart
  <2> QED BY <1>4, <2>1 DEF AcquireStatus
<1>5. CASE AcquireUp(t)
  <2>1. PICK l \in {"wait", "record", "idle"} : Goto(t, l)
    BY <1>5 DEF AcquireUp, AfterStart
  <2> QED BY <1>5, <2>1 DEF AcquireUp
<1>6. CASE WaitForSsh(t)
  BY <1>6 DEF WaitForSsh
<1>7. CASE ReleaseHandle(t)
  BY <1>7 DEF ReleaseHandle
<1>8. CASE ReleaseStop(t)
  BY <1>8 DEF ReleaseStop
<1>9. CASE Shutdown(t)
  BY <1>9 DEF Shutdown
<1> QED BY <1>1, <1>2, <1>3, <1>4, <1>5, <1>6, <1>7, <1>8, <1>9 DEF Step, RegistryStep

LEMMA WritesKeepPromises ==
  ASSUME MapInv, TypeOK', NEW t \in Threads, RegistryStep(t)
  PROVE  MapInv'
<1>0. lock = t /\ pc[t] \in Labels /\ cur[t] \in Runtimes /\ pc \in [Threads -> Labels]
  BY DEF MapInv, TypeOK, RegistryStep, RecordBegin, RecordEnd, RemoveBegin, RemoveEnd, ReleaseDone,
         Concerned
<1>1. \A u \in Threads : Writing(u) => u = t
  BY <1>0, OnlyHolderWrites DEF MapInv
<1>2. Loaded \in Mapping /\ promised \in Mapping /\ mem \in Mapping
  BY LoadedType DEF MapInv, TypeOK
<1>3. CASE RecordBegin(t)
  <2>1. /\ mem' = [Loaded EXCEPT ![t] = cur[t]] /\ pc' = [pc EXCEPT ![t] = "recording"]
        /\ UNCHANGED <<promised, cur>> /\ pc[t] = "record"
    BY <1>3 DEF RecordBegin, Goto
  <2>2. \A u \in Threads : ~Writing(u)
    BY <1>1, <2>1 DEF Writing
  <2>3. \A u \in Threads : promised[u] # None => Loaded[u] = promised[u]
    BY <2>2 DEF MapInv, MappingSurvives
  <2>4. \A u \in Threads \ {t} : pc'[u] = pc[u] /\ pc[u] \notin {"recording", "removing"}
    BY <1>0, <2>1, <2>2 DEF Writing
  <2>5. Writing(t)' /\ pc'[t] = "recording"
    BY <1>0, <2>1 DEF Writing
  <2>6. mem'[t] = cur'[t] /\ \A u \in Threads \ {t} : promised'[u] # None => mem'[u] = promised'[u]
    BY <1>2, <2>1, <2>3 DEF Mapping
  <2> QED BY <2>4, <2>5, <2>6 DEF MapInv, MappingSurvives
<1>4. CASE RecordEnd(t)
  <2>1. /\ pc[t] = "recording" /\ file' = mem /\ promised' = [promised EXCEPT ![t] = cur[t]]
        /\ pc'[t] \notin {"recording", "removing"} /\ \A u \in Threads \ {t} : pc'[u] = pc[u]
    BY <1>0, <1>4 DEF RecordEnd, Return, Goto
  <2>2. Loaded' = mem
    BY <1>2, <2>1, SandboxAssumption DEF Loaded, Mapping
  <2>3. \A u \in Threads : ~Writing(u)'
    BY <1>1, <2>1 DEF Writing
  <2>4. \A u \in Threads : promised'[u] # None => Loaded'[u] = promised'[u]
    BY <1>2, <2>1, <2>2 DEF MapInv, Mapping
  <2> QED BY <2>3, <2>4 DEF MapInv, MappingSurvives, Writing
<1>5. CASE RemoveBegin(t)
  <2>1. PICK tid \in Threads : /\ mem' = [Loaded EXCEPT ![tid] = None]
                               /\ promised' = [promised EXCEPT ![tid] = None]
    BY <1>5 DEF RemoveBegin
  <2>2. pc[t] = "remove" /\ pc' = [pc EXCEPT ![t] = "removing"]
    BY <1>5 DEF RemoveBegin, Goto
  <2>3. \A u \in Threads : ~Writing(u)
    BY <1>1, <2>2 DEF Writing
  <2>4. \A u \in Threads : promised[u] # None => Loaded[u] = promised[u]
    BY <2>3 DEF MapInv, MappingSurvives
  <2>5. \A u \in Threads : promised'[u] # None => mem'[u] = promised'[u]
    BY <1>2, <2>1, <2>4 DEF Mapping
  <2>6. pc'[t] = "removing" /\ \A u \in Threads \ {t} : pc'[u] = pc[u] /\ pc[u] # "recording"
    BY <1>0, <2>2, <2>3 DEF Writing
  <2> QED BY <2>5, <2>6 DEF MapInv, MappingSurvives, Writing
<1>6. CASE RemoveEnd(t)
  <2>1. /\ pc[t] = "removing" /\ file' = mem /\ promised' = promised
        /\ pc' = [pc EXCEPT ![t] = "remove"]
    BY <1>6 DEF RemoveEnd, Goto
  <2>2. Loaded' = mem
    BY <1>2, <2>1, SandboxAssumption DEF Loaded, Mapping
  <2>3. \A u \in Threads : ~Writing(u)'
    BY <1>0, <1>1, <2>1 DEF Writing
  <2>4. \A u \in Threads : promised'[u] # None => Loaded'[u] = promised'[u]
    BY <2>1, <2>2 DEF MapInv
  <2> QED BY <2>3, <2>4 DEF MapInv, MappingSurvives, Writing
<1>7. CASE ReleaseDone(t)
  <2>1. pc[t] = "remove" /\ pc' = [pc EXCEPT ![t] = "idle"] /\ UNCHANGED <<file, promised>>
    BY <1>7 DEF ReleaseDone, Raise
  <2>2. Loaded' = Loaded
    BY <2>1 DEF Loaded, NoMapping
  <2>3. \A u \in Threads : ~Writing(u) /\ ~Writing(u)'
    BY <1>0, <1>1, <2>1 DEF Writing
  <2> QED BY <2>1, <2>2, <2>3 DEF MapInv, MappingSurvives, Writing
<1> QED BY <1>3, <1>4, <1>5, <1>6, <1>7 DEF RegistryStep

LEMMA MapStep == MapInv /\ [Next]_vars => MapInv'
<1> SUFFICES ASSUME MapInv, [Next]_vars PROVE MapInv'
  OBVIOUS
<1>0. TypeOK /\ TypeOK'
  BY TypeStep DEF MapInv
<1>1. CASE UNCHANGED vars
  <2>1. AwayFromRegistry
    BY <1>1 DEF vars, callState, AwayFromRegistry
  <2> QED BY <1>0, <2>1, AwayKeeps
<1>2. ASSUME NEW t \in Threads, Call(t) PROVE MapInv'
  BY <1>0, <1>2, CallsAreAway, AwayKeeps
<1>3. ASSUME NEW t \in Threads, Step(t) PROVE MapInv'
  BY <1>0, <1>3, StepsAreAway, AwayKeeps, WritesKeepPromises
<1>4. CASE Warm
  <2>1. AwayFromRegistry
    BY <1>4 DEF Warm, WarmBegin, WarmUp, WarmAppend, callState, AwayFromRegistry
  <2> QED BY <1>0, <2>1, AwayKeeps
<1>5. CASE Environment
  <2>1. CASE Restart
    <3>1. \A u \in Threads : ~Writing(u)' /\ pc'[u] = "idle"
      BY <2>1 DEF Restart, Writing
    <3>2. Loaded' = Loaded
      BY <2>1 DEF Restart, Loaded, NoMapping
    <3>3. \A u \in Threads : promised'[u] # None => Loaded'[u] = promised'[u]
      <4>1. CASE \E u \in Threads : Writing(u)
        BY <2>1, <4>1 DEF Restart, NoMapping
      <4>2. CASE \A u \in Threads : ~Writing(u)
        BY <2>1, <3>2, <4>2 DEF Restart, MapInv, MappingSurvives
      <4> QED BY <4>1, <4>2
    <3> QED BY <1>0, <3>1, <3>3 DEF MapInv, MappingSurvives
  <2>2. ASSUME NEW r \in Runtimes, GuestBoots(r) \/ StoppedOutside(r) PROVE MapInv'
    <3>1. AwayFromRegistry
      BY <2>2 DEF GuestBoots, StoppedOutside, callState, AwayFromRegistry
    <3> QED BY <1>0, <3>1, AwayKeeps
  <2> QED BY <1>5, <2>1, <2>2 DEF Environment
<1> QED BY <1>1, <1>2, <1>3, <1>4, <1>5 DEF Next

\* A recorded mapping outlives the writes of other threads and restarts that fall between
\* writes (ThreadRuntimeRegistry: mappings survive process restarts).
THEOREM MappingsSurvive == Spec => []MappingSurvives
<1>1. MapInv => MappingSurvives
  BY DEF MapInv
<1> QED BY <1>1, MapInit, MapStep, PTL DEF Spec

\* The last step of a release is the one that has found no mapping left.
LEMMA OnlyDoneEnds ==
  ASSUME TypeOK, Next, NEW t \in Threads,
         pc[t] \in {"stop", "remove", "removing"}, pc'[t] = "idle", boots' = boots
  PROVE  ReleaseDone(t)
<1> USE DEF TypeOK
<1>1. pc[t] # pc'[t]
  OBVIOUS
<1>2. ASSUME NEW u \in Threads, Call(u) PROVE FALSE
  BY <1>1, <1>2 DEF Call, CallAcquire, Get, CallRelease, CallShutdown, Goto, callState
<1>3. ASSUME NEW u \in Threads, Step(u) PROVE u = t
  BY <1>1, <1>3 DEF Step, AcquireFromPool, PoolVMRuns, PoolVMDiscarded, AcquireStatus, AcquireUp,
       RecordBegin, RecordEnd, WaitForSsh, ReleaseHandle, ReleaseStop, RemoveBegin, RemoveEnd,
       ReleaseDone, Shutdown, Goto, Return, Raise
<1>4. ASSUME Step(t) PROVE ReleaseDone(t)
  BY <1>4 DEF Step, AcquireFromPool, PoolVMRuns, PoolVMDiscarded, AcquireStatus, AcquireUp,
       RecordBegin, RecordEnd, WaitForSsh, ReleaseHandle, ReleaseStop, RemoveBegin, RemoveEnd,
       Shutdown, Goto
<1>5. ~Warm
  BY <1>1 DEF Warm, WarmBegin, WarmUp, WarmAppend, callState
<1>6. ~Environment
  BY <1>1, SandboxAssumption DEF Environment, Restart, GuestBoots, StoppedOutside, callState
<1> QED BY <1>2, <1>3, <1>4, <1>5, <1>6 DEF Next

\* A release ends with no thread mapped to its runtime, whatever the stop command said
\* (DeerFlowADPSandboxProvider.release).
THEOREM ReleasesUnmap == Spec => ReleaseUnmaps
<1> DEFINE Unmaps == \A t \in Threads :
             pc[t] \in {"stop", "remove", "removing"} /\ pc'[t] = "idle" /\ boots' = boots =>
               \A u \in Threads : Loaded'[u] # cur[t]
<1>1. TypeOK /\ [Next]_vars => [Unmaps]_vars
  <2> SUFFICES ASSUME TypeOK, Next PROVE Unmaps
    OBVIOUS
  <2> SUFFICES ASSUME NEW t \in Threads,
                      pc[t] \in {"stop", "remove", "removing"}, pc'[t] = "idle", boots' = boots,
                      NEW u \in Threads
               PROVE  Loaded'[u] # cur[t]
    OBVIOUS
  <2>1. ReleaseDone(t)
    BY OnlyDoneEnds
  <2>2. Loaded' = Loaded
    BY <2>1 DEF ReleaseDone, Loaded, NoMapping
  <2> QED BY <2>1, <2>2 DEF ReleaseDone
<1> QED BY <1>1, ProviderTypes, PTL DEF Spec, ReleaseUnmaps

-----------------------------------------------------------------------------
(* NoSilentLeak                                                              *)

Clean == faults = 0 /\ boots = 0

\* A pool VM that waits in the pool or in the warm thread's hands.
Kept(r) == (\E i \in DOMAIN pool : pool[i] = r) \/ (wnext # 0 /\ PoolVMs[wnext] = r)

\* The runtime a thread is about to be given by a write, or is giving back.
Passing(t) == IF pc[t] \in {"recording", "release", "stop", "remove", "removing"} THEN {cur[t]} ELSE {}

\* What a thread's mapping and its call say of pool VMs: a mapped one is in its hands, and
\* a call that did not come from the pool starts no other.
ThreadInv(t) ==
  /\ PoolNames \cap SentTo(t) \subseteq held[t] \cup Passing(t)
  /\ pc[t] \in {"status", "up", "wait"} => ~pooled[t]
  /\ pc[t] = "poolCheck" => pooled[t]
  /\ pc[t] \in {"status", "up", "wait", "record", "recording"} /\ ~pooled[t] /\ cur[t] \in PoolNames
       => cur[t] \in held[t]

\* A VM that a release has stopped runs again only for the warm thread.
StoppedInv(t) ==
  pc[t] \in {"remove", "removing"} /\ cur[t] \in PoolNames \cap Addressable /\ Running(cur[t])
    => Kept(cur[t])

LeakParts ==
  /\ \A r \in PoolNames \cap Addressable : Running(r) => Kept(r) \/ \E t \in Threads : r \in Claims(t)
  /\ \A t \in Threads : ThreadInv(t) /\ StoppedInv(t)

LeakInv == TypeOK /\ (Clean => LeakParts)

LEMMA LeakMeans == LeakInv => NoSilentLeak
<1> SUFFICES ASSUME LeakParts, NEW r \in PoolNames \cap Addressable, Running(r)
             PROVE  HasOwner(r)
  BY DEF LeakInv, Clean, NoSilentLeak
<1>1. Kept(r) \/ \E t \in Threads : r \in Claims(t)
  BY DEF LeakParts
<1> QED BY <1>1 DEF Kept, Claims, HasOwner

LEMMA LeakInit == Init => LeakInv
<1> SUFFICES ASSUME Init PROVE LeakInv
  OBVIOUS
<1>1. \A r \in PoolNames : ~Running(r)
  BY SandboxAssumption DEF Init, Running, PoolNames
<1>2. ASSUME NEW t \in Threads PROVE ThreadInv(t) /\ StoppedInv(t)
  <2>1. pc[t] = "idle" /\ Loaded[t] = None /\ mem[t] = None
    BY DEF Init, Loaded, NoMapping
  <2>2. None \notin PoolNames
    BY SandboxAssumption DEF PoolNames
  <2> QED BY <2>1, <2>2 DEF ThreadInv, StoppedInv, SentTo
<1> QED BY <1>1, <1>2, InitType DEF LeakInv, LeakParts

\* A step of t leaves the calls of the others alone.
OthersStay(t) == \A u \in Threads \ {t} :
  pc'[u] = pc[u] /\ cur'[u] = cur[u] /\ held'[u] = held[u] /\ pooled'[u] = pooled[u]

\* What a step of t must do so that nothing leaks.
LeaksNothing(t) ==
  /\ OthersStay(t)
  /\ \A u \in Threads \ {t} : PoolNames \cap SentTo(u)' \subseteq SentTo(u)
  /\ ThreadInv(t)' /\ StoppedInv(t)'
  /\ \A u \in Threads \ {t} :
       pc[u] \in {"remove", "removing"} => UNCHANGED <<vm, pool, warming>>
  /\ \A r \in PoolNames \cap Addressable : Running(r)' =>
       /\ Running(r) \/ r \in Claims(t)'
       /\ Kept(r) \/ r \in Claims(t) => Kept(r)' \/ r \in Claims(t)'

LEMMA LocalStep ==
  ASSUME LeakParts, NEW t \in Threads, LeaksNothing(t)
  PROVE  LeakParts'
<1>1. ASSUME NEW u \in Threads \ {t} PROVE Claims(u)' = Claims(u) /\ Passing(u)' = Passing(u)
  BY DEF LeaksNothing, OthersStay, Claims, Concerned, Passing
<1>2. ASSUME NEW r \in PoolNames \cap Addressable, Running(r)'
      PROVE  Kept(r)' \/ \E u \in Threads : r \in Claims(u)'
  <2>1. CASE r \in Claims(t)'
    BY <2>1
  <2>2. CASE r \notin Claims(t)'
    <3>1. Running(r)
      BY <1>2, <2>2 DEF LeaksNothing
    <3>2. Kept(r) \/ \E u \in Threads : r \in Claims(u)
      BY <3>1 DEF LeakParts
    <3>3. CASE Kept(r) \/ r \in Claims(t)
      BY <1>2, <3>3 DEF LeaksNothing
    <3>4. CASE \E u \in Threads \ {t} : r \in Claims(u)
      BY <1>1, <3>4
    <3> QED BY <3>2, <3>3, <3>4
  <2> QED BY <2>1, <2>2
<1>3. ASSUME NEW u \in Threads \ {t} PROVE ThreadInv(u)'
  BY <1>1 DEF LeaksNothing, OthersStay, LeakParts, ThreadInv
<1>4. ASSUME NEW u \in Threads \ {t} PROVE StoppedInv(u)'
  BY DEF LeaksNothing, OthersStay, LeakParts, StoppedInv, Running, Kept, warming
<1> QED BY <1>2, <1>3, <1>4 DEF LeakParts, LeaksNothing

LEMMA SameMappings ==
  ASSUME UNCHANGED <<file, mem>>, \A u \in Threads : Writing(u)' <=> Writing(u)
  PROVE  \A u \in Threads : SentTo(u)' = SentTo(u)
<1>1. Loaded' = Loaded
  BY DEF Loaded, NoMapping
<1> QED BY <1>1 DEF SentTo

LEMMA CallLeaksNothing ==
  ASSUME TypeOK, LeakParts, NEW t \in Threads, Call(t)
  PROVE  LeaksNothing(t)
<1> USE DEF TypeOK
<1>1. UNCHANGED <<vm, pool, warming, file, mem, pooled>>
  BY DEF Call, CallAcquire, Get, CallRelease, CallShutdown, registry, callState
<1>2. OthersStay(t) /\ \A u \in Threads : Writing(u)' <=> Writing(u)
  BY DEF Call, CallAcquire, Get, CallRelease, CallShutdown, callState, Goto, OthersStay, Writing
<1>3. \A u \in Threads : SentTo(u)' = SentTo(u)
  BY <1>1, <1>2, SameMappings
<1>4. /\ Claims(t) \subseteq Claims(t)'
      /\ held[t] \cup Passing(t) \subseteq held'[t] \cup Passing(t)'
      /\ pc'[t] \in {"idle", "acquire", "release", "shutdown"}
  BY DEF Call, CallAcquire, Get, CallRelease, CallShutdown, callState, Goto, Claims, Concerned, Passing
<1>5. ThreadInv(t)' /\ StoppedInv(t)'
  BY <1>3, <1>4 DEF LeakParts, ThreadInv, StoppedInv
<1>6. \A r : (Running(r)' <=> Running(r)) /\ (Kept(r)' <=> Kept(r))
  BY <1>1 DEF Running, Kept, warming
<1> QED BY <1>1, <1>2, <1>3, <1>4, <1>5, <1>6 DEF LeaksNothing

LEMMA StepLeavesOthers ==
  ASSUME TypeOK, NEW t \in Threads, Step(t)
  PROVE  /\ OthersStay(t) /\ UNCHANGED warming
         /\ \A u \in Threads \ {t} : pc[u] \notin {"remove", "removing"}
<1> USE DEF TypeOK
<1>1. OthersStay(t)
  BY DEF Step, AcquireFromPool, PoolVMRuns, PoolVMDiscarded, AcquireStatus, AcquireUp, RecordBegin,
         RecordEnd, WaitForSsh, ReleaseHandle, ReleaseStop, RemoveBegin, RemoveEnd, ReleaseDone,
         Shutdown, Goto, Return, Raise, OthersStay
<1>2. UNCHANGED warming
  BY DEF Step, AcquireFromPool, PoolVMRuns, PoolVMDiscarded, AcquireStatus, AcquireUp, RecordBegin,
         RecordEnd, WaitForSsh, ReleaseHandle, ReleaseStop, RemoveBegin, RemoveEnd, ReleaseDone,
         Shutdown, warming
<1>3. lock = None \/ lock = t
  BY DEF Step, AcquireFromPool, PoolVMRuns, PoolVMDiscarded, AcquireStatus, AcquireUp, RecordBegin,
         RecordEnd, WaitForSsh, ReleaseHandle, ReleaseStop, RemoveBegin, RemoveEnd, ReleaseDone,
         Shutdown
<1>4. \A u \in Threads \ {t} : pc[u] \in {"remove", "removing"} => lock = u
  OBVIOUS
<1>5. \A u \in Threads \ {t} : lock # u
  BY <1>3, SandboxAssumption
<1> QED BY <1>1, <1>2, <1>4, <1>5

\* Without a timeout a command fails only on a runtime that is not configured.
LEMMA CleanFails ==
  ASSUME TypeOK, faults' = 0, NEW r
  PROVE  ~TimesOut /\ (StatusFails(r) => r \notin Configured) /\ (UpFails(r) => r \notin Configured /\ vm' = vm)
BY DEF TypeOK, TimesOut, StatusFails, UpFails

\* The step keeps the registry, the pool and what runs, but for VMs it starts for its own
\* call: what is left to show is about t's call alone.
LEMMA QuietLeaksNothing ==
  ASSUME TypeOK, LeakParts, NEW t \in Threads, Step(t),
         UNCHANGED <<file, mem, pool>>, Writing(t)' <=> Writing(t),
         \A r \in PoolNames \cap Addressable : Running(r)' =>
           (Running(r) \/ r \in Claims(t)') /\ (r \in Claims(t) => r \in Claims(t)'),
         SentTo(t)' = SentTo(t) => ThreadInv(t)' /\ StoppedInv(t)'
  PROVE  LeaksNothing(t)
<1>1. OthersStay(t) /\ UNCHANGED warming /\ \A u \in Threads \ {t} : pc[u] \notin {"remove", "removing"}
  BY StepLeavesOthers
<1>2. \A u \in Threads : SentTo(u)' = SentTo(u)
  BY <1>1, SameMappings DEF OthersStay, Writing
<1>3. \A r : Kept(r)' <=> Kept(r)
  BY <1>1 DEF Kept, warming
<1> QED BY <1>1, <1>2, <1>3 DEF LeaksNothing

LEMMA QuietStepLeaksNothing ==
  ASSUME TypeOK, TypeOK', LeakParts, faults' = 0, NEW t \in Threads, QuietStep(t)
  PROVE  LeaksNothing(t)
<1>0. Step(t) /\ UNCHANGED <<file, mem, pool>>
  BY DEF QuietStep, Step, AcquireFromPool, PoolVMRuns, PoolVMDiscarded, AcquireStatus, AcquireUp,
         WaitForSsh, ReleaseHandle, ReleaseStop, Shutdown, registry
<1>a. ThreadInv(t) /\ Addressable \subseteq Configured /\ Configured \subseteq Runtimes
  BY SandboxAssumption DEF LeakParts
<1>b. Resolve(t) \in PoolNames => Resolve(t) \in SentTo(t)
  BY ResolvePool DEF SentTo
<1>c. ~TimesOut
  BY CleanFails
<1> USE DEF TypeOK, ThreadInv, StoppedInv, Claims, Concerned, Passing, Writing
<1>1. CASE AcquireFromPool(t) /\ pool = <<>>
  <2>1. /\ pc[t] = "acquire" /\ pc' = [pc EXCEPT ![t] = "status"] /\ UNCHANGED <<vm, held>>
        /\ cur' = [cur EXCEPT ![t] = Resolve(t)] /\ pooled' = [pooled EXCEPT ![t] = FALSE]
    BY <1>1 DEF AcquireFromPool, Goto
  <2>2. Resolve(t) \in PoolNames => Resolve(t) \in held[t]
    BY <1>a, <1>b, <2>1
  <2> QED BY <1>0, <1>a, <2>1, <2>2, QuietLeaksNothing DEF Running
<1>2. CASE PoolVMRuns(t)
  <2>1. CASE t = Anonymous
    <3>1. /\ pc[t] = "poolCheck" /\ pc' = [pc EXCEPT ![t] = "idle"] /\ UNCHANGED <<vm, cur, pooled>>
          /\ held' = [held EXCEPT ![t] = @ \cup {cur[t]}]
      BY <1>2, <2>1 DEF PoolVMRuns, Return
    <3> QED BY <1>0, <1>a, <3>1, QuietLeaksNothing DEF Running
  <2>2. CASE t # Anonymous
    <3>1. /\ pc[t] = "poolCheck" /\ pc' = [pc EXCEPT ![t] = "record"]
          /\ UNCHANGED <<vm, cur, pooled, held>>
      BY <1>2, <2>2 DEF PoolVMRuns, Goto
    <3>2. pooled[t]
      BY <1>a, <3>1
    <3> QED BY <1>0, <1>a, <3>1, <3>2, QuietLeaksNothing DEF Running
  <2> QED BY <2>1, <2>2
<1>3. CASE PoolVMDiscarded(t)
  <2>1. /\ pc[t] = "poolCheck" /\ pc' = [pc EXCEPT ![t] = "status"] /\ UNCHANGED <<vm, held>>
        /\ cur' = [cur EXCEPT ![t] = Resolve(t)] /\ pooled' = [pooled EXCEPT ![t] = FALSE]
    BY <1>3 DEF PoolVMDiscarded, Goto
  <2>2. cur[t] \in Addressable => ~Running(cur[t])
    BY <1>3, <1>a, CleanFails DEF PoolVMDiscarded
  <2>3. Resolve(t) \in PoolNames => Resolve(t) \in held[t]
    BY <1>a, <1>b, <2>1
  <2> QED BY <1>0, <1>a, <2>1, <2>2, <2>3, QuietLeaksNothing DEF Running
<1>4. CASE AcquireStatus(t)
  <2>1. /\ pc[t] = "status" /\ UNCHANGED <<vm, cur, pooled, held>>
        /\ \E l \in {"wait", "record", "up"} : pc' = [pc EXCEPT ![t] = l]
    BY <1>4 DEF AcquireStatus, AfterStart, Goto
  <2> QED BY <1>0, <1>a, <2>1, QuietLeaksNothing DEF Running
<1>5. CASE AcquireUp(t)
  <2>1. pc[t] = "up" /\ UNCHANGED <<cur, pooled>>
    BY <1>5 DEF AcquireUp
  <2>2. CASE UpOk(cur[t]) /\ Goto(t, AfterStart(t)) /\ UNCHANGED <<lock, held>>
    <3>1. \A r \in Runtimes \ {cur[t]} : Running(r)' <=> Running(r)
      BY <2>2 DEF UpOk, Running
    <3>2. held' = held /\ \E l \in {"wait", "record"} : pc' = [pc EXCEPT ![t] = l]
      BY <2>2 DEF AfterStart, Goto
    <3> QED BY <1>0, <1>a, <2>1, <3>1, <3>2, QuietLeaksNothing
  <2>3. CASE UpFails(cur[t]) /\ Raise(t)
    <3>1. vm' = vm /\ cur[t] \notin Addressable
      BY <1>a, <2>3, CleanFails
    <3>2. held' = held /\ pc' = [pc EXCEPT ![t] = "idle"]
      BY <2>3 DEF Raise
    <3> QED BY <1>0, <1>a, <2>1, <3>1, <3>2, QuietLeaksNothing DEF Running
  <2> QED BY <1>5, <2>2, <2>3 DEF AcquireUp
<1>6. CASE WaitForSsh(t)
  <2>1. pc[t] = "wait" /\ UNCHANGED <<vm, cur, pooled>> /\ pc' = [pc EXCEPT ![t] = "idle"]
    BY <1>6 DEF WaitForSsh, Return, Raise
  <2>2. held' = held \/ held' = [held EXCEPT ![t] = @ \cup {cur[t]}]
    BY <1>6 DEF WaitForSsh, Return, Raise
  <2>3. cur[t] \in PoolNames => cur[t] \in held[t]
    BY <1>a, <2>1
  <2>4. held[t] \subseteq held'[t]
    BY <2>2
  <2> QED BY <1>0, <1>a, <2>1, <2>3, <2>4, QuietLeaksNothing DEF Running
<1>7. CASE ReleaseHandle(t)
  <2>1. /\ pc[t] = "release" /\ pc' = [pc EXCEPT ![t] = "stop"]
        /\ UNCHANGED <<vm, cur, pooled, held>>
    BY <1>7 DEF ReleaseHandle, Goto
  <2> QED BY <1>0, <1>a, <2>1, QuietLeaksNothing DEF Running
<1>8. CASE ReleaseStop(t)
  <2>1. /\ pc[t] = "stop" /\ pc' = [pc EXCEPT ![t] = "remove"] /\ UNCHANGED <<cur, pooled, held>>
        /\ vm' = [vm EXCEPT ![cur[t]] = "stopped"] /\ cur[t] \in Runtimes
    BY <1>8, <1>c DEF ReleaseStop, Goto, StopVM
  <2>2. ~Running(cur[t])' /\ \A r \in Runtimes : Running(r)' => Running(r)
    BY <2>1 DEF Running
  <2> QED BY <1>0, <1>a, <2>1, <2>2, QuietLeaksNothing
<1>9. CASE Shutdown(t)
  <2>1. /\ pc[t] = "shutdown" /\ UNCHANGED <<vm, cur, pooled, held>>
        /\ \E l \in {"idle", "selflock"} : pc' = [pc EXCEPT ![t] = l]
    BY <1>9 DEF Shutdown, Raise, Goto
  <2> QED BY <1>0, <1>a, <2>1, QuietLeaksNothing DEF Running
<1> QED BY <1>1, <1>2, <1>3, <1>4, <1>5, <1>6, <1>7, <1>8, <1>9 DEF QuietStep

LEMMA PopLeaksNothing ==
  ASSUME TypeOK, TypeOK', LeakParts, NEW t \in Threads, AcquireFromPool(t), pool # <<>>
  PROVE  LeaksNothing(t)
<1> USE DEF TypeOK
<1>1. /\ pc[t] = "acquire" /\ pc' = [pc EXCEPT ![t] = "poolCheck"] /\ pool' = Tail(pool)
      /\ cur' = [cur EXCEPT ![t] = Head(pool)] /\ UNCHANGED <<vm, held, file, mem, warming>>
  BY DEF AcquireFromPool, Goto, registry
<1>2. pooled'[t]
  BY DEF AcquireFromPool
<1>3. /\ OthersStay(t) /\ \A u \in Threads \ {t} : pc[u] \notin {"remove", "removing"}
  BY StepLeavesOthers DEF Step
<1>4. \A u \in Threads : SentTo(u)' = SentTo(u)
  BY <1>1, <1>3, SameMappings DEF OthersStay, Writing
<1>5. Claims(t)' = held[t] \cup {Head(pool)} /\ Claims(t) = held[t]
  BY <1>1 DEF Claims, Concerned
<1>6. ASSUME NEW r, Kept(r) PROVE Kept(r)' \/ r = Head(pool)
  <2>1. CASE wnext # 0 /\ PoolVMs[wnext] = r
    BY <1>1, <2>1 DEF Kept, warming
  <2>2. ASSUME NEW i \in DOMAIN pool, pool[i] = r PROVE Kept(r)' \/ r = Head(pool)
    <3>1. CASE i = 1
      BY <2>2, <3>1
    <3>2. CASE i # 1
      <4>1. i - 1 \in DOMAIN Tail(pool) /\ Tail(pool)[i - 1] = r
        BY <2>2, <3>2
      <4> QED BY <1>1, <4>1 DEF Kept
    <3> QED BY <3>1, <3>2
  <2> QED BY <1>6, <2>1, <2>2 DEF Kept
<1>7. ThreadInv(t)' /\ StoppedInv(t)'
  BY <1>1, <1>2, <1>4 DEF LeakParts, ThreadInv, StoppedInv, Passing
<1> QED BY <1>1, <1>3, <1>4, <1>5, <1>6, <1>7 DEF LeaksNothing, Running

\* The registry: what a write sends a thread to, the thread holds or is about to be given.
LEMMA RegistryLeaksNothing ==
  ASSUME TypeOK, TypeOK', LeakParts, NEW t \in Threads, RegistryStep(t)
  PROVE  LeaksNothing(t)
<1> USE DEF TypeOK
<1>0. Step(t) /\ lock = t /\ cur[t] \in Runtimes /\ UNCHANGED <<vm, pool>> /\ ThreadInv(t)
  BY DEF RegistryStep, Step, RecordBegin, RecordEnd, RemoveBegin, RemoveEnd, ReleaseDone, Concerned,
         LeakParts
<1>1. OthersStay(t) /\ UNCHANGED warming /\ \A u \in Threads \ {t} : pc[u] \notin {"remove", "removing"}
  BY <1>0, StepLeavesOthers
<1>2. \A u \in Threads : Writing(u) => u = t
  BY <1>0, OnlyHolderWrites
<1>3. \A r : (Running(r)' <=> Running(r)) /\ (Kept(r)' <=> Kept(r))
  BY <1>0, <1>1 DEF Running, Kept, warming
<1>4. Loaded \in Mapping /\ None \notin PoolNames
  BY LoadedType, SandboxAssumption DEF PoolNames
<1>5. SUFFICES /\ \A u \in Threads \ {t} : PoolNames \cap SentTo(u)' \subseteq SentTo(u)
               /\ ThreadInv(t)' /\ StoppedInv(t)'
               /\ \A r \in PoolNames \cap Addressable :
                    Running(r) /\ r \in Claims(t) => Kept(r) \/ r \in Claims(t)'
  BY <1>0, <1>1, <1>3 DEF LeaksNothing
<1>6. CASE RecordBegin(t)
  <2>1. /\ pc[t] = "record" /\ pc' = [pc EXCEPT ![t] = "recording"] /\ UNCHANGED <<cur, held, pooled>>
        /\ mem' = [Loaded EXCEPT ![t] = cur[t]] /\ Loaded' = NoMapping
    BY <1>6 DEF RecordBegin, Goto, Loaded, NoMapping
  <2>2. \A u \in Threads \ {t} : mem'[u] = Loaded[u]
    BY <1>4, <2>1 DEF Mapping
  <2>3. \A u \in Threads \ {t} : PoolNames \cap SentTo(u)' \subseteq SentTo(u)
    BY <1>4, <2>1, <2>2 DEF SentTo, NoMapping
  <2>4. PoolNames \cap SentTo(t)' \subseteq {cur[t]}
    BY <1>4, <2>1 DEF SentTo, NoMapping, Mapping
  <2>5. Passing(t)' = {cur[t]}
    BY <2>1 DEF Passing
  <2>6. ThreadInv(t)'
    BY <1>0, <2>1, <2>4, <2>5 DEF ThreadInv
  <2> QED BY <2>1, <2>3, <2>6 DEF StoppedInv, Claims, Concerned
<1>7. CASE RecordEnd(t)
  <2>1. pc[t] = "recording" /\ Loaded' = mem /\ UNCHANGED <<mem, cur, pooled>>
    BY <1>7, SandboxAssumption DEF RecordEnd, Loaded, Mapping
  <2>2. Writing(t)
    BY <2>1 DEF Writing
  <2>3. \A u \in Threads : SentTo(u)' \subseteq SentTo(u)
    BY <2>1, <2>2 DEF SentTo
  <2>4. PoolNames \cap SentTo(t) \subseteq held[t] \cup {cur[t]}
    BY <1>0, <2>1 DEF ThreadInv, Passing
  <2>5. CASE pooled[t]
    <3>1. pc' = [pc EXCEPT ![t] = "idle"] /\ held' = [held EXCEPT ![t] = @ \cup {cur[t]}]
      BY <1>7, <2>5 DEF RecordEnd, Return
    <3> QED BY <2>1, <2>3, <2>4, <3>1 DEF ThreadInv, StoppedInv, Claims, Concerned
  <2>6. CASE ~pooled[t]
    <3>1. pc' = [pc EXCEPT ![t] = "wait"] /\ UNCHANGED held
      BY <1>7, <2>6 DEF RecordEnd, Goto
    <3>2. cur[t] \in PoolNames => cur[t] \in held[t]
      BY <1>0, <2>1, <2>6 DEF ThreadInv
    <3> QED BY <2>1, <2>3, <2>4, <2>6, <3>1, <3>2 DEF ThreadInv, StoppedInv, Claims, Concerned
  <2> QED BY <2>5, <2>6
<1>8. CASE RemoveBegin(t)
  <2>1. /\ pc[t] = "remove" /\ pc' = [pc EXCEPT ![t] = "removing"] /\ UNCHANGED <<cur, held, pooled>>
        /\ Loaded' = NoMapping
    BY <1>8 DEF RemoveBegin, Goto, Loaded, NoMapping
  <2>2. \A u \in Threads : mem'[u] \in {Loaded[u], None}
    BY <1>4, <1>8 DEF RemoveBegin, Mapping
  <2>3. \A u \in Threads : PoolNames \cap SentTo(u)' \subseteq SentTo(u)
    BY <1>4, <2>1, <2>2 DEF SentTo, NoMapping
  <2>4. StoppedInv(t)'
    BY <1>3, <2>1 DEF StoppedInv, LeakParts
  <2> QED BY <1>0, <2>1, <2>3, <2>4 DEF ThreadInv, Passing, Claims, Concerned
<1>9. CASE RemoveEnd(t)
  <2>1. /\ pc[t] = "removing" /\ pc' = [pc EXCEPT ![t] = "remove"]
        /\ Loaded' = mem /\ UNCHANGED <<mem, cur, held, pooled>>
    BY <1>9, SandboxAssumption DEF RemoveEnd, Goto, Loaded, Mapping
  <2>2. Writing(t)
    BY <2>1 DEF Writing
  <2>3. \A u \in Threads : SentTo(u)' \subseteq SentTo(u)
    BY <2>1, <2>2 DEF SentTo
  <2>4. StoppedInv(t)'
    BY <1>3, <2>1 DEF StoppedInv, LeakParts
  <2> QED BY <1>0, <2>1, <2>3, <2>4 DEF ThreadInv, Passing, Claims, Concerned
<1>10. CASE ReleaseDone(t)
  <2>1. /\ pc[t] = "remove" /\ pc' = [pc EXCEPT ![t] = "idle"] /\ Loaded' = Loaded
        /\ UNCHANGED <<cur, held, pooled>> /\ Loaded[t] # cur[t]
    BY <1>10 DEF ReleaseDone, Raise, Loaded, NoMapping
  <2>2. \A u \in Threads : ~Writing(u) /\ ~Writing(u)'
    BY <1>1, <1>2, <2>1 DEF Writing, OthersStay
  <2>3. \A u \in Threads : SentTo(u)' = SentTo(u) /\ SentTo(u) = {Loaded[u]}
    BY <2>1, <2>2 DEF SentTo
  <2>4. PoolNames \cap SentTo(t)' \subseteq held'[t]
    BY <1>0, <2>1, <2>3 DEF ThreadInv, Passing
  <2>5. \A r \in PoolNames \cap Addressable :
          Running(r) /\ r \in Claims(t) => Kept(r) \/ r \in Claims(t)'
    BY <2>1 DEF LeakParts, StoppedInv, Claims, Concerned
  <2> QED BY <2>1, <2>3, <2>4, <2>5 DEF ThreadInv, StoppedInv
<1> QED BY <1>6, <1>7, <1>8, <1>9, <1>10 DEF RegistryStep

\* The warm thread: what it starts is in its hands until the append.
LEMMA WarmLeaksNothing ==
  ASSUME TypeOK, TypeOK', LeakParts, faults' = 0, WarmBegin \/ WarmUp \/ WarmAppend
  PROVE  LeakParts'
<1> USE DEF TypeOK
<1>1. UNCHANGED <<file, mem, pc, cur, held, pooled>>
  BY DEF WarmBegin, WarmUp, WarmAppend, registry, callState
<1>2. \A u \in Threads : SentTo(u)' = SentTo(u) /\ Claims(u)' = Claims(u) /\ Passing(u)' = Passing(u)
  <2>1. \A u \in Threads : Writing(u)' <=> Writing(u)
    BY <1>1 DEF Writing
  <2> QED BY <1>1, <2>1, SameMappings DEF Claims, Concerned, Passing
<1>3. \A u \in Threads : ThreadInv(u)'
  BY <1>1, <1>2 DEF ThreadInv, LeakParts
<1>4. ASSUME NEW r \in PoolNames \cap Addressable, Running(r)'
      PROVE  (Running(r) \/ Kept(r)') /\ (Kept(r) => Kept(r)')
  <2>1. CASE WarmBegin
    BY <1>4, <2>1 DEF WarmBegin, Running, Kept
  <2>2. CASE WarmUp
    <3> DEFINE v == PoolVMs[wnext]
    <3>1. wnext # 0 /\ v \in Runtimes /\ pool' = pool
      BY <2>2, PoolVMsRange DEF WarmUp
    <3>2. CASE UpOk(v) /\ v \in Addressable /\ wup' = TRUE /\ UNCHANGED wnext
      <4>1. \A q \in Runtimes \ {v} : Running(q)' <=> Running(q)
        BY <3>2 DEF UpOk, Running
      <4>2. r \in Runtimes
        BY SandboxAssumption
      <4>3. wnext' = wnext /\ (r = v => Kept(r)')
        BY <3>1, <3>2 DEF Kept
      <4>4. Kept(r) => Kept(r)'
        BY <3>1, <4>3 DEF Kept
      <4> QED BY <1>4, <4>1, <4>2, <4>3, <4>4
    <3>3. CASE UpOk(v) /\ v \notin Addressable
      <4>1. r # v /\ r \in Runtimes
        BY <3>3, SandboxAssumption
      <4>2. Running(r)
        BY <1>4, <3>3, <4>1 DEF UpOk, Running
      <4> QED BY <3>1, <4>1, <4>2 DEF Kept
    <3>4. CASE UpFails(v)
      <4>1. v \notin Configured /\ vm' = vm
        BY <3>4, CleanFails
      <4>2. r # v /\ Running(r)
        BY <1>4, <4>1, SandboxAssumption DEF Running
      <4> QED BY <3>1, <4>2 DEF Kept
    <3> QED BY <2>2, <3>2, <3>3, <3>4 DEF WarmUp
  <2>3. CASE WarmAppend
    <3>1. pool' = Append(pool, PoolVMs[wnext]) /\ vm' = vm
      BY <2>3 DEF WarmAppend
    <3>2. /\ Len(pool) + 1 \in DOMAIN pool' /\ pool'[Len(pool) + 1] = PoolVMs[wnext]
          /\ \A i \in DOMAIN pool : i \in DOMAIN pool' /\ pool'[i] = pool[i]
      BY <3>1
    <3> QED BY <1>4, <3>1, <3>2 DEF Kept, Running
  <2> QED BY <2>1, <2>2, <2>3
<1>5. ASSUME NEW u \in Threads PROVE StoppedInv(u)'
  BY <1>1, <1>4 DEF StoppedInv, LeakParts
<1>6. ASSUME NEW r \in PoolNames \cap Addressable, Running(r)'
      PROVE  Kept(r)' \/ \E u \in Threads : r \in Claims(u)'
  BY <1>2, <1>4, <1>6 DEF LeakParts
<1> QED BY <1>3, <1>5, <1>6 DEF LeakParts

LEMMA LeakStep == LeakInv /\ [Next]_vars => LeakInv'
<1> SUFFICES ASSUME LeakInv, [Next]_vars PROVE LeakInv'
  OBVIOUS
<1>0. TypeOK /\ TypeOK'
  BY TypeStep DEF LeakInv
<1> SUFFICES ASSUME Clean' PROVE LeakParts'
  BY <1>0 DEF LeakInv
<1>1. CASE UNCHANGED vars
  <2>1. LeakParts
    BY <1>1 DEF vars, bounds, LeakInv, Clean
  <2> QED BY <1>1, <2>1 DEF vars, registry, callState, warming, LeakParts, ThreadInv, StoppedInv, Kept,
            Running, Claims, Concerned, Passing, SentTo, Loaded, NoMapping, Writing
<1>2. ASSUME NEW t \in Threads, Call(t) PROVE LeakParts'
  <2>1. LeakParts
    BY <1>2 DEF Call, CallAcquire, Get, CallRelease, CallShutdown, bounds, Clean, LeakInv
  <2> QED BY <1>0, <1>2, <2>1, CallLeaksNothing, LocalStep
<1>3. ASSUME NEW t \in Threads, Step(t) PROVE LeakParts'
  <2>1. boots' = boots /\ (faults' = faults \/ faults' = faults + 1)
    BY <1>3 DEF Step, AcquireFromPool, PoolVMRuns, PoolVMDiscarded, AcquireStatus, AcquireUp,
           RecordBegin, RecordEnd, WaitForSsh, ReleaseHandle, ReleaseStop, RemoveBegin, RemoveEnd,
           ReleaseDone, Shutdown, bounds, StatusOk, StatusFails, UpOk, UpFails, StopVM, TimesOut
  <2>2. LeakParts /\ faults' = 0
    BY <1>0, <2>1 DEF TypeOK, Clean, LeakInv
  <2>3. LeaksNothing(t)
    BY <1>0, <1>3, <2>2, QuietStepLeaksNothing, PopLeaksNothing, RegistryLeaksNothing
       DEF Step, QuietStep, RegistryStep
  <2> QED BY <2>2, <2>3, LocalStep
<1>4. CASE Warm
  <2>1. boots' = boots /\ (faults' = faults \/ faults' = faults + 1)
    BY <1>4 DEF Warm, WarmBegin, WarmUp, WarmAppend, bounds, UpOk, UpFails, TimesOut
  <2>2. LeakParts /\ faults' = 0
    BY <1>0, <2>1 DEF TypeOK, Clean, LeakInv
  <2> QED BY <1>0, <1>4, <2>2, WarmLeaksNothing DEF Warm
<1>5. ASSUME NEW r \in Runtimes, GuestBoots(r) PROVE LeakParts'
  <2>1. UNCHANGED <<file, mem, pool, pc, cur, held, pooled, warming, faults, boots>>
    BY <1>5 DEF GuestBoots, registry, callState, bounds
  <2>2. \A q \in Runtimes : Running(q)' <=> Running(q)
    BY <1>0, <1>5 DEF GuestBoots, Running, TypeOK
  <2>3. LeakParts
    BY <2>1 DEF Clean, LeakInv
  <2>4. \A u \in Threads : /\ Claims(u)' = Claims(u) /\ SentTo(u)' = SentTo(u)
                          /\ Passing(u)' = Passing(u)
    BY <2>1 DEF Claims, Concerned, Passing, SentTo, Loaded, NoMapping, Writing
  <2>5. \A q : Kept(q)' <=> Kept(q)
    BY <2>1 DEF Kept, warming
  <2>6. \A u \in Threads : StoppedInv(u)'
    BY <2>1, <2>2, <2>3, <2>5, SandboxAssumption DEF LeakParts, StoppedInv
  <2>7. \A u \in Threads : ThreadInv(u)'
    BY <2>1, <2>3, <2>4 DEF LeakParts, ThreadInv
  <2> QED BY <2>2, <2>3, <2>4, <2>5, <2>6, <2>7, SandboxAssumption DEF LeakParts
<1>6. ~Restart /\ \A r \in Runtimes : ~StoppedOutside(r)
  BY <1>0 DEF Restart, StoppedOutside, TimesOut, Clean, TypeOK
<1> QED BY <1>1, <1>2, <1>3, <1>4, <1>5, <1>6 DEF Next, Environment

\* While nothing fails, acquire, release and warm lose no running pool VM that has a static_ip,
\* however often the pool is warmed (VMPool.acquire and warm, registry.set, release).
THEOREM NoVMIsLost == Spec => []NoSilentLeak
BY LeakInit, LeakStep, LeakMeans, PTL DEF Spec
=============================================================================
