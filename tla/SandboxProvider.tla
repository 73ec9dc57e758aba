-------------------------- MODULE SandboxProvider --------------------------
(***************************************************************************)
(* The deer-flow sandbox provider (extensions/deer_flow): a process whose  *)
(* threads acquire, use and release VMs through the ADP-OS command line,   *)
(* with a registry file that maps deer-flow threads to runtimes and an     *)
(* in-memory pool of VMs that a background thread warms.                   *)
(*                                                                         *)
(* One action is one command-line call, one half of a registry write, or   *)
(* what a call does between two of them.  Two locks order the threads: the *)
(* provider's, held for a whole acquire or release, and the pool's, held   *)
(* by acquire while it checks the VM it popped.  A command may time out,   *)
(* somebody may stop a VM from a shell, and the process may be restarted.  *)
(***************************************************************************)
EXTENDS Naturals, Sequences, FiniteSets

CONSTANTS
  Threads,       \* deer-flow threads; each makes one call at a time
  Anonymous,     \* the thread whose thread_id is None
  Agent,         \* the runtime "agent", where Anonymous is sent
  PoolVMs,       \* the runtimes deerflow-pool-0, deerflow-pool-1, ...
  Runtimes,      \* every runtime name a call may carry
  Configured,    \* the runtimes of the topology file; the others are unknown to the CLI
  Addressable,   \* the configured runtimes that have a static_ip
  MaxCalls,      \* bound: calls of acquire, release and shutdown
  MaxWarms,      \* bound: calls of warm_pool that find the warm lock free
  MaxFaults,     \* bound: commands that time out, and VMs stopped from a shell
  MaxBoots,      \* bound: restarts of the process
  Shutdowns,     \* TRUE: shutdown may be called
  Torn,          \* a registry file that is no JSON
  None           \* no runtime, nobody

ASSUME SandboxAssumption ==
  /\ PoolVMs \in Seq(Runtimes)
  /\ \A i, j \in DOMAIN PoolVMs : PoolVMs[i] = PoolVMs[j] => i = j
  /\ Threads \subseteq Runtimes /\ Agent \in Runtimes
  /\ \A i \in DOMAIN PoolVMs : PoolVMs[i] \notin Threads \cup {Agent}
  /\ Addressable \subseteq Configured /\ Configured \subseteq Runtimes
  /\ None \notin Runtimes
  /\ Torn \notin [Threads -> Runtimes \cup {None}]
  /\ Shutdowns \in BOOLEAN
  /\ MaxCalls \in Nat /\ MaxWarms \in Nat /\ MaxFaults \in Nat /\ MaxBoots \in Nat

VARIABLES
  vm,        \* what runs on the host: "stopped", "booting" or "reachable" over SSH
  file,      \* the registry file: a map from threads, or Torn
  mem,       \* registry._map
  pool,      \* pool._pool, oldest first
  lock,      \* the thread that holds provider._lock, or None
  pc,        \* where each thread is in its call
  cur,       \* the runtime that call is about
  pooled,    \* the call got its VM from the pool
  upRan,     \* the call has run `adpos up`
  handles,   \* _sandboxes: the runtimes with a cached SSH handle
  wnext,     \* the warm thread's loop index, 1-based; 0 when no one warms
  wup,       \* the warm thread's `up` has succeeded and the VM awaits its append
  offered,   \* history: the pool VMs that the warm thread has ever appended
  again,     \* history: those it has appended a second time
  held,      \* history: the sandboxes acquire has returned to a thread, until it releases them
  promised,  \* history: the mapping recorded for a thread and neither removed nor torn since
  calls, warms, faults, boots

registry == <<file, mem, promised>>
callState == <<lock, pc, cur, pooled, upRan, held>>
warming == <<wnext, wup, offered, again>>
bounds == <<calls, warms, faults, boots>>
vars == <<vm, registry, pool, callState, handles, warming, bounds>>

-----------------------------------------------------------------------------
(* The registry *)

PoolNames == {PoolVMs[i] : i \in DOMAIN PoolVMs}

NoMapping == [t \in Threads |-> None]

\* Mutant: the map in memory is trusted although another process wrote the file.
LoadedFromMemory == mem

\* ThreadRuntimeRegistry.load: a missing or an unreadable file is an empty map.
Loaded == IF file = Torn THEN NoMapping ELSE file

\* ThreadRuntimeRegistry.get
Resolve(t) ==
  IF Loaded[t] # None THEN Loaded[t]
  ELSE IF t = Anonymous THEN Agent
  ELSE t

Writing(t) == pc[t] \in {"recording", "removing"}

-----------------------------------------------------------------------------
(* The command line.  A command on a runtime that is not configured fails; *)
(* any other may fail or time out, at the cost of one fault.               *)

Running(r) == vm[r] # "stopped"

TimesOut == /\ faults < MaxFaults
            /\ faults' = faults + 1

\* `adpos status` exits with 0 whatever the state of a configured VM.
StatusOk(r) == r \in Configured /\ UNCHANGED faults
StatusFails(r) == (r \notin Configured /\ UNCHANGED faults) \/ TimesOut

\* `adpos up` starts the VM; when the caller gives up, the VM may be running all the same.
UpOk(r) ==
  /\ r \in Configured
  /\ vm' = IF Running(r) THEN vm ELSE [vm EXCEPT ![r] = "booting"]
  /\ UNCHANGED faults
UpFails(r) ==
  \/ r \notin Configured /\ UNCHANGED <<vm, faults>>
  \/ /\ r \in Configured
     /\ TimesOut
     /\ vm' \in {vm, [vm EXCEPT ![r] = IF Running(r) THEN @ ELSE "booting"]}

\* `adpos stop`, whose result release ignores.
StopVM(r) ==
  \/ vm' = [vm EXCEPT ![r] = "stopped"] /\ UNCHANGED faults
  \/ TimesOut /\ UNCHANGED vm

-----------------------------------------------------------------------------
(* acquire *)

Return(t) ==
  /\ held' = [held EXCEPT ![t] = @ \cup {cur[t]}]
  /\ pc' = [pc EXCEPT ![t] = "idle"]
  /\ lock' = None

Raise(t) ==
  /\ pc' = [pc EXCEPT ![t] = "idle"]
  /\ lock' = None
  /\ UNCHANGED held

Goto(t, label) == pc' = [pc EXCEPT ![t] = label]

CallAcquire(t) ==
  /\ pc[t] = "idle" /\ calls < MaxCalls
  /\ Goto(t, "acquire")
  /\ calls' = calls + 1
  /\ UNCHANGED <<vm, registry, pool, lock, cur, pooled, upRan, held, handles, warming,
                 warms, faults, boots>>

\* Mutant: the entry stays in the pool until the VM has been checked.
AcquirePeeksPool(t) ==
  /\ pc[t] = "acquire" /\ lock = None
  /\ lock' = t
  /\ upRan' = [upRan EXCEPT ![t] = FALSE]
  /\ pooled' = [pooled EXCEPT ![t] = pool # <<>>]
  /\ IF pool # <<>>
     THEN cur' = [cur EXCEPT ![t] = Head(pool)] /\ Goto(t, "poolCheck")
     ELSE cur' = [cur EXCEPT ![t] = Resolve(t)] /\ Goto(t, "status")
  /\ UNCHANGED <<vm, registry, pool, held, handles, warming, bounds>>

\* Takes the provider's lock and looks into the pool.
AcquireFromPool(t) ==
  /\ pc[t] = "acquire" /\ lock = None
  /\ lock' = t
  /\ upRan' = [upRan EXCEPT ![t] = FALSE]
  /\ pooled' = [pooled EXCEPT ![t] = pool # <<>>]
  /\ IF pool # <<>>
     THEN /\ cur' = [cur EXCEPT ![t] = Head(pool)]
          /\ pool' = Tail(pool)
          /\ Goto(t, "poolCheck")
     ELSE /\ cur' = [cur EXCEPT ![t] = Resolve(t)]
          /\ Goto(t, "status")
          /\ UNCHANGED pool
  /\ UNCHANGED <<vm, registry, held, handles, warming, bounds>>

\* A checked pool VM goes to the thread, without a wait for SSH.
PoolVMRuns(t) ==
  /\ pc[t] = "poolCheck" /\ Running(cur[t]) /\ StatusOk(cur[t])
  /\ IF t = Anonymous THEN Return(t) ELSE Goto(t, "record") /\ UNCHANGED <<lock, held>>
  /\ UNCHANGED <<vm, registry, pool, cur, pooled, upRan, handles, warming, calls, warms, boots>>

\* Mutant: the check asks for a reachable VM instead of a running one.
PoolVMDiscardedUnreachable(t) ==
  /\ pc[t] = "poolCheck"
  /\ \/ vm[cur[t]] # "reachable" /\ UNCHANGED faults
     \/ StatusFails(cur[t])
  /\ cur' = [cur EXCEPT ![t] = Resolve(t)]
  /\ pooled' = [pooled EXCEPT ![t] = FALSE]
  /\ Goto(t, "status")
  /\ UNCHANGED <<vm, registry, pool, lock, upRan, held, handles, warming, calls, warms, boots>>

\* One that does not run, or whose status timed out, is dropped.
PoolVMDiscarded(t) ==
  /\ pc[t] = "poolCheck"
  /\ \/ ~Running(cur[t]) /\ UNCHANGED faults
     \/ StatusFails(cur[t])
  /\ cur' = [cur EXCEPT ![t] = Resolve(t)]
  /\ pooled' = [pooled EXCEPT ![t] = FALSE]
  /\ Goto(t, "status")
  /\ UNCHANGED <<vm, registry, pool, lock, upRan, held, handles, warming, calls, warms, boots>>

AfterStart(t) == IF t = Anonymous THEN "wait" ELSE "record"

AcquireStatus(t) ==
  /\ pc[t] = "status"
  /\ \/ StatusOk(cur[t]) /\ Goto(t, AfterStart(t))
     \/ StatusFails(cur[t]) /\ Goto(t, "up")
  /\ UNCHANGED <<vm, registry, pool, lock, cur, pooled, upRan, held, handles, warming,
                 calls, warms, boots>>

AcquireUp(t) ==
  /\ pc[t] = "up"
  /\ \/ UpOk(cur[t]) /\ Goto(t, AfterStart(t)) /\ UNCHANGED <<lock, held>>
     \/ UpFails(cur[t]) /\ Raise(t)
  /\ upRan' = [upRan EXCEPT ![t] = TRUE]
  /\ UNCHANGED <<registry, pool, cur, pooled, handles, warming, calls, warms, boots>>

\* registry.set: load, update, truncate ...
RecordBegin(t) ==
  /\ pc[t] = "record"
  /\ mem' = [Loaded EXCEPT ![t] = cur[t]]
  /\ file' = Torn
  /\ Goto(t, "recording")
  /\ UNCHANGED <<vm, promised, pool, lock, cur, pooled, upRan, held, handles, warming, bounds>>

\* ... and write.
RecordEnd(t) ==
  /\ pc[t] = "recording"
  /\ file' = mem
  /\ promised' = [promised EXCEPT ![t] = cur[t]]
  /\ IF pooled[t] THEN Return(t) ELSE Goto(t, "wait") /\ UNCHANGED <<lock, held>>
  /\ UNCHANGED <<vm, mem, pool, cur, pooled, upRan, handles, warming, bounds>>

\* Mutant: the loop has no deadline.
WaitForSshForever(t) ==
  /\ pc[t] = "wait"
  /\ Running(cur[t]) /\ StatusOk(cur[t]) /\ Return(t)
  /\ UNCHANGED <<vm, registry, pool, cur, pooled, upRan, handles, warming, calls, warms, boots>>

\* _wait_for_ssh.  The word "reachable" is also part of "unreachable", so the status
\* of a booting guest ends the wait unless its SSH answers with "auth-pending"; the
\* wait ends in TimeoutError when every status until the deadline lacks the word.
WaitForSsh(t) ==
  /\ pc[t] = "wait"
  /\ \/ Running(cur[t]) /\ StatusOk(cur[t]) /\ Return(t)
     \/ vm[cur[t]] # "reachable" /\ UNCHANGED faults /\ Raise(t)
     \/ StatusFails(cur[t]) /\ Raise(t)
  /\ UNCHANGED <<vm, registry, pool, cur, pooled, upRan, handles, warming, calls, warms, boots>>

-----------------------------------------------------------------------------
(* get, release and shutdown *)

\* get caches a handle for a runtime it finds an address for, whether its VM runs or not:
\* the topology's static_ip, or else the address `adpos status` prints for a running VM.
Get(t) == \E r \in held[t] :
  /\ pc[t] = "idle" /\ lock = None
  /\ r \in Addressable \/ (r \in Configured /\ Running(r))
  /\ handles' = handles \cup {r}
  /\ UNCHANGED <<vm, registry, pool, callState, warming, bounds>>

CallRelease(t) == \E r \in held[t] :
  /\ pc[t] = "idle" /\ calls < MaxCalls
  /\ Goto(t, "release")
  /\ cur' = [cur EXCEPT ![t] = r]
  /\ held' = [held EXCEPT ![t] = @ \ {r}]
  /\ calls' = calls + 1
  /\ UNCHANGED <<vm, registry, pool, lock, pooled, upRan, handles, warming, warms, faults, boots>>

ReleaseHandle(t) ==
  /\ pc[t] = "release" /\ lock = None
  /\ lock' = t
  /\ handles' = handles \ {cur[t]}
  /\ Goto(t, "stop")
  /\ UNCHANGED <<vm, registry, pool, cur, pooled, upRan, held, warming, bounds>>

\* Mutant: a failed stop ends the call, as an exception would.
ReleaseStopRaises(t) ==
  /\ pc[t] = "stop"
  /\ \/ vm' = [vm EXCEPT ![cur[t]] = "stopped"] /\ UNCHANGED faults
        /\ Goto(t, "remove") /\ UNCHANGED <<lock, held>>
     \/ TimesOut /\ UNCHANGED vm /\ Raise(t)
  /\ UNCHANGED <<registry, pool, cur, pooled, upRan, handles, warming, calls, warms, boots>>

ReleaseStop(t) ==
  /\ pc[t] = "stop"
  /\ StopVM(cur[t])
  /\ Goto(t, "remove")
  /\ UNCHANGED <<registry, pool, lock, cur, pooled, upRan, held, handles, warming,
                 calls, warms, boots>>

\* registry.remove of one of the threads mapped to the runtime ...
RemoveBegin(t) ==
  /\ pc[t] = "remove"
  /\ \E tid \in Threads :
       /\ Loaded[tid] = cur[t]
       /\ mem' = [Loaded EXCEPT ![tid] = None]
       /\ promised' = [promised EXCEPT ![tid] = None]
  /\ file' = Torn
  /\ Goto(t, "removing")
  /\ UNCHANGED <<vm, pool, lock, cur, pooled, upRan, held, handles, warming, bounds>>

RemoveEnd(t) ==
  /\ pc[t] = "removing"
  /\ file' = mem
  /\ Goto(t, "remove")
  /\ UNCHANGED <<vm, mem, promised, pool, lock, cur, pooled, upRan, held, handles, warming, bounds>>

\* Mutant: a released VM goes back to the pool.
ReleaseDoneToPool(t) ==
  /\ pc[t] = "remove" /\ \A tid \in Threads : Loaded[tid] # cur[t]
  /\ mem' = Loaded
  /\ pool' = IF cur[t] \in PoolNames THEN Append(pool, cur[t]) ELSE pool
  /\ Raise(t)
  /\ UNCHANGED <<vm, file, promised, cur, pooled, upRan, handles, warming, bounds>>

\* ... until none is left.
ReleaseDone(t) ==
  /\ pc[t] = "remove" /\ \A tid \in Threads : Loaded[tid] # cur[t]
  /\ mem' = Loaded
  /\ Raise(t)
  /\ UNCHANGED <<vm, file, promised, pool, cur, pooled, upRan, handles, warming, bounds>>

CallShutdown(t) ==
  /\ Shutdowns /\ pc[t] = "idle" /\ calls < MaxCalls
  /\ Goto(t, "shutdown")
  /\ calls' = calls + 1
  /\ UNCHANGED <<vm, registry, pool, lock, cur, pooled, upRan, held, handles, warming,
                 warms, faults, boots>>

\* shutdown calls release, which asks for the lock that shutdown holds and that is not
\* reentrant: the thread stays in "selflock", where it has no further step.
Shutdown(t) ==
  /\ pc[t] = "shutdown" /\ lock = None
  /\ IF handles = {} THEN Raise(t) ELSE lock' = t /\ Goto(t, "selflock") /\ UNCHANGED held
  /\ UNCHANGED <<vm, registry, pool, cur, pooled, upRan, handles, warming, bounds>>

-----------------------------------------------------------------------------
(* warm_pool.  A call that finds the warm lock taken changes nothing. *)

WarmBegin ==
  /\ wnext = 0 /\ Len(PoolVMs) > 0 /\ warms < MaxWarms
  /\ wnext' = 1 /\ wup' = FALSE
  /\ warms' = warms + 1
  /\ UNCHANGED <<vm, registry, pool, callState, handles, offered, again, calls, faults, boots>>

WarmNext == wnext' = IF wnext < Len(PoolVMs) THEN wnext + 1 ELSE 0

\* `up`, and the next VM at once if it fails.  A VM that was started and has no static_ip is
\* passed over too, and left running.
WarmUp ==
  /\ wnext # 0 /\ ~wup
  /\ LET r == PoolVMs[wnext]
     IN  \/ UpOk(r) /\ r \in Addressable /\ wup' = TRUE /\ UNCHANGED wnext
         \/ UpOk(r) /\ r \notin Addressable /\ WarmNext /\ UNCHANGED wup
         \/ UpFails(r) /\ WarmNext /\ UNCHANGED wup
  /\ UNCHANGED <<registry, pool, callState, handles, offered, again, calls, warms, boots>>

\* The append waits for the pool's lock.
WarmAppend ==
  /\ wnext # 0 /\ wup /\ \A t \in Threads : pc[t] # "poolCheck"
  /\ LET r == PoolVMs[wnext]
     IN  /\ pool' = Append(pool, r)
         /\ offered' = offered \cup {r}
         /\ again' = again \cup ({r} \cap offered)
  /\ WarmNext /\ wup' = FALSE
  /\ UNCHANGED <<vm, registry, callState, handles, bounds>>

-----------------------------------------------------------------------------
(* The environment *)

GuestBoots(r) ==
  /\ vm[r] = "booting"
  /\ vm' = [vm EXCEPT ![r] = "reachable"]
  /\ UNCHANGED <<registry, pool, callState, handles, warming, bounds>>

\* Someone runs `adpos stop` in a shell.
StoppedOutside(r) ==
  /\ Running(r) /\ TimesOut
  /\ vm' = [vm EXCEPT ![r] = "stopped"]
  /\ UNCHANGED <<registry, pool, callState, handles, warming, calls, warms, boots>>

\* The process dies and a new one starts: __init__, with the file as it is.  A file whose
\* writer died reads as an empty map, which ends what was promised.
Restart ==
  /\ boots < MaxBoots
  /\ boots' = boots + 1
  /\ mem' = NoMapping /\ pool' = <<>> /\ lock' = None /\ handles' = {}
  /\ pc' = [t \in Threads |-> "idle"] /\ cur' = [t \in Threads |-> None]
  /\ pooled' = [t \in Threads |-> FALSE] /\ upRan' = [t \in Threads |-> FALSE]
  /\ held' = [t \in Threads |-> {}]
  /\ wnext' = 0 /\ wup' = FALSE
  /\ promised' = IF \E t \in Threads : Writing(t) THEN NoMapping ELSE promised
  /\ UNCHANGED <<vm, file, offered, again, calls, warms, faults>>

-----------------------------------------------------------------------------

Init ==
  /\ vm = [r \in Runtimes |-> "stopped"]
  /\ file = NoMapping /\ mem = NoMapping /\ promised = NoMapping
  /\ pool = <<>> /\ lock = None /\ handles = {}
  /\ pc = [t \in Threads |-> "idle"] /\ cur = [t \in Threads |-> None]
  /\ pooled = [t \in Threads |-> FALSE] /\ upRan = [t \in Threads |-> FALSE]
  /\ held = [t \in Threads |-> {}]
  /\ wnext = 0 /\ wup = FALSE /\ offered = {} /\ again = {}
  /\ calls = 0 /\ warms = 0 /\ faults = 0 /\ boots = 0

\* What a thread does once its call has begun.
Step(t) ==
  \/ AcquireFromPool(t) \/ PoolVMRuns(t) \/ PoolVMDiscarded(t)
  \/ AcquireStatus(t) \/ AcquireUp(t) \/ RecordBegin(t) \/ RecordEnd(t) \/ WaitForSsh(t)
  \/ ReleaseHandle(t) \/ ReleaseStop(t) \/ RemoveBegin(t) \/ RemoveEnd(t) \/ ReleaseDone(t)
  \/ Shutdown(t)

Call(t) == CallAcquire(t) \/ Get(t) \/ CallRelease(t) \/ CallShutdown(t)

Warm == WarmBegin \/ WarmUp \/ WarmAppend

Environment == Restart \/ \E r \in Runtimes : GuestBoots(r) \/ StoppedOutside(r)

Next == (\E t \in Threads : Call(t) \/ Step(t)) \/ Warm \/ Environment

Spec == Init /\ [][Next]_vars

\* Every command has a timeout and the loops are bounded, so a thread that can go on does.
Fairness == WF_vars(WarmUp \/ WarmAppend) /\ \A t \in Threads : WF_vars(Step(t))

FairSpec == Spec /\ Fairness

-----------------------------------------------------------------------------
(* Properties *)

Labels == {"idle", "acquire", "poolCheck", "status", "up", "record", "recording", "wait",
           "release", "stop", "remove", "removing", "shutdown", "selflock"}

Mapping == [Threads -> Runtimes \cup {None}]

\* The thread's call is about the runtime cur[t].
Concerned(t) == pc[t] \notin {"idle", "acquire", "shutdown", "selflock"}

\* Types, and who holds the provider's lock: the one thread inside a call, or nobody.
TypeOK ==
  /\ vm \in [Runtimes -> {"stopped", "booting", "reachable"}]
  /\ file \in Mapping \cup {Torn} /\ mem \in Mapping /\ promised \in Mapping
  /\ pool \in Seq(PoolNames)
  /\ lock \in Threads \cup {None}
  /\ pc \in [Threads -> Labels] /\ cur \in [Threads -> Runtimes \cup {None}]
  /\ pooled \in [Threads -> BOOLEAN] /\ upRan \in [Threads -> BOOLEAN]
  /\ held \in [Threads -> SUBSET Runtimes] /\ handles \subseteq Runtimes
  /\ wnext \in 0..Len(PoolVMs) /\ wup \in BOOLEAN
  /\ offered \subseteq PoolNames /\ again \subseteq offered
  /\ calls \in Nat /\ warms \in Nat /\ faults \in Nat /\ boots \in Nat
  /\ \A t \in Threads : pc[t] \notin {"idle", "acquire", "release", "shutdown"} => lock = t
  /\ \A t \in Threads : Concerned(t) => cur[t] \in Runtimes

\* What a thread has been given or is being given, and where the registry sends it.
Claims(t) == held[t] \cup (IF Concerned(t) THEN {cur[t]} ELSE {})
SentTo(t) == {Loaded[t]} \cup (IF \E u \in Threads : Writing(u) THEN {mem[t]} ELSE {})
Uses(t) == PoolNames \cap (Claims(t) \cup SentTo(t))

\* A pool VM belongs to one thread at a time, until the warm thread appends it a second
\* time: none is handed out twice, or waits in the pool while a thread has it (VMPool.acquire
\* and warm, registry.set, release).
PoolExclusive ==
  /\ \A t, u \in Threads : t # u => Uses(t) \cap Uses(u) \subseteq again
  /\ \A i \in DOMAIN pool : \A t \in Threads : pool[i] \in Uses(t) => pool[i] \in again
  /\ \A i, j \in DOMAIN pool : pool[i] = pool[j] => i = j \/ pool[i] \in again

\* What makes PoolExclusive inductive: a VM that was never appended is known to nobody.
PoolInv ==
  /\ TypeOK
  /\ PoolExclusive
  /\ \A r \in PoolNames \ offered :
       /\ \A i \in DOMAIN pool : pool[i] # r
       /\ \A t \in Threads : r \notin Uses(t)

\* The pool lends as VMLeases says until a VM is appended a second time: no thread comes by
\* a pool VM but by taking the oldest of the pool, not even through a mapping that a release,
\* another thread's write of the registry file or a restart left behind.
Leases == INSTANCE VMLeases WITH
  VMs <- PoolNames, fresh <- PoolNames \ offered, waiting <- pool,
  lent <- [t \in Threads |-> Uses(t)], void <- (again # {})

PoolLendsOnce == Leases!Spec

\* No two threads hold the same pool VM, however often warm_pool is called (the docstring
\* of VMPool.warm: safe to call multiple times).
PoolVMOfOneThread ==
  \A t, u \in Threads : t # u => held[t] \cap held[u] \cap PoolNames = {}

\* Somebody has the VM or may yet take it.
HasOwner(r) ==
  \/ \E i \in DOMAIN pool : pool[i] = r
  \/ wnext # 0 /\ PoolVMs[wnext] = r
  \/ \E t \in Threads : r \in held[t] \/ (Concerned(t) /\ cur[t] = r)

\* While nothing fails, every pool VM that runs and has a static_ip is in the pool, in use by
\* a thread or in the hands of the warm thread: acquire, release and warm lose none of them.
NoSilentLeak ==
  faults = 0 /\ boots = 0 =>
    \A r \in PoolNames \cap Addressable : Running(r) => HasOwner(r)

\* The same of every pool VM.  One without a static_ip is started by the warm thread, logged
\* and forgotten (registry.py:166-167).
NoPoolVMForgotten ==
  faults = 0 /\ boots = 0 => \A r \in PoolNames : Running(r) => HasOwner(r)

\* A mapping once recorded is there until release removes it or a process dies inside a
\* write of the file, across the writes of other threads and across restarts
\* (ThreadRuntimeRegistry: mappings survive process restarts).
MappingSurvives ==
  (\A t \in Threads : ~Writing(t)) =>
    \A t \in Threads : promised[t] # None => Loaded[t] = promised[t]

\* A release ends with no thread mapped to its runtime, whatever the stop command said.
ReleaseUnmaps ==
  [][\A t \in Threads :
       pc[t] \in {"stop", "remove", "removing"} /\ pc'[t] = "idle" /\ boots' = boots =>
         \A u \in Threads : Loaded'[u] # cur[t]]_vars

\* A thread inside a call, with every step of another thread and of the warm thread
\* around it, returns or raises, unless shutdown has stopped at its own lock.
CallsReturn ==
  \A t \in Threads : pc[t] # "idle" ~> pc[t] = "idle" \/ \E u \in Threads : pc[u] = "selflock"

\* shutdown ends (its docstring: release all sandboxes and clean up).
ShutdownEnds == \A t \in Threads : pc[t] = "shutdown" ~> pc[t] = "idle"

\* The wait for SSH ends with a VM whose SSH answers (the docstring of _wait_for_ssh: poll
\* adpos status until the VM reports reachable SSH).
WaitsForReachable ==
  [][\A t \in Threads :
       pc[t] = "wait" /\ cur[t] \in held'[t] \ held[t] => vm[cur[t]] = "reachable"]_vars

\* A call waits for the SSH of a VM that runs or that it has tried to start (the
\* docstring of acquire: map thread_id to a runtime, start the VM, wait for SSH).
WaitsForAStartedVM == \A t \in Threads : pc[t] = "wait" => Running(cur[t]) \/ upRan[t]
=============================================================================
