---------------------------- MODULE GuestCalls ----------------------------
(***************************************************************************)
(* Calls into one running VM: the threads of a deer-flow process that      *)
(* share an ADPSSHSandbox (extensions/deer_flow/sandbox.py over ssh.py)    *)
(* and the MCP servers with their in-VM tools (cli/mcp/vm_tools.py over    *)
(* core._ssh_exec).  A call sends a shell command and waits for it; the    *)
(* command is a job of the guest, which no caller ever stops: it goes on   *)
(* when its caller has timed out or lost the connection, and a thread then *)
(* runs the command a second time over a second transport.                 *)
(*                                                                         *)
(* A file is the sequence of the calls whose blocks it holds.  Overwriting *)
(* takes two steps of a job, the shell's truncation and the write at       *)
(* offset 0, and so does appending.  The VM may stop and boot and the      *)
(* network may drop every connection (MaxFaults times together).           *)
(***************************************************************************)
EXTENDS Naturals, Sequences, FiniteSets

CONSTANTS
  Threads,    \* deer-flow threads that hold the one handle of this VM
  Servers,    \* MCP servers; FastMCP runs a synchronous tool to its end
  Paths,      \* files of one directory of the guest
  Requests,   \* bound: the operations that the first, the second, ... call may be
  MaxFaults,  \* bound: stops of the VM, cuts of the network, closings of the handle
  Missing,    \* the content of a file that is not there
  ErrorText,  \* what cat writes to stderr for a missing file
  NoData      \* an empty stdout, or nothing returned

Callers == Threads \cup Servers
Overwriting == {"write", "upload"}
Appending == {"append", "exec"}
Changing == Overwriting \cup Appending
Reading == {"read", "download"}
Looking == {"list", "search"}
Operations == Changing \cup Reading \cup Looking

MaxCalls == Len(Requests)

ASSUME GuestAssumption ==
  /\ Threads \cap Servers = {}
  /\ Requests \in Seq(SUBSET Operations)
  /\ MaxFaults \in Nat
  /\ Missing \notin Seq(Nat)
  /\ \A S \in (SUBSET (1..MaxCalls)) \cup SUBSET Paths : S \notin {ErrorText, NoData}

VARIABLES
  up,      \* the VM runs
  dir,     \* the directory exists
  file,    \* what each path holds: Missing, or the calls whose blocks it has
  jobs,    \* the commands running in the guest, or whose output awaits its caller
  client,  \* SSHConnection._client: "none", "live", or "dead" with its transport
  pc,      \* for each caller: where it is, its call, its attempt
  calls,   \* history: every call, as it was sent and as it was answered
  faults

vars == <<up, dir, file, jobs, client, pc, calls, faults>>

-----------------------------------------------------------------------------
(* Jobs of the guest *)

\* A command reaches the shell over a transport or over an ssh process.
NewJob(n, k, via) == [call |-> n, try |-> k, via |-> via, at |-> "start", exit |-> "none", out |-> NoData]

Op(j) == calls[j.call].op
Path(j) == calls[j.call].path

Awaiting(a) == {j \in jobs : j.call = pc[a].call /\ j.try = pc[a].try}
Awaited(j) == \E a \in Callers : pc[a].at \in {"wait", "status", "waitssh"} /\ j \in Awaiting(a)

Replace(j, js) == jobs' = (jobs \ {j}) \cup js

\* The shell exits; its output is kept for a caller that still waits.
Exit(j, exit, out) == Replace(j, IF Awaited(j) THEN {[j EXCEPT !.at = "done", !.exit = exit, !.out = out]} ELSE {})

Present == {p \in Paths : file[p] # Missing}
Blocks(p) == IF file[p] = Missing THEN {} ELSE {file[p][i] : i \in DOMAIN file[p]}

\* The job may still change a file.
Pending(j) == Op(j) \in Changing /\ j.at \in {"start", "made", "opened"}

\* No such file: the sandbox's cat has its stderr in stdout.
CannotRead(j) == Exit(j, "1", IF Op(j) = "read" /\ calls[j.call].by \in Threads THEN ErrorText ELSE NoData)

\* cat, base64: one read of a small file
Read(j) ==
  /\ j.at = "start" /\ Op(j) \in Reading
  /\ IF file[Path(j)] = Missing THEN CannotRead(j) ELSE Exit(j, "0", Blocks(Path(j)))
  /\ UNCHANGED <<up, dir, file, client, pc, calls, faults>>

\* find | sort, find | head, grep | head: the status is that of the last of the pipe.
\* The patterns, the depth, head and max_results leave any of the files out.
Look(j) ==
  /\ j.at = "start" /\ Op(j) \in Looking
  /\ \E found \in SUBSET Present : Exit(j, "0", found)
  /\ UNCHANGED <<up, dir, file, client, pc, calls, faults>>

\* adp_file_upload: mkdir -p comes first.
MakeDirectory(j) ==
  /\ j.at = "start" /\ Op(j) = "upload" /\ calls[j.call].by \in Servers
  /\ dir' = TRUE
  /\ Replace(j, {[j EXCEPT !.at = "made"]})
  /\ UNCHANGED <<up, file, client, pc, calls, faults>>

\* Mutant: append is sent with `>`.
TruncatesAlways(j) == Op(j) \in Overwriting \cup {"append"}

\* The shell opens the redirection: `>` truncates the file, `>>` creates it.
Truncates(j) == Op(j) \in Overwriting

Open(j) ==
  /\ Op(j) \in Changing
  /\ j.at = IF Op(j) = "upload" /\ calls[j.call].by \in Servers THEN "made" ELSE "start"
  /\ IF dir
     THEN /\ file' = [file EXCEPT ![Path(j)] = IF Truncates(j) \/ @ = Missing THEN <<>> ELSE @]
          /\ Replace(j, {[j EXCEPT !.at = "opened"]})
     ELSE Exit(j, "1", NoData) /\ UNCHANGED file
  /\ UNCHANGED <<up, dir, client, pc, calls, faults>>

\* `>` writes at offset 0, over what another job put there; `>>` at the end.
Written(j) ==
  IF Op(j) \in Overwriting /\ file[Path(j)] # <<>>
  THEN [file[Path(j)] EXCEPT ![1] = j.call]
  ELSE Append(file[Path(j)], j.call)

\* The caller's own command ends as it likes, what it wrote stays written.
Ends(j) == IF Op(j) = "exec" THEN {"0", "1"} ELSE {"0"}

\* The block is written and the command ends.  The caller's own may go on: it closes
\* its outputs, or prints and prints.
Put(j) ==
  /\ j.at = "opened"
  /\ file' = [file EXCEPT ![Path(j)] = Written(j)]
  /\ calls' = [calls EXCEPT ![j.call].puts = @ + 1]
  /\ \/ \E exit \in Ends(j) : Exit(j, exit, NoData)
     \/ Op(j) = "exec" /\ \E at \in {"quiet", "prints"} : Replace(j, {[j EXCEPT !.at = at]})
  /\ UNCHANGED <<up, dir, client, pc, faults>>

End(j) ==
  /\ j.at \in {"quiet", "prints"}
  /\ \E exit \in Ends(j) : Exit(j, exit, NoData)
  /\ UNCHANGED <<up, dir, file, client, pc, calls, faults>>

Job(j) == Read(j) \/ Look(j) \/ MakeDirectory(j) \/ Open(j) \/ Put(j) \/ End(j)

-----------------------------------------------------------------------------
(* A call *)

Idle == [at |-> "idle", call |-> 0, try |-> 0]

\* A caller waits no longer for its command, and it goes on; what it could only
\* tell its caller is left out.
Abandon(a) ==
  (jobs \ Awaiting(a)) \cup {[j EXCEPT !.via = "gone"] : j \in {i \in Awaiting(a) : Pending(i)}}

\* The calls that were answered and change nothing any more.
Settled == {n \in DOMAIN calls : calls[n].st # "open" /\ ~ \E j \in jobs : j.call = n /\ Pending(j)}

Record(a, op, p, st) ==
  calls' = Append(calls, [by |-> a, op |-> op, path |-> p, st |-> st, data |-> NoData,
                          runs |-> 0, puts |-> 0, before |-> Settled])

MayCall(a, op) == pc[a].at = "idle" /\ Len(calls) < MaxCalls /\ op \in Requests[Len(calls) + 1]

\* A method of the sandbox, or a tool with plan_only=False.
Call(a, op, p) ==
  /\ MayCall(a, op)
  /\ Record(a, op, p, "open")
  /\ pc' = [pc EXCEPT ![a] = [Idle EXCEPT !.at = IF a \in Threads THEN "connect" ELSE "resolve",
                                          !.call = Len(calls) + 1]]
  /\ UNCHANGED <<up, dir, file, jobs, client, faults>>

\* Nothing is sent: plan_only, the default of adp_file_write and adp_file_upload,
\* answers with a description of the command; a path with ".." and an upload that is
\* no base64 are refused.
AnswerAlone(a, op, p) ==
  /\ MayCall(a, op) /\ a \in Servers /\ op # "exec"
  /\ Record(a, op, p, "unsent")
  /\ UNCHANGED <<up, dir, file, jobs, client, pc, faults>>

\* The tools go by the exit status.  execute_command, list_dir, glob and grep never
\* raise, and read_file raises only without output: they take what came for an
\* answer though the command failed.
Accepted(a, op, out) == a \in Threads /\ (op \in Looking \cup {"exec"} \/ (op = "read" /\ out # NoData))

\* Mutant: a timeout is taken for a success.
OkOnTimeout(a, exit, out) ==
  CASE exit \in {"0", "-1"} -> "ok"
    [] Accepted(a, calls[pc[a].call].op, out) -> "taken"
    [] exit = "1" -> "refused"
    [] OTHER -> "failed"

\* A status of 1 is the guest's own; with any other the command may have run.
Outcome(a, exit, out) ==
  CASE exit = "0" -> "ok"
    [] Accepted(a, calls[pc[a].call].op, out) -> "taken"
    [] exit = "1" -> "refused"
    [] OTHER -> "failed"

\* list_dir: a status other than 0 without output, and ls -R is tried, the third
\* attempt of the call and, by the ssh binary, its fourth.
ListsAgain(a, exit, out) ==
  /\ a \in Threads /\ calls[pc[a].call].op = "list" /\ pc[a].try <= 2
  /\ exit # "0" /\ out \in {NoData, {}}

Answer(a, exit, out) ==
  /\ IF ListsAgain(a, exit, out)
     THEN pc' = [pc EXCEPT ![a].at = "connect", ![a].try = IF @ <= 2 THEN 2 ELSE @] /\ UNCHANGED calls
     ELSE /\ pc' = [pc EXCEPT ![a] = Idle]
          /\ calls' = [calls EXCEPT ![pc[a].call].st = Outcome(a, exit, out), ![pc[a].call].data = out]
  /\ jobs' = Abandon(a)
  /\ UNCHANGED <<up, dir, file, client, faults>>

Goes(a, at) ==
  /\ pc' = [pc EXCEPT ![a].at = at]
  /\ jobs' = Abandon(a)
  /\ UNCHANGED <<up, dir, file, client, calls, faults>>

Starts(a, via, at) ==
  /\ jobs' = jobs \cup {NewJob(pc[a].call, pc[a].try + 1, via)}
  /\ pc' = [pc EXCEPT ![a].at = at, ![a].try = @ + 1]
  /\ calls' = [calls EXCEPT ![pc[a].call].runs = @ + 1]
  /\ UNCHANGED <<up, dir, file, faults>>

\* _ensure_paramiko, and the command is sent over the cached client, or over a new
\* one that is cached.
Send(a) ==
  /\ pc[a].at = "connect" /\ up /\ client # "dead"
  /\ client' = "live"
  /\ Starts(a, "client", "wait")

\* Any exception of paramiko leads to the ssh binary: paramiko is not installed, no
\* connection in time, a dead client (it stays cached), a command whose start is not
\* confirmed, a read for which nothing came within the timeout.
SendFails(a) ==
  /\ pc[a].at = "connect" /\ client # "live"
  /\ pc' = [pc EXCEPT ![a].at = "ssh", ![a].try = @ + 1]
  /\ UNCHANGED <<up, dir, file, jobs, client, calls, faults>>

Lost(a) == \A j \in Awaiting(a) : j.via = "gone"

\* What had come of the output when the connection broke.
Part(j) == IF j.out \in {ErrorText, NoData} THEN {NoData, j.out} ELSE SUBSET j.out
Parts(a) == {NoData} \cup UNION {Part(j) : j \in Awaiting(a)}

ReadFails(a) == pc[a].at = "wait" /\ Lost(a) /\ Goes(a, "ssh")

\* The timeout is each recv's: a command that keeps printing is read for ever.
Held(a) == pc[a].at = "wait" /\ \E j \in Awaiting(a) : j.via # "gone" /\ j.at = "prints"

TimesOut(a) == pc[a].at = "wait" /\ ~ Held(a) /\ Goes(a, "ssh")

\* Both outputs are closed before the end; recv_exit_status has no timeout.
ReadsAll(a) ==
  /\ pc[a].at = "wait"
  /\ \E j \in Awaiting(a) : j.via # "gone" /\ j.at = "quiet"
  /\ pc' = [pc EXCEPT ![a].at = "status"]
  /\ UNCHANGED <<up, dir, file, jobs, client, calls, faults>>

ExitStatus(a) ==
  /\ pc[a].at \in {"wait", "status"}
  /\ \E j \in Awaiting(a) : j.via # "gone" /\ j.at = "done" /\ Answer(a, j.exit, j.out)

\* The transport closes: the outputs end, recv_exit_status returns -1, no exception.
NoExitStatus(a) ==
  /\ pc[a].at \in {"wait", "status"} /\ Lost(a)
  /\ \E out \in Parts(a) : Answer(a, "-1", out)

\* _get_runtime_ip raises, or returns the address of a running VM.  The address is only
\* found in a line "agent running 192.168.242.135 ...", the form _parse_status and its
\* test give; `adpos status` prints name, status and address on lines of their own.
Resolve(a) ==
  /\ pc[a].at = "resolve"
  /\ \/ up /\ Goes(a, "ssh")
     \/ Answer(a, "none", NoData)

\* subprocess.run of the ssh binary, once
Ssh(a) ==
  /\ pc[a].at = "ssh" /\ up
  /\ Starts(a, "own", "waitssh")
  /\ UNCHANGED client

SshFails(a) == pc[a].at = "ssh" /\ Answer(a, "255", NoData)

SshEnds(a) ==
  /\ pc[a].at = "waitssh"
  /\ \/ \E j \in Awaiting(a) : j.via # "gone" /\ j.at = "done" /\ Answer(a, j.exit, j.out)
     \/ Lost(a) /\ \E out \in Parts(a) : Answer(a, "255", out)

\* Mutant: the subprocess has no timeout.
SshWaits(a) == FALSE

\* Mutant: a tool that timed out tries once more.
SshTriesAgain(a) == pc[a].at = "waitssh" /\ IF pc[a].try = 1 THEN Goes(a, "ssh") ELSE Answer(a, "-1", NoData)

\* TimeoutExpired: the ssh process is killed, its command is not.
SshTimesOut(a) == pc[a].at = "waitssh" /\ Answer(a, "-1", NoData)

CallStep(a) ==
  \/ Send(a) \/ SendFails(a) \/ ReadFails(a) \/ TimesOut(a) \/ ReadsAll(a) \/ ExitStatus(a) \/ NoExitStatus(a)
  \/ Resolve(a) \/ Ssh(a) \/ SshFails(a) \/ SshEnds(a) \/ SshTimesOut(a)

-----------------------------------------------------------------------------
(* The handle, the VM and the network *)

\* What was to come over these is lost, the jobs are not.
Cut(vias) == jobs' = {IF j.via \in vias THEN [j EXCEPT !.via = "gone"] ELSE j : j \in jobs}

Dead == IF client = "live" THEN "dead" ELSE client

Fault == faults < MaxFaults /\ faults' = faults + 1

\* SSHConnection.close, by the provider's release, under another thread's call too.
Close ==
  /\ Fault /\ client # "none"
  /\ client' = "none"
  /\ Cut({"client"})
  /\ UNCHANGED <<up, dir, file, pc, calls>>

\* The guest shuts down: its jobs end where they are, its files stay.
Stop ==
  /\ Fault /\ up
  /\ up' = FALSE /\ jobs' = {} /\ client' = Dead
  /\ UNCHANGED <<dir, file, pc, calls>>

Boot == ~ up /\ up' = TRUE /\ UNCHANGED <<dir, file, jobs, client, pc, calls, faults>>

\* Every connection breaks, and the guest goes on.
Disconnect ==
  /\ Fault /\ up
  /\ Cut({"client", "own"}) /\ client' = Dead
  /\ UNCHANGED <<up, dir, file, pc, calls>>

-----------------------------------------------------------------------------

Init ==
  /\ up = TRUE /\ dir \in BOOLEAN
  /\ file = [p \in Paths |-> Missing]
  /\ jobs = {} /\ client = "none"
  /\ pc = [a \in Callers |-> Idle]
  /\ calls = <<>> /\ faults = 0

Next ==
  \/ \E a \in Callers : \E op \in Operations, p \in Paths : Call(a, op, p) \/ AnswerAlone(a, op, p)
  \/ \E a \in Callers : CallStep(a)
  \/ \E j \in jobs : Job(j)
  \/ Close \/ Stop \/ Boot \/ Disconnect

\* A caller's program runs on and its timeouts expire; the guest's jobs owe nothing.
Fairness == \A a \in Callers : WF_vars(CallStep(a))

Spec == Init /\ [][Next]_vars /\ Fairness

-----------------------------------------------------------------------------
(* Properties *)

Data == (SUBSET (1..MaxCalls)) \cup (SUBSET Paths) \cup {ErrorText, NoData}
Exits == {"none", "0", "1", "255", "-1"}
JobType == [call : 1..MaxCalls, try : 1..4, via : {"client", "own", "gone"},
            at : {"start", "made", "opened", "quiet", "prints", "done"}, exit : Exits, out : Data]
CallType == [by : Callers, op : Operations, path : Paths, st : {"open", "ok", "taken", "failed", "refused", "unsent"},
             data : Data, runs : 0..4, puts : 0..2, before : SUBSET (1..MaxCalls)]
Places == {"idle", "connect", "wait", "status", "resolve", "ssh", "waitssh"}

\* Every variable has its type; a call is tried four times at most.
TypeOK ==
  /\ up \in BOOLEAN /\ dir \in BOOLEAN
  /\ \A p \in Paths : file[p] = Missing \/ \A i \in DOMAIN file[p] : file[p][i] \in DOMAIN calls
  /\ jobs \subseteq JobType
  /\ client \in {"none", "live", "dead"}
  /\ pc \in [Callers -> [at : Places, call : 0..MaxCalls, try : 0..4]]
  /\ \A n \in DOMAIN calls : calls[n] \in CallType
  /\ faults \in 0..MaxFaults

\* A change is acknowledged when the caller was told of success; execute_command
\* of the sandbox tells nothing.
Acknowledged(n) ==
  calls[n].st = "ok" /\ calls[n].op \in Changing /\ ~ (calls[n].by \in Threads /\ calls[n].op = "exec")

\* A tool changes the guest once at most, and not at all when it sent nothing or when
\* the guest refused its write, append or upload; adp_exec of a command that fails may
\* have changed it all the same.  A sandbox call changes it twice at most.
ToolsApplyOnce ==
  \A n \in DOMAIN calls :
    /\ calls[n].puts <= IF calls[n].by \in Servers THEN 1 ELSE 2
    /\ calls[n].by \in Servers /\ calls[n].puts > 0 =>
         calls[n].st # "unsent" /\ (calls[n].st = "refused" => calls[n].op = "exec")

BlocksOf(n) == IF calls[n].data \in {ErrorText, NoData} THEN {} ELSE calls[n].data

\* An overwrite of the same file that n need not survive: it came with n or after
\* it, or it is n itself, run a second time.
Overwritten(n) ==
  \E w \in DOMAIN calls : /\ w \notin calls[n].before /\ (w # n \/ calls[n].runs > 1)
                          /\ calls[w].op \in Overwriting /\ calls[w].path = calls[n].path

\* An acknowledged change is in its file, unless an overwrite came with it or after it.
AcknowledgedIsKept ==
  \A n \in DOMAIN calls : Acknowledged(n) => Overwritten(n) \/ n \in Blocks(calls[n].path)

\* What was acknowledged, and has ended in the guest, before a read began is in
\* what the read returns, unless an overwrite came with it or after it.
ReadsSeeAcknowledged ==
  \A r \in DOMAIN calls : \A n \in calls[r].before :
    calls[r].st = "ok" /\ Acknowledged(n) /\ calls[r].op \in Reading /\ calls[r].path = calls[n].path =>
      n \in BlocksOf(r) \/ Overwritten(n)

\* Every call ends, but for a sandbox command that has closed its outputs, whose exit
\* status is waited for without a timeout, and one that prints more often than the
\* timeout, whose output is read without end.
CallsEnd ==
  \A a \in Callers : pc[a].at # "idle" ~> pc[a].at = "idle" \/ (a \in Threads /\ (pc[a].at = "status" \/ Held(a)))

\* test_read_file_not_found: read_file of a missing file raises OSError.
MissingFileRaises == \A n \in DOMAIN calls : calls[n].op = "read" => calls[n].data # ErrorText
=============================================================================
