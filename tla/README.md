# Verification of ADP-OS

TLA+ models of the ADP-OS development platform, the TLC runs that check them on
small instances, and TLAPS proofs of the main results for every value of the
constants. Paths below are relative to the repository (`src/` in
`PROJECT.json`).

Contents: [the system](#the-system), [modules](#the-modules),
[TokenAuth](#tokenauth), [SandboxProvider](#sandboxprovider),
[EvidenceChain](#evidencechain), [VmLifecycle](#vmlifecycle),
[GuestCalls](#guestcalls), [WorkspaceTasks](#workspacetasks),
[SyncSession](#syncsession), [AutoinstallWait](#autoinstallwait),
[proofs](#proofs), [disagreements](#where-the-code-and-its-documents-disagree),
[not modelled](#not-modelled), [plan](#plan).

## The system

ADP-OS runs development VMs on a Windows host. One PowerShell command line
(`cli/adp.ps1`, the `adpos` command) does all the work; every command is a
process of its own that reads files and asks `vmrun` for the VMs' state, acts,
and ends. Nothing runs between commands. Around it:

| Part | State it keeps | Operations | How it meets the others |
|---|---|---|---|
| VM commands, provider, adapter, factory (`cli/commands/{up,stop,destroy,snapshot,restore}.ps1`, `adapters/windows/vmware/`, `runtimes/vmware/`) | the `.vmx`, the `.vmdk`, power, snapshots | up, stop, destroy, snapshot, restore | calls `vmrun` with a timeout; SSH into the guest for the bootstrap |
| Workspace tasks (`cli/commands/workspace.ps1`, `workspace/`) | one state file per project: marks, waivers, validations | create, mark, validate, approve, rollback, commit | takes snapshots with the VM commands, appends to the evidence chain |
| Evidence chain (`cli/commands/workspace/evidence.ps1`) | two JSON files, each a hash chain | evidence snapshot, log, declare | called by hand and by scripts, beside any other command |
| Sync sessions (`cli/commands/sync.ps1`, `adapters/windows/mutagen/`), SSH aliases (`cli/commands/network.ps1`) | Mutagen sessions, blocks of `~/.ssh/config` | sync start, sync stop, network apply | needs the VM's address; shared by all checkouts of a user |
| Autoinstall wait (`runtimes/vmware/vm-factory.ps1`), circuit breaker (`core/utility/circuit-breaker.ps1`) | in memory: a deadline, a count of repetitions | sleep, probe the guest, give up | the longest step of the first `up` |
| Checkout isolation and configuration (`core/config/`, `core/diagnostics/`) | `configs/local.json` | isolate, resolve a setting, apply the namespace | names every other command uses |
| REST API (`cli/api/`) | in memory: issued, revoked, consumed tokens | login, refresh, revoke, admin operations, one endpoint per command | runs `adpos` as a subprocess and waits for it |
| MCP server (`cli/mcp/`) | none | one tool per command; eight tools inside a VM | runs `adpos` as a subprocess; the in-VM tools run `ssh` |
| deer-flow provider (`extensions/deer_flow/`) | registry file, VM pool, cached handles | acquire, get, release, shutdown, warm_pool | runs `adpos status/up/stop`; threads of one process |
| deer-flow SSH sandbox (`extensions/deer_flow/{sandbox,ssh}.py`) | one cached paramiko client | execute_command, files, list, glob, grep, close | shares the guest with the MCP tools; a handle of the provider |
| Guest bootstrap, install, doctor, network, help, logging | guest or host set-up, no state of their own that others order themselves by | | |

What is hard in it:

* **No locks between processes.** VM commands, evidence commands and task
  commands read a state, decide, and act on it several calls later.
* **Calls that fail with an effect.** Each `vmrun` or `adpos` call has a timeout
  and is killed when it expires; what it was doing may have been done.
* **Commands that outlive their callers.** A timeout kills `ssh`, not what it started
  in the guest, and the sandbox then sends the command again.
* **Whole-file rewrites.** The JSON files are cleared and written again; a process
  that dies in between leaves an empty or torn one.
* **Threads and event loop.** The deer-flow provider has two locks and a
  background thread; the API checks a token in a worker thread and handles the
  request later on an event loop that a subprocess blocks.
* **Restarts.** The API's records live in memory, the provider's pool too, while
  tokens and VMs outlive the process.

What makes each part correct:

* *API*: a token gives what it was granted for, once where it is single-use, and
  nothing after it was revoked; every admitted request is answered.
* *Provider*: a pool VM has one user; a running VM with a known address is never
  forgotten; the mapping on file is what acquire recorded; every call ends.
* *Evidence chain*: the chain verifies, and nothing acknowledged leaves it.
* *VM commands*: exit code 0 means done; a snapshot reported is a snapshot taken; no
  VM runs without a `.vmx`; every command ends.
* *Calls into a guest*: what was acknowledged is there for those who ask later; a tool
  applies once; every call ends.
* *Workspace tasks*: ready to commit means validated and reviewed since; a waiver
  lasts until the next checkpoint; what was reported as recorded is in the file.
* *Autoinstall wait*: it ends in time; the breaker gives up a guest that is stuck, and
  no other.
* *Sync*: a session joins this checkout's workspace with the address where it expects
  its VM; no rewrite of an alias changes another ASCII block of the SSH config.

`PROJECT.json` lists, under `hazards`, the lines where these can go wrong, each
with the property that would catch it or the reason why none does.

## The modules

| Module | Contents |
|---|---|
| `TicketOffice` | what refresh tokens promise |
| `TokenAuth` | the API's tokens and requests; implements `TicketOffice` with a generated secret |
| `VMLeases` | what the VM pool promises its threads |
| `SandboxProvider` | the deer-flow provider, registry and pool; implements `VMLeases` until a VM is appended a second time |
| `AppendOnlyLog` | what the evidence chain promises |
| `EvidenceChain` | the evidence commands; implements `AppendOnlyLog`, each file until commands overlap on it or one dies in its write |
| `VmLifecycle` | one VM under the five VM commands |
| `GuestCalls` | deer-flow threads and MCP tools that run commands in one VM |
| `AtomicUpdates` | what a file that its writers read, clear and write as a whole promises |
| `WorkspaceTasks` | the state file of the tasks, their validations and their gates; implements `AtomicUpdates` |
| `SyncSession` | sync start, sync stop and network apply of the checkouts of one user; the SSH config implements `AtomicUpdates` |
| `AutoinstallWait` | the wait for a guest's installation, with its circuit breaker |
| `MC<module>` | the constants TLC needs, and symmetry |
| `<module>Proofs` | theorems about the module, for TLAPS |

The models are separate because the parts meet at narrow interfaces, which each
model states as its environment: `SandboxProvider` sees a VM as stopped, booting or
reachable and the command line as calls that succeed, fail or time out; `TokenAuth`
sees a command as something that keeps the event loop for a while; `GuestCalls`
sees a VM that stops and boots and a handle that may be closed under a call, which is
what `SandboxProvider`'s release does; `WorkspaceTasks` sees a snapshot that is there
or not; in `SyncSession` a command may end early, at a VM that does not run.
`VmLifecycle` is what stands behind these interfaces, and `AutoinstallWait` behind its
action `UpWait`, which has the ways that a wait ends. `GuestCalls` composes the two
parts that do share a state, the SSH sandbox and the MCP tools, in one module.

Conventions. An action is what no other step can come between: a handler
without an `await`, a call of `vmrun` or `adpos`, a file cleared, a file
written. Variables marked *history* record what happened and no guard reads
them. Definitions marked *Mutant* are deliberate errors; each property of each
passing run is violated when the mutant listed for it in `PROJECT.json` replaces
the definition it mutates. Constants called `Max...` are bounds of the runs; no
theorem fixes their value. Deadlock is not checked: every model has bounds at which it stops, and the liveness properties
say what must not get stuck before.

## TokenAuth

Models `cli/api/auth.py`, `dependencies.py`, the admin routes, and the endpoints
of `server.py` as far as authentication and the event loop go.

| State | Code |
|---|---|
| `issued`, `revoked`, `consumed` | `_issued_tokens`, `_revoked_jtis`, `_consumed_refresh_jtis` |
| `minted` | the tokens clients were given; a client may present any of them at any time |
| `boot`, `Secret` | the process, and `JWT_SECRET` (generated, or configured when `PersistentSecret`) |
| `req`, `loop` | each request in flight; the one whose subprocess blocks the event loop |
| `now` | `time.time()` in ticks |
| `rotated`, `grants`, `cut` | history: redeemed refresh tokens, pairs granted, subjects revoked |

`Admit` is the dependencies of an endpoint (`get_current_user`, `require_scope`,
`require_admin`), in a worker thread. `Login`, `Refresh`, `Revoke`,
`AdminRevokeToken`, `AdminCreateToken`, `AdminCreateRejected`, and
`AdminRevokeSubject` are handlers; `BeginCommand` and `EndCommand` enclose the
subprocess of the others. Any step may come between `Admit` and its handler: a
request admitted before its token was revoked is still handled, as in the code.
`Restart` empties the records.

| Run | Instance | Shows |
|---|---|---|
| `auth` | 2 subjects, 1 request in flight, 3 token pairs, default or asked-for scopes, TTLs of 1 tick, 1 restart, generated secret | `TypeOK`, `SingleUse`, `SubjectStaysRevoked`, `TokensNeverRevive`; refinement of `TicketOffice` (`RefreshTokensAreTickets`), with scopes that differ from login to login |
| `auth_live` | 2 requests in flight, 1 subject, 2 pairs, a read, a workspace write and a runtime write command, scopes by request, 1 restart, configured secret, no expiry | `CommandsAreAuthorized` (a command that runs, reads included, was admitted with a token of the scope it asks for), `AdmittedIsAnswered`; `OnlyRestartRevives`: with tokens that outlive the process, a restart alone brings one back |

The refinement takes every refresh token handed out for a ticket, and those that the
API would accept for the live ones. A grant (a login, an admin's token) buys one, a
rotation exchanges one for one of the same subject, role and scopes, and expiry,
revocation and a restart let some lapse. So no interleaving of these turns one ticket
into two, and none widens what a ticket is good for.

Three pairs are enough to log in, rotate and rotate again, or to rotate while
another subject's admin revokes; one restart is enough for a token of the process
before; one tick takes a token past its expiry. `Refresh`, which must not
interleave with a revocation, needs no request in flight beside the revoking one.

The time to live of both kinds is at least one tick (`AuthAssumption`): with none a
token would be handed out that is already void.

Fairness: strong fairness of each client's handler. asyncio takes ready
callbacks first in, first out, so a request that is ready whenever the loop is
free is handled; each subprocess has a timeout, so the loop becomes free.

## SandboxProvider

Models `extensions/deer_flow/deerflow_adp_sandbox.py` (the provider),
`registry.py` (`ThreadRuntimeRegistry`, `VMPool`) and `cli.py` (the calls of
`adpos`). The SSH sandbox a handle stands for is not part of it.

| State | Code |
|---|---|
| `vm` | each VM on the host: stopped, booting, reachable |
| `file`, `mem` | the registry file (or `Torn`), `_map` |
| `pool`, `wnext`, `wup` | `VMPool._pool`, and where the warm thread is |
| `offered`, `again` | history: the pool VMs ever appended to the pool, and those appended a second time |
| `lock`, `pc`, `cur`, `pooled`, `upRan` | the provider's lock and each thread's call |
| `handles` | `_sandboxes` |
| `held`, `promised` | history: what acquire returned and release has not taken; mappings recorded |

`acquire` is `CallAcquire`, `AcquireFromPool` (pop under both locks),
`PoolVMRuns` or `PoolVMDiscarded`, `AcquireStatus`, `AcquireUp`, `RecordBegin`,
`RecordEnd`, `WaitForSsh`; `release` is `CallRelease`, `ReleaseHandle`,
`ReleaseStop`, and `RemoveBegin`/`RemoveEnd` for each mapping, `ReleaseDone`.
`Get`, `Shutdown` and `Warm` follow `get`, `shutdown` and `warm_pool`. The pool's
lock is not a variable: `acquire` holds it exactly at `poolCheck`, and
`WarmAppend` waits for that. Faults are commands that time out (a timed-out `up`
may have started the VM) and VMs stopped from a shell.

| Run | Instance | Shows |
|---|---|---|
| `sandbox` | 2 threads (one whose id is no configured runtime, and the anonymous one, which is sent to "agent"), 2 pool VMs of which one has no `static_ip`, 3 calls, 2 warm-ups, 1 fault, 1 restart, shutdown | `PoolInv`, the inductive form of `PoolExclusive`, `NoSilentLeak`, `MappingSurvives`, `ReleaseUnmaps`; refinement of `VMLeases` (`PoolLendsOnce`); `CallsReturn`: every call returns unless a `shutdown` has locked itself out |
| `sandbox_shutdown` | 1 thread, 1 pool VM, shutdown | a [disagreement](#where-the-code-and-its-documents-disagree) |

The refinement maps what a thread holds, what its call is about and where the registry
would send it to what the pool has lent it (`Uses`), and the pool VMs that were never
offered to the fresh ones. A VM that was given up stays away from every thread, through
the mappings that releases, writes of other threads and restarts leave. The promise ends,
and the leases are void, with the first VM that is appended a second time: a second
`warm_pool`, or the one with which `__init__` begins after a restart
(deerflow_adp_sandbox.py:91), appends VMs that threads have or the registry still maps.
`PoolExclusive` excepts those VMs and no others.

`NoSilentLeak` speaks of pool VMs with a `static_ip`. One without it is started by the
warm thread, found to have no address, logged and left running (registry.py:166-167):
`NoPoolVMForgotten`, of every pool VM, is [violated](#where-the-code-and-its-documents-disagree).

Three calls are the shortest acquire, release, acquire in which a VM could get
a second user, two threads the fewest of which one acquires while the other holds or
releases, and two warm-ups the fewest that append a VM again. Two pool VMs let the warm thread be at the second while
the first is handed out. With one fault each command can be the one that fails.

Fairness: weak fairness of each thread's `Step` and of the warm thread, because every
command has a timeout and the loops are bounded. The provider's lock is held for
whole calls; weak fairness is enough because the number of calls is bounded, so
no thread is overtaken for ever. Booting is not fair: a guest may never come up.

## EvidenceChain

Models `cli/commands/workspace/evidence.ps1`. Each command reads a whole chain
and links a new entry to its end (`Link`), clears the file (`Open`, or `Refused`
when another command has it open), and writes chain and entry (`Write`). `Die` kills it
anywhere, also between clear and write, and commands may run at the same time. The
history variable `disturbed` has the files on which two commands were under way at
once, or one died between clear and write.

A digest is the sequence of all that was hashed into it, so the model's hash has
no collisions. `id` is the timestamp and the fields stored with it. A snapshot entry
also hashes metadata that it does not store; the model keeps that difference.

| Run | Instance | Shows |
|---|---|---|
| `evidence` | 2 commands that overlap, deaths and torn writes, 4 entries, 2 values of the metadata | `ChainInv`, the inductive form of `ChainVerifies`, `NoEntryTwice`; `AckedKept` and refinement of `AppendOnlyLog` (`AppendOnly`) for a file until it is disturbed |

The refinement maps a file that is being rewritten to the chain its writer
read: the append happens at the write. A disturbed file is a spoilt log, of which
nothing is promised any more; a snapshot and a log command do not disturb each other,
and neither does a command killed before it clears its file. Two commands are enough
for a stale read, and four entries let a chain of two be overwritten and extended. That
`AckedKept` ends with an overlap is the code's doing: of two commands that overlap on a
file, the later write removes the other's entry.

`ChainVerifies` holds under every interleaving and every death: that is the
point, for it means that verification of the links cannot notice an entry lost to
an overlap or a file emptied by a death.

## VmLifecycle

Models one runtime under `up` (with and without `-NoProvision`), `stop`, `destroy
-Force`, `snapshot create` and `restore -Force`, through `vmware-provider.ps1` (the
default provider), `vmware.ps1` and the factory, without a namespace. Runtimes share
nothing, so one is enough.

| State | Code |
|---|---|
| `vmx`, `disk`, `power`, `snaps` | the files of the VM's directory and what VMware runs |
| `pc`, `kind`, `snap` | each command: where it is, which it is, its argument |
| `report` | its exit code |
| `overlapped`, `destroyFailed`, `acked` | history: commands ran at once; a deletion failed; snapshots reported |
| `commands`, `faults` | bounds |

Each action is one `vmrun` or file call with the decision that follows it.
`Status` is `Get-VMStatus`, which takes a failed `vmrun list` for an empty one;
`Listed` is `Get-SnapshotList`, the same. `Failed` is a call that fails with or
without its effect. `Die` kills a command between two calls, and `PoweredOffByHand` is
the VM switched off by hand. A disk goes from blank through installing to provisioned
(the marker exists) and bootstrapped.

| Run | Instance | Shows |
|---|---|---|
| `vm` | 2 commands at once, 4 in all, 2 faults, 1 snapshot name | `AckedSnapshotsExist` and `NoSilentOrphan` under every overlap and failure; `SuccessMeansDone` and its invariant `CleanInv` in undisturbed histories; `CommandsEnd` |
| `vm_first_up` | 1 command | the first `up` |

Four commands are enough to define, start, snapshot and destroy, or to define and
start a VM that a restore and a destroy then compete for; with two faults a
status can be misread and a later call fail.

`SuccessMeansDone` speaks of histories without overlap or failure, because the
code gives no more: the commands lock nothing, and of two overlapping `up`s one
may take over the `.vmx` of the other and report success with the VM off.

Assumptions about VMware, which the code relies on: a hard stop of a VM that is
off fails, a snapshot name is taken once, a revert leaves the VM powered off, the
files of a running VM's disk cannot be deleted.

Fairness: weak fairness of each command's steps. `Invoke-Vmrun` kills a `vmrun`
past its timeout, and the wait for the installation has a deadline.

## GuestCalls

Models `extensions/deer_flow/ssh.py` and `sandbox.py` (the threads that share one
`ADPSSHSandbox`) and `cli/mcp/vm_tools.py` over `core.py` (the in-VM tools of MCP
servers), all at work in one VM on files of one directory.

| State | Code |
|---|---|
| `pc` | each caller: dialling, waiting for output, for the exit status, for the `ssh` process; which attempt of its call it is |
| `client` | `SSHConnection._client`: none, alive, or cached with a dead connection |
| `jobs` | shell commands of the guest, with the connection whose caller may still hear of them |
| `file`, `dir`, `up` | the guest's files, each the sequence of the calls whose blocks it holds; the directory; power |
| `calls` | history: each call as it was sent, answered, and how often it ran and wrote |

A sandbox call is `Call`, then `Send` over paramiko or, after any exception
(`SendFails`, `ReadFails`, `TimesOut`), `Ssh` over the binary; `list_dir` may do both
twice. A tool is `Call`, `Resolve` (`adpos status`) and `Ssh`; `AnswerAlone` is a
tool that sends nothing (`plan_only`, the default). A job reads, looks, or opens its
file and then writes it, in two steps between which others may come. A write, append or upload
that wrote ends with 0; the caller's own command (`exec`) ends as it likes, with 1 after
its change too, and may close its outputs before it ends (`quiet`) or print and print
(`prints`). A job goes on when its caller has given up. `Stop` ends all jobs where they
are.

| Run | Instance | Shows |
|---|---|---|
| `guest` | a thread and a server, one file, two calls (an append, write, exec or search, then an append, upload, read or list), one stop, cut or close | `ToolsApplyOnce`, `AcknowledgedIsKept`, `ReadsSeeAcknowledged`, `CallsEnd` |
| `guest_missing` | one read | a [disagreement](#where-the-code-and-its-documents-disagree) |

Two calls are enough for one's late command to meet the other's file: each may run
twice, so up to four jobs compete. One file of one directory is enough because no
command touches two. One fault each can hit every step; a second would only bring a
caller to the failure it already has.

What the code gives is weaker than one might wish, and the properties say by how
much. A sandbox call may apply twice (ssh.py:126-130), so an append may append twice.
An acknowledged write may be undone by an overwrite that was sent before it was
acknowledged, its own first attempt included, which is why `Overwritten` excepts
those; and `execute_command` reports nothing, so nothing is acknowledged by it. A
read over a broken connection returns what had come of the output, as does a timed
out one: such answers are "taken", and `ReadsSeeAcknowledged` speaks of those with
status 0. It speaks of reads alone: a listing or a search with status 0 may leave out any
file, through its pattern, its depth, `head` and the cut to `max_results`
(vm_tools.py:108-109, 144, 151-154, 198, 207), and the model lets it. And a refused
`adp_exec` may have changed the guest, which `ToolsApplyOnce` excepts.

`Resolve` takes the branch in which the tools find the guest's address. The parser
(`_parse_status`, core.py:451-473) wants name, status and address on one line, as the
test of it has them; `adpos status` prints them on lines of their own
(status.ps1:287-288), so with that output the tools end with "no address", a branch that
`Resolve` has, too.

Left out: two threads that dial at once (the client one of them overwrites is closed
with its last reference), the parsing of `grep`'s lines, a full disk in the guest, and
the output of commands whose caller is gone.

Fairness: weak fairness of each caller's steps; each has a timeout but for
two waits of the sandbox. `recv_exit_status` (ssh.py:74) has none, and the timeout of
the channel (ssh.py:71) is that of each `recv`, so a command that keeps printing is read
(ssh.py:72) for ever. `CallsEnd` excepts both. Only `exec` has such commands: what the
other methods send neither prints without end nor closes its outputs before its end. The
guest's jobs owe nothing.

## WorkspaceTasks

Models `task mark`, `task validate -Execute` (remote and `-Local`) and the gates of
`cli/commands/workspace.ps1` and `workspace/{tasks,validation,status}.ps1`.

| State | Code |
|---|---|
| `file` | the JSON state file: an entry for each task, or `Garbled` |
| `job` | each command: at a program of its validation, with the board it read, with the file cleared |
| `snapshot` | whether the VM has the task's snapshot (`VmLifecycle`) |
| `past`, `hist`, `disturbed` | history: what made an entry; what was reported as recorded; windows that overlapped or a kill inside one |

Every command reads the whole file (`ReadBoard`), clears it (`Open`) and writes it
(`Write`). `ValidateRemote` asks the gates once, before the first program;
`ValidateLocal` asks none; `Reports` reads the file again after the last program, or
the first that fails. `CommitDecision` and `SnapshotGateBlocks` are the gates, which
nobody stores: they are computed from the entry whenever they are shown. A human may
mark any state at any time, for no command asks a gate before it records one.

| Run | Instance | Shows |
|---|---|---|
| `tasks` | 2 commands at once, 3 in all, 2 tasks of which one is guarded, 2 programs, 5 of the marks | `ReadyIsEarned`, `WaiverStands`, `ReportedIsKept`, refinement of `AtomicUpdates` (`RecordsAreAtomic`) |

Three commands are the fewest that validate and review a task while another
command's write may take it back; two programs are the fewest where one fails after
another passed. The marks left out of the run change the entry as others of it do.

`ReadyIsEarned` holds under every overlap and every kill, for an entry is written
as a whole. A lost record is possible: two windows that overlap, or a kill between
clear and write, lose records of all tasks (a blank file is taken for one without
tasks). `ReportedIsKept` says that nothing else does. `RecordsAreAtomic` says
more of the histories without: the file changes by one event of one task at a time,
each made of what the file was worth before; a file that is being rewritten is worth
what its writer read. After a rerun a task marked
`running` and then `reviewed` is commit ready on its older result; docs/workspaces.md:168
describes the gates so.

Fairness: none. Neither `ssh` nor the programs of a local validation have a timeout.

## SyncSession

Models `sync start`, `sync stop` and `network apply` for the checkouts of one user
that use the same runtime names: `cli/commands/sync.ps1`, `network.ps1`,
`adapters/windows/mutagen/` and `core/diagnostics/ssh-alias.ps1`.

| State | Code |
|---|---|
| `config` | `~/.ssh/config`: for each alias, the address its block leads to; `Others` are the user's own blocks, `Plain` the aliases whose blocks are ASCII |
| `sessions` | Mutagen's sessions of each name, by the workspace at their local end, the oldest first |
| `job` | each process, and the config it read |
| `last`, `torn`, `raced`, `alone` | history: what each alias was last reported to mean; rewrites that overlapped; runtimes two checkouts worked on at once, or where a session was not shown to a start of another checkout; starts nothing interfered with |

`Start` is followed by `Look`, `LookAlias` (only for a healthy session of this
checkout), `Check` (New-SyncSession's own look), the rewrite of the config (`ReadConfig`,
`OpenConfig`, `WriteConfig`) and `Create`. `Apply` is the rewrite alone. `End` is a
command that ends early or is killed. `Stop` goes by the name of the session alone.

| Run | Instance | Shows |
|---|---|---|
| `sync` | 2 checkouts, 2 runtimes of which one has the same address in both, 2 other blocks of which one is not ASCII, 3 processes | `AliasesKept`, `SessionIsOwn`, `StartMeansOwn`, refinement of `AtomicUpdates` (`RewritesAreAtomic`) |

Two checkouts and two runtimes are the fewest that share a name and a file; with
three processes a start can meet what two others left half done.

A failing `mutagen sync list` is taken for a list without the session
(mutagen.ps1:473-477) and the command goes on: a start whose first list fails asks no
question about the alias, and one whose second fails rewrites the alias and makes a second
session of the name. `Shown` has that at each look. So `StartMeansOwn` excepts a start
whose own session was ill, or missing from the list, only at the first look, and
`SessionIsOwn` excepts by `raced` a runtime whose session of another checkout was not
shown. `raced` also has the runtimes of which `network apply` (network.ps1:588) rewrote
the alias under another checkout's session.

Whose VM an alias leads to is told by its address alone (ssh-alias.ps1:234), and every
checkout has the same addresses by default (configs/topology.json:14, 29, 44);
docs/troubleshooting.md:105 says that it proves no ownership. `Address` is a constant
that may give two checkouts one address, the properties speak of addresses, and only
where the addresses differ do they say whose VM it is.

A rewrite writes ASCII (mutagen.ps1:595): in every block, the user's own included, each
other character becomes a question mark. `NewConfig` garbles the blocks that are not
ASCII, and the properties and the refinement speak of the ASCII blocks; a key under a
home directory that is not ASCII makes the checkouts' own blocks such. `EveryAliasKept`,
of all blocks, is [violated](#where-the-code-and-its-documents-disagree).

The refinement is that of the tasks' file, with ASCII blocks for entries. There is no
entry for the user's own blocks, so no update may change those.

Assumed: `mutagen sync create` takes a name in use, and `sync list` shows the oldest
session of a name; every runtime has a `static_ip`, and a checkout's addresses stay.
Left out: a block of the user's own under an alias' name, and which VMs run
(`VmLifecycle`): a command may end early instead.

Fairness: none; the properties are about safety.

## AutoinstallWait

Models `Wait-AutoinstallComplete` (`runtimes/vmware/vm-factory.ps1`) over
`core/utility/circuit-breaker.ps1`: the loop in which the first `up` waits for a
guest that installs itself.

| State | Code |
|---|---|
| `now` | the time since the wait began; the deadline is `Timeout` |
| `pc`, `answer` | before the sleep, before the questions, or over, and how |
| `breaker` | the circuit breaker: its key, its count, open or not |
| `last`, `same`, `advised` | `$lastDetail`, `$sameDetailCount`, and whether the advice to look at the console was given |
| `category`, `streak`, `since` | history: what the last checks were about, in how many of them in a row, since when |

`Sleep` looks at the deadline and sleeps, `TimesOut` finds it over. `Ready` is a check
that finds the provision marker at an address, `Check` one that does not: it sees any
combination of answers that two addresses may give, feeds the breaker, and ends the
wait or goes on with the heartbeat. What a check is about (`Category`) is what its
answers say in any language; the breaker's key (`ErrorKey`) is found by English words.

| Run | Instance | Shows |
|---|---|---|
| `wait` | 2 addresses, sleeps of 2, a timeout of 12, probes of up to 1, a threshold of 7 | `EndsInTime`, `OpensOnPersistence`, `StuckIsNoticed`, `WaitEnds` |

A threshold of 7 with sleeps of 2 is three checks, with a rest: enough to count, to
start over and to count again before the deadline, after four to six checks. The code
keeps one line for each address and knows at most two: the configured one and what
VMware reports. `MaxProbe` is a bound of the environment, in which `ssh` has a timeout
for its connection only.

Assumed: `Threshold <= Advice`. The advice comes after twenty minutes
(vm-factory.ps1:591), the threshold's default is twenty too, and no caller gives
another. Then the advice is never given, which is a theorem (`NeverAdvised`); the
documents promise it, and their words are the property `AdviceIsGiven`, which is
[violated](#where-the-code-and-its-documents-disagree).

Fairness: weak fairness of the loop. A sleep ends, `vmrun` has a timeout, and an `ssh`
that hangs with its connection up is left out.

## Proofs

TLAPS checks every theorem below with no unproved step; each is about the
specification for every value of the constants that satisfies the module's
`ASSUME`.

| Module | Theorem | Assumes besides | Argument |
|---|---|---|---|
| `TokenAuthProofs` | `TypeCorrect` | | `TypeOK` is inductive |
| | `AuthInvariant` | generated secret | see below |
| | `RefreshIsSingleUse`, `RevokedSubjectStaysRevoked`, `RestartInvalidatesTokens` | generated secret | from `AuthInv` (and, for single use, the step that consumes) |
| | `RefreshTokensAreConserved` | generated secret | `CountInv`: rotation removes one usable refresh token and adds one; only a grant adds to their number |
| | `RunningProcessRevivesNone` | | each step but a restart only adds to the records, moves the clock on or makes a token with a new JTI |
| | `LapsedTokensStayLapsed` | generated secret | and a restart voids every token (`AuthInv`) |
| | `RefreshTokensRefineTickets` | generated secret | `FreshInv`, see below |
| | `CommandsAuthorized` | | `GateInv`: every request in flight that is a command was admitted with a token of its scope |
| `SandboxProviderProofs` | `ProviderTypes` | | `TypeOK` with the lock's owner is inductive |
| | `PoolInvariant`, `PoolVMsAreExclusive` | | see below |
| | `PoolRefinesLeases` | | from `PoolInv`, see below |
| | `MappingsSurvive` | | `MapInv`: what a writer of the file is about to store is what was promised, but for the mapping it is there to record |
| | `ReleasesUnmap` | | a step that ends a release follows from types and the lock's owner |
| | `NoVMIsLost` | | `LeakInv`, see below |
| `EvidenceChainProofs` | `EvidenceTypes` | | inductive |
| | `ChainInvariant`, `ChainAlwaysVerifies` | | `ChainInv` adds that what a command is about to write verifies |
| | `UniqueInvariant`, `EntriesAreUnique` | | `UniqueInv` gives each id to one file from the moment it is taken |
| | `SerialInvariant`, `AcknowledgedIsKept`, `ChainsAreAppendOnly` | | `SerialInv`, see below |
| `VmLifecycleProofs` | `VmTypes`, `ReportedSnapshotsExist`, `OrphansAreReported` | | each inductive, the last two with the position of the command that acts |
| | `CleanInvariant`, `SuccessIsDone` | | `CleanInv`: in a clean history a command is alone and each step finds what the one before left |
| `GuestCallsProofs` | `GuestTypes`, `ToolsOnce` | | `GuestInv`, see below |
| | `AcknowledgedStays`, `ReadsSee` | | `KeptInv`, see below |
| `WorkspaceTasksProofs` | `TaskTypes` | | inductive |
| | `ReadinessIsEarned`, `WaiversStand` | | `BoardInv`: every board, on file or in a command's hands, follows from what made it |
| | `ReportsAreKept` | | `TurnInv`: in an undisturbed history one command is in its window and its board is what was reported |
| | `RecordsRefineUpdates` | | `TurnInv` and `BaseInv`: what it has read is what the file holds until it clears it; then each step updates one entry, spoils or stutters |
| `SyncSessionProofs` | `SyncTypes` | | inductive |
| | `AliasesAreKept` | | `ConfigInv`: a process in the window holds the ASCII blocks as last reported |
| | `SessionsAreOwn` | | `OwnInv`, see below |
| | `StartsMeanOwn` | | `AloneInv`: what a start that is alone relies on at each of its steps |
| | `RewritesRefineUpdates` | | by `ConfigInv` the file is worth what was last reported (`ContentIsLast`), and only a write changes that |
| `AutoinstallWaitProofs` | `WaitTypes`, `WaitsEndInTime` | | `CourseInv`: a check begins at most one sleep after the deadline |
| | `PersistenceOpens` | English texts | `CountInv`, see below |
| | `StuckGuestsAreNoticed` | | `CountInv`, and `LastingInv`: so many checks in a row took so much time |
| | `AdviceIsNeverGiven` | | `AdviceInv`: the repetitions of a text are fewer than those of its key |

*Why `AuthInv`.* Single use is not inductive: a token redeemed before a restart is
no longer consumed. What keeps it from coming back is that it is signed with
another secret. `AuthInv` says so (a redeemed JTI is consumed, or no token of that
JTI has this process's key), and needs that JTIs are fresh and no token has the
key of a process still to come. That a revoked subject stays revoked needs the
record to be complete: a token with this key is on record, and on the record of a
revoked subject everything is revoked.

*Why `FreshInv`.* An exchange of tickets voids one and makes one. In the code a rotation
adds a JTI to a set, and the new token is what `create` makes of a counter. That
exactly one ticket is voided, and that the new one is live, needs that no two tokens
share a JTI and that neither record names a JTI still to be made, a request to revoke
one included. `grants` tells a purchase from an exchange.

*Why `SerialInv`.* An append is decided when a command reads and done when it writes.
`SerialInv` says that on an undisturbed file the one command under way has read what
the file holds, and after it has cleared the file, that nothing else has come into it.
A step touches the file it appends to and no other (`StepElsewhere`), so what happens
to one chain is no matter for the other; on its own file a step leaves the chain that
the file stands for or adds one entry at its end (`StepOnTarget`).

*Why `PoolInv`.* That no pool VM has two users depends on what the warm thread will
append next. `PoolInv` adds that a VM that was never appended is known to nobody: in
no pool entry, no call, no thread's hands and no mapping, not even the mapping
that a half-done write of the registry file is about to store (`SentTo`). It
holds for any number of warm-ups, after restarts too: a VM may get a second user only
once it is in `again`, and those that are not stay exclusive. The refinement needs no more: a step takes the
oldest of the pool (`Lend`), passes a cold VM (`Offer`, `Skip`), or is one in which
nobody comes by a pool VM (`Shrinks`), be it a release, a write or a restart.

*Why `GuestInv`.* That a tool writes once needs an account of what may still be
written. `Owed(n)` counts the attempts of call n whose job has not written yet;
`GuestInv` says that writes done and writes owed are never more than the runs of the
call, and where a caller is tells how many it has sent. A start raises the runs and
the debt by one, a write turns debt into a write, and giving up, a cut or a stop can
only forgive debt. A refusal (exit status 1) is the answer of the one job of a tool,
which ended without a write unless it was the caller's own command.

*Why `LeakInv`.* That a running VM is in someone's hands must be traced through the
call that has it. In a history without fault or restart, `LeakInv` says: a pool VM that
runs and has a `static_ip` is in the pool, with the warm thread, or claimed by a thread; a mapped one is held by
its thread or in its call's hands; a call that did not come from the pool starts no pool
VM it does not hold; and one that a release has stopped runs again only for the warm
thread. It allows any number of warm-ups.

*Why `KeptInv`.* A change is acknowledged steps after its block was written, and in
between other jobs may truncate the file or write over its start. `KeptInv` says what
is true of the call from its write on (`Done`): its block is in the file, or an
overwrite that was not over when the call began has been sent. An overwriting job can
only take a block away while it is pending, and then it is such an overwrite; if it is
the call's own other attempt, the account of `GuestInv` shows that the call ran twice.
A job that ends with status 0, and an answer "ok", have seen at least that (`Told`);
what a read counts as settled before it (`before`) stays over.

*Why `OwnInv`.* That a session joins the address of its own checkout is decided over several
steps of a start: it finds no session, rewrites the alias, then creates. `OwnInv` says
that while a runtime was never raced for, every command in flight on it is of one
checkout, every session of it is of that checkout, and the alias leads to its address
from the moment its rewrite is over. A list that fails over another checkout's session
counts as a race, for the start that it misleads makes a second session.

*Why `CountInv`.* The breaker counts keys, the property speaks of categories. A key is a
function of the category (`KeyIsOfCategory`), so checks of one category in a row are
never more than the breaker has counted, in any language: a stuck guest is noticed. Only
in English is the function one to one, and then the two counts are equal: an open
breaker means a stuck guest. In Chinese the converse fails (`OpensOnPersistence` with
`Chinese = TRUE`, below).

Every safety property of every passing run is a theorem. Some theorems have no run of
their own, because the theorem says all that a run would: `AuthInv`,
`OnlyThisProcessTokens` and `RefreshConservation` of `TokenAuth`, `NeverAdvised` of
`AutoinstallWait`, the inductive invariants that only the proofs use, and `TypeOK`, which a run has for `TokenAuth` and,
as a conjunct of `PoolInv` and `ChainInv`, for `SandboxProvider` and `EvidenceChain`.
Each of them was given to TLC before it was proved.

Model-checked only: liveness (`AdmittedIsAnswered`, `CallsReturn`, `CommandsEnd`,
`CallsEnd`, `WaitEnds`), because fairness and `ENABLED` are beyond the prover.

Assumptions on constants are the modules' `ASSUME`s, which TLC evaluates in the runs:
finite bounds are naturals, and the values that stand for something special are not
among the data they are compared with. `GuestAssumption`, for one, says that
`ErrorText` and `NoData` are no sets of calls or paths, so that an error message is
not mistaken for a listing.

## Where the code and its documents disagree

With a run whose counterexample shows it:

| Run | What happens |
|---|---|
| `sandbox_shutdown` | `shutdown` (deerflow_adp_sandbox.py:253) calls `release` with the provider's non-reentrant lock held: with any cached handle it never returns, nor does any later call |
| `vm_first_up` | the first `up` "provisions and boots" (docs/getting-started.md:69); under the default provider `Start-VM -VmxPath` (vm-factory.ps1:401) reaches a `Start-VM` that wants `-Name`, and `up` fails with the VM defined and off |
| `guest_missing` | `read_file` of a missing file raises (tests/test_deerflow_adp_sandbox.py:99); it runs `cat ... 2>&1` (sandbox.py:49), so the message of `cat` comes back as the content of the file |

Stated in a module, and violated when checked, but not among the runs:

* `WaitsForAStartedVM` (`SandboxProvider`): `acquire` starts a VM only if `adpos
  status` fails (line 140), but it exits with 0 for a stopped VM: the VM is not
  started and the call waits until it raises.
* `PoolVMOfOneThread` with `MaxWarms = 2`: `warm` is "safe to call multiple times"
  (registry.py:148); the second call appends a VM again that a thread already has,
  and another thread gets it too. The warm-up of a restarted process
  (deerflow_adp_sandbox.py:91) does the same with VMs that the registry still maps.
* `NoPoolVMForgotten` (`SandboxProvider`): a pool VM without a `static_ip` is started
  and then passed over with a warning (registry.py:166-167); it runs and nobody has it.
* `AdviceIsGiven` (`AutoinstallWait`): ADP "recommends inspecting the VMware console
  after the same signal repeats for about 20 minutes" (docs/operations.md:154,
  vm-factory.ps1:591); the breaker, with its default of twenty minutes, opens first.
* `EveryAliasKept` (`SyncSession`): the rewrite of an alias is meant to replace its block;
  the ASCII encoding of the file (mutagen.ps1:595) garbles all blocks that are not ASCII.
* `SingleUse` with `PersistentSecret = TRUE`: "A refresh token can only be used once."
  (auth.py:76); with `ADP_JWT_SECRET` set (auth.py:52) tokens outlive a restart and the
  record of redeemed ones does not: a redeemed token is accepted again.
* `WaitsForReachable` (`SandboxProvider`) with one fault: `_wait_for_ssh` polls "until
  the VM reports reachable SSH" (deerflow_adp_sandbox.py:226); it looks for "reachable"
  (line 230), which is part of the "unreachable" that `adpos status` prints for a guest
  that is booting.
* `OpensOnPersistence` with `Chinese = TRUE`: the breaker opens "when the same error
  category persists" (CHANGELOG.md:71); the categories are found by English words
  (vm-factory.ps1:547) in texts of the user's language. In Chinese four of them are
  one, and a guest that makes progress is given up.

Met while modelling:

* The evidence chain is "append-only by design" (docs/evidence.md:181); of two commands
  that overlap on a file, the later write removes the other's entry. The properties of
  `EvidenceChain` end where its `disturbed` begins.
* With `ADP_JWT_SECRET` set, revoking a subject (auth.py:303) misses tokens of the
  process before, too.
* A process that dies inside a write leaves the registry, evidence or state file torn.
* A snapshot entry hashes metadata that the file does not keep (evidence.ps1:187), so
  its hash cannot be recomputed from it; and PowerShell 7's `ConvertFrom-Json`
  (evidence.ps1:67) turns timestamps into dates, which may be printed differently.
* Two threads may share one runtime (deerflow_adp_sandbox.py:166): the anonymous
  thread's "agent" and a thread of that id. Two provider processes of one user share
  the registry path (registry.py:85) and may take back each other's mappings.
* The user of a request is looked up in a worker thread (dependencies.py:59) and the
  handler runs later: a token revoked in between is still served once.
* Overlapping `up`s: one may take over the other's `.vmx` and report success with the
  VM off (vm-factory.ps1:321), or write over it (vm-factory-vmx.ps1:93).
* A `.vmdk` that a half-failed `destroy` left is used for the next new VM
  (vm-factory-iso.ps1:91).
* A namespace applies to `up` and `status`, and not to `stop`, `destroy`,
  `snapshot` and `restore` (stop.ps1:30; docs/configuration.md:156); `network apply`
  ignores it too (network.ps1:588).
* The circuit breaker of the autoinstall wait counts repetitions of an error and not
  time (vm-factory.ps1:462): it opens after forty checks, each of which takes its
  probes' time beside the 30 seconds of sleep, and so perhaps after the deadline.
* The in-VM tools look for the guest's address in a line that has name, status and
  address (core.py:451-473), which `adpos status` does not print (status.ps1:287-288).
* A failing `mutagen sync list` counts as no session (mutagen.ps1:477): the alias is then
  rewritten and a second session of the name made.
* `isolate` and a hand edit of `configs/local.json` read and rewrite the whole file
  (local-config-edit.ps1:103), like every other file here.
* `restore -Plan` says "Would stop VM if running"; `restore` stops nothing and relies on
  the revert. `stop` of a stopped VM exits with 1.

## Not modelled

| Part | Why |
|---|---|
| Other callers of the circuit breaker | there are none; `Reset-CircuitBreaker` and its summary are unused |
| Checkout isolation and configuration | functions of their arguments, and one file written by hand; `SyncSession` takes names and addresses, shared ones included, as constants |
| Rate limits, CORS, health and the parsing of JWTs in the API | no effect on the token store; signature and expiry are modelled by what they decide |
| Provider modes other than the default, namespaces, GUI mode of the VM commands | the same calls under other names, or no calls |
| MCP tools other than the eight inside a VM | stateless: one `adpos` process per tool call |
| `workspace` commands that plan, report and print | read the state file and the gates that `WorkspaceTasks` has |
| Provider discovery and contract, dispatch, help, preflight checks | decide which function or which error text; change no state |
| Read-only commands (`status`, `doctor`, `precheck`, ...) | change nothing; what other parts read from `status` is in their models |
| Guest bootstrap, install, registration | idempotent set-up scripts whose effects are in tools outside the repository |
| `sandbox` command, logging | plain wrappers and output |

## Plan

What would come next: `SandboxProvider` and `GuestCalls` composed, for the handle of a
VM that another thread's `release` stops and the pool hands out again.
