---------------------------- MODULE SyncSession ----------------------------
(***************************************************************************)
(* `adpos sync start` and `sync stop`, and the SSH aliases of `network     *)
(* apply` (cli/commands/sync.ps1, cli/commands/network.ps1 over            *)
(* adapters/windows/mutagen/*.ps1 and core/diagnostics/ssh-alias.ps1).     *)
(*                                                                         *)
(* The checkouts of one user share, for a runtime, the name of the Mutagen *)
(* session and the alias of its remote end; one SSH config file tells to   *)
(* which address an alias leads.  The local end of a session tells which   *)
(* checkout made it; its remote end is the same text for all of them, and  *)
(* the alias is told apart by its address alone, which two checkouts have  *)
(* in common unless their configuration says otherwise.                    *)
(*                                                                         *)
(* Every command is a process.  A block of the config is replaced by       *)
(* reading the whole file and writing the whole file; Set-Content clears   *)
(* it first, and nothing is locked.  It writes ASCII, with a question mark *)
(* for every other character of every block.  A command may also end       *)
(* early, at a VM that is not created, does not run, has no address or a   *)
(* double, or because it is killed.                                        *)
(***************************************************************************)
EXTENDS Naturals, Sequences, FiniteSets

CONSTANTS
  Checkouts,  \* checkouts of one user that use the same names
  Runtimes,
  Others,     \* the other blocks of the config file
  Plain,      \* the aliases of which every block is ASCII, the path of its key included
  Address(_, _),  \* where a checkout expects its VM of a runtime
  Elsewhere,  \* where the other blocks lead
  Garbled,    \* where a block leads that has lost characters: nowhere anybody expects
  None,       \* no block for the alias
  Commands    \* processes, of which each runs one command

Aliases == Runtimes \cup Others
Addresses == {Address(k, r) : k \in Checkouts, r \in Runtimes}
Targets == Addresses \cup {Elsewhere, Garbled, None}

ASSUME SyncAssumption ==
  /\ Runtimes \cap Others = {} /\ Plain \subseteq Aliases
  /\ {Elsewhere, Garbled, None} \cap Addresses = {}
  /\ Elsewhere # Garbled /\ None \notin {Elsewhere, Garbled}

\* For each alias, where it leads.
Config == [Aliases -> Targets]
Blank == [a \in Aliases |-> None]

VARIABLES
  config,    \* the SSH config file
  sessions,  \* for each runtime, the checkouts whose workspaces the sessions of its name
             \* have, the oldest first
  job,       \* what each process is at
  last,      \* history: what each alias was last reported to mean
  torn,      \* history: two rewrites of the config overlapped, or one was killed in it
  raced      \* history: the runtimes of which two checkouts had a command in flight at
             \* once, or one applied its network under a session of the other or was
             \* not shown it

vars == <<config, sessions, job, last, torn, raced>>

\* A process that has not begun, and one that is over.
Unborn == [at |-> "new"]
Over == [at : {"ok", "ended"}]

Locals(r) == {sessions[r][i] : i \in DOMAIN sessions[r]}

InFlight(c) == job[c].at \notin {"new", "ok", "ended"}
InWindow(c) == job[c].at \in {"read", "opened"}
On(c, r) == InFlight(c) /\ job[c].rt = r

Goto(c, at) == job' = [job EXCEPT ![c] = IF at \in {"ok", "ended"} THEN [at |-> at] ELSE [@ EXCEPT !.at = at]]

\* Process c goes on as j; something came between what the processes ds do.
Interrupting(c, j, ds) ==
  job' = [d \in Commands |-> CASE d = c -> j
                               [] d # c /\ d \in ds /\ InFlight(d) -> [job[d] EXCEPT !.alone = FALSE]
                               [] OTHER -> job[d]]

\* A command begins.  It is alone if it comes upon no other one of its runtime and no
\* rewrite, until such another one comes or rewrites go wrong.
Begin(c, k, r, at, next) ==
  LET same == {d \in Commands : On(d, r)}
  IN /\ job[c] = Unborn
     /\ Interrupting(c, [at |-> at, co |-> k, rt |-> r, next |-> next, base |-> Blank,
                        alone |-> ~ \E d \in Commands : d \in same \/ InWindow(d)], same)
     /\ raced' = IF (\E d \in same : job[d].co # k) \/ (next = "ok" /\ ~ Locals(r) \subseteq {k})
                 THEN raced \cup {r} ELSE raced
     /\ UNCHANGED <<config, sessions, last, torn>>

OwnFirst(c) ==
  LET of == sessions[job[c].rt] IN of # <<>> /\ Head(of) = job[c].co

\* What `mutagen sync list` shows of the name: its first session, and none when it fails.
Shown(c) ==
  {"none"} \cup (CASE OwnFirst(c) -> {"healthy", "unhealthy"}
                  [] ~ OwnFirst(c) /\ sessions[job[c].rt] # <<>> -> {"wrong-local"}
                  [] OTHER -> {})

\* Get-SyncSessionInfo; the alias is asked for only if the session is this checkout's and
\* healthy, and it may be shown so only when it is looked at again.
Look(c) ==
  /\ job[c].at = "look"
  /\ \E s \in Shown(c) :
       job' = [job EXCEPT ![c].at = IF s = "healthy" THEN "alias" ELSE "check",
                          ![c].alone = @ /\ (OwnFirst(c) => s = "healthy")]
  /\ UNCHANGED <<config, sessions, last, torn, raced>>

Rewrite(c, next) == job' = [job EXCEPT ![c].at = "rewrite", ![c].next = next]

\* The address that the block of job j's alias is given.
Own(j) == Address(j.co, j.rt)

\* Mutant: an alias that leads elsewhere is no conflict.
LookAliasTrusting(c) ==
  /\ job[c].at = "alias"
  /\ IF config[job[c].rt] = None THEN Rewrite(c, "check") ELSE Goto(c, "check")
  /\ UNCHANGED <<config, sessions, last, torn, raced>>

\* Get-ADPSshAliasOwnershipStatus: a missing alias is written, one that leads elsewhere,
\* or to a key that is not there, ends the command.
LookAlias(c) ==
  /\ job[c].at = "alias"
  /\ CASE config[job[c].rt] = Own(job[c]) -> Goto(c, "check")
       [] config[job[c].rt] = None -> Rewrite(c, "check")
       [] OTHER -> Goto(c, "ended")
  /\ UNCHANGED <<config, sessions, last, torn, raced>>

\* Mutant: the alias is written before the session is looked at.
CheckLate(c) ==
  /\ job[c].at = "check"
  /\ Rewrite(c, "create")
  /\ UNCHANGED <<config, sessions, last, torn, raced>>

\* New-SyncSession asks again: a healthy session of this checkout stays, any other ends
\* the command, and only if none is shown is the alias written, whatever it says.
Check(c) ==
  /\ job[c].at = "check"
  /\ \E s \in Shown(c) :
       /\ CASE s = "healthy" -> Goto(c, "ok")
            [] s = "none" -> Rewrite(c, "create")
            [] OTHER -> Goto(c, "ended")
       /\ raced' = IF s = "none" /\ ~ Locals(job[c].rt) \subseteq {job[c].co}
                   THEN raced \cup {job[c].rt} ELSE raced
  /\ UNCHANGED <<config, sessions, last, torn>>

\* Set-MutagenSSHHostConfig: the whole file is read,
ReadConfig(c) ==
  /\ job[c].at = "rewrite"
  /\ LET inside == {d \in Commands : InWindow(d)}
     IN /\ Interrupting(c, [job[c] EXCEPT !.at = "read", !.base = config, !.alone = @ /\ inside = {}],
                        IF inside = {} THEN {} ELSE Commands)
        /\ torn' = (torn \/ inside # {})
  /\ UNCHANGED <<config, sessions, last, raced>>

\* cleared,
OpenConfig(c) ==
  /\ job[c].at = "read"
  /\ config' = Blank
  /\ Goto(c, "opened")
  /\ UNCHANGED <<sessions, last, torn, raced>>

\* The block of this alias is replaced or added,
Replaced(j) == [j.base EXCEPT ![j.rt] = Own(j)]

\* Mutant: only the new block is written.
NewConfigAlone(j) == [Blank EXCEPT ![j.rt] = Own(j)]

\* Mutant: every block of a runtime is replaced.
NewConfigEvery(j) == [a \in Aliases |-> IF a \in Runtimes /\ Replaced(j)[a] # None THEN Own(j) ELSE Replaced(j)[a]]

\* and Set-Content -Encoding ascii garbles each block that is not ASCII.
NewConfig(j) == [a \in Aliases |-> IF a \in Plain \/ Replaced(j)[a] = None THEN Replaced(j)[a] ELSE Garbled]

Onward(j) == IF j.next = "ok" THEN [at |-> "ok"] ELSE [j EXCEPT !.at = j.next, !.base = Blank]

\* The file is written; over the output of another command, each block may be either's.
WriteConfig(c) ==
  /\ job[c].at = "opened"
  /\ \E mine \in SUBSET Aliases :
       /\ config = Blank => mine = Aliases
       /\ config' = [a \in Aliases |-> IF a \in mine THEN NewConfig(job[c])[a] ELSE config[a]]
  /\ last' = [last EXCEPT ![job[c].rt] = Own(job[c])]
  /\ job' = [job EXCEPT ![c] = Onward(job[c])]
  /\ UNCHANGED <<sessions, torn, raced>>

\* `mutagen sync create`, which takes a name that is in use too.
Create(c) ==
  /\ job[c].at = "create"
  /\ sessions' = [sessions EXCEPT ![job[c].rt] = Append(@, job[c].co)]
  /\ Goto(c, "ok")
  /\ UNCHANGED <<config, last, torn, raced>>

\* A command ends early.  Killed between clear and write, it leaves any of the blocks.
End(c) ==
  /\ InFlight(c)
  /\ LET opened == job[c].at = "opened"
     IN /\ \E there \in SUBSET Aliases :
             /\ ~ opened => there = {}
             /\ config' = [a \in Aliases |-> IF a \in there THEN NewConfig(job[c])[a] ELSE config[a]]
        /\ Interrupting(c, [at |-> "ended"], IF opened THEN Commands ELSE {})
        /\ torn' = (torn \/ opened)
  /\ UNCHANGED <<sessions, last, raced>>

\* sync stop, in any checkout: by the name alone.
Stop(r) ==
  /\ sessions[r] # <<>>
  /\ sessions' = [sessions EXCEPT ![r] = <<>>]
  /\ job' = [d \in Commands |-> IF On(d, r) THEN [job[d] EXCEPT !.alone = FALSE] ELSE job[d]]
  /\ UNCHANGED <<config, last, torn, raced>>

\* sync start with its VM found running, and network apply when the VM answered at its
\* address; the alias is all that the latter leaves on the host.
Start(c, k, r) == Begin(c, k, r, "look", "create")
Apply(c, k, r) == Begin(c, k, r, "rewrite", "ok")

Step(c) ==
  \/ \E k \in Checkouts, r \in Runtimes : Start(c, k, r) \/ Apply(c, k, r)
  \/ Look(c) \/ LookAlias(c) \/ Check(c) \/ ReadConfig(c) \/ OpenConfig(c) \/ WriteConfig(c)
  \/ Create(c) \/ End(c)

Next == (\E c \in Commands : Step(c)) \/ \E r \in Runtimes : Stop(r)

InitialConfig == [a \in Aliases |-> IF a \in Others THEN Elsewhere ELSE None]

Init ==
  /\ config = InitialConfig /\ last = InitialConfig
  /\ sessions = [r \in Runtimes |-> <<>>]
  /\ job = [c \in Commands |-> Unborn]
  /\ torn = FALSE /\ raced = {}

Spec == Init /\ [][Next]_vars

-----------------------------------------------------------------------------
(* Properties *)

Job == [at : {"look", "alias", "check", "rewrite", "read", "opened", "create"},
        co : Checkouts, rt : Runtimes, next : {"check", "create", "ok"},
        base : Config, alone : BOOLEAN]

\* Every variable has its type.
TypeOK ==
  /\ config \in Config /\ last \in Config
  /\ sessions \in [Runtimes -> Seq(Checkouts)]
  /\ job \in [Commands -> Job \cup Over \cup {Unborn}]
  /\ torn \in BOOLEAN /\ raced \subseteq Runtimes

Written == \A c \in Commands : job[c].at # "opened"

\* Every block of the config that is ASCII, of a runtime or not, means what it was last
\* set to, unless two rewrites overlapped or one was killed (Set-MutagenSSHHostConfig,
\* mutagen.ps1:585-595).
AliasesKept == ~ torn /\ Written => \A a \in Plain : config[a] = last[a]

\* The same of every block: false as soon as one is not ASCII (mutagen.ps1:595).
EveryAliasKept == ~ torn /\ Written => config = last

\* Every session of a name joins the workspace of a checkout and the address where that
\* checkout expects its VM, unless two checkouts worked on the runtime at once, one
\* applied its network under the session, or `sync list` failed to show it to a
\* start of the other (New-SyncSession, mutagen.ps1:626-672).
SessionIsOwn ==
  ~ torn /\ Written =>
    \A r \in (Runtimes \cap Plain) \ raced : \A k \in Locals(r) : config[r] = Address(k, r)

\* A start that reports success has a session of its workspace and an alias that leads to
\* the address of its VM, whatever went wrong before it, if nothing interfered while it
\* ran and its session was not ill, or missing from the list, only when it first looked
\* (sync.ps1:191-212).
StartMeansOwn ==
  [][\A c \in Commands :
       /\ job[c].at \in {"check", "create"} /\ job'[c].at = "ok"
       /\ job[c].alone /\ Written /\ job[c].rt \in Plain
       => /\ config'[job[c].rt] = Own(job[c])
          /\ \E i \in DOMAIN sessions'[job[c].rt] : sessions'[job[c].rt][i] = job[c].co]_vars

\* What the ASCII blocks of the file are worth to those who read it next: to clear it and
\* to write it is one update of what its writer has read.
Content ==
  LET file == IF Written THEN config ELSE job[CHOOSE c \in Commands : job[c].at = "opened"].base
  IN [a \in Plain |-> file[a]]

Points(old, new) == new \in Addresses

Updates == INSTANCE AtomicUpdates WITH
  Entries <- Runtimes \cap Plain, Empty <- [a \in Plain |-> InitialConfig[a]], Becomes <- Points,
  content <- Content, spoilt <- torn

\* Until rewrites go wrong the config file is changed one block at a time: read, clear and
\* write of a process let its alias lead to its VM's address and leave every other ASCII
\* block as the process before left it (Set-MutagenSSHHostConfig, mutagen.ps1:585-595).
RewritesAreAtomic == Updates!Spec
=============================================================================
