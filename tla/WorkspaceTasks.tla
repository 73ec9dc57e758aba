-------------------------- MODULE WorkspaceTasks --------------------------
(***************************************************************************)
(* The lifecycle of workspace tasks (cli/commands/workspace.ps1 and        *)
(* workspace/{tasks,validation,status}.ps1): a human marks task states,    *)
(* waives checkpoints and reports validations, `task validate` runs the    *)
(* declared commands and records their result, and the snapshot, review    *)
(* and commit gates are computed from what is recorded.                    *)
(*                                                                         *)
(* All of it is one JSON file.  Every command is a process of its own that *)
(* reads the whole file and writes the whole file back; Set-Content clears *)
(* it first, and nothing is locked.  A validation runs for minutes between *)
(* its look at the gates and its record, and reads the file again then.    *)
(***************************************************************************)
EXTENDS Naturals, Sequences, FiniteSets

CONSTANTS
  Commands,     \* command processes that may run at once
  Tasks,
  Guarded,      \* tasks that require a snapshot
  Named,        \* tasks whose runtime and snapshot are set in the manifest
  Programs,     \* the number of validation commands of a task
  Marks,        \* bound: the states a human marks
  MaxCommands,  \* bound: commands started
  Garbled       \* a file that is not JSON

States == {"prepared", "checkpointed", "checkpoint-waived", "running", "validated",
           "validation_failed", "reviewed", "rollback", "committed"}
Results == {"validated", "validation_failed"}

ASSUME TasksAssumption ==
  /\ Guarded \subseteq Tasks /\ Named \subseteq Tasks
  /\ Programs \in Nat /\ Marks \subseteq States /\ MaxCommands \in Nat

\* What a command records: the state, who says so, whether a program of it failed, and
\* whether a remote validation began with its checkpoint there or a waiver that stood.
Event == [mark : States, by : {"human", "local", "remote"}, failed : BOOLEAN, open : BOOLEAN]

\* The entry of a task in the file.  past is a history variable: what made the entry.
Entry == [state : States \cup {"missing"}, waived : BOOLEAN,
          validation : {"missing", "passed", "failed"}, past : Seq(Event)]
NoEntry == [state |-> "missing", waived |-> FALSE, validation |-> "missing", past |-> <<>>]

\* An entry for every task; a file that is missing or blank has none.
Board == [Tasks -> Entry]
Blank == [t \in Tasks |-> NoEntry]

\* A command runs its validation programs, has read the board, or has cleared the file.
Idle == [at |-> "idle"]
Job == [at : {"running", "read", "opened"}, task : Tasks, event : Event, left : 0..Programs, base : Board]

ASSUME GarbledAssumption == Garbled \notin Board

VARIABLES
  file,       \* what the file holds: a board, or Garbled
  job,        \* what each command is at
  snapshot,   \* whether the VM has the task's snapshot
  started,    \* the number of commands started
  hist,       \* history: what was recorded for each task, as the commands reported
  disturbed   \* history: two commands were between read and write at once, or one was
              \* killed there

vars == <<file, job, snapshot, started, hist, disturbed>>

-----------------------------------------------------------------------------
(* The entries *)

\* Mutant: `checkpointed` leaves the waiver.
WithStateKeepingWaiver(r, s) == [r EXCEPT !.state = s]

\* Set-WorkspaceTaskState: a new checkpoint ends a waiver; a validation stays.
WithState(r, s) == [r EXCEPT !.state = s, !.waived = @ /\ s # "checkpointed"]

\* Set-WorkspaceTaskCheckpointWaiver
WithWaiver(r) == [r EXCEPT !.state = "checkpoint-waived", !.waived = TRUE]

\* Mutant: a result leaves the state, and with it an old review.
WithValidationOnly(r, s) == [r EXCEPT !.validation = IF s = "validated" THEN "passed" ELSE "failed"]

\* Set-WorkspaceTaskExternalValidation and Set-WorkspaceTaskValidationResult
WithValidation(r, s) ==
  [r EXCEPT !.state = s, !.validation = IF s = "validated" THEN "passed" ELSE "failed"]

Recorded(r, e) ==
  LET new == CASE e.mark = "checkpoint-waived" -> WithWaiver(r)
               [] e.mark \in Results -> WithValidation(r, e.mark)
               [] OTHER -> WithState(r, e.mark)
  IN [new EXCEPT !.past = Append(@, e)]

-----------------------------------------------------------------------------
(* The gates, computed from an entry whenever they are shown *)

\* Test-WorkspaceCheckpointWaived
CheckpointWaived(r) == r.waived \/ r.state = "checkpoint-waived"

\* Get-WorkspaceSnapshotGate; there: the list of snapshots was read and has it.
SnapshotGateBlocks(t, r, there) ==
  t \in Guarded /\ (t \notin Named \/ (~ there /\ ~ CheckpointWaived(r)))

\* Get-WorkspaceCommitDecision
CommitDecision(t, r, there, hygieneBlocks) ==
  CASE hygieneBlocks -> "blocked by sync hygiene"
    [] ~ hygieneBlocks /\ SnapshotGateBlocks(t, r, there) -> "blocked by snapshot gate"
    [] OTHER ->
         CASE Programs = 0 -> "validation not configured"
           [] Programs # 0 /\ r.validation = "failed" -> "blocked by validation"
           [] Programs # 0 /\ r.validation = "missing" -> "validation result missing"
           [] OTHER -> CASE r.state = "committed" -> "already marked committed"
                         [] r.state = "reviewed" -> "commit ready"
                         [] OTHER -> "review not recorded"

-----------------------------------------------------------------------------
(* The commands *)

\* A waiver that was not followed by a checkpoint.
WaiverIn(past) ==
  \E i \in DOMAIN past : /\ past[i].mark = "checkpoint-waived"
                         /\ \A j \in DOMAIN past : j > i => past[j].mark # "checkpointed"

InWindow(c) == job[c].at \in {"read", "opened"}

Start(c) == job[c].at = "idle" /\ started < MaxCommands /\ started' = started + 1

\* Read-WorkspaceState, where a command's window between read and write begins.
ReadBoard(c, t, e) ==
  /\ file # Garbled
  /\ job' = [job EXCEPT ![c] = [at |-> "read", task |-> t, event |-> e, left |-> 0, base |-> file]]
  /\ disturbed' = (disturbed \/ \E d \in Commands : InWindow(d))
  /\ UNCHANGED <<file, snapshot, hist>>

ByHuman(s) == [mark |-> s, by |-> "human", failed |-> FALSE, open |-> TRUE]

\* Write-WorkspaceTaskMark: no gate is asked.
Mark(c) == \E t \in Tasks, s \in Marks : Start(c) /\ ReadBoard(c, t, ByHuman(s))

Validates(c, t, where, open, board) ==
  /\ Start(c) /\ Programs > 0
  /\ job' = [job EXCEPT ![c] = [at |-> "running", task |-> t, left |-> Programs, base |-> board,
       event |-> [mark |-> "running", by |-> where, failed |-> FALSE, open |-> open]]]
  /\ UNCHANGED <<file, snapshot, hist, disturbed>>

\* Write-WorkspaceTaskValidate -Execute: the gates are asked once, before the first
\* program.  The list of snapshots may fail and then has none.
ValidateRemote(c) == \E t \in Tasks, there \in BOOLEAN :
  /\ file # Garbled
  /\ there => snapshot[t]
  /\ ~ SnapshotGateBlocks(t, file[t], there)
  /\ Validates(c, t, "remote", t \notin Guarded \/ snapshot[t] \/ WaiverIn(file[t].past), file)

\* -Execute -Local asks no gate.
ValidateLocal(c) == \E t \in Tasks : Validates(c, t, "local", TRUE, Blank)

\* A program ends with 0, and there are more.
ProgramSucceeds(c) ==
  /\ job[c].at = "running" /\ job[c].left > 1
  /\ job' = [job EXCEPT ![c].left = @ - 1]
  /\ UNCHANGED <<file, snapshot, started, hist, disturbed>>

\* The last program ended with 0; or one did not, and it is the last then.
Outcomes(j) ==
  {[j.event EXCEPT !.mark = "validation_failed", !.failed = TRUE]}
    \cup (IF j.left = 1 THEN {[j.event EXCEPT !.mark = "validated"]} ELSE {})

\* Mutant: the result goes into the board that was read for the gates.
ReportsFromStart(c) ==
  /\ job[c].at = "running"
  /\ \E e \in Outcomes(job[c]) : job' = [job EXCEPT ![c].at = "read", ![c].event = e]
  /\ disturbed' = (disturbed \/ \E d \in Commands : InWindow(d))
  /\ UNCHANGED <<file, snapshot, hist, started>>

\* Write-WorkspaceValidationResult reads the file again.
Reports(c) ==
  /\ job[c].at = "running"
  /\ \E e \in Outcomes(job[c]) : ReadBoard(c, job[c].task, e)
  /\ UNCHANGED started

\* Write-WorkspaceState: Set-Content clears the file ...
Open(c) ==
  /\ job[c].at = "read"
  /\ job' = [job EXCEPT ![c].at = "opened"]
  /\ file' = Blank
  /\ UNCHANGED <<snapshot, started, hist, disturbed>>

NewBoard(j) == [j.base EXCEPT ![j.task] = Recorded(@, j.event)]

\* ... and writes; over the output of a command that had it open too, the result may be
\* a mixture.
Write(c) ==
  /\ job[c].at = "opened"
  /\ file' = NewBoard(job[c]) \/ (file # Blank /\ file' = Garbled)
  /\ hist' = [hist EXCEPT ![job[c].task] = Append(@, job[c].event)]
  /\ job' = [job EXCEPT ![c] = Idle]
  /\ UNCHANGED <<snapshot, started, disturbed>>

\* A command ends without a record: it is killed, a local cmdlet throws, the state does
\* not parse when the result is there, another command has the file open and it is not
\* shared.  Between clear and write it leaves the file blank or half written.
Die(c) ==
  /\ job[c].at # "idle"
  /\ job' = [job EXCEPT ![c] = Idle]
  /\ file' \in IF job[c].at = "opened" THEN {file, Garbled} ELSE {file}
  /\ disturbed' = (disturbed \/ job[c].at = "opened")
  /\ UNCHANGED <<snapshot, started, hist>>

\* adpos snapshot create and delete
Snapshot == \E t \in Named :
  /\ snapshot' = [snapshot EXCEPT ![t] = ~ @]
  /\ UNCHANGED <<file, job, started, hist, disturbed>>

Init ==
  /\ file = Blank
  /\ job = [c \in Commands |-> Idle]
  /\ snapshot = [t \in Tasks |-> FALSE]
  /\ started = 0
  /\ hist = [t \in Tasks |-> <<>>]
  /\ disturbed = FALSE

Step(c) ==
  \/ Mark(c) \/ ValidateRemote(c) \/ ValidateLocal(c) \/ ProgramSucceeds(c) \/ Reports(c)
  \/ Open(c) \/ Write(c) \/ Die(c)

Next == Snapshot \/ \E c \in Commands : Step(c)

Spec == Init /\ [][Next]_vars

-----------------------------------------------------------------------------
(* Properties *)

\* Every variable has its type.
TypeOK ==
  /\ file = Garbled \/ file \in Board
  /\ job \in [Commands -> Job \cup {Idle}]
  /\ snapshot \in [Tasks -> BOOLEAN]
  /\ started \in 0..MaxCommands
  /\ hist \in [Tasks -> Seq(Event)] /\ disturbed \in BOOLEAN

CommitReady(t) == CommitDecision(t, file[t], snapshot[t], FALSE) = "commit ready"

\* Commit ready means that a human's review is the last thing recorded, and that the
\* last validation before it passed: nobody's program failed in it
\* (Get-WorkspaceCommitDecision over any order of marks and validations).
ReadyIsEarned ==
  file # Garbled => \A t \in Tasks : CommitReady(t) =>
    LET past == file[t].past IN
      /\ past # <<>> /\ past[Len(past)].mark = "reviewed"
      /\ \E i \in DOMAIN past :
           /\ past[i].mark = "validated" /\ ~ past[i].failed
           /\ \A j \in DOMAIN past : j > i => past[j].mark \notin Results

\* A checkpoint is waived when a human waived it and took no checkpoint since, and a
\* remote validation began with a checkpoint or such a waiver (Get-WorkspaceSnapshotGate,
\* tasks.ps1:262-293).
WaiverStands ==
  file # Garbled => \A t \in Tasks :
    /\ CheckpointWaived(file[t]) <=> WaiverIn(file[t].past)
    /\ \A i \in DOMAIN file[t].past : file[t].past[i].by = "remote" => file[t].past[i].open

\* What a command reported as recorded is in the file, however long a validation ran
\* beside it: only windows between read and write that overlap, and a kill in one, lose
\* a record (Write-WorkspaceValidationResult, Write-WorkspaceState).
ReportedIsKept ==
  ~ disturbed /\ (\A c \in Commands : job[c].at # "opened") =>
    file # Garbled /\ \A t \in Tasks : file[t].past = hist[t]

\* What the file is worth to those who read it next: to clear it and to write it is one
\* update of what its writer has read.
Content ==
  IF \E c \in Commands : job[c].at = "opened"
  THEN job[CHOOSE c \in Commands : job[c].at = "opened"].base ELSE file

Records(old, new) == \E e \in Event : new = Recorded(old, e)

Updates == INSTANCE AtomicUpdates WITH
  Entries <- Tasks, Empty <- Blank, Becomes <- Records, content <- Content, spoilt <- disturbed

\* Until it is disturbed the file is changed one event at a time: each command's read,
\* clear and write add its event to the entry of its task as the command before left it,
\* and to no other, however many validations run beside it (Read-WorkspaceState,
\* Write-WorkspaceState).
RecordsAreAtomic == Updates!Spec
=============================================================================
