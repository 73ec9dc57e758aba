---------------------------- MODULE VmLifecycle ----------------------------
(***************************************************************************)
(* The life of one runtime's VM under the VM commands of the adpos command *)
(* line (cli/commands/up, stop, destroy, snapshot and restore.ps1) with    *)
(* the default provider mode (vmware-provider).                            *)
(*                                                                         *)
(* A command is a process of its own.  It reads the VM's status and then   *)
(* acts on it by a few vmrun calls, each an action here; nothing locks the *)
(* VM, so commands may overlap, a call may fail or time out with or        *)
(* without its effect, and a command may be killed between two calls.      *)
(***************************************************************************)
EXTENDS Naturals

CONSTANTS
  Commands,     \* command processes that may run at once
  SnapNames,    \* snapshot names
  None,         \* no snapshot of that name
  MaxCommands,  \* bound: commands begun
  MaxFaults     \* bound: calls that fail, commands killed, VMs powered off by hand

ASSUME VmAssumption ==
  /\ SnapNames # {}
  /\ None \notin {"none", "blank", "installing", "provisioned", "bootstrapped"}
  /\ MaxCommands \in Nat /\ MaxFaults \in Nat

VARIABLES
  vmx,           \* the .vmx file exists; without it the status is not-created
  disk,          \* what is on the .vmdk, "none" when there is no such file
  power,         \* TRUE: a VMware process runs the VM
  snaps,         \* the disk each snapshot recorded, None for a free name
  pc,            \* where each command is, "idle" before and after
  kind,          \* which command it is; "define" is up -NoProvision
  snap,          \* its snapshot argument
  report,        \* its exit code: "none" while it runs, "ok" for 0, "failed" for 1
  overlapped,    \* history: two commands have run at once
  destroyFailed, \* history: a destroy has failed, or was killed, with its deletion begun
  acked,         \* history: the snapshots reported to exist, since the last deletion
  commands, faults

world == <<vmx, disk, power, snaps>>
command == <<kind, snap>>
history == <<overlapped, destroyFailed, acked>>
vars == <<world, pc, command, report, history, commands, faults>>

Kinds == {"up", "define", "stop", "destroy", "snapshot", "restore"}
Disks == {"none", "blank", "installing", "provisioned", "bootstrapped"}
Labels == {"idle", "status", "start", "create", "createDisk", "createVmx", "probe", "probeOnce",
           "wait", "bootstrap", "soft", "hard", "remove", "kill", "delete",
           "list", "snapshot", "relist", "revert"}

NoSnapshots == [s \in SnapNames |-> None]

\* The provision marker /home/adp/.adp-provisioned is on the disk.
Provisioned == disk \in {"provisioned", "bootstrapped"}

-----------------------------------------------------------------------------
(* vmrun.  A call that fails or times out costs a fault. *)

Fault == faults < MaxFaults /\ faults' = faults + 1

\* Get-VMStatus: not-created without the .vmx; else running or stopped.  A failed
\* `vmrun list` counts as an empty one, so it makes a running VM look stopped.
Status(s) ==
  \/ ~vmx /\ s = "not-created" /\ UNCHANGED faults
  \/ vmx /\ s = (IF power THEN "running" ELSE "stopped") /\ UNCHANGED faults
  \/ vmx /\ power /\ s = "stopped" /\ Fault

Statuses == {"not-created", "running", "stopped"}

\* Get-SnapshotList, which is empty when vmrun fails.
Listed(s, found) ==
  \/ found = (vmx /\ snaps[s] # None) /\ UNCHANGED faults
  \/ vmx /\ ~found /\ Fault

\* What vmrun can start and take snapshots of.
Whole == vmx /\ disk # "none"

\* A power-on boots the disk, or the installer when the disk is blank.
PowerOn ==
  /\ power' = TRUE
  /\ disk' = IF disk = "blank" THEN "installing" ELSE disk
  /\ UNCHANGED <<vmx, snaps>>

PowerOff == power' = FALSE /\ UNCHANGED <<vmx, disk, snaps>>

\* A call that fails may have had its effect all the same.
Failed(Effect) == Fault /\ (Effect \/ UNCHANGED world)

-----------------------------------------------------------------------------
(* The course of a command *)

Goto(c, label) == pc' = [pc EXCEPT ![c] = label] /\ UNCHANGED report

Exit(c, code) ==
  /\ pc' = [pc EXCEPT ![c] = "idle"]
  /\ report' = [report EXCEPT ![c] = code]

At(c, label, kinds) == pc[c] = label /\ kind[c] \in kinds

\* What every step keeps.
Kept == UNCHANGED <<command, overlapped, commands>>

Begin(c) == \E k \in Kinds, s \in SnapNames :
  /\ pc[c] = "idle" /\ commands < MaxCommands
  /\ pc' = [pc EXCEPT ![c] = "status"]
  /\ report' = [report EXCEPT ![c] = "none"]
  /\ kind' = [kind EXCEPT ![c] = k]
  /\ snap' = [snap EXCEPT ![c] = s]
  /\ overlapped' = (overlapped \/ \E d \in Commands \ {c} : pc[d] # "idle")
  /\ commands' = commands + 1
  /\ UNCHANGED <<world, destroyFailed, acked, faults>>

-----------------------------------------------------------------------------
(* up *)

\* Mutant: a VM that exists is taken to run.
UpStatusExists(c) == \E s \in Statuses :
  /\ At(c, "status", {"up", "define"}) /\ Status(s)
  /\ \/ s = "not-created" /\ Goto(c, "create")
     \/ s # "not-created" /\ kind[c] = "define" /\ Exit(c, "ok")
     \/ s # "not-created" /\ kind[c] = "up" /\ Goto(c, "probe")
  /\ Kept /\ UNCHANGED <<world, destroyFailed, acked>>

UpStatus(c) == \E s \in Statuses :
  /\ At(c, "status", {"up", "define"}) /\ Status(s)
  /\ \/ s = "not-created" /\ Goto(c, "create")
     \/ s # "not-created" /\ kind[c] = "define" /\ Exit(c, "ok")
     \/ s = "running" /\ kind[c] = "up" /\ Goto(c, "probe")
     \/ s = "stopped" /\ kind[c] = "up" /\ Goto(c, "start")
  /\ Kept /\ UNCHANGED <<world, destroyFailed, acked>>

\* Start-VM -Name; a running VM may accept or refuse it.
UpStart(c) ==
  /\ At(c, "start", {"up"})
  /\ \/ Whole /\ PowerOn /\ Goto(c, "probe") /\ UNCHANGED faults
     \/ (~Whole \/ power) /\ Exit(c, "failed") /\ UNCHANGED <<world, faults>>
     \/ Whole /\ Failed(PowerOn) /\ Exit(c, "failed")
  /\ Kept /\ UNCHANGED <<destroyFailed, acked>>

\* New-RuntimeVM up to the ISOs: a .vmx that has appeared meanwhile is returned as it is
\* (its Start-VM -VmxPath reaches the provider's Start-VM -Name and starts nothing).
UpCreate(c) ==
  /\ At(c, "create", {"up", "define"})
  /\ \/ vmx /\ kind[c] = "up" /\ Goto(c, "probeOnce") /\ UNCHANGED faults
     \/ vmx /\ kind[c] = "define" /\ Exit(c, "ok") /\ UNCHANGED faults
     \/ ~vmx /\ Goto(c, "createDisk") /\ UNCHANGED faults
     \/ Fault /\ Exit(c, "failed")
  /\ Kept /\ UNCHANGED <<world, destroyFailed, acked>>

\* New-VMX: New-VirtualDisk, which keeps a .vmdk it finds ...
UpCreateDisk(c) ==
  /\ At(c, "createDisk", {"up", "define"})
  /\ \/ /\ disk' = IF disk = "none" THEN "blank" ELSE disk
        /\ Goto(c, "createVmx") /\ UNCHANGED faults
     \/ Fault /\ Exit(c, "failed") /\ UNCHANGED disk
  /\ Kept /\ UNCHANGED <<vmx, power, snaps, destroyFailed, acked>>

\* ... and the .vmx, whether there is one by now or not.  Then New-RuntimeVM registers the
\* VM, which may fail, and starts it with Start-VM -VmxPath, which the provider's Start-VM
\* answers with "Name is required": it throws, and up ends with 1.
UpCreateVmx(c) ==
  /\ At(c, "createVmx", {"up", "define"})
  /\ \/ vmx' = TRUE /\ Exit(c, IF kind[c] = "define" THEN "ok" ELSE "failed") /\ UNCHANGED faults
     \/ Fault /\ Exit(c, "failed") /\ UNCHANGED vmx
  /\ Kept /\ UNCHANGED <<disk, power, snaps, destroyFailed, acked>>

\* Invoke-BootstrapIfReady: Test-AutoinstallReady is never ready under the provider, so
\* the marker read over SSH decides.  -NoBootstrap, and a marker that only VMware Tools
\* can read, end the command; else up waits if it was asked to.
UpProbe(c) ==
  /\ pc[c] \in {"probe", "probeOnce"} /\ kind[c] = "up"
  /\ \/ power /\ Provisioned /\ Goto(c, "bootstrap")
     \/ Exit(c, "ok")
     \/ pc[c] = "probe" /\ Goto(c, "wait")
  /\ Kept /\ UNCHANGED <<world, destroyFailed, acked, faults>>

\* Mutant: the wait has neither a deadline nor a circuit breaker.
UpWaitForever(c) ==
  /\ At(c, "wait", {"up"})
  /\ power /\ Provisioned /\ Goto(c, "bootstrap")
  /\ Kept /\ UNCHANGED <<world, destroyFailed, acked, faults>>

\* Mutant: a guest that answers counts as ready.
UpWaitAnyGuest(c) ==
  /\ At(c, "wait", {"up"})
  /\ \/ power /\ Goto(c, "bootstrap")
     \/ Exit(c, "ok")
  /\ Kept /\ UNCHANGED <<world, destroyFailed, acked, faults>>

\* Wait-AutoinstallComplete: the marker, or the deadline, or the circuit breaker.
UpWait(c) ==
  /\ At(c, "wait", {"up"})
  /\ \/ power /\ Provisioned /\ Goto(c, "bootstrap")
     \/ Exit(c, "ok")
  /\ Kept /\ UNCHANGED <<world, destroyFailed, acked, faults>>

\* The bootstrap runs over SSH; a failure is only a warning.
UpBootstrap(c) ==
  /\ At(c, "bootstrap", {"up"})
  /\ \/ power /\ Provisioned /\ disk' = "bootstrapped"
     \/ UNCHANGED disk
  /\ Exit(c, "ok")
  /\ Kept /\ UNCHANGED <<vmx, power, snaps, destroyFailed, acked, faults>>

Up(c) ==
  \/ UpStatus(c) \/ UpStart(c) \/ UpCreate(c) \/ UpCreateDisk(c) \/ UpCreateVmx(c)
  \/ UpProbe(c) \/ UpWait(c) \/ UpBootstrap(c)

-----------------------------------------------------------------------------
(* stop *)

\* A VM that exists is stopped whatever its status, first softly ...
StopStatus(c) == \E s \in Statuses :
  /\ At(c, "status", {"stop"}) /\ Status(s)
  /\ IF s = "not-created" THEN Exit(c, "ok") ELSE Goto(c, "soft")
  /\ Kept /\ UNCHANGED <<world, destroyFailed, acked>>

\* ... which needs a guest that answers ...
StopSoft(c) ==
  /\ At(c, "soft", {"stop"})
  /\ \/ vmx /\ power /\ PowerOff /\ Exit(c, "ok") /\ UNCHANGED faults
     \/ (~vmx \/ ~power \/ ~Provisioned) /\ Goto(c, "hard") /\ UNCHANGED <<world, faults>>
     \/ vmx /\ Failed(PowerOff) /\ Goto(c, "hard")
  /\ Kept /\ UNCHANGED <<destroyFailed, acked>>

\* ... and then hard.  vmrun refuses to stop a VM that is off.
StopHard(c) ==
  /\ At(c, "hard", {"stop"})
  /\ \/ vmx /\ power /\ PowerOff /\ Exit(c, "ok") /\ UNCHANGED faults
     \/ (~vmx \/ ~power) /\ Exit(c, "failed") /\ UNCHANGED <<world, faults>>
     \/ vmx /\ Failed(PowerOff) /\ Exit(c, "failed")
  /\ Kept /\ UNCHANGED <<destroyFailed, acked>>

-----------------------------------------------------------------------------
(* destroy -Force *)

DestroyStatus(c) == \E s \in Statuses :
  /\ At(c, "status", {"destroy"}) /\ Status(s)
  /\ IF s = "not-created" THEN Exit(c, "ok") ELSE Goto(c, "remove")
  /\ Kept /\ UNCHANGED <<world, destroyFailed, acked>>

\* Remove-VM reads the status once more.
DestroyRemove(c) == \E s \in Statuses :
  /\ At(c, "remove", {"destroy"}) /\ Status(s)
  /\ \/ s = "not-created" /\ Exit(c, "failed")
     \/ s = "running" /\ Goto(c, "kill")
     \/ s = "stopped" /\ Goto(c, "delete")
  /\ Kept /\ UNCHANGED <<world, destroyFailed, acked>>

DestroyKill(c) ==
  /\ At(c, "kill", {"destroy"})
  /\ \/ vmx /\ power /\ PowerOff /\ Goto(c, "delete") /\ UNCHANGED faults
     \/ (~vmx \/ ~power) /\ Exit(c, "failed") /\ UNCHANGED <<world, faults>>
     \/ vmx /\ Failed(PowerOff) /\ Exit(c, "failed")
  /\ Kept /\ UNCHANGED <<destroyFailed, acked>>

\* Some of the files go.  The disk of a VM that runs is locked and stays.
DeletePartly ==
  /\ vmx' \in {vmx, FALSE}
  /\ disk' \in {disk, IF power THEN disk ELSE "none"}
  /\ snaps' \in {snaps, NoSnapshots}
  /\ destroyFailed' = TRUE
  /\ acked' = {}
  /\ UNCHANGED power

\* Mutant: an error of Remove-Item is swallowed.
DestroyDeleteSwallows(c) ==
  /\ At(c, "delete", {"destroy"})
  /\ acked' = {}
  /\ \/ /\ ~power /\ UNCHANGED <<power, destroyFailed, faults>>
        /\ vmx' = FALSE /\ disk' = "none" /\ snaps' = NoSnapshots
     \/ /\ vmx' \in {vmx, FALSE} /\ disk' \in {disk, IF power THEN disk ELSE "none"}
        /\ snaps' \in {snaps, NoSnapshots} /\ UNCHANGED <<power, destroyFailed>>
        /\ (Fault \/ (power /\ UNCHANGED faults))
  /\ Exit(c, "ok")
  /\ Kept

\* After an unregister, which may fail, the directory is removed.
DestroyDelete(c) ==
  /\ At(c, "delete", {"destroy"})
  /\ \/ /\ ~power
        /\ vmx' = FALSE /\ disk' = "none" /\ snaps' = NoSnapshots /\ acked' = {}
        /\ Exit(c, "ok") /\ UNCHANGED <<power, destroyFailed, faults>>
     \/ power /\ DeletePartly /\ Exit(c, "failed") /\ UNCHANGED faults
     \/ ~power /\ Fault /\ DeletePartly /\ Exit(c, "failed")
  /\ Kept

-----------------------------------------------------------------------------
(* snapshot create *)

Acknowledge(c) == Exit(c, "ok") /\ acked' = acked \cup {snap[c]}

TakeSnapshot(c) ==
  /\ snaps' = [snaps EXCEPT ![snap[c]] = disk]
  /\ UNCHANGED <<vmx, disk, power>>

SnapshotStatus(c) == \E s \in Statuses :
  /\ At(c, "status", {"snapshot"}) /\ Status(s)
  /\ IF s = "not-created" THEN Exit(c, "failed") ELSE Goto(c, "list")
  /\ Kept /\ UNCHANGED <<world, destroyFailed, acked>>

\* A name in the list is success, without a new snapshot.
SnapshotList(c) == \E found \in BOOLEAN :
  /\ At(c, "list", {"snapshot"}) /\ Listed(snap[c], found)
  /\ IF found THEN Acknowledge(c) ELSE Goto(c, "snapshot") /\ UNCHANGED acked
  /\ Kept /\ UNCHANGED <<world, destroyFailed>>

\* vmrun refuses a name that is taken.
SnapshotCreate(c) ==
  /\ At(c, "snapshot", {"snapshot"})
  /\ LET free == Whole /\ snaps[snap[c]] = None
     IN  \/ free /\ TakeSnapshot(c) /\ Acknowledge(c) /\ UNCHANGED faults
         \/ ~free /\ Goto(c, "relist") /\ UNCHANGED <<world, acked, faults>>
         \/ free /\ Failed(TakeSnapshot(c)) /\ Goto(c, "relist") /\ UNCHANGED acked
  /\ Kept /\ UNCHANGED destroyFailed

\* Mutant: a create that failed is reported as the one that another command won.
SnapshotRelistTrusting(c) ==
  /\ At(c, "relist", {"snapshot"})
  /\ Acknowledge(c)
  /\ Kept /\ UNCHANGED <<world, destroyFailed, faults>>

\* After a failure the list decides.
SnapshotRelist(c) == \E found \in BOOLEAN :
  /\ At(c, "relist", {"snapshot"}) /\ Listed(snap[c], found)
  /\ IF found THEN Acknowledge(c) ELSE Exit(c, "failed") /\ UNCHANGED acked
  /\ Kept /\ UNCHANGED <<world, destroyFailed>>

-----------------------------------------------------------------------------
(* restore -Force *)

RestoreStatus(c) == \E s \in Statuses :
  /\ At(c, "status", {"restore"}) /\ Status(s)
  /\ IF s = "not-created" THEN Exit(c, "failed") ELSE Goto(c, "revert")
  /\ Kept /\ UNCHANGED <<world, destroyFailed, acked>>

\* The disk goes back and the VM ends powered off.
Revert(c) ==
  /\ disk' = snaps[snap[c]] /\ power' = FALSE
  /\ UNCHANGED <<vmx, snaps>>

\* vmrun knows the snapshot or fails.
RestoreRevert(c) ==
  /\ At(c, "revert", {"restore"})
  /\ LET known == vmx /\ snaps[snap[c]] # None
     IN  \/ known /\ Revert(c) /\ Exit(c, "ok") /\ UNCHANGED faults
         \/ ~known /\ Exit(c, "failed") /\ UNCHANGED <<world, faults>>
         \/ known /\ Failed(Revert(c)) /\ Exit(c, "failed")
  /\ Kept /\ UNCHANGED <<destroyFailed, acked>>

-----------------------------------------------------------------------------
(* The environment *)

\* The installer finishes, reboots the guest and writes the marker.
Install ==
  /\ power /\ disk = "installing"
  /\ disk' = "provisioned"
  /\ UNCHANGED <<vmx, power, snaps, pc, command, report, history, commands, faults>>

\* Somebody shuts the VM down from its console.
PoweredOffByHand ==
  /\ power /\ Fault
  /\ PowerOff
  /\ UNCHANGED <<pc, command, report, history, commands>>

\* Ctrl-C: the command ends where it is, a deletion possibly half done.
Die(c) ==
  /\ pc[c] # "idle" /\ Fault
  /\ Exit(c, "failed")
  /\ IF pc[c] = "delete" THEN DeletePartly ELSE UNCHANGED <<world, destroyFailed, acked>>
  /\ Kept

-----------------------------------------------------------------------------

Init ==
  /\ vmx = FALSE /\ disk = "none" /\ power = FALSE /\ snaps = NoSnapshots
  /\ pc = [c \in Commands |-> "idle"]
  /\ kind = [c \in Commands |-> "up"] /\ snap = [c \in Commands |-> CHOOSE s \in SnapNames : TRUE]
  /\ report = [c \in Commands |-> "none"]
  /\ overlapped = FALSE /\ destroyFailed = FALSE /\ acked = {}
  /\ commands = 0 /\ faults = 0

\* What a command does once it has begun.
Step(c) ==
  \/ Up(c)
  \/ StopStatus(c) \/ StopSoft(c) \/ StopHard(c)
  \/ DestroyStatus(c) \/ DestroyRemove(c) \/ DestroyKill(c) \/ DestroyDelete(c)
  \/ SnapshotStatus(c) \/ SnapshotList(c) \/ SnapshotCreate(c) \/ SnapshotRelist(c)
  \/ RestoreStatus(c) \/ RestoreRevert(c)

Next == (\E c \in Commands : Begin(c) \/ Step(c) \/ Die(c)) \/ Install \/ PoweredOffByHand

Spec == Init /\ [][Next]_vars

\* Invoke-Vmrun kills a vmrun that exceeds its timeout, so every command goes on.
FairSpec == Spec /\ \A c \in Commands : WF_vars(Step(c))

-----------------------------------------------------------------------------
(* Properties *)

\* Types; the step a command is at belongs to its kind.
TypeOK ==
  /\ vmx \in BOOLEAN /\ disk \in Disks /\ power \in BOOLEAN
  /\ snaps \in [SnapNames -> Disks \cup {None}]
  /\ pc \in [Commands -> Labels] /\ kind \in [Commands -> Kinds]
  /\ snap \in [Commands -> SnapNames]
  /\ report \in [Commands -> {"none", "ok", "failed"}]
  /\ overlapped \in BOOLEAN /\ destroyFailed \in BOOLEAN /\ acked \subseteq SnapNames
  /\ commands \in Nat /\ faults \in Nat

\* A snapshot that a command reported to exist does, until the VM is deleted, whatever
\* overlaps, times out and is retried (snapshot.ps1: list, create, list again).
AckedSnapshotsExist == \A s \in acked : snaps[s] # None

\* A VM without its .vmx, which no command can see or stop any more, does not run unless
\* some destroy has reported failure (Remove-VM stops the VM before it deletes).
NoSilentOrphan == power /\ ~vmx => destroyFailed

\* Nothing has failed and no two commands have run at once.
Clean == faults = 0 /\ ~overlapped

\* What the success of a command means.
Done(c) ==
  CASE kind[c] = "up"       -> vmx /\ power
    [] kind[c] = "define"   -> vmx
    [] kind[c] = "stop"     -> ~power
    [] kind[c] = "destroy"  -> ~vmx /\ ~power /\ disk = "none" /\ snaps = NoSnapshots
    [] kind[c] = "snapshot" -> vmx /\ snaps[snap[c]] # None
    [] kind[c] = "restore"  -> ~power /\ disk = snaps[snap[c]]

Ends(c) == pc[c] # "idle" /\ pc'[c] = "idle"

\* A command that ends with 0 has done what it is for, over all the calls it took and
\* whatever the VM was before (the exit paths of up, stop, destroy, snapshot, restore).
SuccessMeansDone ==
  [][\A c \in Commands : Ends(c) /\ report'[c] = "ok" /\ Clean' => Done(c)']_vars

\* What a command may rely on at each step while no other one interferes.
Expects(c) ==
  /\ pc[c] \in {"start", "delete"} => vmx /\ ~power
  /\ pc[c] \in {"probe", "wait", "kill"} => vmx /\ power
  /\ pc[c] = "bootstrap" => vmx /\ power /\ Provisioned
  /\ pc[c] \in {"create", "createDisk", "createVmx"} => ~vmx
  /\ pc[c] = "createVmx" => disk = "blank"
  /\ pc[c] \in {"soft", "hard", "remove", "list", "snapshot", "relist", "revert"} => vmx
  /\ pc[c] # "probeOnce"

Alone == \A c, d \in Commands : pc[c] # "idle" /\ pc[d] # "idle" => c = d

\* A VM that does not exist has left nothing behind.
NoRemains ==
  ~vmx => /\ ~power /\ snaps = NoSnapshots
          /\ disk # "none" => \E c \in Commands : pc[c] = "createVmx"

\* What makes SuccessMeansDone hold: in a clean history one command runs, it finds what
\* its last call left, and every new VM starts from nothing.
CleanInv == Clean => Alone /\ NoRemains /\ \A c \in Commands : Expects(c)

\* Every command ends.
CommandsEnd == \A c \in Commands : pc[c] # "idle" ~> pc[c] = "idle"

\* An up that nothing disturbs succeeds (up.ps1: starts a runtime, auto-creates the VM from
\* the ISO if needed).
UndisturbedUpSucceeds ==
  [][\A c \in Commands : Ends(c) /\ kind[c] = "up" /\ Clean' => report'[c] = "ok"]_vars
=============================================================================
