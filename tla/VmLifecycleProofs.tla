------------------------- MODULE VmLifecycleProofs -------------------------
(***************************************************************************)
(* Theorems about VmLifecycle, for any number of commands, snapshot names  *)
(* and failures.                                                           *)
(***************************************************************************)
EXTENDS VmLifecycle, TLAPS

\* The next step of a command in its own terms: where it goes and what it reports.
LEMMA GotoType ==
  ASSUME TypeOK, NEW c \in Commands, NEW label \in Labels, Goto(c, label)
  PROVE  pc' \in [Commands -> Labels] /\ report' \in [Commands -> {"none", "ok", "failed"}]
BY DEF TypeOK, Goto

LEMMA ExitType ==
  ASSUME TypeOK, NEW c \in Commands, NEW code \in {"ok", "failed"}, Exit(c, code)
  PROVE  pc' \in [Commands -> Labels] /\ report' \in [Commands -> {"none", "ok", "failed"}]
BY DEF TypeOK, Exit, Labels

\* The world, and the parts of a command's step that the type invariant is about.
WorldType ==
  /\ vmx \in BOOLEAN /\ disk \in Disks /\ power \in BOOLEAN
  /\ snaps \in [SnapNames -> Disks \cup {None}]

ControlType ==
  /\ pc \in [Commands -> Labels]
  /\ report \in [Commands -> {"none", "ok", "failed"}]

NoteType == destroyFailed \in BOOLEAN /\ acked \subseteq SnapNames /\ faults \in Nat

KeptType ==
  /\ kind \in [Commands -> Kinds] /\ snap \in [Commands -> SnapNames]
  /\ overlapped \in BOOLEAN /\ commands \in Nat

LEMMA TypeParts == TypeOK <=> WorldType /\ ControlType /\ NoteType /\ KeptType
BY DEF TypeOK, WorldType, ControlType, NoteType, KeptType

LEMMA KeptKeepsType == KeptType /\ Kept => KeptType'
BY DEF KeptType, Kept, command

LEMMA NoSnapshotsType == NoSnapshots \in [SnapNames -> Disks \cup {None}]
BY DEF NoSnapshots

LEMMA InitType == Init => TypeOK
<1> SUFFICES ASSUME Init PROVE TypeOK
  OBVIOUS
<1>1. WorldType
  BY NoSnapshotsType DEF Init, WorldType, Disks
<1>2. ControlType /\ NoteType
  BY DEF Init, ControlType, NoteType, Labels
<1>3. (CHOOSE s \in SnapNames : TRUE) \in SnapNames
  BY VmAssumption
<1>4. KeptType
  BY <1>3 DEF Init, KeptType, Kinds
<1> QED BY <1>1, <1>2, <1>4, TypeParts

\* Where a step leads a command.
LEMMA ControlStep ==
  ASSUME TypeOK, NEW c \in Commands, Step(c) \/ Die(c)
  PROVE  ControlType'
<1>1. \/ \E label \in Labels : Goto(c, label)
      \/ \E code \in {"ok", "failed"} : Exit(c, code)
  <2>1. CASE Die(c)
    BY <2>1 DEF Die
  <2>2. CASE Up(c)
    BY <2>2 DEF Up, UpStatus, UpStart, UpCreate, UpCreateDisk, UpCreateVmx, UpProbe, UpWait,
                UpBootstrap, Labels
  <2>3. CASE StopStatus(c) \/ StopSoft(c) \/ StopHard(c)
    BY <2>3 DEF StopStatus, StopSoft, StopHard, Labels
  <2>4. CASE DestroyStatus(c) \/ DestroyRemove(c) \/ DestroyKill(c) \/ DestroyDelete(c)
    BY <2>4 DEF DestroyStatus, DestroyRemove, DestroyKill, DestroyDelete, Labels
  <2>5. CASE SnapshotStatus(c) \/ SnapshotList(c) \/ SnapshotCreate(c) \/ SnapshotRelist(c)
    BY <2>5 DEF SnapshotStatus, SnapshotList, SnapshotCreate, SnapshotRelist, Acknowledge, Labels
  <2>6. CASE RestoreStatus(c) \/ RestoreRevert(c)
    BY <2>6 DEF RestoreStatus, RestoreRevert, Labels
  <2> QED BY <2>1, <2>2, <2>3, <2>4, <2>5, <2>6 DEF Step
<1> QED BY <1>1, GotoType, ExitType DEF ControlType

-----------------------------------------------------------------------------
(* What a step does to the VM and its files, whoever takes it. *)

Touches(c) ==
  \/ /\ UNCHANGED <<world, destroyFailed>>
     /\ \/ acked' = acked
        \/ snaps[snap[c]] # None /\ acked' = acked \cup {snap[c]}
  \/ Whole /\ PowerOn /\ UNCHANGED <<destroyFailed, acked>>
  \/ PowerOff /\ UNCHANGED <<destroyFailed, acked>>
  \/ disk' \in Disks /\ UNCHANGED <<vmx, power, snaps, destroyFailed, acked>>
  \/ vmx' = TRUE /\ UNCHANGED <<disk, power, snaps, destroyFailed, acked>>
  \/ /\ ~power /\ vmx' = FALSE /\ disk' = "none" /\ snaps' = NoSnapshots
     /\ acked' = {} /\ UNCHANGED <<power, destroyFailed>>
  \/ DeletePartly
  \/ /\ Whole /\ TakeSnapshot(c) /\ UNCHANGED destroyFailed
     /\ acked' \in {acked, acked \cup {snap[c]}}
  \/ snaps[snap[c]] # None /\ Revert(c) /\ UNCHANGED <<destroyFailed, acked>>

LEMMA StepTouches ==
  ASSUME TypeOK, NEW c \in Commands, Step(c) \/ Die(c)
  PROVE  Touches(c)
<1> USE DEF Touches, world
<1>1. CASE Die(c)
  BY <1>1 DEF Die
<1>2. CASE Up(c)
  <2>1. CASE UpStatus(c) \/ UpCreate(c) \/ UpProbe(c) \/ UpWait(c)
    BY <2>1 DEF UpStatus, UpCreate, UpProbe, UpWait
  <2>2. CASE UpStart(c)
    BY <2>2 DEF UpStart, Failed
  <2>3. CASE UpCreateDisk(c) \/ UpBootstrap(c)
    BY <2>3 DEF UpCreateDisk, UpBootstrap, Disks, TypeOK
  <2>4. CASE UpCreateVmx(c)
    BY <2>4 DEF UpCreateVmx
  <2> QED BY <1>2, <2>1, <2>2, <2>3, <2>4 DEF Up
<1>3. CASE StopStatus(c) \/ StopSoft(c) \/ StopHard(c)
  BY <1>3 DEF StopStatus, StopSoft, StopHard, Failed
<1>4. CASE DestroyStatus(c) \/ DestroyRemove(c) \/ DestroyKill(c)
  BY <1>4 DEF DestroyStatus, DestroyRemove, DestroyKill, Failed
<1>5. CASE DestroyDelete(c)
  BY <1>5 DEF DestroyDelete
<1>6. CASE SnapshotStatus(c) \/ RestoreStatus(c)
  BY <1>6 DEF SnapshotStatus, RestoreStatus
<1>7. CASE SnapshotList(c) \/ SnapshotRelist(c)
  BY <1>7 DEF SnapshotList, SnapshotRelist, Listed, Acknowledge
<1>8. CASE SnapshotCreate(c)
  BY <1>8 DEF SnapshotCreate, Failed, Acknowledge
<1>9. CASE RestoreRevert(c)
  BY <1>9 DEF RestoreRevert, Failed
<1> QED BY <1>1, <1>2, <1>3, <1>4, <1>5, <1>6, <1>7, <1>8, <1>9 DEF Step

\* A step spends at most one fault, and only Begin changes what a command is about.
LEMMA StepKeeps ==
  ASSUME TypeOK, NEW c \in Commands, Step(c) \/ Die(c)
  PROVE  Kept /\ (faults' = faults \/ Fault)
<1>1. CASE Die(c)
  BY <1>1 DEF Die
<1>2. CASE Up(c)
  BY <1>2 DEF Up, UpStatus, UpStart, UpCreate, UpCreateDisk, UpCreateVmx, UpProbe, UpWait,
              UpBootstrap, Status, Failed
<1>3. CASE StopStatus(c) \/ StopSoft(c) \/ StopHard(c)
  BY <1>3 DEF StopStatus, StopSoft, StopHard, Status, Failed
<1>4. CASE DestroyStatus(c) \/ DestroyRemove(c) \/ DestroyKill(c) \/ DestroyDelete(c)
  BY <1>4 DEF DestroyStatus, DestroyRemove, DestroyKill, DestroyDelete, Status, Failed
<1>5. CASE SnapshotStatus(c) \/ SnapshotList(c) \/ SnapshotCreate(c) \/ SnapshotRelist(c)
  BY <1>5 DEF SnapshotStatus, SnapshotList, SnapshotCreate, SnapshotRelist, Status, Listed, Failed
<1>6. CASE RestoreStatus(c) \/ RestoreRevert(c)
  BY <1>6 DEF RestoreStatus, RestoreRevert, Status, Failed
<1> QED BY <1>1, <1>2, <1>3, <1>4, <1>5, <1>6 DEF Step

LEMMA TouchesType ==
  ASSUME TypeOK, NEW c \in Commands, Touches(c)
  PROVE  WorldType' /\ destroyFailed' \in BOOLEAN /\ acked' \subseteq SnapNames
<1> USE DEF TypeOK, Touches, world, PowerOn, PowerOff, DeletePartly, TakeSnapshot, Revert
<1>1. vmx' \in BOOLEAN /\ power' \in BOOLEAN /\ destroyFailed' \in BOOLEAN
  OBVIOUS
<1>2. disk' \in Disks
  BY VmAssumption DEF Disks
<1>3. snaps' \in [SnapNames -> Disks \cup {None}]
  BY NoSnapshotsType
<1>4. acked' \subseteq SnapNames
  <2> HIDE DEF TypeOK, PowerOn, PowerOff, TakeSnapshot, Revert
  <2>1. snap[c] \in SnapNames /\ acked \subseteq SnapNames
    BY DEF TypeOK
  <2>2. acked' = acked \/ acked' = {} \/ acked' = acked \cup {snap[c]}
    OBVIOUS
  <2> QED BY <2>1, <2>2
<1> QED BY <1>1, <1>2, <1>3, <1>4 DEF WorldType

-----------------------------------------------------------------------------
(* The type invariant *)

LEMMA TypeStep == TypeOK /\ [Next]_vars => TypeOK'
<1> SUFFICES ASSUME TypeOK, [Next]_vars PROVE TypeOK'
  OBVIOUS
<1>1. CASE UNCHANGED vars
  BY <1>1 DEF TypeOK, vars, world, command, history
<1>2. ASSUME NEW c \in Commands, Begin(c) PROVE TypeOK'
  <2>1. PICK k \in Kinds, s \in SnapNames :
          /\ pc' = [pc EXCEPT ![c] = "status"] /\ report' = [report EXCEPT ![c] = "none"]
          /\ kind' = [kind EXCEPT ![c] = k] /\ snap' = [snap EXCEPT ![c] = s]
          /\ overlapped' = (overlapped \/ \E d \in Commands \ {c} : pc[d] # "idle")
          /\ commands' = commands + 1
          /\ UNCHANGED <<world, destroyFailed, acked, faults>>
    BY <1>2 DEF Begin
  <2>2. overlapped' \in BOOLEAN
    BY <2>1
  <2>3. WorldType' /\ NoteType'
    BY <2>1 DEF TypeOK, WorldType, NoteType, world
  <2>4. ControlType'
    BY <2>1 DEF TypeOK, ControlType, Labels
  <2>5. KeptType'
    BY <2>1, <2>2 DEF TypeOK, KeptType
  <2> QED BY <2>3, <2>4, <2>5 DEF TypeOK, WorldType, ControlType, NoteType, KeptType
<1>3. ASSUME NEW c \in Commands, Step(c) \/ Die(c) PROVE TypeOK'
  <2>1. ControlType' /\ Touches(c) /\ Kept /\ (faults' = faults \/ Fault)
    BY <1>3, ControlStep, StepTouches, StepKeeps
  <2>2. WorldType' /\ destroyFailed' \in BOOLEAN /\ acked' \subseteq SnapNames
    BY <2>1, TouchesType
  <2>3. faults' \in Nat
    BY <2>1 DEF Fault, TypeOK
  <2>4. KeptType'
    BY <2>1, TypeParts, KeptKeepsType
  <2> QED BY <2>1, <2>2, <2>3, <2>4 DEF TypeOK, WorldType, ControlType, NoteType, KeptType
<1>4. CASE Install
  BY <1>4 DEF Install, TypeOK, Disks, command, history
<1>5. CASE PoweredOffByHand
  <2>1. power' = FALSE /\ faults' \in Nat
    BY <1>5 DEF PoweredOffByHand, PowerOff, Fault, TypeOK
  <2>2. WorldType' /\ NoteType'
    BY <1>5, <2>1 DEF PoweredOffByHand, PowerOff, TypeOK, WorldType, NoteType, history
  <2>3. ControlType' /\ KeptType'
    BY <1>5 DEF PoweredOffByHand, TypeOK, ControlType, KeptType, command, history
  <2> QED BY <2>1, <2>2, <2>3 DEF TypeOK, WorldType, ControlType, NoteType, KeptType
<1> QED BY <1>1, <1>2, <1>3, <1>4, <1>5 DEF Next

\* Types, and a known step for each command.
THEOREM VmTypes == Spec => []TypeOK
BY InitType, TypeStep, PTL DEF Spec

-----------------------------------------------------------------------------
(* Snapshots that were reported, and VMs that run without their files.       *)

\* No step takes an acknowledged snapshot away without voiding the acknowledgement.
LEMMA TouchesKeepAcked ==
  ASSUME TypeOK, AckedSnapshotsExist, NEW c \in Commands, Touches(c)
  PROVE  AckedSnapshotsExist'
<1>1. CASE UNCHANGED <<world, destroyFailed>> /\ (\/ acked' = acked
                                                 \/ /\ snaps[snap[c]] # None
                                                    /\ acked' = acked \cup {snap[c]})
  BY <1>1 DEF AckedSnapshotsExist, world
<1>2. CASE UNCHANGED <<snaps, acked>>
  BY <1>2 DEF AckedSnapshotsExist
<1>3. CASE acked' = {}
  BY <1>3 DEF AckedSnapshotsExist
<1>4. CASE /\ Whole /\ TakeSnapshot(c)
           /\ acked' \in {acked, acked \cup {snap[c]}}
  <2>1. disk # None /\ snap[c] \in SnapNames
    BY VmAssumption DEF TypeOK, Disks
  <2>2. snaps' = [snaps EXCEPT ![snap[c]] = disk] /\ snaps \in [SnapNames -> Disks \cup {None}]
    BY <1>4 DEF TakeSnapshot, TypeOK
  <2>3. \A s \in SnapNames : snaps'[s] = IF s = snap[c] THEN disk ELSE snaps[s]
    BY <2>2
  <2> QED BY <1>4, <2>1, <2>3 DEF AckedSnapshotsExist, TypeOK
<1> QED BY <1>1, <1>2, <1>3, <1>4 DEF Touches, PowerOn, PowerOff, DeletePartly, Revert

\* Whatever overlaps and fails, a snapshot reported to exist is there until a deletion.
THEOREM ReportedSnapshotsExist == Spec => []AckedSnapshotsExist
<1>1. Init => AckedSnapshotsExist
  BY DEF Init, AckedSnapshotsExist
<1>2. TypeOK /\ AckedSnapshotsExist /\ [Next]_vars => AckedSnapshotsExist'
  <2> SUFFICES ASSUME TypeOK, AckedSnapshotsExist, [Next]_vars PROVE AckedSnapshotsExist'
    OBVIOUS
  <2>1. ASSUME NEW c \in Commands, Step(c) \/ Die(c) PROVE AckedSnapshotsExist'
    BY <2>1, StepTouches, TouchesKeepAcked
  <2>2. CASE (\E c \in Commands : Begin(c)) \/ Install \/ PoweredOffByHand \/ UNCHANGED vars
    BY <2>2 DEF Begin, Install, PoweredOffByHand, PowerOff, vars, world, history, AckedSnapshotsExist
  <2> QED BY <2>1, <2>2 DEF Next
<1> QED BY <1>1, <1>2, VmTypes, PTL DEF Spec

\* A VM loses its .vmx while it runs only through a deletion that reported failure.
THEOREM OrphansAreReported == Spec => []NoSilentOrphan
<1>1. Init => NoSilentOrphan
  BY DEF Init, NoSilentOrphan
<1>2. TypeOK /\ NoSilentOrphan /\ [Next]_vars => NoSilentOrphan'
  <2> SUFFICES ASSUME TypeOK, NoSilentOrphan, [Next]_vars PROVE NoSilentOrphan'
    OBVIOUS
  <2>1. ASSUME NEW c \in Commands, Touches(c) PROVE NoSilentOrphan'
    BY <2>1 DEF Touches, PowerOn, PowerOff, DeletePartly, TakeSnapshot, Revert, Whole, world,
                NoSilentOrphan, TypeOK
  <2>2. CASE (\E c \in Commands : Begin(c)) \/ Install \/ PoweredOffByHand \/ UNCHANGED vars
    BY <2>2 DEF Begin, Install, PoweredOffByHand, PowerOff, vars, world, history, NoSilentOrphan
  <2> QED BY <2>1, <2>2, StepTouches DEF Next
<1> QED BY <1>1, <1>2, VmTypes, PTL DEF Spec

-----------------------------------------------------------------------------
(* What success means.  In a clean history a command is alone, and each of  *)
(* its steps leaves what its next one relies on, or what its end promises.  *)

\* What a step of c must leave.
Leaves(c) ==
  /\ Expects(c)' /\ NoRemains'
  /\ pc'[c] = "idle" /\ report'[c] = "ok" => Done(c)'

LEMMA UpLeaves ==
  ASSUME TypeOK, Clean, NoRemains, NEW c \in Commands, Expects(c), faults' = 0, Kept, Up(c),
         \A d \in Commands : d # c => pc[d] = "idle"
  PROVE  Leaves(c)
<1> USE DEF Leaves, Expects, NoRemains, Done, TypeOK, Kept, At, Goto, Exit, command
<1>0. faults = 0 /\ ~Fault /\ kind'[c] = kind[c]
  BY DEF Clean, Fault
<1>1. CASE UpStatus(c)
  <2>1. /\ UNCHANGED <<vmx, disk, power, snaps>>
        /\ \/ ~vmx /\ Goto(c, "create")
           \/ vmx /\ kind[c] = "define" /\ Exit(c, "ok")
           \/ vmx /\ power /\ Goto(c, "probe")
           \/ vmx /\ ~power /\ Goto(c, "start")
    BY <1>0, <1>1 DEF UpStatus, Status, Statuses, world
  <2>2. pc[c] = "status"
    BY <1>1 DEF UpStatus
  <2> QED BY <1>0, <2>1, <2>2
<1>2. CASE UpStart(c)
  <2>1. pc[c] = "start" /\ vmx /\ ~power
    BY <1>2 DEF UpStart
  <2>2. \/ power' = TRUE /\ vmx' = vmx /\ Goto(c, "probe")
        \/ UNCHANGED <<vmx, disk, power, snaps>> /\ Exit(c, "failed")
    BY <1>0, <1>2 DEF UpStart, Failed, PowerOn, world
  <2> QED BY <1>0, <2>1, <2>2
<1>3. CASE UpCreate(c)
  BY <1>0, <1>3 DEF UpCreate, world
<1>4. CASE UpCreateDisk(c)
  BY <1>0, <1>4 DEF UpCreateDisk
<1>5. CASE UpCreateVmx(c)
  BY <1>0, <1>5 DEF UpCreateVmx
<1>6. CASE UpProbe(c)
  BY <1>0, <1>6 DEF UpProbe, Provisioned, world
<1>7. CASE UpWait(c)
  BY <1>0, <1>7 DEF UpWait, Provisioned, world
<1>8. CASE UpBootstrap(c)
  BY <1>0, <1>8 DEF UpBootstrap
<1> QED BY <1>1, <1>2, <1>3, <1>4, <1>5, <1>6, <1>7, <1>8 DEF Up

LEMMA StopLeaves ==
  ASSUME TypeOK, Clean, NoRemains, NEW c \in Commands, Expects(c), faults' = 0, Kept,
         StopStatus(c) \/ StopSoft(c) \/ StopHard(c),
         \A d \in Commands : d # c => pc[d] = "idle"
  PROVE  Leaves(c)
<1> USE DEF Leaves, Expects, NoRemains, Done, TypeOK, Kept, At, Goto, Exit, command
<1>0. faults = 0 /\ ~Fault /\ kind'[c] = kind[c]
  BY DEF Clean, Fault
<1>1. CASE StopStatus(c)
  BY <1>0, <1>1 DEF StopStatus, Status, world
<1>2. CASE StopSoft(c)
  <2>1. kind[c] = "stop" /\ vmx
    BY <1>2 DEF StopSoft
  <2>2. \/ power' = FALSE /\ vmx' = vmx /\ Exit(c, "ok")
        \/ UNCHANGED <<vmx, disk, power, snaps>> /\ Goto(c, "hard")
    BY <1>0, <1>2 DEF StopSoft, Failed, PowerOff, world
  <2> QED BY <1>0, <2>1, <2>2
<1>3. CASE StopHard(c)
  <2>1. kind[c] = "stop" /\ vmx
    BY <1>3 DEF StopHard
  <2>2. \/ power' = FALSE /\ vmx' = vmx /\ Exit(c, "ok")
        \/ UNCHANGED <<vmx, disk, power, snaps>> /\ Exit(c, "failed")
    BY <1>0, <1>3 DEF StopHard, Failed, PowerOff, world
  <2> QED BY <1>0, <2>1, <2>2
<1> QED BY <1>1, <1>2, <1>3

LEMMA DestroyLeaves ==
  ASSUME TypeOK, Clean, NoRemains, NEW c \in Commands, Expects(c), faults' = 0, Kept,
         DestroyStatus(c) \/ DestroyRemove(c) \/ DestroyKill(c) \/ DestroyDelete(c),
         \A d \in Commands : d # c => pc[d] = "idle"
  PROVE  Leaves(c)
<1> USE DEF Leaves, Expects, NoRemains, Done, TypeOK, Kept, At, Goto, Exit, command
<1>0. faults = 0 /\ ~Fault /\ kind'[c] = kind[c]
  BY DEF Clean, Fault
<1>1. CASE DestroyStatus(c)
  BY <1>0, <1>1 DEF DestroyStatus, Status, world
<1>2. CASE DestroyRemove(c)
  BY <1>0, <1>2 DEF DestroyRemove, Status, world
<1>3. CASE DestroyKill(c)
  <2>1. vmx
    BY <1>3 DEF DestroyKill
  <2>2. \/ power' = FALSE /\ vmx' = vmx /\ Goto(c, "delete")
        \/ UNCHANGED <<vmx, disk, power, snaps>> /\ Exit(c, "failed")
    BY <1>0, <1>3 DEF DestroyKill, Failed, PowerOff, world
  <2> QED BY <1>0, <2>1, <2>2
<1>4. CASE DestroyDelete(c)
  BY <1>0, <1>4 DEF DestroyDelete, NoSnapshots
<1> QED BY <1>1, <1>2, <1>3, <1>4

LEMMA SnapshotLeaves ==
  ASSUME TypeOK, Clean, NoRemains, NEW c \in Commands, Expects(c), faults' = 0, Kept,
         \/ SnapshotStatus(c) \/ SnapshotList(c) \/ SnapshotCreate(c) \/ SnapshotRelist(c)
         \/ RestoreStatus(c) \/ RestoreRevert(c),
         \A d \in Commands : d # c => pc[d] = "idle"
  PROVE  Leaves(c)
<1> USE DEF Leaves, Expects, NoRemains, Done, TypeOK, Kept, At, Goto, Exit, command
<1>0. faults = 0 /\ ~Fault /\ kind'[c] = kind[c] /\ snap'[c] = snap[c] /\ snap[c] \in SnapNames
  BY DEF Clean, Fault
<1>1. CASE SnapshotStatus(c)
  BY <1>0, <1>1 DEF SnapshotStatus, Status, world
<1>2. CASE SnapshotList(c)
  BY <1>0, <1>2 DEF SnapshotList, Listed, Acknowledge, world
<1>3. CASE SnapshotCreate(c)
  <2>1. CASE TakeSnapshot(c) /\ Acknowledge(c)
    <3>1. snaps'[snap[c]] # None
      BY <1>0, <2>1, VmAssumption DEF TakeSnapshot, Disks
    <3> QED BY <1>0, <1>3, <2>1, <3>1 DEF SnapshotCreate, Acknowledge, TakeSnapshot
  <2>2. CASE Goto(c, "relist") /\ UNCHANGED world
    BY <1>0, <1>3, <2>2 DEF SnapshotCreate, world
  <2> QED BY <1>0, <1>3, <2>1, <2>2 DEF SnapshotCreate, Failed
<1>4. CASE SnapshotRelist(c)
  BY <1>0, <1>4 DEF SnapshotRelist, Listed, Acknowledge, world
<1>5. CASE RestoreStatus(c)
  BY <1>0, <1>5 DEF RestoreStatus, Status, world
<1>6. CASE RestoreRevert(c)
  <2>1. kind[c] = "restore" /\ vmx
    BY <1>6 DEF RestoreRevert
  <2>2. \/ /\ power' = FALSE /\ disk' = snaps[snap[c]] /\ UNCHANGED <<vmx, snaps>>
           /\ Exit(c, "ok")
        \/ UNCHANGED <<vmx, disk, power, snaps>> /\ Exit(c, "failed")
    BY <1>0, <1>6 DEF RestoreRevert, Failed, Revert, world
  <2> QED BY <1>0, <2>1, <2>2
<1> QED BY <1>1, <1>2, <1>3, <1>4, <1>5, <1>6

\* A step of a command that is alone leaves every other one idle.
LEMMA AloneStep ==
  ASSUME TypeOK, Alone, NEW c \in Commands, Step(c)
  PROVE  /\ pc[c] # "idle"
         /\ \A d \in Commands : d # c => pc[d] = "idle" /\ pc'[d] = "idle"
<1>1. pc[c] # "idle" /\ \E label \in Labels : pc' = [pc EXCEPT ![c] = label]
  <2> USE DEF At, Goto, Exit, Labels
  <2>1. CASE Up(c)
    BY <2>1 DEF Up, UpStatus, UpStart, UpCreate, UpCreateDisk, UpCreateVmx, UpProbe, UpWait,
                UpBootstrap
  <2>2. CASE StopStatus(c) \/ StopSoft(c) \/ StopHard(c)
    BY <2>2 DEF StopStatus, StopSoft, StopHard
  <2>3. CASE DestroyStatus(c) \/ DestroyRemove(c) \/ DestroyKill(c) \/ DestroyDelete(c)
    BY <2>3 DEF DestroyStatus, DestroyRemove, DestroyKill, DestroyDelete
  <2>4. CASE SnapshotStatus(c) \/ SnapshotList(c) \/ SnapshotCreate(c) \/ SnapshotRelist(c)
    BY <2>4 DEF SnapshotStatus, SnapshotList, SnapshotCreate, SnapshotRelist, Acknowledge
  <2>5. CASE RestoreStatus(c) \/ RestoreRevert(c)
    BY <2>5 DEF RestoreStatus, RestoreRevert
  <2> QED BY <2>1, <2>2, <2>3, <2>4, <2>5 DEF Step
<1> QED BY <1>1 DEF Alone, TypeOK

LEMMA CleanStep ==
  ASSUME TypeOK, CleanInv, Clean', NEW c \in Commands, Step(c)
  PROVE  /\ Clean /\ Alone' /\ Leaves(c)
         /\ \A d \in Commands : d # c => pc'[d] = pc[d] /\ Expects(d)'
<1>1. Kept /\ (faults' = faults \/ Fault)
  BY StepKeeps
<1>2. Clean /\ faults' = 0
  BY <1>1 DEF Clean, Kept, Fault, TypeOK
<1>3. Alone /\ NoRemains /\ Expects(c)
  BY <1>2 DEF CleanInv
<1>4. \A d \in Commands : d # c => pc[d] = "idle" /\ pc'[d] = "idle"
  BY <1>3, AloneStep
<1>5. Leaves(c)
  BY <1>1, <1>2, <1>3, <1>4, UpLeaves, StopLeaves, DestroyLeaves, SnapshotLeaves DEF Step
<1> QED BY <1>2, <1>4, <1>5 DEF Alone, Expects

LEMMA CleanInvStep == TypeOK /\ CleanInv /\ [Next]_vars => CleanInv'
<1> SUFFICES ASSUME TypeOK, CleanInv, [Next]_vars, Clean'
             PROVE  Alone' /\ NoRemains' /\ \A c \in Commands : Expects(c)'
  BY DEF CleanInv
<1>1. ASSUME NEW c \in Commands, Step(c)
      PROVE  Alone' /\ NoRemains' /\ \A d \in Commands : Expects(d)'
  BY <1>1, CleanStep DEF Leaves
<1>2. ASSUME NEW c \in Commands, Begin(c)
      PROVE  Alone' /\ NoRemains' /\ \A d \in Commands : Expects(d)'
  <2>1. /\ overlapped' = (overlapped \/ \E d \in Commands \ {c} : pc[d] # "idle")
        /\ pc' = [pc EXCEPT ![c] = "status"] /\ pc[c] = "idle"
        /\ UNCHANGED <<world, faults>>
    BY <1>2 DEF Begin
  <2>2. Clean /\ \A d \in Commands : d # c => pc[d] = "idle"
    BY <2>1 DEF Clean
  <2>3. \A d \in Commands : pc'[d] = IF d = c THEN "status" ELSE "idle"
    BY <2>1, <2>2 DEF TypeOK
  <2>4. NoRemains'
    BY <2>1, <2>2 DEF CleanInv, NoRemains, world
  <2> QED BY <2>3, <2>4 DEF Alone, Expects
<1>3. CASE Install
  <2>1. Clean /\ power /\ disk = "installing" /\ disk' = "provisioned" /\ UNCHANGED <<vmx, power, snaps, pc>>
    BY <1>3 DEF Install, Clean, history
  <2> QED BY <2>1 DEF CleanInv, Alone, NoRemains, Expects, Provisioned
<1>4. CASE UNCHANGED vars
  BY <1>4 DEF CleanInv, Clean, Alone, NoRemains, Expects, Provisioned, vars, world, history
<1>5. ~PoweredOffByHand /\ \A c \in Commands : ~Die(c)
  BY DEF PoweredOffByHand, Die, Fault, Clean, TypeOK
<1> QED BY <1>1, <1>2, <1>3, <1>4, <1>5 DEF Next

\* While nothing fails and no commands overlap, every step of a command finds what the
\* step before it left.
THEOREM CleanInvariant == Spec => []CleanInv
<1>1. Init => CleanInv
  BY DEF Init, CleanInv, Alone, NoRemains, Expects
<1> QED BY <1>1, CleanInvStep, VmTypes, PTL DEF Spec

\* Exit code 0 means what the command is for, for up, stop, destroy, snapshot and restore.
THEOREM SuccessIsDone == Spec => SuccessMeansDone
<1>1. ASSUME TypeOK, CleanInv, [Next]_vars
      PROVE  [\A c \in Commands : Ends(c) /\ report'[c] = "ok" /\ Clean' => Done(c)']_vars
  <2> SUFFICES ASSUME Next, NEW c \in Commands, pc[c] # "idle", pc'[c] = "idle",
                      report'[c] = "ok", Clean'
               PROVE  Done(c)'
    BY <1>1 DEF Ends
  <2>1. ASSUME NEW d \in Commands, Step(d) PROVE Done(c)'
    <3>1. CASE d = c
      BY <1>1, <2>1, <3>1, CleanStep DEF Leaves
    <3>2. CASE d # c
      BY <1>1, <2>1, <3>2, CleanStep
    <3> QED BY <3>1, <3>2
  <2>2. ASSUME NEW d \in Commands, Begin(d) PROVE FALSE
    BY <1>1, <2>2 DEF Begin, TypeOK
  <2>3. ~Install
    BY DEF Install
  <2>4. ~PoweredOffByHand /\ \A d \in Commands : ~Die(d)
    BY <1>1 DEF PoweredOffByHand, Die, Fault, Clean, TypeOK
  <2> QED BY <2>1, <2>2, <2>3, <2>4 DEF Next
<1> QED BY <1>1, VmTypes, CleanInvariant, PTL DEF Spec, SuccessMeansDone
=============================================================================
