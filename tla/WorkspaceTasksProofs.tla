------------------------ MODULE WorkspaceTasksProofs ------------------------
(***************************************************************************)
(* Theorems about the workspace tasks, for any number of commands, tasks   *)
(* and programs.                                                           *)
(*                                                                         *)
(* The fields of an entry follow from what made it (Follows), which        *)
(* Recorded preserves; so they do in the file and in every copy of it that *)
(* a command has read (BoardInv).  That nothing reported is lost rests on  *)
(* what the command in its window has read (TurnInv).                      *)
(***************************************************************************)
EXTENDS WorkspaceTasks, TLAPS

-----------------------------------------------------------------------------
(* What is recorded in an entry *)

LEMMA PastField ==
  ASSUME NEW q \in Entry, NEW e \in Event, NEW p, p = [q EXCEPT !.past = Append(@, e)]
  PROVE  /\ p \in Entry /\ p.past = Append(q.past, e)
         /\ p.state = q.state /\ p.waived = q.waived /\ p.validation = q.validation
<1>1. PICK s \in Seq(Event) : s = Append(q.past, e)
  BY DEF Entry
<1>2. p = [q EXCEPT !.past = s]
  BY <1>1 DEF Entry
<1> QED BY <1>1, <1>2 DEF Entry

LEMMA StateFields ==
  ASSUME NEW r \in Entry, NEW s \in States
  PROVE  /\ WithState(r, s) \in Entry /\ WithState(r, s).past = r.past
         /\ WithState(r, s).state = s /\ WithState(r, s).validation = r.validation
         /\ WithState(r, s).waived <=> r.waived /\ s # "checkpointed"
<1>1. PICK b \in BOOLEAN : b <=> r.waived /\ s # "checkpointed"
  OBVIOUS
<1>2. b = (r.waived /\ s # "checkpointed")
  BY <1>1
<1>3. WithState(r, s) = [r EXCEPT !.state = s, !.waived = b]
  <2>1. WithState(r, s) = [r EXCEPT !.state = s, !.waived = r.waived /\ s # "checkpointed"]
    BY DEF WithState, Entry
  <2> QED BY <1>2, <2>1, Zenon
<1>4. /\ WithState(r, s) \in Entry /\ WithState(r, s).past = r.past
      /\ WithState(r, s).state = s /\ WithState(r, s).validation = r.validation
      /\ WithState(r, s).waived = b
  BY <1>3 DEF Entry
<1> QED BY <1>1, <1>4

LEMMA WaiverFields ==
  ASSUME NEW r \in Entry
  PROVE  /\ WithWaiver(r) \in Entry /\ WithWaiver(r).past = r.past
         /\ WithWaiver(r).state = "checkpoint-waived" /\ WithWaiver(r).validation = r.validation
         /\ WithWaiver(r).waived
BY DEF WithWaiver, Entry, States

LEMMA ValidationFields ==
  ASSUME NEW r \in Entry, NEW s \in Results
  PROVE  /\ WithValidation(r, s) \in Entry /\ WithValidation(r, s).past = r.past
         /\ WithValidation(r, s).state = s /\ WithValidation(r, s).waived = r.waived
         /\ WithValidation(r, s).validation = IF s = "validated" THEN "passed" ELSE "failed"
<1>1. PICK v \in {"passed", "failed"} : v = IF s = "validated" THEN "passed" ELSE "failed"
  OBVIOUS
<1>2. WithValidation(r, s) = [r EXCEPT !.state = s, !.validation = v] /\ s \in States
  BY <1>1 DEF WithValidation, Results, States
<1> QED BY <1>1, <1>2 DEF Entry

\* What Recorded makes of each field of an entry.
LEMMA RecordedFields ==
  ASSUME NEW r \in Entry, NEW e \in Event
  PROVE  /\ Recorded(r, e) \in Entry
         /\ Recorded(r, e).past = Append(r.past, e)
         /\ Recorded(r, e).state = e.mark
         /\ Recorded(r, e).waived <=> e.mark = "checkpoint-waived" \/ (r.waived /\ e.mark # "checkpointed")
         /\ Recorded(r, e).validation = IF e.mark = "validated" THEN "passed"
                                        ELSE IF e.mark = "validation_failed" THEN "failed" ELSE r.validation
<1>0. e.mark \in States
  BY DEF Event
<1>1. CASE e.mark = "checkpoint-waived"
  <2>1. Recorded(r, e) = [WithWaiver(r) EXCEPT !.past = Append(@, e)]
    BY <1>1 DEF Recorded, Results
  <2> QED BY <1>1, <2>1, WaiverFields, PastField
<1>2. CASE e.mark \in Results
  <2>1. Recorded(r, e) = [WithValidation(r, e.mark) EXCEPT !.past = Append(@, e)]
    BY <1>2 DEF Recorded, Results
  <2> QED BY <1>2, <2>1, ValidationFields, PastField DEF Results
<1>3. CASE e.mark # "checkpoint-waived" /\ e.mark \notin Results
  <2>1. Recorded(r, e) = [WithState(r, e.mark) EXCEPT !.past = Append(@, e)]
    BY <1>3 DEF Recorded
  <2> QED BY <1>0, <1>3, <2>1, StateFields, PastField DEF Results
<1> QED BY <1>1, <1>2, <1>3

LEMMA BlankType == Blank \in Board /\ Blank # Garbled /\ \A t \in Tasks : Blank[t] = NoEntry
<1>1. NoEntry \in Entry
  BY DEF NoEntry, Entry
<1> QED BY <1>1, GarbledAssumption DEF Blank, Board

-----------------------------------------------------------------------------
(* Types *)

LEMMA JobType ==
  ASSUME TypeOK, NEW c \in Commands, job[c].at # "idle"
  PROVE  job[c] \in Job
BY DEF TypeOK, Idle

LEMMA NewBoardType ==
  ASSUME NEW j \in Job
  PROVE  /\ NewBoard(j) \in Board
         /\ NewBoard(j)[j.task] = Recorded(j.base[j.task], j.event)
         /\ \A t \in Tasks \ {j.task} : NewBoard(j)[t] = j.base[t]
<1>1. Recorded(j.base[j.task], j.event) \in Entry
  BY RecordedFields DEF Job, Board
<1>2. NewBoard(j) = [j.base EXCEPT ![j.task] = Recorded(j.base[j.task], j.event)]
  BY DEF NewBoard
<1> QED BY <1>1, <1>2 DEF Job, Board

\* What the reading of the file makes of the job of c.
LEMMA ReadType ==
  ASSUME TypeOK, NEW c \in Commands, NEW t \in Tasks, NEW e \in Event, ReadBoard(c, t, e)
  PROVE  /\ job' \in [Commands -> Job \cup {Idle}] /\ disturbed' \in BOOLEAN
         /\ file \in Board /\ UNCHANGED <<file, snapshot, hist>>
<1> DEFINE j == [at |-> "read", task |-> t, event |-> e, left |-> 0, base |-> file]
<1>1. file \in Board
  BY DEF ReadBoard, TypeOK
<1>2. j \in Job
  BY <1>1, TasksAssumption DEF Job
<1>3. job' = [job EXCEPT ![c] = j]
  BY DEF ReadBoard
<1>4. job' \in [Commands -> Job \cup {Idle}]
  <2> HIDE DEF j
  <2> QED BY <1>2, <1>3 DEF TypeOK
<1> QED BY <1>1, <1>4 DEF ReadBoard, TypeOK

LEMMA ValidatesType ==
  ASSUME TypeOK, NEW c \in Commands, NEW t \in Tasks, NEW where \in {"local", "remote"}, NEW open \in BOOLEAN,
         NEW board \in Board, Validates(c, t, where, open, board)
  PROVE  TypeOK'
<1> DEFINE e == [mark |-> "running", by |-> where, failed |-> FALSE, open |-> open]
           j == [at |-> "running", task |-> t, left |-> Programs, base |-> board, event |-> e]
<1>1. e \in Event
  BY DEF Event, States
<1>2. j \in Job
  <2> HIDE DEF e
  <2> QED BY <1>1, TasksAssumption DEF Job
<1>3. job' = [job EXCEPT ![c] = j]
  BY DEF Validates
<1>4. job' \in [Commands -> Job \cup {Idle}]
  <2> HIDE DEF j
  <2> QED BY <1>2, <1>3 DEF TypeOK
<1> QED BY <1>4, TasksAssumption DEF Validates, Start, TypeOK

LEMMA OutcomeType ==
  ASSUME NEW j \in Job, NEW e \in Outcomes(j)
  PROVE  /\ e \in Event /\ e.by = j.event.by /\ e.open = j.event.open
         /\ e.mark = "validated" => e.failed = j.event.failed
         /\ e.mark \in Results
BY DEF Outcomes, Job, Event, Results, States

LEMMA TypeStep == TypeOK /\ [Next]_vars => TypeOK'
<1> SUFFICES ASSUME TypeOK, [Next]_vars PROVE TypeOK'
  OBVIOUS
<1>1. CASE UNCHANGED vars
  BY <1>1 DEF vars, TypeOK
<1>2. CASE Snapshot
  BY <1>2 DEF Snapshot, TypeOK
<1>3. ASSUME NEW c \in Commands, Step(c) PROVE TypeOK'
  <2>1. CASE Mark(c)
    <3>1. PICK t \in Tasks, s \in Marks : Start(c) /\ ReadBoard(c, t, ByHuman(s))
      BY <2>1 DEF Mark
    <3>2. ByHuman(s) \in Event
      BY TasksAssumption DEF ByHuman, Event
    <3> QED BY <3>1, <3>2, ReadType, TasksAssumption DEF Start, TypeOK
  <2>2. CASE ValidateRemote(c)
    <3>1. PICK t \in Tasks : file # Garbled /\
            Validates(c, t, "remote", t \notin Guarded \/ snapshot[t] \/ WaiverIn(file[t].past), file)
      BY <2>2 DEF ValidateRemote
    <3>2. PICK b \in BOOLEAN : b = (t \notin Guarded \/ snapshot[t] \/ WaiverIn(file[t].past))
      OBVIOUS
    <3>3. Validates(c, t, "remote", b, file)
      BY <3>1, <3>2, Zenon
    <3> QED BY <3>1, <3>3, ValidatesType DEF TypeOK
  <2>3. CASE ValidateLocal(c)
    BY <2>3, ValidatesType, BlankType DEF ValidateLocal
  <2>4. CASE ProgramSucceeds(c)
    <3>1. job[c] \in Job /\ job[c].left > 1 /\ job' = [job EXCEPT ![c] = [job[c] EXCEPT !.left = job[c].left - 1]]
      BY <2>4, JobType DEF ProgramSucceeds, TypeOK
    <3>2. job[c].left - 1 \in 0..Programs
      BY <3>1, TasksAssumption DEF Job
    <3>3. [job[c] EXCEPT !.left = job[c].left - 1] \in Job
      BY <3>1, <3>2 DEF Job
    <3> QED BY <2>4, <3>1, <3>3 DEF ProgramSucceeds, TypeOK
  <2>5. CASE Reports(c)
    <3>1. job[c] \in Job
      BY <2>5, JobType DEF Reports
    <3>2. PICK e \in Outcomes(job[c]) : ReadBoard(c, job[c].task, e)
      BY <2>5 DEF Reports
    <3>3. e \in Event /\ job[c].task \in Tasks
      BY <3>1, OutcomeType DEF Job
    <3> QED BY <2>5, <3>2, <3>3, ReadType DEF Reports, TypeOK
  <2>6. CASE Open(c)
    <3>1. job[c] \in Job /\ [job[c] EXCEPT !.at = "opened"] \in Job
      BY <2>6, JobType DEF Open, Job
    <3> QED BY <2>6, <3>1, BlankType DEF Open, TypeOK
  <2>7. CASE Write(c)
    <3>1. job[c] \in Job
      BY <2>7, JobType DEF Write
    <3>2. file' = Garbled \/ file' \in Board
      BY <2>7, <3>1, NewBoardType DEF Write
    <3>3. hist' \in [Tasks -> Seq(Event)]
      BY <2>7, <3>1 DEF Write, TypeOK, Job
    <3> QED BY <2>7, <3>2, <3>3 DEF Write, TypeOK
  <2>8. CASE Die(c)
    BY <2>8 DEF Die, TypeOK
  <2> QED BY <1>3, <2>1, <2>2, <2>3, <2>4, <2>5, <2>6, <2>7, <2>8 DEF Step
<1> QED BY <1>1, <1>2, <1>3 DEF Next

LEMMA TypeInit == Init => TypeOK
<1> SUFFICES ASSUME Init PROVE TypeOK
  OBVIOUS
<1>1. hist \in [Tasks -> Seq(Event)]
  <2>1. <<>> \in Seq(Event)
    OBVIOUS
  <2> QED BY <2>1 DEF Init
<1>2. started \in 0..MaxCommands
  BY TasksAssumption DEF Init
<1> QED BY <1>1, <1>2, BlankType DEF Init, TypeOK

\* Every variable has its type, for any number of commands, tasks and programs.
THEOREM TaskTypes == Spec => []TypeOK
BY TypeInit, TypeStep, PTL DEF Spec

-----------------------------------------------------------------------------
(* What an entry says of what made it *)

\* The last validation of past passed.
PassedIn(past) ==
  \E i \in DOMAIN past : /\ past[i].mark = "validated"
                         /\ \A j \in DOMAIN past : j > i => past[j].mark \notin Results

\* Nothing is recorded as validated when a program failed, nor as remote when its
\* snapshot gate was shut.
Honest(e) == (e.mark = "validated" => ~ e.failed) /\ (e.by = "remote" => e.open)

\* The fields of an entry follow from its past.
Follows(r) ==
  /\ IF r.past = <<>> THEN r.state = "missing" ELSE r.state = r.past[Len(r.past)].mark
  /\ r.waived <=> WaiverIn(r.past)
  /\ r.validation = "passed" => PassedIn(r.past)
  /\ \A i \in DOMAIN r.past : Honest(r.past[i])

BoardInv ==
  /\ file # Garbled => \A t \in Tasks : Follows(file[t])
  /\ \A c \in Commands : job[c].at = "running" => Honest(job[c].event) /\ ~ job[c].event.failed
  /\ \A c \in Commands : InWindow(c) => Honest(job[c].event) /\ \A t \in Tasks : Follows(job[c].base[t])

\* While no two windows overlap, the command in its window has read all that was reported.
TurnInv ==
  ~ disturbed =>
    /\ \A c, d \in Commands : InWindow(c) /\ InWindow(d) => c = d
    /\ \A c \in Commands : InWindow(c) => \A t \in Tasks : job[c].base[t].past = hist[t]
    /\ \A c \in Commands : job[c].at = "opened" => file = Blank
    /\ (\A c \in Commands : job[c].at # "opened") => file # Garbled /\ \A t \in Tasks : file[t].past = hist[t]

LEMMA AppendFacts ==
  ASSUME NEW past \in Seq(Event), NEW e \in Event
  PROVE  /\ Len(past) \in Nat /\ DOMAIN past = 1..Len(past)
         /\ Append(past, e) # <<>> /\ Len(Append(past, e)) = Len(past) + 1
         /\ DOMAIN Append(past, e) = 1..(Len(past) + 1)
         /\ Append(past, e)[Len(past) + 1] = e
         /\ \A i \in 1..Len(past) : Append(past, e)[i] = past[i]
OBVIOUS

LEMMA WaiverAppend ==
  ASSUME NEW past \in Seq(Event), NEW e \in Event
  PROVE  WaiverIn(Append(past, e)) <=> e.mark = "checkpoint-waived" \/ (WaiverIn(past) /\ e.mark # "checkpointed")
<1> DEFINE n == Len(past)
           new == Append(past, e)
<1>0. /\ n \in Nat /\ DOMAIN past = 1..n /\ DOMAIN new = 1..(n + 1)
      /\ new[n + 1] = e /\ \A i \in 1..n : new[i] = past[i]
  BY AppendFacts
<1>w. WaiverIn(new) <=> \E i \in DOMAIN new : /\ new[i].mark = "checkpoint-waived"
                                              /\ \A j \in DOMAIN new : j > i => new[j].mark # "checkpointed"
  BY DEF WaiverIn
<1> HIDE DEF n, new
<1>1. ASSUME e.mark = "checkpoint-waived" PROVE WaiverIn(new)
  <2>1. n + 1 \in DOMAIN new /\ \A j \in DOMAIN new : ~ j > n + 1
    BY <1>0
  <2> QED BY <1>0, <1>1, <1>w, <2>1
<1>2. ASSUME WaiverIn(past), e.mark # "checkpointed" PROVE WaiverIn(new)
  <2>1. PICK i \in 1..n : past[i].mark = "checkpoint-waived" /\ \A j \in 1..n : j > i => past[j].mark # "checkpointed"
    BY <1>0, <1>2 DEF WaiverIn
  <2>2. i \in 1..(n + 1) /\ new[i].mark = "checkpoint-waived"
    BY <1>0, <2>1
  <2>3. ASSUME NEW j \in 1..(n + 1), j > i PROVE new[j].mark # "checkpointed"
    <3>1. j \in 1..n \/ j = n + 1
      BY <1>0
    <3> QED BY <1>0, <1>2, <2>1, <2>3, <3>1
  <2> QED BY <1>0, <1>w, <2>2, <2>3
<1>3. ASSUME WaiverIn(new), e.mark # "checkpoint-waived" PROVE WaiverIn(past) /\ e.mark # "checkpointed"
  <2>1. PICK i \in 1..(n + 1) : /\ new[i].mark = "checkpoint-waived"
                                /\ \A j \in 1..(n + 1) : j > i => new[j].mark # "checkpointed"
    BY <1>0, <1>3, <1>w
  <2>2. i \in 1..n
    <3>1. i \in 1..n \/ i = n + 1
      BY <1>0
    <3> QED BY <1>0, <1>3, <2>1, <3>1
  <2>3. n + 1 \in 1..(n + 1) /\ n + 1 > i
    BY <1>0, <2>2
  <2>4. \A j \in 1..n : j \in 1..(n + 1)
    BY <1>0
  <2> QED BY <1>0, <2>1, <2>2, <2>3, <2>4 DEF WaiverIn
<1> QED BY <1>1, <1>2, <1>3 DEF new

LEMMA PassedAppend ==
  ASSUME NEW past \in Seq(Event), NEW e \in Event,
         e.mark = "validated" \/ (PassedIn(past) /\ e.mark \notin Results)
  PROVE  PassedIn(Append(past, e))
<1> DEFINE n == Len(past)
           new == Append(past, e)
<1>0. /\ n \in Nat /\ DOMAIN past = 1..n /\ DOMAIN new = 1..(n + 1)
      /\ new[n + 1] = e /\ \A i \in 1..n : new[i] = past[i]
  BY AppendFacts
<1>w. PassedIn(new) <=> \E i \in DOMAIN new : /\ new[i].mark = "validated"
                                              /\ \A j \in DOMAIN new : j > i => new[j].mark \notin Results
  BY DEF PassedIn
<1> HIDE DEF n, new
<1>1. CASE e.mark = "validated"
  <2>1. n + 1 \in DOMAIN new /\ \A j \in DOMAIN new : ~ j > n + 1
    BY <1>0
  <2>2. PassedIn(new)
    BY <1>0, <1>1, <1>w, <2>1
  <2> QED BY <2>2 DEF new
<1>2. CASE PassedIn(past) /\ e.mark \notin Results
  <2>1. PICK i \in 1..n : past[i].mark = "validated" /\ \A j \in 1..n : j > i => past[j].mark \notin Results
    BY <1>0, <1>2 DEF PassedIn
  <2>2. i \in 1..(n + 1) /\ new[i].mark = "validated"
    BY <1>0, <2>1
  <2>3. ASSUME NEW j \in 1..(n + 1), j > i PROVE new[j].mark \notin Results
    <3>1. j \in 1..n \/ j = n + 1
      BY <1>0
    <3> QED BY <1>0, <1>2, <2>1, <2>3, <3>1
  <2>4. PassedIn(new)
    BY <1>0, <1>w, <2>2, <2>3
  <2> QED BY <2>4 DEF new
<1> QED BY <1>1, <1>2

LEMMA FollowsRecorded ==
  ASSUME NEW r \in Entry, NEW e \in Event, Follows(r), Honest(e)
  PROVE  Follows(Recorded(r, e))
<1> DEFINE n == Len(r.past)
           q == Recorded(r, e)
<1>0. /\ r.past \in Seq(Event) /\ q.past = Append(r.past, e) /\ q.state = e.mark
      /\ q.waived <=> e.mark = "checkpoint-waived" \/ (r.waived /\ e.mark # "checkpointed")
      /\ q.validation = IF e.mark = "validated" THEN "passed"
                        ELSE IF e.mark = "validation_failed" THEN "failed" ELSE r.validation
  BY RecordedFields DEF Entry
<1>1. /\ n \in Nat /\ DOMAIN r.past = 1..n /\ q.past # <<>> /\ Len(q.past) = n + 1 /\ DOMAIN q.past = 1..(n + 1)
      /\ q.past[n + 1] = e /\ \A i \in 1..n : q.past[i] = r.past[i]
  BY <1>0, AppendFacts
<1> HIDE DEF n, q
<1>2. q.waived <=> WaiverIn(q.past)
  BY <1>0, WaiverAppend DEF Follows
<1>3. q.validation = "passed" => PassedIn(q.past)
  BY <1>0, PassedAppend DEF Follows, Results
<1>4. ASSUME NEW i \in 1..(n + 1) PROVE Honest(q.past[i])
  <2>1. i \in 1..n \/ i = n + 1
    BY <1>1
  <2> QED BY <1>1, <2>1 DEF Follows
<1>5. Follows(q)
  BY <1>0, <1>1, <1>2, <1>3, <1>4 DEF Follows
<1> QED BY <1>5 DEF q

LEMMA BlankFollows == \A t \in Tasks : Follows(Blank[t])
BY BlankType DEF Follows, NoEntry, WaiverIn

LEMMA NewBoardFollows ==
  ASSUME NEW j \in Job, \A t \in Tasks : Follows(j.base[t]), Honest(j.event)
  PROVE  \A t \in Tasks : Follows(NewBoard(j)[t])
<1>1. j.event \in Event /\ j.task \in Tasks /\ j.base[j.task] \in Entry
  BY DEF Job, Board
<1>2. Follows(NewBoard(j)[j.task])
  BY <1>1, NewBoardType, FollowsRecorded
<1> QED BY <1>2, NewBoardType

-----------------------------------------------------------------------------
(* The invariants *)

\* A step touches one job.
LEMMA OthersKept ==
  ASSUME TypeOK, NEW c \in Commands, Step(c), NEW d \in Commands \ {c}
  PROVE  job'[d] = job[d]
BY DEF Step, Mark, ValidateRemote, ValidateLocal, Validates, ProgramSucceeds, Reports, ReadBoard, Open, Write, Die, TypeOK

LEMMA ReadBoardEffect ==
  ASSUME TypeOK, NEW c \in Commands, NEW t, NEW e, ReadBoard(c, t, e)
  PROVE  job'[c] = [at |-> "read", task |-> t, event |-> e, left |-> 0, base |-> file]
BY DEF ReadBoard, TypeOK

\* A task whose state is a waiver has one.
LEMMA LastWaives ==
  ASSUME NEW r \in Entry, Follows(r), r.state = "checkpoint-waived"
  PROVE  WaiverIn(r.past)
<1>1. r.past \in Seq(Event) /\ r.past # <<>> /\ r.past[Len(r.past)].mark = "checkpoint-waived"
  BY DEF Follows, Entry
<1>2. Len(r.past) \in DOMAIN r.past /\ \A j \in DOMAIN r.past : ~ j > Len(r.past)
  BY <1>1
<1> QED BY <1>1, <1>2 DEF WaiverIn

\* A remote validation begins with its checkpoint or a waiver that stands.
LEMMA GateMeansOpen ==
  ASSUME TypeOK, BoardInv, file # Garbled, NEW t \in Tasks, NEW there \in BOOLEAN, there => snapshot[t],
         ~ SnapshotGateBlocks(t, file[t], there)
  PROVE  t \notin Guarded \/ snapshot[t] \/ WaiverIn(file[t].past)
<1>1. Follows(file[t]) /\ file[t] \in Entry
  BY DEF BoardInv, TypeOK, Board
<1>2. file[t].state = "checkpoint-waived" => WaiverIn(file[t].past)
  BY <1>1, LastWaives
<1> QED BY <1>1, <1>2 DEF SnapshotGateBlocks, CheckpointWaived, Follows

LEMMA BoardStep == TypeOK /\ BoardInv /\ [Next]_vars => BoardInv'
<1> SUFFICES ASSUME TypeOK, BoardInv, [Next]_vars PROVE BoardInv'
  OBVIOUS
<1>1. CASE UNCHANGED vars \/ Snapshot
  BY <1>1 DEF vars, Snapshot, BoardInv, InWindow
<1>2. ASSUME NEW c \in Commands, Step(c),
             file' # Garbled => \A t \in Tasks : Follows(file'[t]),
             job'[c].at = "running" => Honest(job'[c].event) /\ ~ job'[c].event.failed,
             job'[c].at \in {"read", "opened"} =>
               Honest(job'[c].event) /\ \A t \in Tasks : Follows(job'[c].base[t])
      PROVE  BoardInv'
  <2>1. \A d \in Commands \ {c} : job'[d] = job[d]
    BY <1>2, OthersKept
  <2>2. \A d \in Commands : job'[d].at = "running" => Honest(job'[d].event) /\ ~ job'[d].event.failed
    BY <1>2, <2>1 DEF BoardInv
  <2>3. \A d \in Commands : job'[d].at \in {"read", "opened"} =>
          Honest(job'[d].event) /\ \A t \in Tasks : Follows(job'[d].base[t])
    BY <1>2, <2>1 DEF BoardInv, InWindow
  <2> QED BY <1>2, <2>2, <2>3 DEF BoardInv, InWindow
<1>3. ASSUME NEW c \in Commands, Step(c) PROVE BoardInv'
  <2>1. CASE Mark(c)
    <3>1. PICK t \in Tasks, s \in Marks : ReadBoard(c, t, ByHuman(s))
      BY <2>1 DEF Mark
    <3>2. job'[c] = [at |-> "read", task |-> t, event |-> ByHuman(s), left |-> 0, base |-> file]
      BY <3>1, ReadBoardEffect
    <3>3. Honest(ByHuman(s)) /\ file # Garbled /\ file' = file
      BY <3>1 DEF Honest, ByHuman, ReadBoard
    <3>4. /\ job'[c].at = "read" /\ job'[c].event = ByHuman(s) /\ job'[c].base = file
      BY <3>2
    <3> QED BY <1>2, <1>3, <3>3, <3>4 DEF BoardInv
  <2>2. CASE ValidateRemote(c)
    <3>1. PICK t \in Tasks, there \in BOOLEAN :
            /\ file # Garbled /\ (there => snapshot[t]) /\ ~ SnapshotGateBlocks(t, file[t], there)
            /\ Validates(c, t, "remote", t \notin Guarded \/ snapshot[t] \/ WaiverIn(file[t].past), file)
      BY <2>2 DEF ValidateRemote
    <3>2. t \notin Guarded \/ snapshot[t] \/ WaiverIn(file[t].past)
      BY <3>1, GateMeansOpen
    <3>3. PICK b : b = (t \notin Guarded \/ snapshot[t] \/ WaiverIn(file[t].past))
      OBVIOUS
    <3>4. Validates(c, t, "remote", b, file) /\ b
      BY <3>1, <3>2, <3>3, Zenon
    <3>5. job'[c].at = "running" /\ job'[c].event = [mark |-> "running", by |-> "remote", failed |-> FALSE, open |-> b]
      BY <3>4 DEF Validates, TypeOK
    <3>6. Honest(job'[c].event) /\ ~ job'[c].event.failed
      BY <3>4, <3>5 DEF Honest
    <3> QED BY <1>2, <1>3, <3>4, <3>5, <3>6 DEF Validates, BoardInv
  <2>3. CASE ValidateLocal(c)
    <3>1. PICK t \in Tasks : Validates(c, t, "local", TRUE, Blank)
      BY <2>3 DEF ValidateLocal
    <3>2. job'[c].at = "running" /\ job'[c].event = [mark |-> "running", by |-> "local", failed |-> FALSE, open |-> TRUE]
      BY <3>1 DEF Validates, TypeOK
    <3>3. Honest(job'[c].event) /\ ~ job'[c].event.failed
      BY <3>2 DEF Honest
    <3> QED BY <1>2, <1>3, <3>1, <3>2, <3>3 DEF Validates, BoardInv
  <2>4. CASE ProgramSucceeds(c)
    <3>1. job[c] \in Job /\ job' = [job EXCEPT ![c].left = @ - 1]
      BY <2>4, JobType DEF ProgramSucceeds
    <3>2. job'[c].at = "running" /\ job'[c].event = job[c].event /\ file' = file
      BY <2>4, <3>1 DEF ProgramSucceeds, TypeOK, Job
    <3> QED BY <1>2, <1>3, <2>4, <3>2 DEF ProgramSucceeds, BoardInv
  <2>5. CASE Reports(c)
    <3>1. PICK e \in Outcomes(job[c]) : ReadBoard(c, job[c].task, e)
      BY <2>5 DEF Reports
    <3>2. job'[c] = [at |-> "read", task |-> job[c].task, event |-> e, left |-> 0, base |-> file]
      BY <3>1, ReadBoardEffect
    <3>3. Honest(e)
      BY <2>5, <3>1, JobType, OutcomeType DEF Reports, BoardInv, Honest
    <3>4. /\ job'[c].at = "read" /\ job'[c].event = e /\ job'[c].base = file /\ file # Garbled /\ file' = file
      BY <3>1, <3>2 DEF ReadBoard
    <3> QED BY <1>2, <1>3, <3>3, <3>4 DEF BoardInv
  <2>6. CASE Open(c)
    <3>1. job[c] \in Job
      BY <2>6, JobType DEF Open
    <3>2. job'[c].at = "opened" /\ job'[c].event = job[c].event /\ job'[c].base = job[c].base /\ file' = Blank
      BY <2>6, <3>1 DEF Open, TypeOK, Job
    <3> QED BY <1>2, <1>3, <2>6, <3>2, BlankFollows DEF Open, BoardInv, InWindow
  <2>7. CASE Write(c)
    <3>1. job[c] \in Job /\ job'[c] = Idle
      BY <2>7, JobType DEF Write, TypeOK
    <3>2. \A t \in Tasks : Follows(NewBoard(job[c])[t])
      BY <2>7, <3>1, NewBoardFollows DEF Write, BoardInv, InWindow
    <3> QED BY <1>2, <1>3, <2>7, <3>1, <3>2 DEF Write, Idle
  <2>8. CASE Die(c)
    <3>1. job'[c] = Idle /\ (file' = file \/ file' = Garbled)
      BY <2>8 DEF Die, TypeOK
    <3> QED BY <1>2, <1>3, <3>1 DEF Idle, BoardInv
  <2> QED BY <1>3, <2>1, <2>2, <2>3, <2>4, <2>5, <2>6, <2>7, <2>8 DEF Step
<1> QED BY <1>1, <1>3 DEF Next

LEMMA BoardInit == Init => BoardInv
BY BlankFollows DEF Init, BoardInv, InWindow, Idle

LEMMA BoardInvariant == Spec => [](TypeOK /\ BoardInv)
BY TaskTypes, BoardInit, BoardStep, PTL DEF Spec

\* Commit ready means a passed validation and a review after it (ReadyIsEarned), by the
\* inductive invariant BoardInv.
THEOREM ReadinessIsEarned == Spec => []ReadyIsEarned
<1>1. TypeOK /\ BoardInv => ReadyIsEarned
  <2> SUFFICES ASSUME TypeOK, BoardInv, file # Garbled, NEW t \in Tasks, CommitReady(t)
               PROVE  /\ file[t].past # <<>> /\ file[t].past[Len(file[t].past)].mark = "reviewed"
                      /\ \E i \in DOMAIN file[t].past :
                           /\ file[t].past[i].mark = "validated" /\ ~ file[t].past[i].failed
                           /\ \A j \in DOMAIN file[t].past : j > i => file[t].past[j].mark \notin Results
    BY DEF ReadyIsEarned
  <2>1. Follows(file[t]) /\ file[t].validation \in {"missing", "passed", "failed"}
    BY DEF BoardInv, TypeOK, Board, Entry
  <2>2. file[t].state = "reviewed" /\ file[t].validation = "passed"
    <3>1. Programs # 0
      BY DEF CommitReady, CommitDecision
    <3>2. file[t].validation \notin {"failed", "missing"}
      BY <3>1 DEF CommitReady, CommitDecision
    <3>3. file[t].state = "reviewed"
      BY <3>1, <3>2 DEF CommitReady, CommitDecision
    <3> QED BY <2>1, <3>2, <3>3
  <2> QED BY <2>1, <2>2 DEF Follows, PassedIn, Honest
<1> QED BY <1>1, BoardInvariant, PTL

\* A waiver stands until the next checkpoint, and no remote validation begins at a shut
\* gate (WaiverStands), by the same invariant.
THEOREM WaiversStand == Spec => []WaiverStands
<1>1. TypeOK /\ BoardInv => WaiverStands
  <2> SUFFICES ASSUME TypeOK, BoardInv, file # Garbled, NEW t \in Tasks
               PROVE  /\ CheckpointWaived(file[t]) <=> WaiverIn(file[t].past)
                      /\ \A i \in DOMAIN file[t].past : file[t].past[i].by = "remote" => file[t].past[i].open
    BY DEF WaiverStands
  <2>1. Follows(file[t]) /\ file[t] \in Entry
    BY DEF BoardInv, TypeOK, Board
  <2>2. file[t].state = "checkpoint-waived" => WaiverIn(file[t].past)
    BY <2>1, LastWaives
  <2> QED BY <2>1, <2>2 DEF Follows, Honest, CheckpointWaived
<1> QED BY <1>1, BoardInvariant, PTL

\* A step that enters no window and leaves file and history, or ends in trouble.
LEMMA TurnQuiet ==
  ASSUME TypeOK, TurnInv, NEW c \in Commands, Step(c), UNCHANGED <<file, hist, disturbed>>,
         job'[c].at \notin {"read", "opened"}, job[c].at # "opened"
  PROVE  TurnInv'
<1>1. \A d \in Commands : InWindow(d)' => job'[d] = job[d] /\ InWindow(d)
  BY OthersKept DEF InWindow
<1>2. \A d \in Commands : job[d].at = "opened" => job'[d] = job[d]
  BY OthersKept
<1> QED BY <1>1, <1>2 DEF TurnInv, InWindow

\* A command that reads the file does it in its turn, or disturbs another.
LEMMA TurnRead ==
  ASSUME TypeOK, TurnInv, NEW c \in Commands, Step(c), NEW t, NEW e, ReadBoard(c, t, e)
  PROVE  TurnInv'
<1> SUFFICES ASSUME ~ disturbed' PROVE TurnInv'
  BY DEF TurnInv
<1>1. ~ disturbed /\ \A d \in Commands : ~ InWindow(d)
  BY DEF ReadBoard
<1>2. \A u \in Tasks : file[u].past = hist[u]
  BY <1>1 DEF TurnInv, InWindow
<1>0. job'[c] = [at |-> "read", task |-> t, event |-> e, left |-> 0, base |-> file]
  BY ReadBoardEffect
<1>3. job'[c].at = "read" /\ job'[c].base = file /\ UNCHANGED <<file, hist>> /\ file # Garbled
  BY <1>0 DEF ReadBoard
<1>4. \A d \in Commands : job'[d].at \in {"read", "opened"} => d = c
  BY <1>1, OthersKept DEF InWindow
<1> QED BY <1>2, <1>3, <1>4 DEF TurnInv, InWindow

LEMMA TurnStep == TypeOK /\ TurnInv /\ [Next]_vars => TurnInv'
<1> SUFFICES ASSUME TypeOK, TurnInv, [Next]_vars PROVE TurnInv'
  OBVIOUS
<1>1. CASE UNCHANGED vars \/ Snapshot
  BY <1>1 DEF vars, Snapshot, TurnInv, InWindow
<1>2. ASSUME NEW c \in Commands, Step(c) PROVE TurnInv'
  <2>1. CASE Mark(c) \/ Reports(c)
    <3>1. \E t, e : ReadBoard(c, t, e)
      BY <2>1 DEF Mark, Reports
    <3> QED BY <1>2, <3>1, TurnRead
  <2>2. CASE ValidateRemote(c) \/ ValidateLocal(c)
    <3>1. \E t \in Tasks : \E where, open, board : Validates(c, t, where, open, board)
      BY <2>2 DEF ValidateRemote, ValidateLocal
    <3>2. job'[c].at = "running" /\ job[c].at = "idle" /\ UNCHANGED <<file, hist, disturbed>>
      BY <3>1 DEF Validates, Start, TypeOK
    <3> QED BY <1>2, <3>2, TurnQuiet
  <2>3. CASE ProgramSucceeds(c)
    <3>1. job[c] \in Job
      BY <2>3, JobType DEF ProgramSucceeds
    <3>2. job'[c].at = "running" /\ job[c].at = "running" /\ UNCHANGED <<file, hist, disturbed>>
      BY <2>3, <3>1 DEF ProgramSucceeds, TypeOK, Job
    <3> QED BY <1>2, <3>2, TurnQuiet
  <2>4. CASE Open(c)
    <3>1. job[c] \in Job
      BY <2>4, JobType DEF Open
    <3>2. /\ job'[c].at = "opened" /\ job'[c].base = job[c].base /\ job[c].at = "read"
          /\ file' = Blank /\ UNCHANGED <<hist, disturbed>>
      BY <2>4, <3>1 DEF Open, TypeOK, Job
    <3>3. \A d \in Commands \ {c} : job'[d] = job[d]
      BY <1>2, OthersKept
    <3>4. ~ disturbed => \A d \in Commands : job'[d].at \in {"read", "opened"} => d = c
      BY <3>2, <3>3 DEF TurnInv, InWindow
    <3> QED BY <3>2, <3>4 DEF TurnInv, InWindow
  <2>5. CASE Write(c)
    <3>1. /\ job[c] \in Job /\ job[c].at = "opened" /\ job'[c] = Idle /\ disturbed' = disturbed
          /\ hist' = [hist EXCEPT ![job[c].task] = Append(@, job[c].event)]
      BY <2>5, JobType DEF Write, TypeOK
    <3> SUFFICES ASSUME ~ disturbed PROVE TurnInv'
      BY <3>1 DEF TurnInv
    <3>2. \A d \in Commands : job'[d].at \notin {"read", "opened"}
      BY <1>2, <3>1, OthersKept DEF TurnInv, InWindow, Idle
    <3>3. file' = NewBoard(job[c]) /\ \A t \in Tasks : job[c].base[t].past = hist[t]
      BY <2>5, <3>1 DEF Write, TurnInv, InWindow
    <3>4. file' # Garbled
      BY <3>1, <3>3, NewBoardType, GarbledAssumption
    <3>5. ASSUME NEW t \in Tasks PROVE file'[t].past = hist'[t]
      <4>1. job[c].task \in Tasks /\ job[c].base[job[c].task] \in Entry /\ job[c].event \in Event
        BY <3>1 DEF Job, Board
      <4>2. CASE t = job[c].task
        <5>0. PICK r \in Entry, e \in Event : r = job[c].base[t] /\ e = job[c].event
          BY <4>1, <4>2
        <5>1. file'[t] = Recorded(r, e)
          BY <3>1, <3>3, <4>2, <5>0, NewBoardType
        <5>a. Recorded(r, e).past = Append(r.past, e)
          BY RecordedFields
        <5>2. file'[t].past = Append(job[c].base[t].past, job[c].event)
          BY <5>0, <5>1, <5>a
        <5>3. hist'[t] = Append(hist[t], job[c].event)
          BY <3>1, <4>2 DEF TypeOK
        <5> QED BY <3>3, <5>2, <5>3
      <4>3. CASE t # job[c].task
        BY <3>1, <3>3, <4>3, NewBoardType DEF TypeOK
      <4> QED BY <4>2, <4>3
    <3> QED BY <3>2, <3>4, <3>5 DEF TurnInv, InWindow
  <2>6. CASE Die(c)
    <3>1. CASE job[c].at = "opened"
      BY <2>6, <3>1 DEF Die, TurnInv
    <3>2. CASE job[c].at # "opened"
      <4>1. job'[c].at = "idle" /\ UNCHANGED <<file, hist, disturbed>>
        BY <2>6, <3>2 DEF Die, TypeOK, Idle
      <4> QED BY <1>2, <3>2, <4>1, TurnQuiet
    <3> QED BY <3>1, <3>2
  <2> QED BY <1>2, <2>1, <2>2, <2>3, <2>4, <2>5, <2>6 DEF Step
<1> QED BY <1>1, <1>2 DEF Next

LEMMA TurnInit == Init => TurnInv
BY BlankType DEF Init, TurnInv, InWindow, Idle, NoEntry

\* What was reported as recorded is in the file (ReportedIsKept), by the inductive
\* invariant TurnInv.
THEOREM ReportsAreKept == Spec => []ReportedIsKept
<1>1. TurnInv => ReportedIsKept
  BY DEF TurnInv, ReportedIsKept
<1>2. Spec => []TurnInv
  BY TaskTypes, TurnInit, TurnStep, PTL DEF Spec
<1> QED BY <1>1, <1>2, PTL

-----------------------------------------------------------------------------
(* The file as one update after the other *)

\* Content, of any file and any jobs.
ContentOf(f, j) ==
  IF \E c \in Commands : j[c].at = "opened"
  THEN j[CHOOSE c \in Commands : j[c].at = "opened"].base ELSE f

\* While no two windows overlap, a command that has read the file has what it holds.
BaseInv == ~ disturbed => \A c \in Commands : job[c].at = "read" => job[c].base = file

LEMMA ContentClosed ==
  ASSUME NEW f, NEW j, \A c \in Commands : j[c].at # "opened"
  PROVE  ContentOf(f, j) = f
BY DEF ContentOf

LEMMA ContentOpened ==
  ASSUME NEW f, NEW j, NEW c \in Commands, j[c].at = "opened",
         \A d \in Commands : j[d].at = "opened" => d = c
  PROVE  ContentOf(f, j) = j[c].base
BY DEF ContentOf

\* The content depends on the file and on the jobs that have it open.
LEMMA ContentSame ==
  ASSUME NEW f, NEW j, NEW k, \A c \in Commands : j[c].at = "opened" \/ k[c].at = "opened" => k[c] = j[c]
  PROVE  ContentOf(f, k) = ContentOf(f, j)
<1>1. \A c \in Commands : j[c].at = "opened" <=> k[c].at = "opened"
  OBVIOUS
<1>2. (CHOOSE c \in Commands : j[c].at = "opened") = (CHOOSE c \in Commands : k[c].at = "opened")
  BY <1>1
<1>3. CASE \E c \in Commands : j[c].at = "opened"
  <2>1. PICK d \in Commands : d = (CHOOSE c \in Commands : j[c].at = "opened") /\ j[d].at = "opened"
    BY <1>3
  <2> QED BY <1>1, <1>2, <1>3, <2>1 DEF ContentOf
<1> QED BY <1>1, <1>3 DEF ContentOf

LEMMA ContentIs == Content = ContentOf(file, job) /\ Content' = ContentOf(file', job')
BY DEF Content, ContentOf

LEMMA BaseInit == Init => BaseInv
BY DEF Init, BaseInv, Idle

\* A step of c that leaves the file to those who have read it.
LEMMA BaseQuiet ==
  ASSUME TypeOK, BaseInv, NEW c \in Commands, Step(c), UNCHANGED <<file, disturbed>>,
         job'[c].at = "read" => job'[c].base = file
  PROVE  BaseInv'
BY OthersKept DEF BaseInv

LEMMA BaseStep == TypeOK /\ TurnInv /\ BaseInv /\ [Next]_vars => BaseInv'
<1> SUFFICES ASSUME TypeOK, TurnInv, BaseInv, [Next]_vars PROVE BaseInv'
  OBVIOUS
<1>1. CASE UNCHANGED vars \/ Snapshot
  BY <1>1 DEF vars, Snapshot, BaseInv
<1>2. ASSUME NEW c \in Commands, Step(c) PROVE BaseInv'
  <2>1. ASSUME NEW t, NEW e, ReadBoard(c, t, e) PROVE BaseInv'
    <3>1. job'[c] = [at |-> "read", task |-> t, event |-> e, left |-> 0, base |-> file]
      BY <2>1, ReadBoardEffect
    <3>0. disturbed => disturbed'
      BY <2>1, Zenon DEF ReadBoard
    <3>2. job'[c].base = file /\ file' = file
      BY <2>1, <3>1 DEF ReadBoard
    <3>3. \A d \in Commands \ {c} : job'[d] = job[d]
      BY <1>2, OthersKept
    <3> QED BY <3>0, <3>2, <3>3 DEF BaseInv
  <2>2. CASE ValidateRemote(c) \/ ValidateLocal(c)
    <3>1. \E t \in Tasks : \E where, open, board : Validates(c, t, where, open, board)
      BY <2>2 DEF ValidateRemote, ValidateLocal
    <3>2. job'[c].at = "running" /\ UNCHANGED <<file, disturbed>>
      BY <3>1 DEF Validates, Start, TypeOK
    <3> QED BY <1>2, <3>2, BaseQuiet
  <2>3. CASE ProgramSucceeds(c)
    <3>1. job[c] \in Job
      BY <2>3, JobType DEF ProgramSucceeds
    <3>2. job'[c].at = "running" /\ UNCHANGED <<file, disturbed>>
      BY <2>3, <3>1 DEF ProgramSucceeds, TypeOK, Job
    <3> QED BY <1>2, <3>2, BaseQuiet
  <2>4. CASE Open(c) \/ Write(c)
    <3>1. job[c] \in Job /\ InWindow(c) /\ job'[c].at \in {"opened", "idle"} /\ disturbed' = disturbed
      BY <2>4, JobType DEF Open, Write, InWindow, TypeOK, Job, Idle
    <3>2. ~ disturbed => \A d \in Commands : job'[d].at # "read"
      BY <1>2, <3>1, OthersKept DEF TurnInv, InWindow
    <3> QED BY <3>1, <3>2 DEF BaseInv
  <2>5. CASE Die(c)
    <3>1. CASE job[c].at = "opened"
      BY <2>5, <3>1 DEF Die, BaseInv
    <3>2. CASE job[c].at # "opened"
      <4>1. job'[c].at = "idle" /\ UNCHANGED <<file, disturbed>>
        BY <2>5, <3>2 DEF Die, TypeOK, Idle
      <4> QED BY <1>2, <4>1, BaseQuiet
    <3> QED BY <3>1, <3>2
  <2> QED BY <1>2, <2>1, <2>2, <2>3, <2>4, <2>5 DEF Step, Mark, Reports
<1> QED BY <1>1, <1>2 DEF Next

LEMMA UpdatesInit == Init => Updates!Init
<1> SUFFICES ASSUME Init PROVE Updates!Init
  OBVIOUS
<1>1. Content = Blank
  BY ContentIs, ContentClosed DEF Init, Idle
<1> QED BY <1>1 DEF Init, Updates!Init

\* A step of c that leaves the file, and neither opens it nor has it open.
LEMMA ContentQuiet ==
  ASSUME TypeOK, NEW c \in Commands, Step(c), UNCHANGED <<file, disturbed>>,
         job[c].at # "opened", job'[c].at # "opened"
  PROVE  UNCHANGED <<Content, disturbed>>
<1>1. \A d \in Commands : job[d].at = "opened" \/ job'[d].at = "opened" => job'[d] = job[d]
  BY OthersKept
<1>2. ContentOf(file, job') = ContentOf(file, job)
  BY <1>1, ContentSame
<1> QED BY <1>2, ContentIs

\* A write of what was read when nobody was in its window: an update of one entry.
LEMMA WriteUpdates ==
  ASSUME TypeOK, TurnInv, ~ disturbed, NEW c \in Commands, Step(c), Write(c)
  PROVE  Updates!Next
<1>1. /\ job[c] \in Job /\ job[c].at = "opened" /\ job'[c] = Idle /\ disturbed' = disturbed
      /\ InWindow(c) /\ file = Blank
  BY JobType DEF Write, TypeOK, InWindow, TurnInv
<1>2. /\ \A d \in Commands : job[d].at = "opened" => d = c
      /\ \A d \in Commands : job'[d].at # "opened"
  BY <1>1, OthersKept DEF TurnInv, InWindow, Idle
<1>3. Content = job[c].base
  BY <1>1, <1>2, ContentOpened, ContentIs
<1>4. Content' = NewBoard(job[c])
  BY <1>1, <1>2, ContentClosed, ContentIs DEF Write
<1>5. PICK j \in Job : j = job[c]
  BY <1>1
<1>6. j.task \in Tasks /\ j.event \in Event /\ j.base \in Board
  BY DEF Job
<1>7. Content'[j.task] = Recorded(Content[j.task], j.event)
  BY <1>3, <1>4, <1>5, NewBoardType
<1>8. Content' = [Content EXCEPT ![j.task] = Content'[j.task]]
  BY <1>3, <1>4, <1>5, <1>7 DEF NewBoard
<1>9. Updates!Update(j.task)
  BY <1>6, <1>7, <1>8 DEF Updates!Update, Records
<1> QED BY <1>1, <1>6, <1>9 DEF Updates!Next

\* A step is an update, spoils the file or leaves it as it is.
LEMMA UpdatesStep == TypeOK /\ TurnInv /\ BaseInv /\ [Next]_vars => [Updates!Next]_<<Content, disturbed>>
<1> SUFFICES ASSUME TypeOK, TurnInv, BaseInv, [Next]_vars
             PROVE  Updates!Next \/ UNCHANGED <<Content, disturbed>>
  OBVIOUS
<1>1. CASE UNCHANGED vars \/ Snapshot
  BY <1>1, ContentIs DEF vars, Snapshot
<1>2. ASSUME NEW c \in Commands, Step(c) PROVE Updates!Next \/ UNCHANGED <<Content, disturbed>>
  <2>0. CASE disturbed'
    BY <2>0, TypeStep DEF Updates!Next, Updates!Spoil, TypeOK
  <2> SUFFICES ASSUME ~ disturbed' PROVE Updates!Next \/ UNCHANGED <<Content, disturbed>>
    BY <2>0
  <2>1. CASE Mark(c) \/ Reports(c)
    <3>1. PICK t, e : ReadBoard(c, t, e)
      BY <2>1 DEF Mark, Reports
    <3>2. ~ disturbed /\ ~ InWindow(c) /\ file' = file
      BY <3>1 DEF ReadBoard
    <3>3. job'[c] = [at |-> "read", task |-> t, event |-> e, left |-> 0, base |-> file]
      BY <3>1, ReadBoardEffect
    <3>4. job[c].at # "opened" /\ job'[c].at = "read"
      BY <3>2, <3>3 DEF InWindow
    <3>5. disturbed = FALSE /\ disturbed' = FALSE
      BY <3>2, TypeStep DEF TypeOK
    <3> QED BY <1>2, <3>2, <3>4, <3>5, ContentQuiet
  <2>2. CASE ValidateRemote(c) \/ ValidateLocal(c)
    <3>1. \E t \in Tasks : \E where, open, board : Validates(c, t, where, open, board)
      BY <2>2 DEF ValidateRemote, ValidateLocal
    <3>2. job'[c].at = "running" /\ job[c].at = "idle" /\ UNCHANGED <<file, disturbed>>
      BY <3>1 DEF Validates, Start, TypeOK
    <3> QED BY <1>2, <3>2, ContentQuiet
  <2>3. CASE ProgramSucceeds(c)
    <3>1. job[c] \in Job
      BY <2>3, JobType DEF ProgramSucceeds
    <3>2. job'[c].at = "running" /\ job[c].at = "running" /\ UNCHANGED <<file, disturbed>>
      BY <2>3, <3>1 DEF ProgramSucceeds, TypeOK, Job
    <3> QED BY <1>2, <3>2, ContentQuiet
  <2>4. CASE Open(c)
    <3>1. /\ job[c] \in Job /\ job[c].at = "read" /\ job'[c].at = "opened" /\ job'[c].base = job[c].base
          /\ ~ disturbed /\ disturbed' = disturbed
      BY <2>4, JobType DEF Open, TypeOK, Job
    <3>2. /\ \A d \in Commands : job[d].at # "opened"
          /\ \A d \in Commands : job'[d].at = "opened" => d = c
      BY <1>2, <3>1, OthersKept DEF TurnInv, InWindow
    <3>3. Content = file /\ Content' = job[c].base
      BY <3>1, <3>2, ContentClosed, ContentOpened, ContentIs
    <3> QED BY <3>1, <3>3 DEF BaseInv
  <2>5. CASE Write(c)
    BY <1>2, <2>5, WriteUpdates DEF Write
  <2>6. CASE Die(c)
    <3>1. job[c].at # "opened" /\ job'[c].at = "idle" /\ UNCHANGED <<file, disturbed>>
      BY <2>6 DEF Die, TypeOK, Idle
    <3> QED BY <1>2, <3>1, ContentQuiet
  <2> QED BY <1>2, <2>1, <2>2, <2>3, <2>4, <2>5, <2>6 DEF Step
<1> QED BY <1>1, <1>2 DEF Next

\* The commands implement updates of the file one after the other (RecordsAreAtomic):
\* while no two windows overlap, what a command writes is made of what the file was worth
\* when it read it (TurnInv, BaseInv).
THEOREM RecordsRefineUpdates == Spec => RecordsAreAtomic
<1>1. Spec => [](TypeOK /\ TurnInv)
  BY TaskTypes, TurnInit, TurnStep, PTL DEF Spec
<1>2. Spec => []BaseInv
  BY <1>1, BaseInit, BaseStep, PTL DEF Spec
<1>3. Spec => Updates!Spec
  BY <1>1, <1>2, UpdatesInit, UpdatesStep, PTL DEF Spec, Updates!Spec
<1> QED BY <1>3 DEF RecordsAreAtomic

=============================================================================
