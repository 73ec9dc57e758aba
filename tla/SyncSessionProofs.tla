------------------------- MODULE SyncSessionProofs -------------------------
(***************************************************************************)
(* Theorems about the sync sessions, for any number of checkouts,          *)
(* runtimes and processes.                                                 *)
(*                                                                         *)
(* A step of one process leaves the jobs of the others as they are, but    *)
(* perhaps no longer alone (Same).  On that rest three invariants: what    *)
(* the rewrite that is at the config has read (ConfigInv), whose sessions  *)
(* a runtime has (OwnInv), and what a process that nothing interfered with *)
(* may rely on (AloneInv), each with one step per action.                  *)
(***************************************************************************)
EXTENDS SyncSession, TLAPS

-----------------------------------------------------------------------------
(* Types *)

AnyJob == Job \cup Over \cup {Unborn}
Going == {"look", "alias", "check", "rewrite", "read", "opened", "create"}

LEMMA InFlightType ==
  ASSUME TypeOK, NEW c \in Commands
  PROVE  /\ InFlight(c) <=> job[c] \in Job
         /\ job[c].at \in Going => job[c] \in Job
         /\ job[c].at \in {"new", "ok", "ended"} <=> ~ job[c] \in Job
BY DEF TypeOK, InFlight, Job, Over, Unborn, Going

LEMMA BlankType == Blank \in Config
BY DEF Blank, Config, Targets

LEMMA OwnType ==
  ASSUME NEW j \in Job
  PROVE  Own(j) \in Addresses /\ Own(j) \in Targets /\ Own(j) # None
<1>1. Own(j) \in Addresses
  BY DEF Own, Addresses, Job
<1> QED BY <1>1, SyncAssumption DEF Targets

LEMMA GotoType ==
  ASSUME TypeOK, NEW c \in Commands, job[c] \in Job, NEW at \in Going \cup {"ok", "ended"}, Goto(c, at)
  PROVE  job' \in [Commands -> AnyJob]
<1>1. CASE at \in {"ok", "ended"}
  <2>1. [at |-> at] \in AnyJob
    BY <1>1 DEF AnyJob, Over
  <2> QED BY <1>1, <2>1 DEF Goto, TypeOK, AnyJob
<1>2. CASE at \in Going
  <2>1. [job[c] EXCEPT !.at = at] \in Job
    BY <1>2 DEF Job, Going
  <2> QED BY <1>2, <2>1 DEF Goto, TypeOK, AnyJob, Going
<1> QED BY <1>1, <1>2

LEMMA InterruptingType ==
  ASSUME TypeOK, NEW c \in Commands, NEW j \in AnyJob, NEW ds, Interrupting(c, j, ds)
  PROVE  job' \in [Commands -> AnyJob]
<1> SUFFICES ASSUME NEW d \in Commands PROVE job'[d] \in AnyJob
  BY DEF Interrupting
<1>1. CASE d = c
  BY <1>1 DEF Interrupting
<1>2. CASE d # c /\ d \in ds /\ InFlight(d)
  <2>1. [job[d] EXCEPT !.alone = FALSE] \in Job
    BY <1>2, InFlightType DEF Job
  <2> QED BY <1>2, <2>1 DEF Interrupting, AnyJob
<1>3. CASE d # c /\ ~ (d \in ds /\ InFlight(d))
  BY <1>3 DEF Interrupting, TypeOK, AnyJob
<1> QED BY <1>1, <1>2, <1>3

LEMMA NewConfigType ==
  ASSUME NEW j \in Job
  PROVE  /\ NewConfig(j) \in Config
         /\ \A a \in Plain : NewConfig(j)[a] = IF a = j.rt THEN Own(j) ELSE j.base[a]
<1>1. j.base \in Config /\ j.rt \in Aliases /\ Own(j) \in Targets
  BY OwnType DEF Job, Aliases
<1>2. Replaced(j) \in Config
  BY <1>1 DEF Replaced, Config
<1>3. \A a \in Aliases : Replaced(j)[a] = IF a = j.rt THEN Own(j) ELSE j.base[a]
  BY <1>1 DEF Replaced, Config
<1>4. NewConfig(j) \in Config
  BY <1>2 DEF NewConfig, Config, Targets
<1> QED BY <1>3, <1>4, SyncAssumption DEF NewConfig

LEMMA MixType ==
  ASSUME TypeOK, NEW j \in Job, NEW S,
         config' = [a \in Aliases |-> IF a \in S THEN NewConfig(j)[a] ELSE config[a]]
  PROVE  config' \in Config
BY NewConfigType DEF TypeOK, Config

LEMMA BeginType ==
  ASSUME TypeOK, NEW c \in Commands, NEW k \in Checkouts, NEW r \in Runtimes,
         NEW at \in Going, NEW next \in {"check", "create", "ok"}, Begin(c, k, r, at, next)
  PROVE  TypeOK'
<1> DEFINE same == {d \in Commands : On(d, r)}
           j == [at |-> at, co |-> k, rt |-> r, next |-> next, base |-> Blank,
                 alone |-> ~ \E d \in Commands : d \in same \/ InWindow(d)]
<1>1. j \in AnyJob
  BY BlankType DEF AnyJob, Job, Going
<1>2. Interrupting(c, j, same)
  BY DEF Begin
<1>3. job' \in [Commands -> AnyJob]
  <2> HIDE DEF j, same
  <2> QED BY <1>1, <1>2, InterruptingType
<1> QED BY <1>3 DEF Begin, TypeOK, AnyJob

LEMMA TypeStep == TypeOK /\ [Next]_vars => TypeOK'
<1> SUFFICES ASSUME TypeOK, [Next]_vars PROVE TypeOK'
  OBVIOUS
<1>1. CASE UNCHANGED vars
  BY <1>1 DEF vars, TypeOK
<1>2. ASSUME NEW r \in Runtimes, Stop(r) PROVE TypeOK'
  <2>1. ASSUME NEW d \in Commands PROVE job'[d] \in AnyJob
    <3>1. CASE On(d, r)
      <4>1. [job[d] EXCEPT !.alone = FALSE] \in Job
        BY <3>1, InFlightType DEF Job, On
      <4> QED BY <1>2, <3>1, <4>1 DEF Stop, AnyJob
    <3>2. CASE ~ On(d, r)
      BY <1>2, <3>2 DEF Stop, TypeOK, AnyJob
    <3> QED BY <3>1, <3>2
  <2>2. job' \in [Commands -> AnyJob]
    BY <1>2, <2>1 DEF Stop
  <2> QED BY <1>2, <2>2 DEF Stop, TypeOK, AnyJob
<1>3. ASSUME NEW c \in Commands, NEW k \in Checkouts, NEW r \in Runtimes,
             Start(c, k, r) \/ Apply(c, k, r)
      PROVE  TypeOK'
  BY <1>3, BeginType DEF Start, Apply, Going
<1>4. ASSUME NEW c \in Commands,
             Look(c) \/ LookAlias(c) \/ Check(c) \/ ReadConfig(c) \/ OpenConfig(c) \/ WriteConfig(c)
               \/ Create(c) \/ End(c)
      PROVE  TypeOK'
  <2>0. job[c] \in Job
    BY <1>4, InFlightType DEF Look, LookAlias, Check, ReadConfig, OpenConfig, WriteConfig, Create, End, Going
  <2>r. ASSUME NEW next \in {"check", "create"}, Rewrite(c, next) PROVE job' \in [Commands -> AnyJob]
    <3>1. [job[c] EXCEPT !.at = "rewrite", !.next = next] \in Job
      BY <2>0 DEF Job
    <3> QED BY <2>r, <3>1 DEF Rewrite, TypeOK, AnyJob
  <2>1. CASE Look(c)
    <3>1. PICK s \in Shown(c) :
            job' = [job EXCEPT ![c].at = IF s = "healthy" THEN "alias" ELSE "check",
                               ![c].alone = @ /\ (OwnFirst(c) => s = "healthy")]
      BY <2>1 DEF Look
    <3>2. PICK at \in {"alias", "check"}, b \in BOOLEAN : job'= [job EXCEPT ![c] = [job[c] EXCEPT !.at = at, !.alone = b]]
      BY <2>0, <3>1 DEF TypeOK, Job
    <3>3. [job[c] EXCEPT !.at = at, !.alone = b] \in Job
      BY <2>0 DEF Job
    <3>4. job' \in [Commands -> AnyJob]
      BY <3>2, <3>3 DEF TypeOK, AnyJob
    <3> QED BY <2>1, <3>4 DEF Look, TypeOK, AnyJob
  <2>2. CASE LookAlias(c)
    <3>1. Goto(c, "check") \/ Rewrite(c, "check") \/ Goto(c, "ended")
      BY <2>2 DEF LookAlias
    <3>2. job' \in [Commands -> AnyJob]
      BY <2>0, <2>r, <3>1, GotoType DEF Going
    <3> QED BY <2>2, <3>2 DEF LookAlias, TypeOK, AnyJob
  <2>3. CASE Check(c)
    <3>1. Goto(c, "ok") \/ Rewrite(c, "create") \/ Goto(c, "ended")
      BY <2>3 DEF Check
    <3>2. job' \in [Commands -> AnyJob]
      BY <2>0, <2>r, <3>1, GotoType DEF Going
    <3>3. raced' \subseteq Runtimes
      BY <2>0, <2>3 DEF Check, TypeOK, Job
    <3> QED BY <2>3, <3>2, <3>3 DEF Check, TypeOK, AnyJob
  <2>4. CASE ReadConfig(c)
    <3>1. PICK b \in BOOLEAN : \E ds : Interrupting(c, [job[c] EXCEPT !.at = "read", !.base = config, !.alone = b], ds)
      BY <2>0, <2>4 DEF ReadConfig, Job
    <3>2. [job[c] EXCEPT !.at = "read", !.base = config, !.alone = b] \in AnyJob
      BY <2>0 DEF Job, AnyJob, TypeOK
    <3>3. job' \in [Commands -> AnyJob]
      BY <3>1, <3>2, InterruptingType
    <3> QED BY <2>4, <3>3 DEF ReadConfig, TypeOK, AnyJob
  <2>5. CASE OpenConfig(c)
    <3>1. job' \in [Commands -> AnyJob]
      BY <2>0, <2>5, GotoType DEF OpenConfig, Going
    <3> QED BY <2>5, <3>1, BlankType DEF OpenConfig, TypeOK, AnyJob
  <2>6. CASE WriteConfig(c)
    <3>1. Onward(job[c]) \in AnyJob
      BY <2>0, BlankType DEF Onward, Job, AnyJob, Over
    <3>2. job' \in [Commands -> AnyJob]
      BY <2>6, <3>1 DEF WriteConfig, TypeOK, AnyJob
    <3>3. config' \in Config
      BY <2>0, <2>6, MixType DEF WriteConfig
    <3>4. last' \in Config
      BY <2>0, <2>6, OwnType DEF WriteConfig, TypeOK, Config
    <3> QED BY <2>6, <3>2, <3>3, <3>4 DEF WriteConfig, TypeOK, AnyJob
  <2>7. CASE Create(c)
    <3>1. job' \in [Commands -> AnyJob]
      BY <2>0, <2>7, GotoType DEF Create
    <3>2. sessions' \in [Runtimes -> Seq(Checkouts)]
      BY <2>0, <2>7 DEF Create, TypeOK, Job
    <3> QED BY <2>7, <3>1, <3>2 DEF Create, TypeOK, AnyJob
  <2>8. CASE End(c)
    <3>1. [at |-> "ended"] \in AnyJob
      BY DEF AnyJob, Over
    <3>2. job' \in [Commands -> AnyJob]
      BY <2>8, <3>1, InterruptingType DEF End
    <3>3. config' \in Config
      BY <2>0, <2>8, MixType DEF End
    <3> QED BY <2>8, <3>2, <3>3 DEF End, TypeOK, AnyJob
  <2> QED BY <1>4, <2>1, <2>2, <2>3, <2>4, <2>5, <2>6, <2>7, <2>8
<1>5. ASSUME NEW c \in Commands, Step(c) PROVE TypeOK'
  BY <1>3, <1>4, <1>5 DEF Step
<1> QED BY <1>1, <1>2, <1>5 DEF Next

LEMMA TypeInit == Init => TypeOK
<1> SUFFICES ASSUME Init PROVE TypeOK
  OBVIOUS
<1>1. InitialConfig \in Config
  BY DEF InitialConfig, Config, Targets
<1>2. <<>> \in Seq(Checkouts)
  OBVIOUS
<1> QED BY <1>1, <1>2 DEF Init, TypeOK

\* Every variable has its type, for any number of checkouts, runtimes and processes.
THEOREM SyncTypes == Spec => []TypeOK
BY TypeInit, TypeStep, PTL DEF Spec
-----------------------------------------------------------------------------
(* What a step of a process does to the others *)

\* The job of d is what it was, but perhaps no longer alone.
Same(d) ==
  /\ job'[d].at = job[d].at
  /\ job[d] \in Job =>
       /\ job'[d].co = job[d].co /\ job'[d].rt = job[d].rt /\ job'[d].next = job[d].next
       /\ job'[d].base = job[d].base
       /\ job'[d].alone => job[d].alone

LEMMA InterruptingSame ==
  ASSUME TypeOK, NEW c \in Commands, NEW d \in Commands \ {c}, NEW j, NEW ds, Interrupting(c, j, ds)
  PROVE  Same(d)
<1>1. CASE d \in ds /\ InFlight(d)
  <2>1. job[d] \in Job
    BY <1>1, InFlightType
  <2>2. job'[d] = [job[d] EXCEPT !.alone = FALSE]
    BY <1>1 DEF Interrupting
  <2> QED BY <2>1, <2>2 DEF Same, Job
<1>2. CASE ~ (d \in ds /\ InFlight(d))
  <2>1. job'[d] = job[d]
    BY <1>2 DEF Interrupting
  <2> QED BY <2>1 DEF Same
<1> QED BY <1>1, <1>2

LEMMA OthersSame ==
  ASSUME TypeOK, NEW c \in Commands, NEW d \in Commands \ {c}, Step(c)
  PROVE  Same(d)
<1>1. CASE \E k \in Checkouts, r \in Runtimes : Start(c, k, r) \/ Apply(c, k, r)
  <2>1. \E j, ds : Interrupting(c, j, ds)
    BY <1>1 DEF Start, Apply, Begin
  <2> QED BY <2>1, InterruptingSame
<1>2. CASE ReadConfig(c) \/ End(c)
  <2>1. \E j, ds : Interrupting(c, j, ds)
    BY <1>2 DEF ReadConfig, End
  <2> QED BY <2>1, InterruptingSame
<1>3. CASE Look(c) \/ LookAlias(c) \/ Check(c) \/ OpenConfig(c) \/ WriteConfig(c) \/ Create(c)
  <2>1. job'[d] = job[d]
    BY <1>3 DEF Look, LookAlias, Check, OpenConfig, WriteConfig, Create, Goto, Rewrite, TypeOK
  <2> QED BY <2>1 DEF Same
<1> QED BY <1>1, <1>2, <1>3 DEF Step

\* The steps of a process, seen from its own job.
LEMMA GotoEffect ==
  ASSUME TypeOK, NEW c \in Commands, job[c] \in Job, NEW at \in Going \cup {"ok", "ended"}, Goto(c, at)
  PROVE  /\ job'[c].at = at
         /\ at \in Going => /\ job'[c] \in Job
                           /\ job'[c].co = job[c].co /\ job'[c].rt = job[c].rt /\ job'[c].next = job[c].next
                           /\ job'[c].base = job[c].base /\ job'[c].alone = job[c].alone
<1>1. CASE at \in {"ok", "ended"}
  BY <1>1 DEF Goto, TypeOK, Going
<1>2. CASE at \in Going
  <2>1. job'[c] = [job[c] EXCEPT !.at = at]
    BY <1>2 DEF Goto, TypeOK, Going
  <2> QED BY <1>2, <2>1 DEF Job, Going
<1> QED BY <1>1, <1>2

LEMMA RewriteEffect ==
  ASSUME TypeOK, NEW c \in Commands, job[c] \in Job, NEW next \in {"check", "create"}, Rewrite(c, next)
  PROVE  /\ job'[c].at = "rewrite" /\ job'[c].next = next /\ job'[c] \in Job
         /\ job'[c].co = job[c].co /\ job'[c].rt = job[c].rt
         /\ job'[c].base = job[c].base /\ job'[c].alone = job[c].alone
<1>1. job'[c] = [job[c] EXCEPT !.at = "rewrite", !.next = next]
  BY DEF Rewrite, TypeOK
<1> QED BY <1>1 DEF Job

LEMMA BeginEffect ==
  ASSUME TypeOK, NEW c \in Commands, NEW k \in Checkouts, NEW r \in Runtimes, Start(c, k, r) \/ Apply(c, k, r)
  PROVE  /\ job[c] = Unborn
         /\ job'[c] \in Job /\ job'[c].at \in {"look", "rewrite"} /\ job'[c].co = k /\ job'[c].rt = r
         /\ job'[c].at = "rewrite" => job'[c].next = "ok" /\ (r \in raced' \/ Locals(r) \subseteq {k})
         /\ job'[c].next # "check"
         /\ job'[c].alone => \A d \in Commands : ~ On(d, r) /\ ~ InWindow(d)
         /\ r \in raced' \/ \A d \in Commands : On(d, r) => job[d].co = k
         /\ raced \subseteq raced' /\ UNCHANGED <<config, sessions, last, torn>>
         /\ \A d \in Commands \ {c} : On(d, r) => ~ job'[d].alone
<1>0. PICK at \in {"look", "rewrite"}, next \in {"create", "ok"} :
        Begin(c, k, r, at, next) /\ (at = "rewrite" => next = "ok")
  BY DEF Start, Apply
<1> DEFINE same == {d \in Commands : On(d, r)}
           j == [at |-> at, co |-> k, rt |-> r, next |-> next, base |-> Blank,
                 alone |-> ~ \E d \in Commands : d \in same \/ InWindow(d)]
<1>1. /\ job[c] = Unborn
      /\ Interrupting(c, j, same)
      /\ raced' = IF (\E d \in same : job[d].co # k) \/ (next = "ok" /\ ~ Locals(r) \subseteq {k})
                  THEN raced \cup {r} ELSE raced
      /\ UNCHANGED <<config, sessions, last, torn>>
  BY <1>0 DEF Begin
<1>2. job'[c] = j
  BY <1>1 DEF Interrupting
<1>3. j \in Job
  BY <1>0, BlankType DEF Job
<1>4. ASSUME NEW d \in Commands \ {c}, On(d, r) PROVE ~ job'[d].alone
  <2>1. job[d] \in Job
    BY <1>4, InFlightType DEF On
  <2>2. job'[d] = [job[d] EXCEPT !.alone = FALSE]
    BY <1>1, <1>4 DEF Interrupting, On
  <2> QED BY <2>1, <2>2 DEF Job
<1>5. job'[c].alone => \A d \in Commands : ~ On(d, r) /\ ~ InWindow(d)
  <2>1. PICK b : b = (~ \E d \in Commands : d \in same \/ InWindow(d))
    OBVIOUS
  <2>2. j = [at |-> at, co |-> k, rt |-> r, next |-> next, base |-> Blank, alone |-> b]
    BY <2>1, Zenon
  <2>3. job'[c].alone = b
    <3> HIDE DEF j
    <3> QED BY <1>2, <2>2
  <2>4. b => \A d \in Commands : ~ On(d, r) /\ ~ InWindow(d)
    <3>1. SUFFICES ASSUME b, NEW d \in Commands PROVE ~ On(d, r) /\ ~ InWindow(d)
      OBVIOUS
    <3>2. ~ \E x \in Commands : x \in same \/ InWindow(x)
      BY <2>1, <3>1, Zenon
    <3> QED BY <3>2
  <2> QED BY <2>3, <2>4, Zenon
<1>6. r \in raced' \/ \A d \in Commands : On(d, r) => job[d].co = k
  BY <1>1
<1>7. job'[c].at = "rewrite" => job'[c].next = "ok" /\ (r \in raced' \/ Locals(r) \subseteq {k})
  BY <1>0, <1>1, <1>2
<1> QED BY <1>0, <1>1, <1>2, <1>3, <1>4, <1>5, <1>6, <1>7

LEMMA LookEffect ==
  ASSUME TypeOK, NEW c \in Commands, Look(c)
  PROVE  \E s \in Shown(c) :
           /\ job'[c].at = IF s = "healthy" THEN "alias" ELSE "check"
           /\ job'[c].alone => job[c].alone /\ (OwnFirst(c) => s = "healthy")
           /\ job[c] \in Job /\ job'[c] \in Job
           /\ job'[c].co = job[c].co /\ job'[c].rt = job[c].rt /\ job'[c].next = job[c].next
<1>1. job[c] \in Job
  BY InFlightType DEF Look, Going
<1>2. PICK s \in Shown(c) :
        job' = [job EXCEPT ![c].at = IF s = "healthy" THEN "alias" ELSE "check",
                           ![c].alone = @ /\ (OwnFirst(c) => s = "healthy")]
  BY DEF Look
<1> DEFINE at == IF s = "healthy" THEN "alias" ELSE "check"
<1>b. PICK b \in BOOLEAN : b = (job[c].alone /\ (OwnFirst(c) => s = "healthy"))
  BY <1>1 DEF Job
<1>3. job'[c] = [job[c] EXCEPT !.at = at, !.alone = b]
  BY <1>1, <1>2, <1>b DEF TypeOK, Job
<1>4. at \in {"alias", "check"}
  OBVIOUS
<1>5. /\ job'[c] \in Job /\ job'[c].at = at /\ job'[c].alone = b
      /\ job'[c].co = job[c].co /\ job'[c].rt = job[c].rt /\ job'[c].next = job[c].next
  <2> HIDE DEF at
  <2> QED BY <1>1, <1>3, <1>4 DEF Job
<1>6. job'[c].alone => job[c].alone /\ (OwnFirst(c) => s = "healthy")
  BY <1>b, <1>5, Zenon
<1> QED BY <1>1, <1>5, <1>6

LEMMA ReadEffect ==
  ASSUME TypeOK, NEW c \in Commands, ReadConfig(c)
  PROVE  /\ job[c] \in Job /\ job'[c] \in Job
         /\ job'[c].at = "read" /\ job'[c].base = config
         /\ job'[c].co = job[c].co /\ job'[c].rt = job[c].rt /\ job'[c].next = job[c].next
         /\ job'[c].alone => job[c].alone
         /\ torn' = (torn \/ \E d \in Commands : InWindow(d))
         /\ (\E d \in Commands : InWindow(d)) => \A d \in Commands : job'[d] \in Job => ~ job'[d].alone
         /\ UNCHANGED <<config, sessions, last, raced>>
<1>1. job[c] \in Job
  BY InFlightType DEF ReadConfig, Going
<1> DEFINE inside == {d \in Commands : InWindow(d)}
           b == job[c].alone /\ inside = {}
<1>2. Interrupting(c, [job[c] EXCEPT !.at = "read", !.base = config, !.alone = b],
                   IF inside = {} THEN {} ELSE Commands)
  BY <1>1 DEF ReadConfig, Job
<1>3. job'[c] = [job[c] EXCEPT !.at = "read", !.base = config, !.alone = b] /\ b \in BOOLEAN
  BY <1>1, <1>2 DEF Interrupting, Job
<1>4. /\ job'[c] \in Job /\ job'[c].at = "read" /\ job'[c].base = config /\ job'[c].alone = b
      /\ job'[c].co = job[c].co /\ job'[c].rt = job[c].rt /\ job'[c].next = job[c].next
  <2> HIDE DEF b
  <2> QED BY <1>1, <1>3 DEF Job, TypeOK
<1>5. ASSUME inside # {}, NEW d \in Commands, job'[d] \in Job PROVE ~ job'[d].alone
  <2>1. CASE d = c
    BY <1>4, <1>5, <2>1
  <2>2. CASE d # c /\ InFlight(d)
    <3>1. job'[d] = [job[d] EXCEPT !.alone = FALSE]
      BY <1>2, <1>5, <2>2 DEF Interrupting
    <3> QED BY <2>2, <3>1, InFlightType DEF Job
  <2>3. CASE d # c /\ ~ InFlight(d)
    <3>1. job'[d] = job[d]
      BY <1>2, <2>3 DEF Interrupting
    <3> QED BY <1>5, <2>3, <3>1, InFlightType
  <2> QED BY <2>1, <2>2, <2>3
<1> QED BY <1>1, <1>4, <1>5 DEF ReadConfig

LEMMA WriteEffect ==
  ASSUME TypeOK, NEW c \in Commands, WriteConfig(c)
  PROVE  /\ job[c] \in Job
         /\ config = Blank => config' = NewConfig(job[c])
         /\ last' = [last EXCEPT ![job[c].rt] = Own(job[c])]
         /\ job'[c].at = job[c].next
         /\ job[c].next # "ok" => /\ job'[c] \in Job /\ job'[c].co = job[c].co /\ job'[c].rt = job[c].rt
                                 /\ job'[c].next = job[c].next /\ job'[c].alone = job[c].alone
         /\ UNCHANGED <<sessions, torn, raced>>
<1>1. job[c] \in Job
  BY InFlightType DEF WriteConfig, Going
<1>2. config = Blank => config' = NewConfig(job[c])
  <2>1. NewConfig(job[c]) \in Config
    BY <1>1, NewConfigType
  <2>2. config = Blank => config' = [a \in Aliases |-> NewConfig(job[c])[a]]
    BY DEF WriteConfig
  <2> QED BY <2>1, <2>2 DEF Config
<1>3. job'[c] = Onward(job[c])
  BY DEF WriteConfig, TypeOK
<1>4. CASE job[c].next = "ok"
  BY <1>1, <1>2, <1>3, <1>4 DEF WriteConfig, Onward
<1>5. CASE job[c].next # "ok"
  <2>1. job'[c] = [job[c] EXCEPT !.at = job[c].next, !.base = Blank]
    BY <1>3, <1>5 DEF Onward
  <2>2. job[c].next \in {"check", "create"}
    BY <1>1, <1>5 DEF Job
  <2>3. /\ job'[c] \in Job /\ job'[c].co = job[c].co /\ job'[c].rt = job[c].rt /\ job'[c].at = job[c].next
        /\ job'[c].next = job[c].next /\ job'[c].alone = job[c].alone
    BY <1>1, <2>1, <2>2, BlankType DEF Job
  <2> QED BY <1>1, <1>2, <2>3 DEF WriteConfig
<1> QED BY <1>4, <1>5

LEMMA EndEffect ==
  ASSUME TypeOK, NEW c \in Commands, End(c)
  PROVE  /\ job[c] \in Job /\ job'[c].at = "ended"
         /\ job[c].at # "opened" => config' = config /\ torn' = torn
         /\ job[c].at = "opened" => /\ torn'
                                   /\ \A d \in Commands : job'[d] \in Job => ~ job'[d].alone
         /\ UNCHANGED <<sessions, last, raced>>
<1>1. job[c] \in Job
  BY InFlightType DEF End
<1>2. Interrupting(c, [at |-> "ended"], IF job[c].at = "opened" THEN Commands ELSE {})
  BY DEF End
<1>3. job'[c] = [at |-> "ended"]
  BY <1>2 DEF Interrupting
<1>4. job[c].at # "opened" => config' = config
  <2>1. job[c].at # "opened" => config' = [a \in Aliases |-> config[a]]
    BY DEF End
  <2> QED BY <2>1 DEF TypeOK, Config
<1>5. ASSUME job[c].at = "opened", NEW d \in Commands, job'[d] \in Job PROVE ~ job'[d].alone
  <2>1. d # c
    BY <1>3, <1>5 DEF Job
  <2>2. CASE InFlight(d)
    <3>1. job'[d] = [job[d] EXCEPT !.alone = FALSE]
      BY <1>2, <1>5, <2>1, <2>2 DEF Interrupting
    <3> QED BY <2>2, <3>1, InFlightType DEF Job
  <2>3. CASE ~ InFlight(d)
    <3>1. job'[d] = job[d]
      BY <1>2, <2>1, <2>3 DEF Interrupting
    <3> QED BY <1>5, <2>3, <3>1, InFlightType
  <2> QED BY <2>2, <2>3
<1>6. torn' = (torn \/ job[c].at = "opened")
  BY DEF End
<1>7. job[c].at # "opened" => torn' = torn
  BY <1>6 DEF TypeOK
<1>8. job[c].at = "opened" => torn'
  BY <1>6
<1>9. UNCHANGED <<sessions, last, raced>> /\ job'[c].at = "ended"
  BY <1>3 DEF End
<1> QED BY <1>1, <1>4, <1>5, <1>7, <1>8, <1>9

LEMMA StopSame ==
  ASSUME TypeOK, NEW r \in Runtimes, Stop(r), NEW d \in Commands
  PROVE  Same(d) /\ (On(d, r) => ~ job'[d].alone)
<1>1. CASE On(d, r)
  <2>1. job[d] \in Job /\ job'[d] = [job[d] EXCEPT !.alone = FALSE]
    BY <1>1, InFlightType DEF Stop, On
  <2> QED BY <2>1 DEF Same, Job
<1>2. CASE ~ On(d, r)
  <2>1. job'[d] = job[d]
    BY <1>2 DEF Stop
  <2> QED BY <1>2, <2>1 DEF Same
<1> QED BY <1>1, <1>2

-----------------------------------------------------------------------------
(* The config file *)

\* While no two rewrites overlap, the one that is at it has read what was last written, as
\* far as that is ASCII.
ConfigInv ==
  ~ torn =>
    /\ \A c, d \in Commands : InWindow(c) /\ InWindow(d) => c = d
    /\ \A c \in Commands : InWindow(c) => \A a \in Plain : job[c].base[a] = last[a]
    /\ \A c \in Commands : job[c].at = "opened" => config = Blank
    /\ Written => \A a \in Plain : config[a] = last[a]

LEMMA ConfigQuiet ==
  ASSUME ConfigInv, UNCHANGED <<config, last, torn>>,
         \A d \in Commands : InWindow(d)' => job'[d].at = job[d].at /\ job'[d].base = job[d].base,
         \A d \in Commands : job[d].at = "opened" => job'[d].at = "opened"
  PROVE  ConfigInv'
BY DEF ConfigInv, InWindow, Written

\* A step that is no rewrite's leaves the rewrites alone.
LEMMA WindowKept ==
  ASSUME TypeOK, NEW c \in Commands, ~ InWindow(c), ~ InWindow(c)', \A d \in Commands \ {c} : Same(d)
  PROVE  /\ \A d \in Commands : InWindow(d)' => job'[d].at = job[d].at /\ job'[d].base = job[d].base
         /\ \A d \in Commands : job[d].at = "opened" => job'[d].at = "opened"
<1>1. ASSUME NEW d \in Commands, InWindow(d)' PROVE job'[d].at = job[d].at /\ job'[d].base = job[d].base
  <2>1. d # c /\ Same(d)
    BY <1>1
  <2>2. job[d] \in Job
    BY <1>1, <2>1, InFlightType DEF Same, InWindow, Going
  <2> QED BY <2>1, <2>2 DEF Same
<1>2. ASSUME NEW d \in Commands, job[d].at = "opened" PROVE job'[d].at = "opened"
  BY <1>2 DEF Same, InWindow
<1> QED BY <1>1, <1>2

\* Where a step that rewrites nothing leads its process.
LEMMA QuietEffect ==
  ASSUME TypeOK, NEW c \in Commands,
         (\E k \in Checkouts, r \in Runtimes : Start(c, k, r) \/ Apply(c, k, r))
           \/ Look(c) \/ LookAlias(c) \/ Check(c) \/ Create(c)
  PROVE  ~ InWindow(c) /\ ~ InWindow(c)' /\ UNCHANGED <<config, last, torn>>
<1>1. CASE \E k \in Checkouts, r \in Runtimes : Start(c, k, r) \/ Apply(c, k, r)
  BY <1>1, BeginEffect DEF InWindow, Unborn
<1>2. CASE Look(c)
  <2>1. job'[c].at \in {"alias", "check"}
    BY <1>2, LookEffect
  <2> QED BY <1>2, <2>1 DEF InWindow, Look
<1>3. CASE LookAlias(c) \/ Check(c) \/ Create(c)
  <2>1. job[c] \in Job
    BY <1>3, InFlightType DEF LookAlias, Check, Create, Going
  <2>2. (\E at \in {"check", "ok", "ended"} : Goto(c, at)) \/ \E next \in {"check", "create"} : Rewrite(c, next)
    BY <1>3 DEF LookAlias, Check, Create
  <2>3. job'[c].at \in {"check", "ok", "ended", "rewrite"}
    BY <2>1, <2>2, GotoEffect, RewriteEffect DEF Going
  <2> QED BY <1>3, <2>3 DEF InWindow, LookAlias, Check, Create
<1> QED BY <1>1, <1>2, <1>3

LEMMA ConfigStep == TypeOK /\ ConfigInv /\ [Next]_vars => ConfigInv'
<1> SUFFICES ASSUME TypeOK, ConfigInv, [Next]_vars PROVE ConfigInv'
  OBVIOUS
<1>1. CASE UNCHANGED vars
  BY <1>1, ConfigQuiet DEF vars, InWindow
<1>2. ASSUME NEW r \in Runtimes, Stop(r) PROVE ConfigInv'
  <2>1. ASSUME NEW d \in Commands
        PROVE  /\ InWindow(d)' => job'[d].at = job[d].at /\ job'[d].base = job[d].base
               /\ job[d].at = "opened" => job'[d].at = "opened"
    BY <1>2, StopSame, InFlightType DEF Same, InWindow, Going
  <2> QED BY <1>2, <2>1, ConfigQuiet DEF Stop
<1>3. ASSUME NEW c \in Commands, Step(c) PROVE ConfigInv'
  <2>0. \A d \in Commands \ {c} : Same(d)
    BY <1>3, OthersSame
  <2>1. CASE (\E k \in Checkouts, r \in Runtimes : Start(c, k, r) \/ Apply(c, k, r))
               \/ Look(c) \/ LookAlias(c) \/ Check(c) \/ Create(c)
    <3>1. ~ InWindow(c) /\ ~ InWindow(c)' /\ UNCHANGED <<config, last, torn>>
      BY <2>1, QuietEffect
    <3> QED BY <2>0, <3>1, WindowKept, ConfigQuiet
  <2>2. CASE ReadConfig(c)
    <3>1. torn' \/ \A d \in Commands : ~ InWindow(d)
      BY <2>2, ReadEffect
    <3>2. ASSUME ~ torn' PROVE ConfigInv'
      <4>1. ~ torn /\ \A d \in Commands : ~ InWindow(d)
        BY <2>2, <3>1, <3>2, ReadEffect
      <4>2. \A a \in Plain : config[a] = last[a]
        BY <4>1 DEF ConfigInv, InWindow, Written
      <4>3. \A d \in Commands : InWindow(d)' => d = c
        BY <2>0, <4>1 DEF Same, InWindow
      <4>4. job'[c].at = "read" /\ job'[c].base = config /\ config' = config /\ last' = last
        BY <2>2, ReadEffect
      <4> QED BY <4>2, <4>3, <4>4 DEF ConfigInv, InWindow
    <3> QED BY <3>2 DEF ConfigInv
  <2>3. CASE OpenConfig(c)
    <3>1. job[c] \in Job /\ InWindow(c)
      BY <2>3, InFlightType DEF OpenConfig, Going, InWindow
    <3>2. job'[c].at = "opened" /\ job'[c].base = job[c].base /\ config' = Blank /\ last' = last /\ torn' = torn
      BY <2>3, <3>1, GotoEffect DEF OpenConfig, Going
    <3>3. ~ torn => \A d \in Commands : InWindow(d)' => d = c
      BY <2>0, <3>1 DEF ConfigInv, Same, InWindow
    <3> QED BY <3>1, <3>2, <3>3 DEF ConfigInv, InWindow, Written
  <2>4. CASE WriteConfig(c)
    <3>1. job[c] \in Job /\ job[c].at = "opened"
      BY <2>4, WriteEffect DEF WriteConfig
    <3>2. job'[c].at = job[c].next /\ torn' = torn /\ last' = [last EXCEPT ![job[c].rt] = Own(job[c])]
          /\ (config = Blank => config' = NewConfig(job[c]))
      BY <2>4, WriteEffect
    <3>3. ~ torn => \A d \in Commands : ~ InWindow(d)'
      BY <2>0, <3>1, <3>2 DEF ConfigInv, Same, InWindow, Job
    <3>4. ~ torn => config = Blank /\ \A a \in Plain : job[c].base[a] = last[a]
      BY <3>1 DEF ConfigInv, InWindow
    <3>5. \A a \in Plain : last'[a] = IF a = job[c].rt THEN Own(job[c]) ELSE last[a]
      BY <3>2, SyncAssumption DEF TypeOK, Config
    <3>6. ~ torn => \A a \in Plain : config'[a] = last'[a]
      BY <3>1, <3>2, <3>4, <3>5, NewConfigType
    <3> QED BY <3>2, <3>3, <3>6 DEF ConfigInv, InWindow
  <2>5. CASE End(c)
    <3>1. job'[c].at = "ended" /\ last' = last
      BY <2>5, EndEffect
    <3>2. CASE job[c].at = "opened"
      BY <2>5, <3>2, EndEffect DEF ConfigInv
    <3>3. CASE job[c].at # "opened"
      <4>1. config' = config /\ torn' = torn
        BY <2>5, <3>3, EndEffect
      <4>2. ASSUME NEW d \in Commands
            PROVE  /\ InWindow(d)' => job'[d].at = job[d].at /\ job'[d].base = job[d].base
                   /\ job[d].at = "opened" => job'[d].at = "opened"
        BY <2>0, <3>1, <3>3, InFlightType DEF Same, InWindow, Going
      <4> QED BY <3>1, <4>1, <4>2, ConfigQuiet
    <3> QED BY <3>2, <3>3
  <2> QED BY <1>3, <2>1, <2>2, <2>3, <2>4, <2>5 DEF Step
<1> QED BY <1>1, <1>2, <1>3 DEF Next

LEMMA ConfigInit == Init => ConfigInv
BY DEF Init, ConfigInv, InWindow, Unborn

\* The blocks of the config are kept (AliasesKept), by the inductive invariant ConfigInv.
THEOREM AliasesAreKept == Spec => []AliasesKept
<1>1. ConfigInv => AliasesKept
  BY DEF ConfigInv, AliasesKept
<1>2. Spec => []ConfigInv
  BY SyncTypes, ConfigInit, ConfigStep, PTL DEF Spec
<1> QED BY <1>1, <1>2, PTL

\* Until rewrites go wrong the ASCII blocks of the file are worth what the aliases were
\* last reported to mean: a rewrite that has cleared it has read no less.
LastPlain == [a \in Plain |-> last[a]]

LEMMA ContentIsLast ==
  ASSUME ConfigInv, ~ torn
  PROVE  Content = LastPlain
<1>1. CASE Written
  BY <1>1 DEF ConfigInv, Content, LastPlain
<1>2. CASE ~ Written
  <2>1. PICK c \in Commands : c = (CHOOSE d \in Commands : job[d].at = "opened") /\ job[c].at = "opened"
    BY <1>2 DEF Written
  <2> QED BY <1>2, <2>1 DEF ConfigInv, InWindow, Content, LastPlain
<1> QED BY <1>1, <1>2

LEMMA ContentIsLastThen ==
  ASSUME ConfigInv', ~ torn'
  PROVE  Content' = LastPlain'
<1>1. CASE Written'
  BY <1>1 DEF ConfigInv, Content, LastPlain
<1>2. CASE ~ Written'
  <2>1. PICK c \in Commands : c = (CHOOSE d \in Commands : job'[d].at = "opened") /\ job'[c].at = "opened"
    BY <1>2 DEF Written
  <2> QED BY <1>2, <2>1 DEF ConfigInv, InWindow, Content, LastPlain
<1> QED BY <1>1, <1>2

LEMMA UpdatesInit == Init => Updates!Init
BY ConfigInit, ContentIsLast DEF Init, LastPlain, Updates!Init

\* A step updates one alias, goes wrong or leaves the file as it is.
LEMMA UpdatesStep == TypeOK /\ ConfigInv /\ [Next]_vars => [Updates!Next]_<<Content, torn>>
<1> SUFFICES ASSUME TypeOK, ConfigInv, [Next]_vars
             PROVE  Updates!Next \/ UNCHANGED <<Content, torn>>
  OBVIOUS
<1>0. torn \in BOOLEAN /\ torn' \in BOOLEAN /\ ConfigInv'
  BY TypeStep, ConfigStep DEF TypeOK
<1>1. CASE torn'
  BY <1>0, <1>1 DEF Updates!Next, Updates!Spoil
<1>2. ASSUME ~ torn, ~ torn' PROVE Content = LastPlain /\ Content' = LastPlain' /\ torn' = torn
  BY <1>0, <1>2, ContentIsLast, ContentIsLastThen
<1>3. ASSUME ~ torn', torn' = torn, last' = last PROVE UNCHANGED <<Content, torn>>
  BY <1>2, <1>3 DEF LastPlain
<1>4. CASE UNCHANGED vars \/ \E r \in Runtimes : Stop(r)
  BY <1>1, <1>3, <1>4 DEF vars, Stop
<1>5. ASSUME NEW c \in Commands, Step(c), ~ torn' PROVE Updates!Next \/ UNCHANGED <<Content, torn>>
  <2>1. CASE (\E k \in Checkouts, r \in Runtimes : Start(c, k, r) \/ Apply(c, k, r))
               \/ Look(c) \/ LookAlias(c) \/ Check(c) \/ Create(c)
    BY <1>3, <1>5, <2>1, QuietEffect
  <2>2. CASE ReadConfig(c)
    <3>1. last' = last /\ ~ torn
      BY <1>5, <2>2, ReadEffect
    <3> QED BY <1>2, <1>3, <1>5, <3>1
  <2>3. CASE OpenConfig(c)
    BY <1>3, <1>5, <2>3 DEF OpenConfig
  <2>4. CASE WriteConfig(c)
    <3>1. job[c] \in Job /\ torn' = torn /\ last' = [last EXCEPT ![job[c].rt] = Own(job[c])]
      BY <2>4, WriteEffect
    <3>2. Content = LastPlain /\ Content' = LastPlain'
      BY <1>2, <1>5, <3>1
    <3>3. PICK r \in Runtimes, v \in Addresses : r = job[c].rt /\ v = Own(job[c])
      BY <3>1, OwnType DEF Job
    <3>4. \A a \in Plain : last'[a] = IF a = r THEN v ELSE last[a]
      BY <3>1, <3>3, SyncAssumption DEF TypeOK, Config
    <3>5. CASE r \in Plain
      <4>1. Updates!Update(r)
        BY <3>2, <3>4, <3>5 DEF Updates!Update, Points, LastPlain
      <4> QED BY <3>1, <3>5, <4>1 DEF Updates!Next
    <3>6. CASE r \notin Plain
      BY <3>1, <3>2, <3>4, <3>6 DEF LastPlain
    <3> QED BY <3>5, <3>6
  <2>5. CASE End(c)
    <3>1. job[c].at # "opened" /\ last' = last
      BY <1>5, <2>5, EndEffect
    <3> QED BY <1>3, <1>5, <2>5, <3>1, EndEffect
  <2> QED BY <1>5, <2>1, <2>2, <2>3, <2>4, <2>5 DEF Step
<1> QED BY <1>1, <1>4, <1>5 DEF Next

\* The processes implement updates of the config one after the other (RewritesAreAtomic):
\* by ConfigInv a rewrite writes one block into what was last reported.
THEOREM RewritesRefineUpdates == Spec => RewritesAreAtomic
<1>1. Spec => []ConfigInv
  BY SyncTypes, ConfigInit, ConfigStep, PTL DEF Spec
<1>2. Spec => Updates!Spec
  BY <1>1, SyncTypes, UpdatesInit, UpdatesStep, PTL DEF Spec, Updates!Spec
<1> QED BY <1>2 DEF RewritesAreAtomic

-----------------------------------------------------------------------------
(* The sessions *)

\* While one checkout works on a runtime, its sessions are those of one checkout, whose
\* address the alias was given last, and a command at the alias has no other's session
\* before it.
OwnOf(r) ==
  /\ \A c, d \in Commands : On(c, r) /\ On(d, r) => job[c].co = job[d].co
  /\ \A k \in Locals(r) : last[r] = Address(k, r)
  /\ \A k, l \in Locals(r) : k = l
  /\ \A c \in Commands : On(c, r) /\ job[c].at = "create" => last[r] = Address(job[c].co, r)
  /\ \A c \in Commands : On(c, r) /\ job[c].at \in {"alias", "rewrite", "read", "opened", "create"} =>
       Locals(r) \subseteq {job[c].co}

OwnInv == \A r \in Runtimes \ raced : OwnOf(r)

\* A process that is on r after the step of another one was so before.
LEMMA OnSame ==
  ASSUME TypeOK, NEW d \in Commands, Same(d), NEW r
  PROVE  /\ On(d, r)' <=> On(d, r)
         /\ On(d, r) => job'[d].co = job[d].co /\ job'[d].at = job[d].at
BY InFlightType DEF Same, On, InFlight

\* A step of c that leaves alias and sessions of r, and leads c nowhere new on r.
LEMMA OwnQuiet ==
  ASSUME TypeOK, NEW c \in Commands, NEW r \in Runtimes, OwnOf(r),
         \A d \in Commands \ {c} : Same(d),
         last'[r] = last[r], Locals(r)' \subseteq Locals(r),
         On(c, r)' => /\ On(c, r) /\ job'[c].co = job[c].co
                      /\ job'[c].at = "create" => last[r] = Address(job[c].co, r)
                      /\ job'[c].at \in {"alias", "rewrite", "read", "opened", "create"} => Locals(r) \subseteq {job[c].co}
  PROVE  OwnOf(r)'
<1>1. ASSUME NEW d \in Commands, On(d, r)'
      PROVE  /\ On(d, r) /\ job'[d].co = job[d].co
             /\ job'[d].at = "create" => last[r] = Address(job[d].co, r)
             /\ job'[d].at \in {"alias", "rewrite", "read", "opened", "create"} => Locals(r) \subseteq {job[d].co}
  <2>1. CASE d = c
    BY <1>1, <2>1
  <2>2. CASE d # c
    BY <1>1, <2>2, OnSame DEF OwnOf
  <2> QED BY <2>1, <2>2
<1>2. (\A k \in Locals(r)' : last'[r] = Address(k, r)) /\ \A k, l \in Locals(r)' : k = l
  BY DEF OwnOf
<1>3. ASSUME NEW d \in Commands, NEW e \in Commands, On(d, r)', On(e, r)' PROVE job'[d].co = job'[e].co
  BY <1>1, <1>3 DEF OwnOf
<1> QED BY <1>1, <1>2, <1>3 DEF OwnOf

LEMMA HeadInLocals ==
  ASSUME TypeOK, NEW r \in Runtimes, sessions[r] # <<>>
  PROVE  Head(sessions[r]) \in Locals(r)
<1>1. sessions[r] \in Seq(Checkouts)
  BY DEF TypeOK
<1>2. 1 \in DOMAIN sessions[r] /\ Head(sessions[r]) = sessions[r][1]
  BY <1>1
<1> QED BY <1>2 DEF Locals

LEMMA LocalsAfterCreate ==
  ASSUME TypeOK, NEW c \in Commands, job[c] \in Job, Create(c), NEW r \in Runtimes
  PROVE  /\ r # job[c].rt => Locals(r)' = Locals(r)
         /\ r = job[c].rt => Locals(r)' = Locals(r) \cup {job[c].co}
<1>1. sessions' = [sessions EXCEPT ![job[c].rt] = Append(@, job[c].co)]
  BY DEF Create
<1>2. job[c].rt \in Runtimes /\ job[c].co \in Checkouts
  BY DEF Job
<1>3. r # job[c].rt => sessions'[r] = sessions[r]
  BY <1>1 DEF TypeOK
<1> DEFINE s == sessions[job[c].rt]
<1>4. s \in Seq(Checkouts) /\ sessions'[job[c].rt] = Append(s, job[c].co)
  BY <1>1, <1>2 DEF TypeOK
<1>5. /\ DOMAIN Append(s, job[c].co) = 1..(Len(s) + 1) /\ DOMAIN s = 1..Len(s) /\ Len(s) \in Nat
      /\ Append(s, job[c].co)[Len(s) + 1] = job[c].co
      /\ \A i \in 1..Len(s) : Append(s, job[c].co)[i] = s[i]
  <2> HIDE DEF s
  <2> QED BY <1>2, <1>4
<1>6. {Append(s, job[c].co)[i] : i \in DOMAIN Append(s, job[c].co)} = {s[i] : i \in DOMAIN s} \cup {job[c].co}
  <2> HIDE DEF s
  <2>1. ASSUME NEW i \in 1..(Len(s) + 1)
        PROVE  Append(s, job[c].co)[i] \in {s[j] : j \in 1..Len(s)} \cup {job[c].co}
    <3>1. i \in 1..Len(s) \/ i = Len(s) + 1
      BY <1>5
    <3> QED BY <1>5, <3>1
  <2>2. ASSUME NEW i \in 1..Len(s) PROVE i \in 1..(Len(s) + 1) /\ s[i] = Append(s, job[c].co)[i]
    BY <1>5
  <2>3. Len(s) + 1 \in 1..(Len(s) + 1)
    BY <1>5
  <2> QED BY <1>5, <2>1, <2>2, <2>3
<1> QED BY <1>3, <1>4, <1>6 DEF Locals

LEMMA OwnStep == TypeOK /\ OwnInv /\ [Next]_vars => OwnInv'
<1> SUFFICES ASSUME TypeOK, OwnInv, [Next]_vars PROVE OwnInv'
  OBVIOUS
<1>1. CASE UNCHANGED vars
  BY <1>1 DEF vars, OwnInv, OwnOf, On, InFlight, Locals
<1>2. ASSUME NEW s \in Runtimes, Stop(s) PROVE OwnInv'
  <2>1. ASSUME NEW r \in Runtimes \ raced PROVE OwnOf(r)'
    <3>1. Locals(r)' \subseteq Locals(r)
      <4>1. CASE r = s
        BY <1>2, <4>1 DEF Stop, TypeOK, Locals
      <4>2. CASE r # s
        BY <1>2, <4>2 DEF Stop, TypeOK, Locals
      <4> QED BY <4>1, <4>2
    <3>2. last' = last /\ \A d \in Commands : (On(d, r)' => On(d, r)) /\
            (On(d, r) => job'[d].co = job[d].co /\ job'[d].at = job[d].at)
      BY <1>2, StopSame, OnSame DEF Stop
    <3> QED BY <2>1, <3>1, <3>2 DEF OwnInv, OwnOf
  <2> QED BY <1>2, <2>1 DEF Stop, OwnInv
<1>3. ASSUME NEW c \in Commands, Step(c), NEW r \in Runtimes \ raced' PROVE OwnOf(r)'
  <2>0. \A d \in Commands \ {c} : Same(d)
    BY <1>3, OthersSame
  <2>1. CASE \E k \in Checkouts, s \in Runtimes : Start(c, k, s) \/ Apply(c, k, s)
    <3>1. PICK k \in Checkouts, s \in Runtimes : Start(c, k, s) \/ Apply(c, k, s)
      BY <2>1
    <3>2. /\ job[c] = Unborn /\ job'[c] \in Job /\ job'[c].at \in {"look", "rewrite"} /\ job'[c].co = k /\ job'[c].rt = s
          /\ job'[c].at = "rewrite" => s \in raced' \/ Locals(s) \subseteq {k}
          /\ s \in raced' \/ \A d \in Commands : On(d, s) => job[d].co = k
          /\ raced \subseteq raced' /\ UNCHANGED <<config, sessions, last, torn>>
      BY <3>1, BeginEffect
    <3>3. OwnOf(r) /\ Locals(r)' = Locals(r) /\ last' = last
      BY <1>3, <3>2 DEF OwnInv, Locals
    <3>4. CASE r # s
      BY <2>0, <3>2, <3>3, <3>4, OwnQuiet DEF On
    <3>5. CASE r = s
      <4>1. ASSUME NEW d \in Commands, On(d, r)'
            PROVE  /\ job'[d].co = k
                   /\ job'[d].at = "create" => last[r] = Address(k, r)
                   /\ job'[d].at \in {"alias", "rewrite", "read", "opened", "create"} => Locals(r) \subseteq {k}
        <5>1. CASE d = c
          BY <1>3, <3>2, <3>5, <5>1
        <5>2. CASE d # c
          BY <1>3, <2>0, <3>2, <3>3, <3>5, <4>1, <5>2, OnSame DEF OwnOf
        <5> QED BY <5>1, <5>2
      <4> QED BY <3>3, <4>1 DEF OwnOf
    <3> QED BY <3>4, <3>5
  <2>2. ASSUME Look(c) \/ LookAlias(c) \/ Check(c) \/ ReadConfig(c) \/ OpenConfig(c) \/ WriteConfig(c)
                 \/ Create(c) \/ End(c)
        PROVE  OwnOf(r)'
    <3>0. job[c] \in Job /\ OwnOf(r)
      <4>1. job[c] \in Job
        BY <2>2, InFlightType DEF Look, LookAlias, Check, ReadConfig, OpenConfig, WriteConfig, Create, End, Going
      <4>2. raced \subseteq raced'
        BY <2>2 DEF Look, LookAlias, Check, ReadConfig, OpenConfig, WriteConfig, Create, End
      <4> QED BY <1>3, <4>1, <4>2 DEF OwnInv
    <3>u. ~ (WriteConfig(c) \/ Create(c)) => last' = last /\ Locals(r)' = Locals(r)
      BY <2>2 DEF Look, LookAlias, Check, ReadConfig, OpenConfig, End, Locals
    <3>g. job[c].rt \in Runtimes /\ job[c].co \in Checkouts /\ InFlight(c)
      BY <3>0, InFlightType DEF Job
    <3>1. CASE Look(c)
      <4>1. PICK s \in Shown(c) :
              /\ job'[c].at = IF s = "healthy" THEN "alias" ELSE "check"
              /\ job'[c].co = job[c].co /\ job'[c].rt = job[c].rt
        BY <3>1, LookEffect
      <4>2. On(c, r)' /\ job'[c].at = "alias" => Locals(r) \subseteq {job[c].co}
        <5> SUFFICES ASSUME On(c, r)', job'[c].at = "alias" PROVE Locals(r) \subseteq {job[c].co}
          OBVIOUS
        <5>1. job[c].rt = r /\ s = "healthy"
          BY <4>1 DEF On
        <5>2. sessions[r] # <<>> /\ Head(sessions[r]) = job[c].co
          BY <4>1, <5>1 DEF Shown, OwnFirst
        <5> QED BY <1>3, <3>0, <5>2, HeadInLocals DEF OwnOf
      <4>3. On(c, r)' => On(c, r) /\ job'[c].at \in {"alias", "check"}
        BY <3>g, <4>1 DEF On
      <4> QED BY <1>3, <2>0, <3>0, <3>u, <3>1, <4>1, <4>2, <4>3, OwnQuiet DEF Look, WriteConfig, Create
    <3>2. CASE LookAlias(c)
      <4>1. (\E at \in {"check", "ended"} : Goto(c, at)) \/ Rewrite(c, "check")
        BY <3>2 DEF LookAlias
      <4>2. On(c, r)' => job'[c].co = job[c].co /\ job'[c].rt = job[c].rt /\ job'[c].at \in {"check", "rewrite"}
        BY <3>0, <4>1, GotoEffect, RewriteEffect DEF On, InFlight, Going
      <4>3. On(c, r)' => On(c, r)
        BY <3>g, <4>2 DEF On
      <4>4. On(c, r) => Locals(r) \subseteq {job[c].co}
        BY <3>0, <3>2 DEF OwnOf, LookAlias
      <4> QED BY <1>3, <2>0, <3>0, <3>u, <3>2, <4>2, <4>3, <4>4, OwnQuiet DEF LookAlias, WriteConfig, Create
    <3>3. CASE Check(c)
      <4>1. \/ \E at \in {"ok", "ended"} : Goto(c, at)
            \/ Rewrite(c, "create") /\ (job[c].rt \in raced' \/ Locals(job[c].rt) \subseteq {job[c].co})
        BY <3>3 DEF Check
      <4>2. On(c, r)' => /\ job'[c].co = job[c].co /\ job'[c].rt = job[c].rt /\ job'[c].at = "rewrite"
                         /\ job[c].rt \in raced' \/ Locals(job[c].rt) \subseteq {job[c].co}
        BY <3>0, <4>1, GotoEffect, RewriteEffect DEF On, InFlight
      <4>3. On(c, r)' => On(c, r) /\ Locals(r) \subseteq {job[c].co}
        BY <1>3, <3>g, <4>2 DEF On
      <4> QED BY <1>3, <2>0, <3>0, <3>u, <3>3, <4>2, <4>3, OwnQuiet DEF Check, WriteConfig, Create
    <3>4. CASE ReadConfig(c) \/ OpenConfig(c)
      <4>1. job'[c].at \in {"read", "opened"} /\ job'[c].co = job[c].co /\ job'[c].rt = job[c].rt
        BY <3>0, <3>4, ReadEffect, GotoEffect DEF OpenConfig, Going
      <4>2. On(c, r)' => On(c, r)
        BY <3>g, <4>1 DEF On
      <4>3. On(c, r) => Locals(r) \subseteq {job[c].co}
        BY <3>0, <3>4 DEF OwnOf, ReadConfig, OpenConfig
      <4> QED BY <1>3, <2>0, <3>0, <3>u, <3>4, <4>1, <4>2, <4>3, OwnQuiet DEF ReadConfig, OpenConfig, WriteConfig, Create
    <3>5. CASE WriteConfig(c)
      <4>1. /\ last' = [last EXCEPT ![job[c].rt] = Own(job[c])] /\ job'[c].at = job[c].next
            /\ job[c].next # "ok" => job'[c].co = job[c].co /\ job'[c].rt = job[c].rt
            /\ sessions' = sessions
        BY <3>5, WriteEffect
      <4>2. Locals(r)' = Locals(r)
        BY <4>1 DEF Locals
      <4>3. CASE job[c].rt # r
        <5>1. last'[r] = last[r]
          BY <4>1, <4>3 DEF TypeOK, Config
        <5>2. ~ On(c, r)'
          BY <4>1, <4>3 DEF On, InFlight
        <5> QED BY <1>3, <2>0, <3>0, <4>2, <5>1, <5>2, OwnQuiet
      <4>4. CASE job[c].rt = r
        <5>1. last'[r] = Address(job[c].co, r)
          BY <3>g, <4>1, <4>4 DEF TypeOK, Config, Aliases, Own
        <5>2. Locals(r) \subseteq {job[c].co}
          BY <3>0, <3>5, <3>g, <4>4 DEF OwnOf, WriteConfig, On
        <5>3. ASSUME NEW d \in Commands, On(d, r)' PROVE job'[d].co = job[c].co
          <6>1. CASE d = c
            BY <4>1, <5>3, <6>1 DEF On, InFlight
          <6>2. CASE d # c
            <7>1. On(d, r) /\ job'[d].co = job[d].co
              BY <2>0, <5>3, <6>2, OnSame
            <7>2. On(c, r)
              BY <3>g, <4>4 DEF On
            <7> QED BY <3>0, <7>1, <7>2 DEF OwnOf
          <6> QED BY <6>1, <6>2
        <5> QED BY <4>2, <5>1, <5>2, <5>3 DEF OwnOf
      <4> QED BY <4>3, <4>4
    <3>6. CASE Create(c)
      <4>1. job'[c].at = "ok" /\ last' = last
        BY <3>0, <3>6, GotoEffect DEF Create
      <4>2. ~ On(c, r)'
        BY <4>1 DEF On, InFlight
      <4>3. CASE job[c].rt # r
        BY <1>3, <2>0, <3>0, <3>6, <4>1, <4>2, <4>3, LocalsAfterCreate, OwnQuiet
      <4>4. CASE job[c].rt = r
        <5>1. Locals(r)' = Locals(r) \cup {job[c].co} /\ On(c, r) /\ last[r] = Address(job[c].co, r)
          BY <1>3, <3>0, <3>6, <3>g, <4>4, LocalsAfterCreate DEF On, OwnOf, Create
        <5>2. ASSUME NEW d \in Commands, On(d, r)'
              PROVE  On(d, r) /\ job'[d].co = job[c].co /\ job'[d].at = job[d].at
          <6>1. d # c
            BY <4>2, <5>2
          <6> QED BY <2>0, <3>0, <5>1, <5>2, <6>1, OnSame DEF OwnOf
        <5>3. Locals(r) \subseteq {job[c].co}
          BY <3>0, <3>6, <5>1 DEF OwnOf, Create
        <5> QED BY <4>1, <5>1, <5>2, <5>3 DEF OwnOf
      <4> QED BY <4>3, <4>4
    <3>7. CASE End(c)
      <4>1. job'[c].at = "ended" /\ last' = last /\ Locals(r)' = Locals(r)
        BY <3>7, EndEffect DEF Locals
      <4>2. ~ On(c, r)'
        BY <4>1 DEF On, InFlight
      <4> QED BY <1>3, <2>0, <3>0, <4>1, <4>2, OwnQuiet
    <3> QED BY <2>2, <3>1, <3>2, <3>3, <3>4, <3>5, <3>6, <3>7
  <2> QED BY <1>3, <2>1, <2>2 DEF Step
<1> QED BY <1>1, <1>2, <1>3 DEF Next, OwnInv

LEMMA OwnInit == Init => OwnInv
BY DEF Init, OwnInv, OwnOf, On, InFlight, Unborn, Locals

\* The sessions of a name are those of a checkout to whose address its alias leads
\* (SessionIsOwn), by the inductive invariants ConfigInv and OwnInv.
THEOREM SessionsAreOwn == Spec => []SessionIsOwn
<1>1. ConfigInv /\ OwnInv => SessionIsOwn
  BY DEF ConfigInv, OwnInv, OwnOf, SessionIsOwn
<1>2. Spec => []ConfigInv
  BY SyncTypes, ConfigInit, ConfigStep, PTL DEF Spec
<1>3. Spec => []OwnInv
  BY SyncTypes, OwnInit, OwnStep, PTL DEF Spec
<1> QED BY <1>1, <1>2, <1>3, PTL

-----------------------------------------------------------------------------
(* A start that nothing interferes with *)

\* The alias of r leads to where k expects its VM, or will when the one that rewrites the
\* config has written.
Means(r, k) ==
  /\ Written => config[r] = Address(k, r)
  /\ \A d \in Commands : job[d].at = "opened" => job[d].base[r] = Address(k, r)

\* Process c of checkout k goes on to report success unless the session of r is ill.
Promised(c, r, k) ==
  \/ job[c].at = "create"
  \/ job[c].at = "check" /\ sessions[r] # <<>> /\ Head(sessions[r]) = k

\* What process c of checkout k relies on at runtime r, whose block is ASCII: nobody else is
\* on r, and no two rewrites overlap, whatever happened before.
Relies(c, r, k) ==
  /\ \A d \in Commands : On(d, r) => d = c
  /\ \A d, e \in Commands : InWindow(d) /\ InWindow(e) => d = e
  /\ \A d \in Commands : /\ job[d].at = "read" => job[d].base = config
                         /\ job[d].at = "opened" => config = Blank
  /\ Promised(c, r, k) => Means(r, k)

AloneInv ==
  \A c \in Commands, r \in Runtimes \cap Plain, k \in Checkouts :
    On(c, r) /\ job[c].co = k /\ job[c].alone => Relies(c, r, k)

\* A step that leaves the config and the rewrites, and after which what c promises holds.
LEMMA ReliesQuiet ==
  ASSUME NEW c \in Commands, NEW r \in Runtimes, NEW k \in Checkouts, Relies(c, r, k), UNCHANGED config,
         \A d \in Commands : On(d, r)' => d = c,
         \A d \in Commands : InWindow(d)' => job'[d].at = job[d].at /\ job'[d].base = job[d].base,
         \A d \in Commands : job[d].at = "opened" => job'[d].at = "opened",
         Promised(c, r, k)' => Means(r, k)
  PROVE  Relies(c, r, k)'
<1>1. \A d \in Commands : InWindow(d)' => InWindow(d)
  BY DEF InWindow
<1>2. \A d, e \in Commands : InWindow(d)' /\ InWindow(e)' => d = e
  BY <1>1 DEF Relies
<1>3. \A d \in Commands : /\ job'[d].at = "read" => job'[d].base = config'
                         /\ job'[d].at = "opened" => config' = Blank
  BY DEF Relies, InWindow
<1>4. Promised(c, r, k)' => Means(r, k)'
  BY DEF Means, Written, InWindow
<1> QED BY <1>2, <1>3, <1>4 DEF Relies, InWindow, On

LEMMA SameJob ==
  ASSUME TypeOK, TypeOK', NEW d \in Commands, Same(d), job[d] \in Job
  PROVE  job'[d] \in Job
<1>1. job'[d] \in AnyJob /\ job'[d].at \in Going
  BY DEF TypeOK, AnyJob, Same, Job, Going
<1> QED BY <1>1 DEF AnyJob, Over, Unborn, Going

\* What the step of another process leaves of what c relies on.
LEMMA ReliesOther ==
  ASSUME TypeOK, AloneInv, NEW c \in Commands, NEW e \in Commands \ {c}, Step(e),
         NEW r \in Runtimes \cap Plain, NEW k \in Checkouts, On(c, r)', job'[c].co = k, job'[c].alone
  PROVE  Relies(c, r, k)'
<1>0. \A d \in Commands \ {e} : Same(d)
  BY OthersSame
<1>1. On(c, r) /\ job[c].co = k /\ job'[c].at = job[c].at /\ job[c].alone /\ Relies(c, r, k)
  BY <1>0, OnSame, InFlightType DEF Same, On, AloneInv
<1>2. ~ On(e, r)
  BY <1>1 DEF Relies
<1>3. \A d \in Commands \ {e} : On(d, r)' => d = c
  BY <1>0, <1>1, OnSame DEF Relies
<1>p. sessions'[r] = sessions[r] => (Promised(c, r, k)' => Means(r, k))
  BY <1>1 DEF Promised, Relies
<1>5. CASE (\E s \in Checkouts, t \in Runtimes : Start(e, s, t) \/ Apply(e, s, t))
             \/ Look(e) \/ LookAlias(e) \/ Check(e) \/ Create(e)
  <2>1. ~ InWindow(e) /\ ~ InWindow(e)' /\ UNCHANGED config
    BY <1>5, QuietEffect
  <2>2. sessions'[r] = sessions[r] /\ ~ On(e, r)'
    <3>1. CASE \E s \in Checkouts, t \in Runtimes : Start(e, s, t) \/ Apply(e, s, t)
      <4>1. PICK s \in Checkouts, t \in Runtimes : Start(e, s, t) \/ Apply(e, s, t)
        BY <3>1
      <4>2. job'[e].rt = t /\ sessions' = sessions /\ (On(c, t) => ~ job'[c].alone)
        BY <4>1, BeginEffect
      <4> QED BY <1>1, <4>2 DEF On
    <3>2. CASE Look(e) \/ LookAlias(e) \/ Check(e) \/ Create(e)
      <4>1. job[e] \in Job /\ InFlight(e) /\ job[e].rt # r
        BY <1>2, <3>2, InFlightType DEF Look, LookAlias, Check, Create, Going, On
      <4>2. CASE Look(e)
        <5>1. job'[e].rt = job[e].rt /\ sessions' = sessions
          BY <4>2, LookEffect DEF Look
        <5> QED BY <4>1, <5>1 DEF On
      <4>3. CASE LookAlias(e) \/ Check(e)
        <5>1. (\E at \in {"check", "ok", "ended"} : Goto(e, at)) \/ \E next \in {"check", "create"} : Rewrite(e, next)
          BY <4>3 DEF LookAlias, Check
        <5>2. InFlight(e)' => job'[e].rt = job[e].rt
          BY <4>1, <5>1, GotoEffect, RewriteEffect DEF Going, InFlight
        <5> QED BY <4>1, <4>3, <5>2 DEF On, LookAlias, Check
      <4>4. CASE Create(e)
        <5>1. ~ InFlight(e)'
          BY <4>1, <4>4, GotoEffect DEF Create, InFlight
        <5>2. sessions'[r] = sessions[r]
          BY <4>1, <4>4 DEF Create, TypeOK
        <5> QED BY <5>1, <5>2 DEF On
      <4> QED BY <3>2, <4>2, <4>3, <4>4
    <3> QED BY <1>5, <3>1, <3>2
  <2>3. /\ \A d \in Commands : InWindow(d)' => job'[d].at = job[d].at /\ job'[d].base = job[d].base
        /\ \A d \in Commands : job[d].at = "opened" => job'[d].at = "opened"
    BY <1>0, <2>1, WindowKept
  <2>5. \A d \in Commands : On(d, r)' => d = c
    BY <1>3, <2>2
  <2> QED BY <1>1, <1>p, <2>1, <2>2, <2>3, <2>5, ReliesQuiet
<1>w. \A d \in Commands \ {e} : job'[d].at = job[d].at /\ (InWindow(d) => job'[d].base = job[d].base)
  BY <1>0, InFlightType DEF Same, InWindow, Going
<1>j. job'[c] \in Job
  <2>1. TypeOK'
    BY TypeStep DEF Next
  <2>2. job[c] \in Job
    BY <1>1, InFlightType DEF On
  <2> QED BY <1>0, <2>1, <2>2, SameJob
<1>6. CASE ReadConfig(e)
  <2>1. /\ job[e] \in Job /\ job'[e].at = "read" /\ job'[e].base = config /\ job'[e].rt = job[e].rt
        /\ (\E d \in Commands : InWindow(d)) => \A d \in Commands : job'[d] \in Job => ~ job'[d].alone
        /\ UNCHANGED <<config, sessions>>
    BY <1>6, ReadEffect
  <2>3. \A d \in Commands : ~ InWindow(d)
    BY <1>j, <2>1
  <2>4. \A d \in Commands \ {e} : ~ InWindow(d)'
    BY <1>w, <2>3 DEF InWindow
  <2>5. ~ On(e, r)'
    BY <1>2, <1>6, <2>1, InFlightType DEF On, InFlight, ReadConfig
  <2>6. Promised(c, r, k)' => Means(r, k)'
    BY <1>p, <2>1, <2>3, <2>4 DEF Means, Written, InWindow
  <2> QED BY <1>3, <2>1, <2>4, <2>5, <2>6 DEF Relies, InWindow
<1>7. CASE OpenConfig(e)
  <2>1. job[e] \in Job /\ job[e].at = "read" /\ config' = Blank /\ sessions' = sessions
    BY <1>7, InFlightType DEF OpenConfig, Going
  <2>2. job'[e].at = "opened" /\ job'[e].rt = job[e].rt /\ job'[e].base = config
    BY <1>1, <1>7, <2>1, GotoEffect DEF OpenConfig, Going, Relies
  <2>3. \A d \in Commands \ {e} : ~ InWindow(d) /\ ~ InWindow(d)'
    BY <1>1, <1>w, <2>1 DEF Relies, InWindow
  <2>4. ~ On(e, r)'
    BY <1>2, <2>1, <2>2 DEF On, InFlight
  <2>5. Written /\ ~ Written'
    BY <2>1, <2>2, <2>3 DEF Written, InWindow
  <2>6. Promised(c, r, k)' => Means(r, k)'
    BY <1>p, <2>1, <2>2, <2>3, <2>5 DEF Means, InWindow
  <2> QED BY <1>3, <2>1, <2>2, <2>3, <2>4, <2>6 DEF Relies, InWindow
<1>8. CASE WriteConfig(e)
  <2>1. /\ job[e] \in Job /\ job[e].at = "opened" /\ job'[e].at = job[e].next /\ sessions' = sessions
        /\ config = Blank => config' = NewConfig(job[e])
        /\ job[e].next # "ok" => job'[e].rt = job[e].rt
    BY <1>8, WriteEffect DEF WriteConfig
  <2>2. \A d \in Commands : ~ InWindow(d)'
    BY <1>1, <1>w, <2>1 DEF Relies, InWindow, Job
  <2>3. ~ On(e, r)'
    BY <1>2, <2>1 DEF On, InFlight
  <2>4. job[e].rt # r
    BY <1>2, <2>1 DEF On, InFlight
  <2>5. Promised(c, r, k)' => Means(r, k)'
    <3> SUFFICES ASSUME Promised(c, r, k)' PROVE config'[r] = Address(k, r)
      BY <2>2 DEF Means, InWindow
    <3>1. config = Blank /\ job[e].base[r] = Address(k, r)
      BY <1>1, <1>p, <2>1 DEF Means, Relies
    <3> QED BY <2>1, <2>4, <3>1, NewConfigType
  <2> QED BY <1>3, <2>2, <2>3, <2>5 DEF Relies, InWindow
<1>9. CASE End(e)
  <2>1. /\ job'[e].at = "ended" /\ sessions' = sessions
        /\ job[e].at # "opened" => config' = config
        /\ job[e].at = "opened" => \A d \in Commands : job'[d] \in Job => ~ job'[d].alone
    BY <1>9, EndEffect
  <2>3. config' = config /\ job[e].at # "opened"
    BY <1>j, <2>1
  <2>4. ~ On(e, r)' /\ ~ InWindow(e)'
    BY <2>1 DEF On, InFlight, InWindow
  <2> QED BY <1>1, <1>3, <1>p, <1>w, <2>1, <2>3, <2>4, ReliesQuiet DEF InWindow
<1> QED BY <1>5, <1>6, <1>7, <1>8, <1>9 DEF Step

LEMMA NoneMeansNobody ==
  ASSUME NEW k \in Checkouts, NEW r \in Runtimes PROVE Blank[r] # Address(k, r)
BY SyncAssumption DEF Blank, Aliases, Addresses

\* What its own step leaves of what c relies on.
LEMMA ReliesOwn ==
  ASSUME TypeOK, AloneInv, NEW c \in Commands, Step(c),
         NEW r \in Runtimes \cap Plain, NEW k \in Checkouts, On(c, r)', job'[c].co = k, job'[c].alone
  PROVE  Relies(c, r, k)'
<1>0. \A d \in Commands \ {c} : Same(d)
  BY OthersSame
<1>w. \A d \in Commands \ {c} : job'[d].at = job[d].at /\ (InWindow(d) => job'[d].base = job[d].base)
  BY <1>0, InFlightType DEF Same, InWindow, Going
<1>o. \A d \in Commands \ {c} : On(d, r)' => On(d, r)
  BY <1>0, OnSame
<1>1. CASE \E j \in Checkouts, t \in Runtimes : Start(c, j, t) \/ Apply(c, j, t)
  <2>1. PICK j \in Checkouts, t \in Runtimes : Start(c, j, t) \/ Apply(c, j, t)
    BY <1>1
  <2>2. /\ job'[c].at \in {"look", "rewrite"} /\ job'[c].rt = t
        /\ job'[c].alone => \A d \in Commands : ~ On(d, t) /\ ~ InWindow(d)
    BY <2>1, BeginEffect
  <2>3. t = r /\ \A d \in Commands : ~ On(d, r) /\ ~ InWindow(d)
    BY <2>2 DEF On
  <2>4. \A d \in Commands : On(d, r)' => d = c
    BY <1>o, <2>3
  <2>5. \A d \in Commands : ~ InWindow(d)'
    BY <1>w, <2>2, <2>3 DEF InWindow
  <2>6. ~ Promised(c, r, k)'
    BY <2>2 DEF Promised
  <2> QED BY <2>4, <2>5, <2>6 DEF Relies, InWindow, On
<1>2. ASSUME Look(c) \/ LookAlias(c) \/ Check(c) \/ ReadConfig(c) \/ OpenConfig(c) \/ WriteConfig(c)
               \/ Create(c) \/ End(c)
      PROVE  Relies(c, r, k)'
  <2>0. job[c] \in Job /\ InFlight(c)
    BY <1>2, InFlightType DEF Look, LookAlias, Check, ReadConfig, OpenConfig, WriteConfig, Create, End, Going
  <2>r. ASSUME job'[c].rt = job[c].rt, job'[c].co = job[c].co, job'[c].alone => job[c].alone
        PROVE  Relies(c, r, k) /\ On(c, r) /\ \A d \in Commands : On(d, r)' => d = c
    <3>1. On(c, r) /\ Relies(c, r, k)
      BY <2>0, <2>r DEF On, AloneInv
    <3> QED BY <1>o, <3>1 DEF Relies
  <2>q. ASSUME job'[c].rt = job[c].rt, job'[c].co = job[c].co, job'[c].alone => job[c].alone,
               ~ InWindow(c), ~ InWindow(c)', UNCHANGED config, Promised(c, r, k)' => Means(r, k)
        PROVE  Relies(c, r, k)'
    BY <1>0, <2>q, <2>r, WindowKept, ReliesQuiet
  <2>1. CASE Look(c)
    <3>1. PICK s \in Shown(c) :
            /\ job'[c].at = IF s = "healthy" THEN "alias" ELSE "check"
            /\ job'[c].alone => job[c].alone /\ (OwnFirst(c) => s = "healthy")
            /\ job'[c].co = job[c].co /\ job'[c].rt = job[c].rt
      BY <2>1, LookEffect
    <3>2. job[c].rt = r /\ job[c].co = k
      BY <3>1 DEF On
    <3>3. sessions' = sessions /\ config' = config /\ ~ InWindow(c)
      BY <2>1 DEF Look, InWindow
    <3>4. ~ Promised(c, r, k)'
      <4>1. SUFFICES ASSUME job'[c].at = "check", sessions[r] # <<>>, Head(sessions[r]) = k PROVE FALSE
        BY <3>1, <3>3 DEF Promised
      <4>2. OwnFirst(c)
        BY <3>2, <4>1 DEF OwnFirst
      <4> QED BY <3>1, <4>1, <4>2
    <3>5. ~ InWindow(c)'
      BY <3>1 DEF InWindow
    <3> QED BY <2>q, <3>1, <3>3, <3>4, <3>5
  <2>2. CASE LookAlias(c)
    <3>1. \/ Goto(c, "check") /\ config[job[c].rt] = Own(job[c])
          \/ Rewrite(c, "check")
          \/ Goto(c, "ended")
      BY <2>2 DEF LookAlias
    <3>2. ~ Goto(c, "ended")
      BY <2>0, GotoEffect DEF On, InFlight
    <3>3. job'[c].rt = job[c].rt /\ job'[c].co = job[c].co /\ (job'[c].alone => job[c].alone)
      BY <2>0, <3>1, <3>2, GotoEffect, RewriteEffect DEF Going
    <3>4. ~ InWindow(c) /\ ~ InWindow(c)' /\ UNCHANGED config
      BY <2>2, QuietEffect
    <3>5. ASSUME Promised(c, r, k)' PROVE Means(r, k)
      <4>1. config[r] = Address(k, r)
        BY <2>0, <3>1, <3>2, <3>3, <3>5, GotoEffect, RewriteEffect DEF Promised, On, Own
      <4>2. config # Blank
        BY <4>1, NoneMeansNobody
      <4>3. Written
        BY <2>r, <3>3, <4>2 DEF Relies, Written
      <4> QED BY <4>1, <4>3 DEF Means, Written
    <3> QED BY <2>q, <3>3, <3>4, <3>5
  <2>3. CASE Check(c)
    <3>1. Goto(c, "ok") \/ Goto(c, "ended") \/ Rewrite(c, "create")
      BY <2>3 DEF Check
    <3>2. Rewrite(c, "create")
      BY <2>0, <3>1, GotoEffect DEF On, InFlight
    <3>3. /\ job'[c].rt = job[c].rt /\ job'[c].co = job[c].co /\ (job'[c].alone => job[c].alone)
          /\ job'[c].at = "rewrite"
      BY <2>0, <3>2, RewriteEffect
    <3>4. ~ InWindow(c) /\ ~ InWindow(c)' /\ UNCHANGED config
      BY <2>3, QuietEffect
    <3> QED BY <2>q, <3>3, <3>4 DEF Promised
  <2>4. CASE ReadConfig(c)
    <3>1. /\ job'[c] \in Job /\ job'[c].at = "read" /\ job'[c].base = config
          /\ job'[c].rt = job[c].rt /\ job'[c].co = job[c].co /\ (job'[c].alone => job[c].alone)
          /\ (\E d \in Commands : InWindow(d)) => \A d \in Commands : job'[d] \in Job => ~ job'[d].alone
          /\ UNCHANGED config
      BY <2>4, ReadEffect
    <3>2. \A d \in Commands : ~ InWindow(d)
      BY <3>1
    <3>3. \A d \in Commands \ {c} : ~ InWindow(d)'
      BY <1>w, <3>2 DEF InWindow
    <3>4. \A d \in Commands : On(d, r)' => d = c
      BY <2>r, <3>1
    <3>5. ~ Promised(c, r, k)'
      BY <3>1 DEF Promised
    <3> QED BY <3>1, <3>3, <3>4, <3>5 DEF Relies, InWindow, On
  <2>5. CASE OpenConfig(c)
    <3>1. /\ job'[c].at = "opened" /\ job[c].at = "read" /\ config' = Blank
          /\ job'[c].rt = job[c].rt /\ job'[c].co = job[c].co /\ (job'[c].alone => job[c].alone)
      BY <2>0, <2>5, GotoEffect DEF OpenConfig, Going
    <3>2. Relies(c, r, k) /\ \A d \in Commands : On(d, r)' => d = c
      BY <2>r, <3>1
    <3>3. \A d \in Commands \ {c} : ~ InWindow(d)'
      BY <1>w, <3>1, <3>2 DEF Relies, InWindow
    <3>4. ~ Promised(c, r, k)'
      BY <3>1 DEF Promised
    <3> QED BY <3>1, <3>2, <3>3, <3>4 DEF Relies, InWindow, On
  <2>6. CASE WriteConfig(c)
    <3>1. /\ job[c].at = "opened" /\ job'[c].at = job[c].next
          /\ config = Blank => config' = NewConfig(job[c])
          /\ job[c].next # "ok" => /\ job'[c].rt = job[c].rt /\ job'[c].co = job[c].co
                                  /\ job'[c].alone = job[c].alone
      BY <2>6, WriteEffect DEF WriteConfig
    <3>2. job[c].next # "ok" /\ job[c].next \in {"check", "create"}
      BY <2>0, <3>1 DEF On, InFlight, Job
    <3>3. Relies(c, r, k) /\ On(c, r) /\ \A d \in Commands : On(d, r)' => d = c
      BY <2>r, <3>1, <3>2
    <3>4. \A d \in Commands : ~ InWindow(d)'
      BY <1>w, <3>1, <3>2, <3>3 DEF Relies, InWindow
    <3>5. config = Blank
      BY <3>1, <3>3 DEF Relies
    <3>6. config'[r] = Address(k, r)
      BY <2>0, <3>1, <3>2, <3>3, <3>5, NewConfigType DEF On, Own
    <3>7. Means(r, k)'
      BY <3>4, <3>6 DEF Means, InWindow
    <3> QED BY <3>3, <3>4, <3>7 DEF Relies, InWindow, On
  <2>7. CASE Create(c) \/ End(c)
    <3>1. ~ InFlight(c)'
      BY <2>0, <2>7, GotoEffect, EndEffect DEF Create, InFlight
    <3> QED BY <3>1 DEF On
  <2> QED BY <1>2, <2>1, <2>2, <2>3, <2>4, <2>5, <2>6, <2>7
<1> QED BY <1>1, <1>2 DEF Step

LEMMA AloneStep == TypeOK /\ AloneInv /\ [Next]_vars => AloneInv'
<1> SUFFICES ASSUME TypeOK, AloneInv, [Next]_vars,
                    NEW c \in Commands, NEW r \in Runtimes \cap Plain, NEW k \in Checkouts,
                    On(c, r)', job'[c].co = k, job'[c].alone
             PROVE  Relies(c, r, k)'
  BY DEF AloneInv, On
<1>1. CASE UNCHANGED vars
  <2>1. Relies(c, r, k)
    BY <1>1 DEF vars, AloneInv, On, InFlight
  <2> QED BY <1>1, <2>1 DEF vars, Relies, On, InFlight, InWindow, Promised, Means, Written
<1>2. ASSUME NEW s \in Runtimes, Stop(s) PROVE Relies(c, r, k)'
  <2>1. \A d \in Commands : Same(d) /\ (On(d, s) => ~ job'[d].alone)
    BY <1>2, StopSame
  <2>2. On(c, r) /\ job[c].co = k /\ job[c].at = job'[c].at /\ job[c].alone /\ r # s
    BY <2>1, OnSame, InFlightType DEF Same, On
  <2>3. Relies(c, r, k)
    BY <2>2 DEF AloneInv
  <2>4. config' = config /\ sessions'[r] = sessions[r]
    BY <1>2, <2>2 DEF Stop, TypeOK
  <2>5. \A d \in Commands : On(d, r)' => d = c
    BY <2>1, <2>3, OnSame DEF Relies
  <2>6. \A d \in Commands : job'[d].at = job[d].at /\ (InWindow(d) => job'[d].base = job[d].base)
    BY <2>1, InFlightType DEF Same, InWindow, Going
  <2>7. Promised(c, r, k)' => Means(r, k)
    BY <2>2, <2>3, <2>4 DEF Relies, Promised
  <2> QED BY <2>3, <2>4, <2>5, <2>6, <2>7, ReliesQuiet DEF InWindow
<1>3. ASSUME NEW e \in Commands, Step(e) PROVE Relies(c, r, k)'
  BY <1>3, ReliesOwn, ReliesOther
<1> QED BY <1>1, <1>2, <1>3 DEF Next

LEMMA AloneInit == Init => AloneInv
BY DEF Init, AloneInv, On, InFlight, Unborn

\* The body of StartMeansOwn.
StartStep ==
  \A c \in Commands :
    /\ job[c].at \in {"check", "create"} /\ job'[c].at = "ok"
    /\ job[c].alone /\ Written /\ job[c].rt \in Plain
    => /\ config'[job[c].rt] = Own(job[c])
       /\ \E i \in DOMAIN sessions'[job[c].rt] : sessions'[job[c].rt][i] = job[c].co

LEMMA StartIsOwn == TypeOK /\ AloneInv /\ [Next]_vars => StartStep
<1> SUFFICES ASSUME TypeOK, AloneInv, [Next]_vars, NEW c \in Commands,
                    job[c].at \in {"check", "create"}, job'[c].at = "ok", job[c].alone, Written,
                    job[c].rt \in Plain
             PROVE  /\ config'[job[c].rt] = Own(job[c])
                    /\ \E i \in DOMAIN sessions'[job[c].rt] : sessions'[job[c].rt][i] = job[c].co
  BY DEF StartStep
<1>0. job[c] \in Job /\ On(c, job[c].rt) /\ job[c].rt \in Runtimes /\ job[c].co \in Checkouts
  BY InFlightType DEF Going, On, InFlight, Job
<1>k. PICK r \in Runtimes \cap Plain, k \in Checkouts : r = job[c].rt /\ k = job[c].co
  BY <1>0
<1>1. Relies(c, r, k)
  BY <1>0, <1>k DEF AloneInv
<1>2. Check(c) \/ Create(c)
  <2>1. ~ UNCHANGED vars
    BY DEF vars
  <2>2. PICK e \in Commands : Step(e)
    BY <2>1, StopSame DEF Next, Same
  <2>3. e = c
    BY <2>2, OthersSame DEF Same
  <2>4. ~ \E j \in Checkouts, s \in Runtimes : Start(c, j, s) \/ Apply(c, j, s)
    BY BeginEffect DEF Unborn
  <2>5. ~ End(c)
    BY EndEffect
  <2> QED BY <2>2, <2>3, <2>4, <2>5 DEF Step, Look, LookAlias, ReadConfig, OpenConfig, WriteConfig
<1>3. CASE Check(c)
  <2>1. Goto(c, "ok") \/ Rewrite(c, "create") \/ Goto(c, "ended")
    BY <1>3 DEF Check
  <2>2. ~ Rewrite(c, "create") /\ ~ Goto(c, "ended")
    BY <1>0, RewriteEffect, GotoEffect
  <2>3. "healthy" \in Shown(c)
    <3>1. \E s \in Shown(c) : CASE s = "healthy" -> Goto(c, "ok")
                               [] s = "none" -> Rewrite(c, "create")
                               [] OTHER -> Goto(c, "ended")
      BY <1>3 DEF Check
    <3> QED BY <2>2, <3>1
  <2>4. sessions[r] # <<>> /\ Head(sessions[r]) = k
    BY <1>k, <2>3 DEF Shown, OwnFirst
  <2>5. Means(r, k)
    BY <1>1, <1>3, <2>4 DEF Relies, Promised, Check
  <2>6. k \in Locals(r)
    BY <1>k, <2>4, HeadInLocals
  <2> QED BY <1>3, <1>k, <2>5, <2>6 DEF Check, Means, Locals, Own
<1>4. CASE Create(c)
  <2>1. Means(r, k)
    BY <1>1, <1>4 DEF Relies, Promised, Create
  <2>2. k \in Locals(r)'
    BY <1>0, <1>4, <1>k, LocalsAfterCreate
  <2> QED BY <1>4, <1>k, <2>1, <2>2 DEF Create, Means, Locals, Own
<1> QED BY <1>2, <1>3, <1>4

\* A start that reports success has its session and its alias (StartMeansOwn), by the
\* inductive invariant AloneInv.
THEOREM StartsMeanOwn == Spec => StartMeansOwn
<1>1. TypeOK /\ AloneInv /\ [Next]_vars => [StartStep]_vars
  BY StartIsOwn
<1>2. Spec => []AloneInv
  BY SyncTypes, AloneInit, AloneStep, PTL DEF Spec
<1>3. Spec => [][StartStep]_vars
  BY SyncTypes, <1>1, <1>2, PTL DEF Spec
<1> QED BY <1>3 DEF StartMeansOwn, StartStep

=============================================================================
