------------------------ MODULE EvidenceChainProofs ------------------------
(***************************************************************************)
(* Theorems about the evidence chain, for any number of commands.          *)
(*                                                                         *)
(* Whatever overlaps and dies, chains verify: each chain a command is      *)
(* about to write verifies, which is what ChainInv adds.  Entries stay     *)
(* unique because a timestamp belongs to one file from the moment a        *)
(* command takes it (UniqueInv).  Until commands overlap on a file or one  *)
(* dies with it open, the chain a command has read is the file's           *)
(* (SerialInv), and the write is the append of AppendOnlyLog.              *)
(***************************************************************************)
EXTENDS EvidenceChain, TLAPS

-----------------------------------------------------------------------------
(* Link, in two parts, and chains *)

LinkTo(c, f) ==
  /\ pc[c] = "idle" /\ file[f] # Garbled
  /\ pc' = [pc EXCEPT ![c] = "linked"]
  /\ target' = [target EXCEPT ![c] = f]
  /\ base' = [base EXCEPT ![c] = file[f]]
  /\ nextId' = nextId + 1 /\ Starts(c, f) /\ UNCHANGED <<file, acked>>
  /\ \E m \in MetadataOf(f) :
       entry' = [entry EXCEPT ![c] = NewEntry(nextId, m, LastChainHash(file[f]))]

LEMMA LinkCases ==
  ASSUME NEW c \in Commands, Link(c)
  PROVE  \E f \in Files : LinkTo(c, f)
BY DEF Link, LinkTo

LEMMA HashType ==
  ASSUME NEW id \in Nat, NEW m \in Metadata \cup {NoMetadata}, NEW previous \in Digest
  PROVE  NewEntry(id, m, previous) \in Entry
BY DEF NewEntry, Entry, Hash, Digest

LEMMA LastType == ASSUME NEW chain \in Chain PROVE LastChainHash(chain) \in Digest
<1>1. CASE chain = <<>>
  BY <1>1 DEF LastChainHash, Genesis, Digest
<1>2. CASE chain # <<>>
  <2>1. Len(chain) \in DOMAIN chain
    BY <1>2 DEF Chain
  <2>2. chain[Len(chain)] \in Entry
    BY <2>1 DEF Chain
  <2> QED BY <1>2, <2>2 DEF LastChainHash, Entry
<1> QED BY <1>1, <1>2

LEMMA VerifiesAppend ==
  ASSUME NEW chain \in Chain, NEW e \in Entry,
         Verifies(chain), e.previous_hash = LastChainHash(chain)
  PROVE  Verifies(Append(chain, e))
<1> SUFFICES ASSUME NEW k \in DOMAIN Append(chain, e)
             PROVE  Append(chain, e)[k].previous_hash =
                      IF k = 1 THEN Genesis ELSE Append(chain, e)[k - 1].sha256_hash
  BY DEF Verifies
<1>1. Len(chain) \in Nat /\ k \in 1..(Len(chain) + 1)
  BY DEF Chain
<1>2. CASE k = Len(chain) + 1
  <2>1. Append(chain, e)[k] = e
    BY <1>2 DEF Chain
  <2>2. CASE chain = <<>>
    BY <1>2, <2>1, <2>2 DEF LastChainHash
  <2>3. CASE chain # <<>>
    <3>1. Len(chain) # 0 /\ k # 1
      BY <1>1, <1>2, <2>3 DEF Chain
    <3>2. Append(chain, e)[k - 1] = chain[Len(chain)]
      BY <1>1, <1>2, <3>1 DEF Chain
    <3> QED BY <2>1, <2>3, <3>1, <3>2 DEF LastChainHash
  <2> QED BY <2>2, <2>3
<1>3. CASE k # Len(chain) + 1
  <2>1. k \in DOMAIN chain /\ Append(chain, e)[k] = chain[k]
    BY <1>1, <1>3 DEF Chain
  <2>2. k # 1 => Append(chain, e)[k - 1] = chain[k - 1]
    BY <1>1, <1>3 DEF Chain
  <2> QED BY <2>1, <2>2 DEF Verifies
<1> QED BY <1>2, <1>3

-----------------------------------------------------------------------------
(* ChainInv *)

LEMMA ChainInit == Init => ChainInv
<1> SUFFICES ASSUME Init PROVE ChainInv
  OBVIOUS
<1>1. NewEntry(0, NoMetadata, Genesis) \in Entry
  <2>1. Genesis \in Digest
    BY DEF Genesis, Digest
  <2> QED BY <2>1, HashType
<1>2. <<>> \in Chain /\ Verifies(<<>>)
  BY DEF Chain, Verifies
<1>3. TypeOK
  <2>1. NewEntry(0, NoMetadata, Genesis).id = 0
    BY DEF NewEntry
  <2> QED BY <1>1, <1>2, <2>1 DEF Init, TypeOK, Files
<1> QED BY <1>2, <1>3 DEF Init, ChainInv, ChainVerifies

\* A step of one command keeps the types.
LEMMA TypeStep == TypeOK /\ [Next]_vars => TypeOK'
<1> SUFFICES ASSUME TypeOK, [Next]_vars PROVE TypeOK'
  OBVIOUS
<1>1. CASE UNCHANGED vars
  BY <1>1 DEF vars, TypeOK
<1>2. ASSUME NEW c \in Commands, Step(c) PROVE TypeOK'
  <2>1. CASE Link(c)
    <3>0. PICK f \in Files : LinkTo(c, f)
      BY <2>1, LinkCases
    <3>1. PICK m \in MetadataOf(f) :
            /\ file[f] # Garbled
            /\ pc' = [pc EXCEPT ![c] = "linked"]
            /\ target' = [target EXCEPT ![c] = f]
            /\ base' = [base EXCEPT ![c] = file[f]]
            /\ entry' = [entry EXCEPT ![c] = NewEntry(nextId, m, LastChainHash(file[f]))]
            /\ nextId' = nextId + 1 /\ Starts(c, f) /\ UNCHANGED <<file, acked>>
      BY <3>0 DEF LinkTo
    <3>2. file[f] \in Chain
      BY <3>1 DEF TypeOK
    <3>3. NewEntry(nextId, m, LastChainHash(file[f])) \in Entry
      BY <3>2, LastType, HashType DEF TypeOK, MetadataOf
    <3>4. NewEntry(nextId, m, LastChainHash(file[f])).id = nextId
      BY DEF NewEntry
    <3>5. \A d \in Commands : entry'[d].id < nextId' /\ (pc'[d] # "idle" => entry'[d].id > 0)
      BY <3>1, <3>4 DEF TypeOK, Entry
    <3>6. /\ nextId' \in Nat \ {0} /\ acked' \in [Files -> SUBSET (1..(nextId' - 1))]
          /\ disturbed' \subseteq Files
      <4>1. 1..(nextId - 1) \subseteq 1..(nextId' - 1) /\ nextId' \in Nat \ {0}
        BY <3>1 DEF TypeOK
      <4> QED BY <3>1, <4>1 DEF TypeOK, Starts
    <3> HIDE DEF Entry, Chain
    <3>7. /\ file' \in [Files -> Chain \cup {Garbled}]
          /\ pc' \in [Commands -> {"idle", "linked", "opened"}]
          /\ target' \in [Commands -> Files] /\ base' \in [Commands -> Chain]
      BY <3>1, <3>2 DEF TypeOK
    <3>8. entry' \in [Commands -> Entry]
      BY <3>1, <3>3 DEF TypeOK
    <3> QED BY <3>5, <3>6, <3>7, <3>8 DEF TypeOK
  <2>2. CASE Open(c)
    BY <2>2 DEF Open, TypeOK, Chain
  <2>3. CASE Refused(c)
    BY <2>3 DEF Refused, TypeOK
  <2>4. CASE Write(c)
    <3>1. Append(base[c], entry[c]) \in Chain
      BY DEF TypeOK, Chain
    <3>2. file' \in [Files -> Chain \cup {Garbled}]
      BY <2>4, <3>1 DEF Write, TypeOK
    <3>3. entry[c].id \in 1..(nextId - 1)
      BY <2>4 DEF Write, TypeOK, Entry
    <3>4. acked' \in [Files -> SUBSET (1..(nextId - 1))]
      BY <2>4, <3>3 DEF Write, TypeOK
    <3> QED BY <2>4, <3>2, <3>4 DEF Write, TypeOK
  <2>5. CASE Die(c)
    <3>1. file' \in [Files -> Chain \cup {Garbled}]
      BY <2>5 DEF Die, TypeOK
    <3>2. disturbed' \subseteq Files
      BY <2>5 DEF Die, TypeOK
    <3> QED BY <2>5, <3>1, <3>2 DEF Die, TypeOK
  <2> QED BY <1>2, <2>1, <2>2, <2>3, <2>4, <2>5 DEF Step
<1> QED BY <1>1, <1>2 DEF Next

\* What Write puts into a file.
LEMMA PendingType == ASSUME TypeOK, NEW c \in Commands PROVE Pending(c) \in Chain
BY DEF TypeOK, Pending, Chain

LEMMA ChainStep == ChainInv /\ [Next]_vars => ChainInv'
<1> SUFFICES ASSUME ChainInv, [Next]_vars PROVE ChainInv'
  OBVIOUS
<1>1. TypeOK /\ TypeOK'
  BY TypeStep DEF ChainInv
<1>2. CASE UNCHANGED vars
  BY <1>1, <1>2 DEF vars, ChainInv, ChainVerifies
<1>3. ASSUME NEW c \in Commands, Step(c) PROVE ChainInv'
  <2>1. CASE Link(c)
    <3>1. PICK f \in Files : LinkTo(c, f)
      BY <2>1, LinkCases
    <3>2. Verifies(file[f])
      BY <3>1 DEF LinkTo, ChainInv, ChainVerifies
    <3>3. entry'[c].previous_hash = LastChainHash(file[f]) /\ base'[c] = file[f]
      BY <1>1, <3>1 DEF LinkTo, TypeOK, NewEntry
    <3>4. \A d \in Commands : d # c => pc'[d] = pc[d] /\ base'[d] = base[d] /\ entry'[d] = entry[d]
      BY <1>1, <3>1 DEF LinkTo, TypeOK
    <3>5. \A d \in Commands : pc'[d] # "idle" =>
            Verifies(base'[d]) /\ entry'[d].previous_hash = LastChainHash(base'[d])
      BY <3>2, <3>3, <3>4 DEF ChainInv
    <3> QED BY <1>1, <3>1, <3>5 DEF LinkTo, ChainInv, ChainVerifies
  <2>2. CASE Open(c)
    <3>1. Verifies(<<>>)
      BY DEF Verifies
    <3>2. ChainVerifies'
      BY <1>1, <2>2, <3>1 DEF Open, TypeOK, ChainInv, ChainVerifies
    <3> QED BY <1>1, <2>2, <3>2 DEF Open, TypeOK, ChainInv
  <2>3. CASE Refused(c)
    BY <1>1, <2>3 DEF Refused, TypeOK, ChainInv, ChainVerifies
  <2>4. CASE Write(c)
    <3>1. Verifies(Append(base[c], entry[c]))
      BY <1>1, <2>4, VerifiesAppend DEF Write, TypeOK, ChainInv
    <3>2. ChainVerifies'
      BY <1>1, <2>4, <3>1 DEF Write, TypeOK, ChainInv, ChainVerifies
    <3> QED BY <1>1, <2>4, <3>2 DEF Write, TypeOK, ChainInv
  <2>5. CASE Die(c)
    <3>1. ChainVerifies'
      BY <1>1, <2>5 DEF Die, TypeOK, ChainInv, ChainVerifies
    <3> QED BY <1>1, <2>5, <3>1 DEF Die, TypeOK, ChainInv
  <2> QED BY <1>3, <2>1, <2>2, <2>3, <2>4, <2>5 DEF Step
<1> QED BY <1>2, <1>3 DEF Next

\* Every variable has its type; a timestamp is used once it is taken.
THEOREM EvidenceTypes == Spec => []TypeOK
<1>1. Init => TypeOK
  BY ChainInit DEF ChainInv
<1> QED BY <1>1, TypeStep, PTL DEF Spec

\* The inductive invariant: what is in a file and what a command is about to write verify
\* (read, link and write of Invoke-EvidenceSnapshot and Invoke-EvidenceLog).
THEOREM ChainInvariant == Spec => []ChainInv
BY ChainInit, ChainStep, PTL DEF Spec

\* Whatever commands overlap and die, a file that parses holds a chain that verifies.
THEOREM ChainAlwaysVerifies == Spec => []ChainVerifies
<1>1. ChainInv => ChainVerifies
  BY DEF ChainInv
<1> QED BY <1>1, ChainInvariant, PTL

-----------------------------------------------------------------------------
(* UniqueInv *)

LEMMA IdsAppend ==
  ASSUME NEW chain \in Chain, NEW e \in Entry
  PROVE  Ids(Append(chain, e)) = Ids(chain) \cup {e.id}
<1>1. Len(chain) \in Nat /\ DOMAIN chain = 1..Len(chain) /\ DOMAIN Append(chain, e) = 1..(Len(chain) + 1)
  BY DEF Chain
<1>2. \A k \in 1..Len(chain) : Append(chain, e)[k] = chain[k]
  BY DEF Chain
<1>3. Append(chain, e)[Len(chain) + 1] = e
  BY DEF Chain
<1>4. \A k \in 1..(Len(chain) + 1) : k \in 1..Len(chain) \/ k = Len(chain) + 1
  BY <1>1
<1>5. Len(chain) + 1 \in 1..(Len(chain) + 1) /\ 1..Len(chain) \subseteq 1..(Len(chain) + 1)
  BY <1>1
<1> HIDE DEF Chain
<1> QED BY <1>1, <1>2, <1>3, <1>4, <1>5 DEF Ids

LEMMA DistinctAppend ==
  ASSUME NEW chain \in Chain, NEW e \in Entry, Distinct(chain), e.id \notin Ids(chain)
  PROVE  Distinct(Append(chain, e))
<1>1. Len(chain) \in Nat /\ DOMAIN chain = 1..Len(chain) /\ DOMAIN Append(chain, e) = 1..(Len(chain) + 1)
  BY DEF Chain
<1>2. \A k \in 1..Len(chain) : Append(chain, e)[k] = chain[k] /\ chain[k].id # e.id
  BY <1>1 DEF Chain, Ids
<1>3. Append(chain, e)[Len(chain) + 1] = e
  BY DEF Chain
<1>4. \A k \in 1..(Len(chain) + 1) : k \in 1..Len(chain) \/ k = Len(chain) + 1
  BY <1>1
<1> QED BY <1>1, <1>2, <1>3, <1>4 DEF Distinct

\* Membership in Owned, without the union.
LEMMA OwnedBy ==
  ASSUME NEW f, NEW i
  PROVE  i \in Owned(f) <=>
           \/ file[f] # Garbled /\ i \in Ids(file[f])
           \/ \E c \in Commands : Busy(c, f) /\ i \in Ids(Pending(c))
BY DEF Owned

LEMMA UniqueInit == Init => UniqueInv
<1> SUFFICES ASSUME Init PROVE UniqueInv
  OBVIOUS
<1>1. TypeOK
  BY ChainInit DEF ChainInv
<1>2. \A f \in Files : file[f] = <<>>
  BY DEF Init
<1>3. Ids(<<>>) = {} /\ Distinct(<<>>)
  BY DEF Ids, Distinct
<1>4. \A c \in Commands : pc[c] = "idle"
  BY DEF Init
<1>5. \A f \in Files : Owned(f) = {}
  BY <1>2, <1>3, <1>4 DEF Owned, Busy
<1> QED BY <1>1, <1>2, <1>3, <1>4, <1>5 DEF UniqueInv

LEMMA UniqueStep == UniqueInv /\ [Next]_vars => UniqueInv'
<1> SUFFICES ASSUME UniqueInv, [Next]_vars PROVE UniqueInv'
  OBVIOUS
<1>1. TypeOK /\ TypeOK'
  BY TypeStep DEF UniqueInv
<1>2. CASE UNCHANGED vars
  BY <1>1, <1>2 DEF vars, UniqueInv, Owned, Busy, Pending
<1>3. ASSUME NEW c \in Commands, Step(c) PROVE UniqueInv'
  <2>0. ASSUME nextId' = nextId,
               \A f \in Files : Owned(f)' \subseteq Owned(f),
               \A f \in Files : file'[f] # Garbled => Distinct(file'[f]),
               \A d \in Commands : pc'[d] # "idle" => Distinct(Pending(d)')
        PROVE  UniqueInv'
    BY <1>1, <2>0 DEF UniqueInv
  <2>1. CASE Link(c)
    <3>1. PICK f \in Files : LinkTo(c, f)
      BY <2>1, LinkCases
    <3>2. /\ pc[c] = "idle" /\ pc'[c] = "linked" /\ target'[c] = f /\ base'[c] = file[f]
          /\ entry'[c].id = nextId /\ entry'[c] \in Entry /\ file[f] \in Chain
      BY <1>1, <3>1 DEF LinkTo, TypeOK, NewEntry
    <3>3. \A d \in Commands : d # c =>
            /\ pc'[d] = pc[d] /\ target'[d] = target[d] /\ base'[d] = base[d] /\ entry'[d] = entry[d]
      BY <1>1, <3>1 DEF LinkTo, TypeOK
    <3>4. Pending(c)' = Append(file[f], entry'[c]) /\ Ids(Pending(c)') = Ids(file[f]) \cup {nextId}
      BY <3>2, IdsAppend DEF Pending
    <3>5. Ids(file[f]) \subseteq Owned(f)
      BY <3>1 DEF LinkTo, Owned
    <3>6. ASSUME NEW g \in Files, NEW i \in Owned(g)'
          PROVE  i \in Owned(g) \/ (g = f /\ i = nextId)
      <4>1. CASE file'[g] # Garbled /\ i \in Ids(file'[g])
        BY <3>1, <4>1 DEF LinkTo, Owned
      <4>2. CASE \E d \in Commands : Busy(d, g)' /\ i \in Ids(Pending(d)')
        <5>1. PICK d \in Commands : Busy(d, g)' /\ i \in Ids(Pending(d)')
          BY <4>2
        <5>2. CASE d = c
          BY <3>2, <3>4, <3>5, <5>1, <5>2 DEF Busy
        <5>3. CASE d # c
          <6>1. Busy(d, g) /\ i \in Ids(Pending(d))
            BY <3>3, <5>1, <5>3 DEF Busy, Pending
          <6> QED BY <6>1, OwnedBy
        <5> QED BY <5>2, <5>3
      <4>3. i \in Owned(g)' <=> \/ file'[g] # Garbled /\ i \in Ids(file'[g])
                                \/ \E d \in Commands : Busy(d, g)' /\ i \in Ids(Pending(d)')
        BY DEF Owned
      <4> QED BY <4>1, <4>2, <4>3
    <3>7. nextId \in Nat /\ nextId' = nextId + 1
      BY <1>1, <3>1 DEF TypeOK, LinkTo
    <3>8. \A g \in Files : nextId \notin Owned(g) /\ Owned(g) \subseteq 0..(nextId - 1)
      BY <3>7 DEF UniqueInv
    <3>9. \A g \in Files : Owned(g)' \subseteq 0..(nextId' - 1)
      BY <3>6, <3>7, <3>8
    <3>10. \A g, h \in Files : g # h => Owned(g)' \cap Owned(h)' = {}
      BY <3>6, <3>8 DEF UniqueInv
    <3>11. Distinct(Pending(c)')
      <4>1. Distinct(file[f])
        BY <3>1 DEF LinkTo, UniqueInv
      <4> QED BY <3>2, <3>4, <3>5, <3>8, <4>1, DistinctAppend
    <3>12. \A d \in Commands : pc'[d] # "idle" => Distinct(Pending(d)')
      BY <3>3, <3>11 DEF UniqueInv, Pending
    <3> QED BY <1>1, <3>1, <3>9, <3>10, <3>12 DEF LinkTo, UniqueInv
  <2>2. ASSUME ~Link(c) PROVE UniqueInv'
    <3>1. /\ nextId' = nextId /\ target' = target
          /\ \A d \in Commands : Pending(d)' = Pending(d) /\ (pc'[d] # "idle" => pc[d] # "idle")
      BY <1>1, <1>3, <2>2 DEF Step, Open, Refused, Write, Die, TypeOK, Pending
    <3>2. ASSUME NEW f \in Files, file'[f] # Garbled
          PROVE  \/ file'[f] = <<>>
                 \/ file'[f] = file[f]
                 \/ Busy(c, f) /\ file'[f] = Pending(c)
      BY <1>1, <1>3, <2>2, <3>2 DEF Step, Open, Refused, Write, Die, TypeOK, Busy, Pending
    <3>3. Ids(<<>>) = {} /\ Distinct(<<>>)
      BY DEF Ids, Distinct
    <3>4. ASSUME NEW f \in Files PROVE Owned(f)' \subseteq Owned(f)
      <4> SUFFICES ASSUME NEW i \in Owned(f)' PROVE i \in Owned(f)
        OBVIOUS
      <4>1. CASE file'[f] # Garbled /\ i \in Ids(file'[f])
        BY <3>2, <3>3, <4>1, OwnedBy
      <4>2. CASE \E d \in Commands : Busy(d, f)' /\ i \in Ids(Pending(d)')
        BY <3>1, <4>2, OwnedBy DEF Busy
      <4>3. i \in Owned(f)' <=> \/ file'[f] # Garbled /\ i \in Ids(file'[f])
                                \/ \E d \in Commands : Busy(d, f)' /\ i \in Ids(Pending(d)')
        BY DEF Owned
      <4> QED BY <4>1, <4>2, <4>3
    <3>5. \A f \in Files : file'[f] # Garbled => Distinct(file'[f])
      BY <3>2, <3>3 DEF UniqueInv, Busy
    <3>6. \A d \in Commands : pc'[d] # "idle" => Distinct(Pending(d)')
      BY <3>1 DEF UniqueInv
    <3> QED BY <2>0, <3>1, <3>4, <3>5, <3>6
  <2> QED BY <2>1, <2>2
<1> QED BY <1>2, <1>3 DEF Next

\* The inductive invariant of the ids: each belongs to one file (the timestamp taken by
\* Invoke-EvidenceSnapshot or Invoke-EvidenceLog for the entry of one command).
THEOREM UniqueInvariant == Spec => []UniqueInv
BY UniqueInit, UniqueStep, PTL DEF Spec

\* Whatever commands overlap and die, no entry is in the files twice.
THEOREM EntriesAreUnique == Spec => []NoEntryTwice
<1>1. UniqueInv => NoEntryTwice
  <2> SUFFICES ASSUME UniqueInv, NEW f \in Files, NEW g \in Files,
                      file[f] # Garbled, file[g] # Garbled,
                      NEW k \in DOMAIN file[f], NEW l \in DOMAIN file[g],
                      file[f][k].id = file[g][l].id
               PROVE  f = g /\ k = l
    BY DEF NoEntryTwice
  <2>1. file[f][k].id \in Owned(f) /\ file[g][l].id \in Owned(g)
    BY DEF Owned, Ids
  <2>2. f = g
    BY <2>1 DEF UniqueInv
  <2> QED BY <2>2 DEF UniqueInv, Distinct
<1> QED BY <1>1, UniqueInvariant, PTL

-----------------------------------------------------------------------------
(* SerialInv and the refinement of AppendOnlyLog *)

Alone(f) == \A c, d \in Commands : Busy(c, f) /\ Busy(d, f) => c = d

\* What a file stands for, when at most one command is under way on it.
LEMMA ContentsOf ==
  ASSUME NEW f \in Files
  PROVE  /\ \A c \in Commands : Alone(f) /\ OpenBy(c, f) => Contents(f) = base[c]
         /\ (\A c \in Commands : ~OpenBy(c, f)) => Contents(f) = file[f]
<1>1. ASSUME NEW c \in Commands, Alone(f), OpenBy(c, f) PROVE Contents(f) = base[c]
  <2>1. Openers(f) = {c}
    BY <1>1 DEF Openers, OpenBy, Busy, Alone
  <2> QED BY <2>1 DEF Contents
<1> QED BY <1>1 DEF Contents, Openers

\* The part of SerialInv that speaks of one file.
SerialOn(f) ==
  /\ Alone(f)
  /\ file[f] # Garbled
  /\ \A c \in Commands : Busy(c, f) =>
       IF pc[c] = "linked" THEN base[c] = file[f] ELSE file[f] = <<>>
  /\ acked[f] \subseteq Ids(Contents(f))

LEMMA SerialParts == SerialInv <=> TypeOK /\ \A f \in Files \ disturbed : SerialOn(f)
BY DEF SerialInv, SerialOn, Alone

LEMMA EmptyNotGarbled == <<>> # Garbled
<1>1. <<>> \in Chain
  BY DEF Chain
<1> QED BY <1>1, EvidenceAssumption

LEMMA SerialInit == Init => SerialInv /\ Abstract!Init
<1> SUFFICES ASSUME Init PROVE SerialInv /\ Abstract!Init
  OBVIOUS
<1>1. TypeOK
  BY ChainInit DEF ChainInv
<1>2. \A f \in Files : Alone(f) /\ \A c \in Commands : ~Busy(c, f)
  BY DEF Init, Alone, Busy
<1>3. \A f \in Files : file[f] = <<>> /\ Contents(f) = <<>> /\ acked[f] = {}
  BY <1>2, ContentsOf DEF Init, OpenBy, Busy
<1>4. <<>> # Garbled
  BY EmptyNotGarbled
<1>5. SerialInv
  BY <1>1, <1>2, <1>3, <1>4, SerialParts DEF SerialOn
<1>6. Abstract!Init
  BY <1>3 DEF Abstract!Init, Init
<1> QED BY <1>5, <1>6

\* A step of a command touches the file it appends to and no other.
Elsewhere(f) ==
  /\ file'[f] = file[f] /\ acked'[f] = acked[f]
  /\ \A d \in Commands : /\ Busy(d, f)' <=> Busy(d, f)
                         /\ Busy(d, f) => pc'[d] = pc[d] /\ base'[d] = base[d]

LEMMA StepElsewhere ==
  ASSUME TypeOK, TypeOK', NEW c \in Commands, Step(c)
  PROVE  /\ \A f \in Files \ {target'[c]} : Elsewhere(f)
         /\ disturbed' = disturbed \/ disturbed' = disturbed \cup {target'[c]}
<1>1. CASE Link(c)
  <2>1. PICK f \in Files : LinkTo(c, f)
    BY <1>1, LinkCases
  <2>2. /\ pc[c] = "idle" /\ target'[c] = f /\ file' = file /\ acked' = acked
        /\ \A d \in Commands : d # c => pc'[d] = pc[d] /\ target'[d] = target[d] /\ base'[d] = base[d]
    BY <2>1 DEF LinkTo, TypeOK
  <2>3. disturbed' = disturbed \/ disturbed' = disturbed \cup {f}
    BY <2>1 DEF LinkTo, Starts
  <2> QED BY <2>2, <2>3 DEF Elsewhere, Busy
<1>2. CASE ~Link(c)
  <2>1. /\ target' = target /\ base' = base /\ pc[c] # "idle"
        /\ \A d \in Commands : d # c => pc'[d] = pc[d]
    BY <1>2 DEF Step, Open, Refused, Write, Die, TypeOK
  <2>2. \A f \in Files \ {target[c]} : file'[f] = file[f] /\ acked'[f] = acked[f]
    BY <1>2 DEF Step, Open, Refused, Write, Die, TypeOK
  <2>3. disturbed' = disturbed \/ disturbed' = disturbed \cup {target[c]}
    BY <1>2 DEF Step, Open, Refused, Write, Die
  <2> QED BY <2>1, <2>2, <2>3 DEF Elsewhere, Busy
<1> QED BY <1>1, <1>2

LEMMA ElsewhereSame ==
  ASSUME NEW f \in Files, Elsewhere(f)
  PROVE  Contents(f)' = Contents(f) /\ (SerialOn(f) => SerialOn(f)')
<1>1. Openers(f)' = Openers(f)
  BY DEF Elsewhere, Busy, OpenBy, Openers
<1>2. Contents(f)' = Contents(f)
  <2>1. CASE Openers(f) = {}
    BY <1>1, <2>1 DEF Contents, Elsewhere
  <2>2. CASE Openers(f) # {}
    <3>1. (CHOOSE c \in Openers(f) : TRUE) \in Openers(f)
      BY <2>2
    <3>2. base'[CHOOSE c \in Openers(f) : TRUE] = base[CHOOSE c \in Openers(f) : TRUE]
      BY <3>1 DEF Openers, OpenBy, Busy, Elsewhere
    <3> QED BY <1>1, <2>2, <3>2 DEF Contents
  <2> QED BY <2>1, <2>2
<1>3. Ids(Contents(f))' = Ids(Contents(f))
  BY <1>2 DEF Ids
<1>4. ASSUME SerialOn(f) PROVE SerialOn(f)'
  <2>1. Alone(f)'
    BY <1>4 DEF SerialOn, Alone, Elsewhere
  <2> QED BY <1>3, <1>4, <2>1 DEF SerialOn, Elsewhere, Busy
<1> QED BY <1>2, <1>4

\* On the file of the step, while it stays undisturbed, the chain it stands for stays or
\* gets the new entry at its end.
LEMMA StepOnTarget ==
  ASSUME TypeOK, TypeOK', NEW c \in Commands, Step(c), NEW f \in Files,
         f = target'[c], f \notin disturbed', SerialOn(f)
  PROVE  /\ SerialOn(f)'
         /\ \/ Contents(f)' = Contents(f)
            \/ /\ Contents(f) \in Chain /\ entry[c] \in Entry /\ disturbed' = disturbed
               /\ Contents(f)' = Append(Contents(f), entry[c])
<1>0. Alone(f) /\ file[f] # Garbled /\ acked[f] \subseteq Ids(Contents(f))
  BY DEF SerialOn
<1>1. CASE Link(c)
  <2>1. PICK g \in Files : LinkTo(c, g)
    BY <1>1, LinkCases
  <2>2. /\ pc'[c] = "linked" /\ target'[c] = f /\ base'[c] = file[f] /\ g = f
        /\ file' = file /\ acked' = acked
        /\ \A d \in Commands : d # c => pc'[d] = pc[d] /\ target'[d] = target[d] /\ base'[d] = base[d]
    BY <2>1 DEF LinkTo, TypeOK
  <2>3. \A d \in Commands : ~Busy(d, f)
    BY <2>1, <2>2 DEF LinkTo, Starts
  <2>4. \A d \in Commands : Busy(d, f)' <=> d = c
    BY <2>2, <2>3 DEF Busy
  <2>5. \A d \in Commands : ~OpenBy(d, f) /\ ~OpenBy(d, f)'
    BY <2>2, <2>3 DEF Busy, OpenBy
  <2>6. Contents(f)' = Contents(f)
    BY <2>2, <2>5 DEF Contents, Openers
  <2>7. Ids(Contents(f))' = Ids(Contents(f))
    BY <2>6 DEF Ids
  <2>8. Alone(f)'
    BY <2>4 DEF Alone
  <2> QED BY <1>0, <2>2, <2>4, <2>6, <2>7, <2>8 DEF SerialOn
<1>2. ASSUME ~Link(c)
      PROVE  /\ target' = target /\ base' = base /\ Busy(c, f)
             /\ \A d \in Commands : Busy(d, f) => d = c
             /\ \A d \in Commands : Busy(d, f)' => d = c
             /\ Alone(f)'
  <2>1. /\ target' = target /\ base' = base /\ pc[c] # "idle"
        /\ \A d \in Commands : d # c => pc'[d] = pc[d]
    BY <1>2 DEF Step, Open, Refused, Write, Die, TypeOK
  <2>2. Busy(c, f) /\ \A d \in Commands : Busy(d, f) => d = c
    BY <1>0, <2>1 DEF Busy, Alone
  <2>3. \A d \in Commands : Busy(d, f)' => d = c
    BY <2>1, <2>2 DEF Busy
  <2> QED BY <2>1, <2>2, <2>3 DEF Alone
<1>3. CASE Open(c)
  <2>0. ~Link(c)
    BY <1>3 DEF Open, Link
  <2>1. /\ pc[c] = "linked" /\ pc'[c] = "opened" /\ acked' = acked /\ base' = base
        /\ target[c] = f /\ target' = target /\ file'[f] = <<>> /\ base[c] = file[f]
    BY <1>2, <1>3, <2>0 DEF Open, TypeOK, SerialOn
  <2>2. \A d \in Commands : ~OpenBy(d, f)
    BY <1>2, <2>0, <2>1 DEF OpenBy, Busy
  <2>3. Contents(f) = file[f]
    BY <2>2, ContentsOf
  <2>4. Openers(f)' = {c}
    BY <1>2, <2>0, <2>1 DEF Openers, OpenBy, Busy
  <2>6. Contents(f)' = base[c]
    BY <2>1, <2>4 DEF Contents
  <2>7. Contents(f)' = Contents(f)
    BY <2>1, <2>3, <2>6
  <2>8. Ids(Contents(f))' = Ids(Contents(f))
    BY <2>7 DEF Ids
  <2> QED BY <1>0, <1>2, <2>0, <2>1, <2>7, <2>8, EmptyNotGarbled DEF SerialOn
<1>4. CASE Refused(c)
  <2>1. ~Link(c) /\ pc[c] = "linked"
    BY <1>4 DEF Refused, Link
  <2>2. PICK d \in Commands : OpenBy(d, f)
    BY <1>2, <1>4, <2>1 DEF Refused
  <2>3. d = c
    BY <1>2, <2>1, <2>2 DEF OpenBy, Busy
  <2> QED BY <2>1, <2>2, <2>3 DEF OpenBy
<1>5. CASE Write(c)
  <2>0. ~Link(c)
    BY <1>5 DEF Write, Link
  <2>1. /\ pc[c] = "opened" /\ pc'[c] = "idle" /\ target[c] = f /\ target' = target
        /\ disturbed' = disturbed /\ acked'[f] = acked[f] \cup {entry[c].id}
    BY <1>2, <1>5, <2>0 DEF Write, TypeOK
  <2>2. file[f] = <<>>
    BY <1>2, <2>0, <2>1 DEF SerialOn
  <2>3. base[c] \in Chain /\ entry[c] \in Entry /\ Append(base[c], entry[c]) \in Chain
    BY PendingType DEF TypeOK, Pending
  <2>4. file'[f] = Append(base[c], entry[c])
    BY <1>5, <2>1, <2>2 DEF Write, TypeOK
  <2>5. Contents(f) = base[c]
    BY <1>0, <2>1, ContentsOf DEF OpenBy
  <2>6. \A d \in Commands : ~Busy(d, f)'
    BY <1>2, <2>0, <2>1 DEF Busy
  <2>7. Contents(f)' = Append(base[c], entry[c])
    BY <2>4, <2>6 DEF Contents, Openers, OpenBy, Busy
  <2>8. Ids(Append(base[c], entry[c])) = Ids(base[c]) \cup {entry[c].id}
    BY <2>3, IdsAppend
  <2>9. Ids(Contents(f))' = Ids(base[c]) \cup {entry[c].id} /\ Ids(Contents(f)) = Ids(base[c])
    BY <2>5, <2>7, <2>8 DEF Ids
  <2>10. file'[f] # Garbled
    BY <2>3, <2>4, EvidenceAssumption
  <2>11. SerialOn(f)'
    BY <1>0, <1>2, <2>0, <2>1, <2>6, <2>9, <2>10 DEF SerialOn
  <2> QED BY <2>1, <2>3, <2>5, <2>7, <2>11
<1>6. CASE Die(c)
  <2>0. ~Link(c)
    BY <1>6 DEF Die, Link
  <2>1. /\ pc[c] = "linked" /\ pc'[c] = "idle" /\ file' = file /\ acked' = acked
        /\ target[c] = f /\ target' = target
    BY <1>2, <1>6, <2>0 DEF Die, TypeOK
  <2>2. \A d \in Commands : ~Busy(d, f)'
    BY <1>2, <2>0, <2>1 DEF Busy
  <2>3. \A d \in Commands : ~OpenBy(d, f) /\ ~OpenBy(d, f)'
    BY <1>2, <2>0, <2>1, <2>2 DEF Busy, OpenBy
  <2>4. Contents(f)' = Contents(f)
    BY <2>1, <2>3 DEF Contents, Openers
  <2>5. Ids(Contents(f))' = Ids(Contents(f))
    BY <2>4 DEF Ids
  <2> QED BY <1>0, <1>2, <2>0, <2>1, <2>2, <2>4, <2>5 DEF SerialOn
<1> QED BY <1>1, <1>3, <1>4, <1>5, <1>6 DEF Step

LEMMA SerialStep == SerialInv /\ [Next]_vars => SerialInv'
<1> SUFFICES ASSUME SerialInv, [Next]_vars PROVE SerialInv'
  OBVIOUS
<1>1. TypeOK /\ TypeOK'
  BY TypeStep DEF SerialInv
<1>2. CASE UNCHANGED vars
  <2>1. \A f \in Files : Contents(f)' = Contents(f)
    BY <1>2 DEF vars, Contents, Openers, OpenBy
  <2>2. \A f \in Files : Ids(Contents(f))' = Ids(Contents(f))
    BY <2>1 DEF Ids
  <2> QED BY <1>1, <1>2, <2>2 DEF vars, SerialInv, Busy
<1>3. ASSUME NEW c \in Commands, Step(c) PROVE SerialInv'
  <2>1. \A f \in Files \ disturbed : SerialOn(f)
    BY SerialParts
  <2>2. ASSUME NEW f \in Files \ disturbed' PROVE SerialOn(f)'
    <3>1. f \notin disturbed
      BY <1>1, <1>3, StepElsewhere
    <3>2. CASE f = target'[c]
      BY <1>1, <1>3, <2>1, <3>1, <3>2, StepOnTarget
    <3>3. CASE f # target'[c]
      BY <1>1, <1>3, <2>1, <3>1, <3>3, StepElsewhere, ElsewhereSame
    <3> QED BY <3>2, <3>3
  <2>3. SerialInv' <=> TypeOK' /\ \A f \in Files \ disturbed' : SerialOn(f)'
    BY DEF SerialInv, SerialOn, Alone
  <2> QED BY <1>1, <2>2, <2>3
<1> QED BY <1>2, <1>3 DEF Next

\* Every step grows or spoils the log of one file, or leaves the logs alone.
LEMMA RefinementStep == SerialInv /\ [Next]_vars => [Abstract!Next]_(Abstract!vars)
<1> SUFFICES ASSUME SerialInv, [Next]_vars PROVE [Abstract!Next]_(Abstract!vars)
  OBVIOUS
<1> DEFINE before == [f \in Files |-> Contents(f)]
           after == [f \in Files |-> Contents(f)']
<1>1. TypeOK /\ TypeOK'
  BY TypeStep DEF SerialInv
<1>2. CASE UNCHANGED vars
  <2>1. \A f \in Files : Contents(f)' = Contents(f)
    BY <1>2 DEF vars, Contents, Openers, OpenBy
  <2>2. before = after
    BY <2>1
  <2> QED BY <1>2, <2>2 DEF vars, Abstract!vars
<1>3. ASSUME NEW c \in Commands, Step(c) PROVE [Abstract!Next]_(Abstract!vars)
  <2>1. PICK f \in Files : f = target'[c]
    BY <1>1 DEF TypeOK
  <2>2. \A g \in Files \ {f} : Contents(g)' = Contents(g)
    BY <1>1, <1>3, <2>1, StepElsewhere, ElsewhereSame
  <2>3. after = [before EXCEPT ![f] = after[f]]
    BY <2>1, <2>2
  <2>4. CASE disturbed' = disturbed \cup {f}
    <3>1. Abstract!Spoil(f)
      BY <2>3, <2>4 DEF Abstract!Spoil
    <3> QED BY <2>1, <3>1 DEF Abstract!Next
  <2>5. CASE disturbed' = disturbed /\ f \notin disturbed
    <3>1. \/ Contents(f)' = Contents(f)
          \/ /\ Contents(f) \in Chain /\ entry[c] \in Entry
             /\ Contents(f)' = Append(Contents(f), entry[c])
      BY <1>1, <1>3, <2>1, <2>5, SerialParts, StepOnTarget
    <3>2. CASE Contents(f)' = Contents(f)
      <4>1. after = before
        BY <2>1, <2>2, <3>2
      <4> QED BY <2>5, <4>1 DEF Abstract!vars
    <3>3. CASE /\ Contents(f) \in Chain /\ entry[c] \in Entry
               /\ Contents(f)' = Append(Contents(f), entry[c])
      <4>1. before[f] = Contents(f) /\ after[f] = Append(Contents(f), entry[c])
        BY <2>1, <3>3
      <4>2. /\ Len(after[f]) = Len(before[f]) + 1
            /\ after[f][Len(before[f]) + 1] = entry[c]
        BY <3>3, <4>1 DEF Chain
      <4>3. after = [before EXCEPT ![f] = Append(before[f], after[f][Len(before[f]) + 1])]
        BY <2>3, <4>1, <4>2
      <4>4. Abstract!Grow(f)
        <5> HIDE DEF after, before
        <5> QED BY <2>5, <4>2, <4>3 DEF Abstract!Grow, after, before
      <4> QED BY <2>1, <4>4 DEF Abstract!Next
    <3> QED BY <3>1, <3>2, <3>3
  <2> QED BY <1>1, <1>3, <2>1, <2>4, <2>5, StepElsewhere
<1> QED BY <1>2, <1>3 DEF Next

\* While no commands have overlapped on a file and none has died with it open, a command
\* has read what the file holds and everything acknowledged is there (Invoke-EvidenceLog).
THEOREM SerialInvariant == Spec => []SerialInv
<1>1. Init => SerialInv
  BY SerialInit
<1> QED BY <1>1, SerialStep, PTL DEF Spec

\* The chains implement the append-only log that docs/evidence.md promises, each until
\* its file is disturbed: entries are only ever added at the end of one chain.
THEOREM ChainsAreAppendOnly == Spec => AppendOnly
<1>1. Init => Abstract!Init
  BY SerialInit
<1> QED BY <1>1, RefinementStep, SerialInvariant, PTL DEF Spec, AppendOnly, Abstract!Spec

\* ... so that until then no entry whose command reported success is lost from its file.
THEOREM AcknowledgedIsKept == Spec => []AckedKept
<1>1. SerialInv => AckedKept
  BY SerialParts, ContentsOf DEF SerialOn, AckedKept
<1> QED BY <1>1, SerialInvariant, PTL
=============================================================================
