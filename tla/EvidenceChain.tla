--------------------------- MODULE EvidenceChain ---------------------------
(***************************************************************************)
(* The evidence chain (cli/commands/workspace/evidence.ps1): two JSON      *)
(* files, snapshot-hashes.json and operation-log.json, each a list of      *)
(* entries that link to their predecessor by hash.                         *)
(*                                                                         *)
(* Every command is a process of its own that reads the whole file, links  *)
(* a new entry to the last one it read, and writes the whole file back     *)
(* with Set-Content, which truncates the file before it writes it.  There  *)
(* is no lock: two commands may overlap, and a command may be killed.      *)
(***************************************************************************)
EXTENDS Naturals, Sequences, FiniteSets

CONSTANTS
  Commands,      \* command processes that may run at once
  Snapshots,     \* the file snapshot-hashes.json
  OperationLog,  \* the file operation-log.json
  Metadata,      \* VM snapshot metadata, hashed into a snapshot entry and not stored in it
  NoMetadata,    \* what a log entry has instead
  MaxEntries,    \* bound: entries created in a behaviour
  Garbled        \* a file that is not JSON

Files == {Snapshots, OperationLog}

\* SHA-256 without collisions: a digest is the sequence of what was hashed into it, each
\* element an entry's content (its id) and metadata; 64 zeros are the digest of nothing.
Digest == Seq(Nat \X (Metadata \cup {NoMetadata}))
Genesis == <<>>
Hash(id, metadata, previous) == Append(previous, <<id, metadata>>)

\* id stands for the timestamp and the fields stored with it.
Entry == [id : Nat, previous_hash : Digest, sha256_hash : Digest]
Chain == Seq(Entry)

ASSUME EvidenceAssumption ==
  /\ Snapshots # OperationLog
  /\ MaxEntries \in Nat
  /\ Garbled \notin Chain
  /\ NoMetadata \notin Metadata

VARIABLES
  file,     \* the chain in each file; <<>> for a missing or an empty file
  pc,       \* where each command is: "idle", "linked" or "opened"
  target,   \* the file it appends to
  base,     \* the chain it read
  entry,    \* the entry it will add
  nextId,   \* the next timestamp
  acked,    \* history: of each file, the ids whose commands reported success
  disturbed \* history: the files on which two commands overlapped or one died with it open

vars == <<file, pc, target, base, entry, nextId, acked, disturbed>>

-----------------------------------------------------------------------------

\* Mutant: the link goes to the first entry.
FirstChainHash(chain) == IF chain = <<>> THEN Genesis ELSE Head(chain).sha256_hash

\* Get-LastChainHash
LastChainHash(chain) ==
  IF chain = <<>> THEN Genesis ELSE chain[Len(chain)].sha256_hash

\* New-EvidenceSnapshotEntry and New-EvidenceLogEntry
NewEntry(id, metadata, previous) ==
  [id |-> id, previous_hash |-> previous, sha256_hash |-> Hash(id, metadata, previous)]

MetadataOf(f) == IF f = Snapshots THEN Metadata ELSE {NoMetadata}

Busy(c, f) == pc[c] # "idle" /\ target[c] = f
OpenBy(c, f) == pc[c] = "opened" /\ target[c] = f

\* A command that starts on f disturbs it when another is under way there.
Starts(c, f) ==
  disturbed' = IF \E d \in Commands : Busy(d, f) THEN disturbed \cup {f} ELSE disturbed

\* Mutant: a chain that does not fit is read as an empty one.
LinkAfresh(c) == \E f \in Files : \E m \in MetadataOf(f) :
  /\ pc[c] = "idle" /\ nextId < MaxEntries
  /\ file[f] # Garbled
  /\ pc' = [pc EXCEPT ![c] = "linked"]
  /\ target' = [target EXCEPT ![c] = f]
  /\ base' = [base EXCEPT ![c] = <<>>]
  /\ entry' = [entry EXCEPT ![c] = NewEntry(nextId, m, LastChainHash(<<>>))]
  /\ nextId' = nextId + 1
  /\ Starts(c, f)
  /\ UNCHANGED <<file, acked>>

\* Invoke-EvidenceSnapshot and Invoke-EvidenceLog up to the write: read the chain, link
\* the new entry.  A file that does not parse ends the command.
Link(c) == \E f \in Files : \E m \in MetadataOf(f) :
  /\ pc[c] = "idle" /\ nextId < MaxEntries
  /\ file[f] # Garbled
  /\ pc' = [pc EXCEPT ![c] = "linked"]
  /\ target' = [target EXCEPT ![c] = f]
  /\ base' = [base EXCEPT ![c] = file[f]]
  /\ entry' = [entry EXCEPT ![c] = NewEntry(nextId, m, LastChainHash(file[f]))]
  /\ nextId' = nextId + 1
  /\ Starts(c, f)
  /\ UNCHANGED <<file, acked>>

\* Set-Content clears the file ...
Open(c) ==
  /\ pc[c] = "linked"
  /\ pc' = [pc EXCEPT ![c] = "opened"]
  /\ file' = [file EXCEPT ![target[c]] = <<>>]
  /\ UNCHANGED <<target, base, entry, nextId, acked, disturbed>>

\* ... unless another command has it open and the system refuses to share it.
Refused(c) ==
  /\ pc[c] = "linked"
  /\ \E d \in Commands : OpenBy(d, target[c])
  /\ pc' = [pc EXCEPT ![c] = "idle"]
  /\ UNCHANGED <<file, target, base, entry, nextId, acked, disturbed>>

\* Mutant: the entry is added to whatever the file holds by now.
WriteAppends(c) ==
  /\ pc[c] = "opened"
  /\ file[target[c]] # Garbled
  /\ file' = [file EXCEPT ![target[c]] = @ \o Append(base[c], entry[c])]
  /\ acked' = [acked EXCEPT ![target[c]] = @ \cup {entry[c].id}]
  /\ pc' = [pc EXCEPT ![c] = "idle"]
  /\ UNCHANGED <<target, base, entry, nextId, disturbed>>

\* ... and then writes what the command has computed.  Over the output of another
\* command that had the file open too, the result may be a mixture.
Write(c) ==
  /\ pc[c] = "opened"
  /\ \/ file' = [file EXCEPT ![target[c]] = Append(base[c], entry[c])]
     \/ file[target[c]] # <<>> /\ file' = [file EXCEPT ![target[c]] = Garbled]
  /\ acked' = [acked EXCEPT ![target[c]] = @ \cup {entry[c].id}]
  /\ pc' = [pc EXCEPT ![c] = "idle"]
  /\ UNCHANGED <<target, base, entry, nextId, disturbed>>

\* The process is killed; between clear and write it leaves the file empty or half written.
Die(c) ==
  /\ pc[c] # "idle"
  /\ pc' = [pc EXCEPT ![c] = "idle"]
  /\ IF pc[c] = "opened"
     THEN /\ file' \in {file, [file EXCEPT ![target[c]] = Garbled]}
          /\ disturbed' = disturbed \cup {target[c]}
     ELSE UNCHANGED <<file, disturbed>>
  /\ UNCHANGED <<target, base, entry, nextId, acked>>

Init ==
  /\ file = [f \in Files |-> <<>>]
  /\ pc = [c \in Commands |-> "idle"]
  /\ target = [c \in Commands |-> Snapshots]
  /\ base = [c \in Commands |-> <<>>]
  /\ entry = [c \in Commands |-> NewEntry(0, NoMetadata, Genesis)]
  /\ nextId = 1
  /\ acked = [f \in Files |-> {}]
  /\ disturbed = {}

Step(c) == Link(c) \/ Open(c) \/ Refused(c) \/ Write(c) \/ Die(c)

Next == \E c \in Commands : Step(c)

Spec == Init /\ [][Next]_vars

-----------------------------------------------------------------------------
(* Properties *)

\* Types; a timestamp is used once it is taken.
TypeOK ==
  /\ file \in [Files -> Chain \cup {Garbled}]
  /\ pc \in [Commands -> {"idle", "linked", "opened"}]
  /\ target \in [Commands -> Files]
  /\ base \in [Commands -> Chain]
  /\ entry \in [Commands -> Entry]
  /\ nextId \in Nat \ {0} /\ acked \in [Files -> SUBSET (1..(nextId - 1))]
  /\ disturbed \subseteq Files
  /\ \A c \in Commands : entry[c].id < nextId /\ (pc[c] # "idle" => entry[c].id > 0)

\* Chain link verification, as docs/evidence.md walks it.
Verifies(chain) ==
  \A k \in DOMAIN chain :
    chain[k].previous_hash = IF k = 1 THEN Genesis ELSE chain[k - 1].sha256_hash

\* Whatever overlaps and whatever dies, a file that parses holds a chain that verifies
\* (Get-LastChainHash with the read, link and write of Invoke-EvidenceLog).
ChainVerifies == \A f \in Files : file[f] # Garbled => Verifies(file[f])

\* What a command is about to write verifies too.
ChainInv ==
  /\ TypeOK
  /\ ChainVerifies
  /\ \A c \in Commands : pc[c] # "idle" =>
       /\ Verifies(base[c])
       /\ entry[c].previous_hash = LastChainHash(base[c])

\* No entry is in the files twice.
NoEntryTwice ==
  \A f, g \in Files : file[f] # Garbled /\ file[g] # Garbled =>
    \A k \in DOMAIN file[f], l \in DOMAIN file[g] :
      file[f][k].id = file[g][l].id => f = g /\ k = l

\* The ids that belong to a file: those in it, and those its commands are about to write.
Ids(chain) == {chain[k].id : k \in DOMAIN chain}
Pending(c) == Append(base[c], entry[c])
Owned(f) ==
  (IF file[f] # Garbled THEN Ids(file[f]) ELSE {})
    \cup UNION {Ids(Pending(c)) : c \in {d \in Commands : Busy(d, f)}}

Distinct(chain) == \A k, l \in DOMAIN chain : chain[k].id = chain[l].id => k = l

\* What makes NoEntryTwice inductive: an id belongs to one file from the moment a command
\* takes it, and a command is about to write no id twice.
UniqueInv ==
  /\ TypeOK
  /\ \A f \in Files : Owned(f) \subseteq 0..(nextId - 1)
  /\ \A f, g \in Files : f # g => Owned(f) \cap Owned(g) = {}
  /\ \A f \in Files : file[f] # Garbled => Distinct(file[f])
  /\ \A c \in Commands : pc[c] # "idle" => Distinct(Pending(c))

\* The chain a file stands for: while a command has it open, the chain that command read.
Openers(f) == {c \in Commands : OpenBy(c, f)}
Contents(f) == IF Openers(f) = {} THEN file[f] ELSE base[CHOOSE c \in Openers(f) : TRUE]

Abstract == INSTANCE AppendOnlyLog WITH
  Logs <- Files, log <- [f \in Files |-> Contents(f)], spoilt <- disturbed

\* Each chain only grows at its end (docs/evidence.md: append-only) until two commands
\* overlap on its file or one dies with it open; commands on the other file do not count.
AppendOnly == Abstract!Spec

\* Until then, an entry whose command reported success stays in its file.
AckedKept ==
  \A f \in Files \ disturbed : (\A c \in Commands : ~OpenBy(c, f)) =>
    file[f] # Garbled /\ acked[f] \subseteq Ids(file[f])

\* What makes it inductive: on an undisturbed file, its one command has read what it
\* holds, it was never garbled, and what was acknowledged is there.
SerialInv ==
  /\ TypeOK
  /\ \A f \in Files \ disturbed :
       /\ \A c, d \in Commands : Busy(c, f) /\ Busy(d, f) => c = d
       /\ file[f] # Garbled
       /\ \A c \in Commands : Busy(c, f) =>
            IF pc[c] = "linked" THEN base[c] = file[f] ELSE file[f] = <<>>
       /\ acked[f] \subseteq Ids(Contents(f))
=============================================================================
