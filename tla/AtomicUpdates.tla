--------------------------- MODULE AtomicUpdates ---------------------------
(* What a file that every writer reads, clears and writes as a whole promises *)
(* while no two of them are in the middle of that and none is killed there:   *)
(* one update after the other, each of one entry, made of what the ones       *)
(* before have left, and every other entry as it was.                         *)
CONSTANTS
  Entries,         \* what there is an entry for
  Empty,           \* the content at first
  Becomes(_, _)    \* an update may replace this entry by that

VARIABLES content, spoilt

Init == content = Empty /\ spoilt = FALSE

Update(e) ==
  /\ Becomes(content[e], content'[e])
  /\ content' = [content EXCEPT ![e] = content'[e]]

\* Two updates met, or one was cut short: from then on nothing is promised.
Spoil == spoilt' = TRUE

Next == Spoil \/ (UNCHANGED spoilt /\ \E e \in Entries : Update(e))

Spec == Init /\ [][Next]_<<content, spoilt>>
=============================================================================
