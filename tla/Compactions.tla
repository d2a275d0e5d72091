---------------------------- MODULE Compactions ----------------------------
(***************************************************************************)
(* What a leveldb compaction writes: the entries of its input tables in    *)
(* key order, without those nobody can read any more, cut into tables.     *)
(***************************************************************************)
EXTENDS Versions

InputFiles(c) == c.inputs[1] \o c.inputs[2]
InputEntries(c, tables) == UNION {tables[n] : n \in Numbers(InputFiles(c))}

AddInputDeletions(c) ==
    {<<c.level, n>> : n \in Numbers(c.inputs[1])}
        \cup {<<c.level + 1, n>> : n \in Numbers(c.inputs[2])}

IsTrivialMove(c) ==
    /\ Len(c.inputs[1]) = 1
    /\ Len(c.inputs[2]) = 0
    /\ TotalFileSize(c.grandparents) <= MaxGrandParentOverlapBytes

(* No table below the output level can hold the user key: at each level    *)
(* only the first table that does not end before it is asked.              *)
IsBaseLevelForKey(c, user_key) ==
    \A level \in (c.level + 2)..(kNumLevels - 1) :
        LET reach == Where(c.version[level], LAMBDA f : user_key <= f.largest.user)
        IN reach = <<>> \/ user_key < Head(reach).smallest.user

(* ShouldStopBefore: how many grandparents end before key, and how much    *)
(* the current output then overlaps of them.                               *)
PassGrandparents(c, st, key) ==
    LET passed == {i \in DOMAIN c.grandparents :
                       i > st.grandparent /\ IKLess(c.grandparents[i].largest, key)}
    IN [st EXCEPT !.grandparent = st.grandparent + Cardinality(passed),
                  !.overlapped = st.overlapped +
                      (IF st.seen
                       THEN MapThenSumSet(LAMBDA i : c.grandparents[i].size, passed) ELSE 0),
                  !.seen = TRUE]

FinishOutput(st) ==
    IF st.output = {} THEN st
    ELSE [st EXCEPT !.outputs = Append(st.outputs, st.output), !.output = {}]

ShouldStopBefore(c, st, key) ==
    LET s == PassGrandparents(c, st, key)
    IN IF s.overlapped > MaxGrandParentOverlapBytes
       THEN FinishOutput([s EXCEPT !.overlapped = 0]) ELSE s

\* Mutant: of a user key only the newest entry is kept, whoever holds a snapshot
DropOlder(c, last_sequence_for_key, key, smallest_snapshot) ==
    last_sequence_for_key < kMaxSequenceNumber

(* An entry is dropped when a newer one of its user key is visible to the  *)
(* oldest snapshot, or when it is a deletion and nothing older is below.   *)
Drop(c, last_sequence_for_key, key, smallest_snapshot) ==
    \/ last_sequence_for_key <= smallest_snapshot
    \/ /\ key.type = kTypeDeletion
       /\ key.seq <= smallest_snapshot
       /\ IsBaseLevelForKey(c, key.user)

(* One turn of DoCompactionWork's loop. *)
CompactEntry(c, smallest_snapshot, st, key) ==
    LET s == ShouldStopBefore(c, st, key)
        last == IF st.user = {key.user} THEN st.last ELSE kMaxSequenceNumber
        next == [s EXCEPT !.user = {key.user}, !.last = key.seq]
        added == [next EXCEPT !.output = s.output \cup {key}]
    IN CASE Drop(c, last, key, smallest_snapshot) -> next
         [] Cardinality(added.output) >= MaxFileSize -> FinishOutput(added)
         [] OTHER -> added

(* The tables DoCompactionWork writes, as a sequence of sets of entries. *)
CompactionOutputs(c, tables, smallest_snapshot) ==
    LET start == [user |-> {}, last |-> kMaxSequenceNumber, grandparent |-> 0,
                  overlapped |-> 0, seen |-> FALSE, output |-> {}, outputs |-> <<>>]
    IN FinishOutput(FoldLeft(LAMBDA st, key : CompactEntry(c, smallest_snapshot, st, key),
                             start, InKeyOrder(InputEntries(c, tables)))).outputs
=============================================================================
