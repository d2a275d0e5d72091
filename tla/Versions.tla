------------------------------ MODULE Versions ------------------------------
(***************************************************************************)
(* leveldb's Version: which tables make up the database, level by level.   *)
(* A version v is a function from levels to sequences of file metadata;    *)
(* the tables themselves are a function from file numbers to the sets of   *)
(* internal keys they hold.  Versions are immutable, so every operation is *)
(* an operator.  A user key that the code passes as a pointer which may be *)
(* null is a set of at most one key; sizes count entries, not bytes.       *)
(***************************************************************************)
EXTENDS InternalKeys, SequencesExt

CONSTANTS
    kNumLevels,             \* 7 in the code
    kL0_CompactionTrigger,  \* 4
    kMaxMemCompactLevel,    \* 2
    LevelOneLimit,          \* MaxBytesForLevel(1): 10 MB
    MaxFileSize,            \* options.max_file_size: 2 MB
    GrandParentFactor,      \* 10
    ExpandedFactor          \* 25

ASSUME VersionsAssumption ==
    /\ kNumLevels \in Nat \ {0, 1}
    /\ kMaxMemCompactLevel \in 0..(kNumLevels - 1)
    /\ {kL0_CompactionTrigger, LevelOneLimit, MaxFileSize} \subseteq Nat \ {0}
    /\ {GrandParentFactor, ExpandedFactor} \subseteq Nat

Levels == 0..(kNumLevels - 1)

EmptyVersion == [level \in Levels |-> <<>>]

FileMetaData(number, keys) ==
    [number |-> number, size |-> Cardinality(keys),
     smallest |-> SmallestOf(keys), largest |-> LargestOf(keys)]

(* Files by number: with one more, or with others that replace those of    *)
(* the same numbers.                                                       *)
With(f, n, x) == [m \in DOMAIN f \cup {n} |-> IF m = n THEN x ELSE f[m]]
Over(new, f) == [m \in DOMAIN new \cup DOMAIN f |-> IF m \in DOMAIN new THEN new[m] ELSE f[m]]

FilesOf(v) == UNION {ToSet(v[level]) : level \in Levels}
Numbers(files) == {f.number : f \in ToSet(files)}
TotalFileSize(files) == FoldSeq(LAMBDA f, sum : sum + f.size, 0, files)

MaxGrandParentOverlapBytes == GrandParentFactor * MaxFileSize
ExpandedCompactionByteSizeLimit == ExpandedFactor * MaxFileSize
MaxBytesForLevel(level) ==
    LET bytes[l \in 0..level] == IF l <= 1 THEN LevelOneLimit ELSE 10 * bytes[l - 1]
    IN bytes[level]

-----------------------------------------------------------------------------
(* Looking for files.                                                      *)

Ascending(numbers) == Ranked(numbers, <)

FilesAt(files, indices) == [n \in DOMAIN indices |-> files[indices[n]]]

(* The files that are wanted, in the order they have. *)
Where(files, Wanted(_)) ==
    FilesAt(files, Ascending({i \in DOMAIN files : Wanted(files[i])}))

(* One turn of a binary search for the first file whose largest key is not *)
(* before key.                                                             *)
Halved(files, key, s) ==
    LET mid == (s.left + s.right) \div 2
    IN CASE s.left >= s.right -> s
         [] s.left < s.right /\ IKLess(files[mid + 1].largest, key) -> [s EXCEPT !.left = mid + 1]
         [] OTHER -> [s EXCEPT !.right = mid]

(* The index, from 0, of that file; Len(files) when there is none.  No     *)
(* search takes more turns than there are files.                           *)
FindFile(files, key) ==
    LET turn[n \in 0..Len(files)] ==
            IF n = 0 THEN [left |-> 0, right |-> Len(files)] ELSE Halved(files, key, turn[n - 1])
    IN turn[Len(files)].right

AfterFile(user_key, f) == \E k \in user_key : k > f.largest.user
BeforeFile(user_key, f) == \E k \in user_key : k < f.smallest.user

SomeFileOverlapsRange(disjoint_sorted_files, files, smallest, largest) ==
    IF ~disjoint_sorted_files
    THEN \E f \in ToSet(files) : ~AfterFile(smallest, f) /\ ~BeforeFile(largest, f)
    ELSE LET index == IF smallest = {} THEN 0
                      ELSE FindFile(files, LookupKey(CHOOSE k \in smallest : TRUE,
                                                     kMaxSequenceNumber))
         IN index < Len(files) /\ ~BeforeFile(largest, files[index + 1])

OverlapInLevel(v, level, smallest, largest) ==
    SomeFileOverlapsRange(level > 0, v[level], smallest, largest)

(* The files that overlap the user keys of a range. *)
FilesInRange(files, range) ==
    Where(files, LAMBDA f : ~AfterFile(range.begin, f) /\ ~BeforeFile(range.end, f))

(* A range widened by the files that reach out of it. *)
Reaching(range, found) ==
    LET begins == range.begin \cup {f.smallest.user : f \in found}
        ends == range.end \cup {f.largest.user : f \in found}
    IN [begin |-> IF range.begin = {} THEN {} ELSE {k \in begins : \A l \in begins : k <= l},
        end |-> IF range.end = {} THEN {} ELSE {k \in ends : \A l \in ends : k >= l}]

Widened(files, range) == Reaching(range, ToSet(FilesInRange(files, range)))

(* The files of a level that overlap a range, which only level 0 widens:   *)
(* there the search starts again until no file reaches out of it.          *)
GetOverlappingInputs(v, level, begin, end) ==
    LET range[n \in 0..Len(v[level])] ==
            IF n = 0 THEN [begin |-> begin, end |-> end]
            ELSE Widened(v[level], range[n - 1])
    IN FilesInRange(v[level], range[IF level = 0 THEN Len(v[0]) ELSE 0])

GetRange(files) == [smallest |-> SmallestOf({f.smallest : f \in ToSet(files)}),
                    largest |-> LargestOf({f.largest : f \in ToSet(files)})]

(* The overlapping files of a level, given a range of internal keys. *)
OverlappingFiles(v, level, range) ==
    GetOverlappingInputs(v, level, {range.smallest.user}, {range.largest.user})

-----------------------------------------------------------------------------
(* Reading.                                                                *)

NewestFirst(files) == Ranked(files, LAMBDA a, b : a.number > b.number)

(* The files a read of a user key opens until it finds an entry, in order: *)
(* the overlapping files of level 0, the newest first, then at most one of *)
(* every other level.                                                      *)
ForEachOverlapping(v, user_key, internal_key) ==
    LET inRange(f) == f.smallest.user <= user_key /\ user_key <= f.largest.user
        At(level, files) ==
            [i \in 1..Len(files) |-> [level |-> level, file |-> files[i]]]
        search(level) ==
            LET index == FindFile(v[level], internal_key)
            IN IF index < Len(v[level]) /\ v[level][index + 1].smallest.user <= user_key
               THEN <<v[level][index + 1]>> ELSE <<>>
    IN At(0, NewestFirst({f \in ToSet(v[0]) : inRange(f)}))
       \o FlattenSeq([level \in 1..(kNumLevels - 1) |-> At(level, search(level))])

(* Version::Get: the entry found, if any, and the files it read. *)
GetFrom(v, tables, key) ==
    LET files == ForEachOverlapping(v, key.user, key)
        hits == {i \in DOMAIN files : Lookup(tables[files[i].file.number], key) # {}}
        reads == IF hits = {} THEN Len(files) ELSE CHOOSE i \in hits : \A j \in hits : i <= j
    IN [found |-> IF hits = {} THEN {}
                  ELSE Lookup(tables[files[reads].file.number], key),
        seeks |-> SubSeq(files, 1, reads)]

(* GetStats: a read of more than one file is charged to the first. *)
SeekCharge(read) == IF Len(read.seeks) < 2 THEN {} ELSE {read.seeks[1]}

(* Version::RecordReadSample: a sample that falls into two files is charged to the first. *)
ReadSample(v, key) ==
    SeekCharge([seeks |-> ForEachOverlapping(v, key.user, key)])

-----------------------------------------------------------------------------
(* Edits.                                                                  *)

BySmallestKey(f1, f2) ==
    \/ IKLess(f1.smallest, f2.smallest)
    \/ f1.smallest = f2.smallest /\ f1.number < f2.number

InFileOrder(files) == Ranked(files, BySmallestKey)

(* An edit names files by level: deleted, a set of <<level, number>>, and  *)
(* added, a set of <<level, metadata>>.  A number that is both is added.   *)
SaveTo(v, deleted, added) ==
    [level \in Levels |->
        LET new == {a[2] : a \in {x \in added : x[1] = level}}
            gone == {d[2] : d \in {x \in deleted : x[1] = level}}
                        \ {f.number : f \in new}
            kept == {f \in ToSet(v[level]) : f.number \notin gone}
            all == kept \cup new
        IN InFileOrder(all)]

-----------------------------------------------------------------------------
(* Choosing compactions.                                                   *)

(* Finalize: the level that needs a compaction most, and how badly, as a   *)
(* fraction; a later level only wins by a greater score.                   *)
Score(v, level) == IF level = 0
                   THEN <<Len(v[0]), kL0_CompactionTrigger>>
                   ELSE <<TotalFileSize(v[level]), MaxBytesForLevel(level)>>

WorseLevel(v, level, other) ==
    LET s == Score(v, level)
        t == Score(v, other)
    IN IF s[1] * t[2] > t[1] * s[2] THEN level ELSE other

CompactionLevel(v) ==
    LET worst[level \in 0..(kNumLevels - 2)] ==
            IF level = 0 THEN 0 ELSE WorseLevel(v, level, worst[level - 1])
    IN worst[kNumLevels - 2]

SizeCompaction(v) == LET s == Score(v, CompactionLevel(v)) IN s[1] >= s[2]

\* Mutant: only level 0 is asked whether it overlaps
PickLevelUnasked(v, smallest_user_key, largest_user_key) ==
    IF OverlapInLevel(v, 0, {smallest_user_key}, {largest_user_key}) THEN 0
    ELSE kMaxMemCompactLevel

(* Where a memtable's table goes: as deep as nothing overlaps it, while it *)
(* does not overlap too much of the level below.                           *)
PickLevelForMemTableOutput(v, smallest_user_key, largest_user_key) ==
    LET b == {smallest_user_key}
        e == {largest_user_key}
        mayPass(level) ==
            /\ ~OverlapInLevel(v, level + 1, b, e)
            /\ level + 2 < kNumLevels =>
                   TotalFileSize(GetOverlappingInputs(v, level + 2, b, e))
                       <= MaxGrandParentOverlapBytes
    IN IF OverlapInLevel(v, 0, b, e) THEN 0
       ELSE CHOOSE level \in 0..kMaxMemCompactLevel :
                /\ \A below \in 0..(level - 1) : mayPass(below)
                /\ level < kMaxMemCompactLevel => ~mayPass(level)

(* The files of a level that go on with the user key another one ends in.  *)
FindSmallestBoundaryFile(level_files, largest_key) ==
    LET boundary == {f \in ToSet(level_files) :
                        /\ IKLess(largest_key, f.smallest)
                        /\ f.smallest.user = largest_key.user}
    IN {f \in boundary : \A g \in boundary : IKLeq(f.smallest, g.smallest)}

\* Mutant: a user key may be split between two levels
AddBoundaryInputsNone(level_files, compaction_files) == compaction_files

WithBoundary(level_files, g) ==
    LET b == FindSmallestBoundaryFile(level_files, g.next)
    IN IF b = {} THEN g
       ELSE [files |-> Append(g.files, CHOOSE f \in b : TRUE),
             next |-> (CHOOSE f \in b : TRUE).largest]

AddBoundaryInputs(level_files, compaction_files) ==
    LET grown[n \in 0..Len(level_files)] ==
            IF n = 0 THEN [files |-> compaction_files, next |-> GetRange(compaction_files).largest]
            ELSE WithBoundary(level_files, grown[n - 1])
    IN IF compaction_files = <<>> THEN <<>> ELSE grown[Len(level_files)].files

(* The files of level that are compacted, and those of the next they overlap. *)
WithOverlapping(v, level, inputs0) ==
    <<inputs0, OverlappingFiles(v, level + 1, GetRange(inputs0))>>

(* All files of level within the range of both, and those they overlap.    *)
Expanded(v, level, inputs) ==
    WithOverlapping(v, level,
        AddBoundaryInputs(v[level], OverlappingFiles(v, level, GetRange(inputs[1] \o inputs[2]))))

(* The inputs grow in level if they do not grow in level + 1. *)
MayExpand(inputs, expanded) ==
    /\ inputs[2] # <<>>
    /\ Len(expanded[1]) > Len(inputs[1])
    /\ TotalFileSize(inputs[2]) + TotalFileSize(expanded[1]) < ExpandedCompactionByteSizeLimit
    /\ Len(expanded[2]) = Len(inputs[2])

WithExpanded(v, level, least) ==
    LET expanded == Expanded(v, level, least)
    IN IF MayExpand(least, expanded) THEN expanded ELSE least

(* pointer is where the next compaction of the level will begin. *)
Compaction(v, level, inputs) ==
    [level |-> level, inputs |-> inputs, version |-> v,
     grandparents |-> IF level + 2 < kNumLevels
                      THEN OverlappingFiles(v, level + 2, GetRange(inputs[1] \o inputs[2]))
                      ELSE <<>>,
     pointer |-> GetRange(inputs[1]).largest]

(* A compaction of level into level + 1, given the files of level chosen   *)
(* so far.                                                                 *)
SetupOtherInputs(v, level, chosen) ==
    Compaction(v, level,
        WithExpanded(v, level,
            WithOverlapping(v, level, AddBoundaryInputs(v[level], chosen))))

(* The first file of a level after the last compaction's, or its first.    *)
NextFile(v, level, pointers) ==
    LET after == Where(v[level], LAMBDA f : \A p \in pointers[level] : IKLess(p, f.largest))
    IN Head(IF after # <<>> THEN after ELSE v[level])

(* Level 0's files may overlap, so all that overlap the file go with it. *)
CompactionOf(v, level, f) ==
    SetupOtherInputs(v, level, IF level = 0 THEN OverlappingFiles(v, 0, GetRange(<<f>>))
                               ELSE <<f>>)

(* PickCompaction, by size or else for a file that was sought too often.   *)
(* pointers says where the last compaction of each level ended, seek is    *)
(* file_to_compact_ with its level; both are sets of at most one.          *)
PickCompaction(v, pointers, seek) ==
    IF SizeCompaction(v)
    THEN {LET level == CompactionLevel(v) IN CompactionOf(v, level, NextFile(v, level, pointers))}
    ELSE {CompactionOf(v, s.level, s.file) : s \in seek}

(* VersionSet::CompactRange: a manual compaction of a level, cut off where *)
(* the files chosen reach the size of one, except in level 0.              *)
CompactRange(v, level, begin, end) ==
    LET inputs == GetOverlappingInputs(v, level, begin, end)
        full == {i \in DOMAIN inputs : TotalFileSize(SubSeq(inputs, 1, i)) >= MaxFileSize}
        cut == IF level = 0 \/ full = {} THEN inputs
               ELSE SubSeq(inputs, 1, CHOOSE i \in full : \A j \in full : i <= j)
    IN IF inputs = <<>> THEN {} ELSE {SetupOtherInputs(v, level, cut)}
=============================================================================
