----------------------------- MODULE LSMProofs -----------------------------
(***************************************************************************)
(* The levels of the tree below 0 stay sorted, for every workload, every   *)
(* number of levels and every size of a table, memtable or compaction.     *)
(***************************************************************************)
EXTENDS LSM, VersionLemmas

(* The tree is sound, the memtable could become a table, and a file that   *)
(* was read too often is one of the version, at a level that has another   *)
(* below it.  Reading needs the last part, and so does a compaction, which *)
(* sorts the next level by what the files of the version say of their      *)
(* tables.                                                                 *)
LSMInv ==
    /\ workload \in Workloads
    /\ last_sequence \in 0..Len(workload.writes)
    /\ mem \in KeySets /\ SeqsBounded(mem)
    /\ TreeSound(version, tables, next_file_number)
    /\ \A s \in file_to_compact : s.level \in 0..(kNumLevels - 2) /\ s.file \in ToSet(version[s.level])

(* What the step of a compaction, or of a memtable's, needs. *)
LEMMA TreeParts ==
    ASSUME LSMInv
    PROVE  /\ next_file_number \in Nat /\ DOMAIN tables \subseteq Nat
           /\ tables \in [DOMAIN tables -> Contents]
           /\ VersionSound(version, tables, next_file_number)
BY DEF LSMInv, TreeSound

(* At the start the tree is empty. *)
LEMMA LSMInit == Init => LSMInv
<1> SUFFICES ASSUME Init PROVE LSMInv
  OBVIOUS
<1>1. workload \in Workloads /\ Len(workload.writes) \in Nat
  BY LSMAssumption DEF Init
<1>2. TreeSound(EmptyVersion, <<>>, 1)
  <2>1. VersionSound(EmptyVersion, <<>>, 1)
    BY EmptySound
  <2>2. SortedLevels(EmptyVersion)
    <3>1. \A level \in Levels : EmptyVersion[level] = <<>>
      BY DEF EmptyVersion
    <3> QED
      BY <3>1 DEF SortedLevels, SortedFiles
  <2>3. DOMAIN <<>> = {} /\ <<>> \in [{} -> Contents]
    OBVIOUS
  <2> QED
    BY <2>1, <2>2, <2>3 DEF TreeSound
<1>3. {} \in KeySets /\ SeqsBounded({})
  BY FS_EmptySet DEF KeySets, SeqsBounded
<1> QED
  BY <1>1, <1>2, <1>3 DEF Init, LSMInv

(* A write puts an entry into the memtable whose number a search can reach.*)
LEMMA WriteStep ==
    ASSUME LSMInv, Write
    PROVE  LSMInv'
<1> DEFINE n == last_sequence + 1
           entry == Entry(n)
<1>1. /\ last_sequence \in Nat /\ n \in 1..Len(workload.writes) /\ Len(workload.writes) \in Nat
      /\ workload.writes \in Seq(Nat \X {kTypeDeletion, kTypeValue})
      /\ Len(workload.writes) < kMaxSequenceNumber
  BY LSMAssumption DEF LSMInv, Write
<1>2. workload.writes[n] \in Nat \X {kTypeDeletion, kTypeValue}
  BY <1>1
<1>3. entry \in Keys /\ entry.seq <= kMaxSequenceNumber
  <2>1. entry = [user |-> workload.writes[n][1], seq |-> n, type |-> workload.writes[n][2]]
    BY DEF Entry, InternalKey
  <2>2. workload.writes[n][1] \in Nat /\ workload.writes[n][2] \in {kTypeDeletion, kTypeValue}
    BY <1>2
  <2> QED
    BY <1>1, <2>1, <2>2, MaxSequenceAssumption DEF Keys
<1> HIDE DEF entry
<1>4. /\ mem' = mem \cup {entry} /\ last_sequence' = n
      /\ UNCHANGED <<version, tables, next_file_number, file_to_compact, workload>>
  BY DEF Write, entry
<1>5. mem' \in KeySets /\ SeqsBounded(mem')
  <2>1. mem' \subseteq Keys /\ SeqsBounded(mem')
    BY <1>3, <1>4 DEF LSMInv, KeySets, SeqsBounded
  <2>2. IsFiniteSet(mem')
    BY <1>4, FS_AddElement DEF LSMInv, KeySets
  <2> QED
    BY <2>1, <2>2 DEF KeySets
<1> QED
  BY <1>1, <1>4, <1>5 DEF LSMInv

(* A memtable becomes a table where nothing overlaps it, or in level 0. *)
LEMMA CompactMemTableStep ==
    ASSUME LSMInv, CompactMemTable
    PROVE  LSMInv'
<1> DEFINE file == FileMetaData(next_file_number, mem)
           level == PickLevelForMemTableOutput(version, file.smallest.user, file.largest.user)
           w == SaveTo(version, {}, {<<level, file>>})
           contents == With(tables, next_file_number, mem)
<1>1. mem \in Contents
  BY DEF LSMInv, CompactMemTable, Contents
<1>2. TreeSound(w, TablesOf(w, contents), next_file_number + 1)
  BY <1>1, MemTree DEF LSMInv
<1>3. version' = w /\ tables' = TablesOf(w, contents) /\ file_to_compact' = {}
  BY DEF CompactMemTable, Install, TablesOf
<1>4. next_file_number' = next_file_number + 1 /\ mem' = {} /\ UNCHANGED <<last_sequence, workload>>
  BY DEF CompactMemTable
<1> HIDE DEF w, contents
<1>5. {} \in KeySets /\ SeqsBounded({})
  BY FS_EmptySet DEF KeySets, SeqsBounded
<1> QED
  BY <1>2, <1>3, <1>4, <1>5 DEF LSMInv

(* What a compaction writes keeps the next level sorted, *)
LEMMA WorkStep ==
    ASSUME LSMInv, NEW c, CompactionSound(c, tables, next_file_number), ReachesDown(version, c),
           DoCompactionWork(c), UNCHANGED <<mem, last_sequence, workload>>
    PROVE  LSMInv'
<1> DEFINE outputs == CompactionOutputs(c, tables, SmallestSnapshot)
           number(i) == next_file_number + i - 1
           new == [n \in next_file_number..number(Len(outputs)) |->
                       outputs[n - next_file_number + 1]]
           w == SaveTo(version, AddInputDeletions(c),
                       {<<c.level + 1, FileMetaData(number(i), outputs[i])>> : i \in DOMAIN outputs})
           contents == Over(new, tables)
<1>1. TreeSound(w, TablesOf(w, contents), next_file_number + Len(outputs))
  BY WorkTree DEF LSMInv
<1>2. version' = w /\ tables' = TablesOf(w, contents) /\ file_to_compact' = {}
  BY DEF DoCompactionWork, Install, TablesOf
<1>3. next_file_number' = next_file_number + Len(outputs)
  BY DEF DoCompactionWork
<1> HIDE DEF w, contents, outputs
<1> QED
  BY <1>1, <1>2, <1>3 DEF LSMInv

(* and so does a file that only moves down. *)
LEMMA MoveStep ==
    ASSUME LSMInv, NEW c, CompactionSound(c, tables, next_file_number), ReachesDown(version, c),
           IsTrivialMove(c), TrivialMove(c), UNCHANGED <<mem, last_sequence, workload>>
    PROVE  LSMInv'
<1> DEFINE f == Head(c.inputs[1])
           w == SaveTo(version, {<<c.level, f.number>>}, {<<c.level + 1, f>>})
<1>1. TreeSound(w, TablesOf(w, tables), next_file_number)
  BY MoveTree DEF LSMInv
<1>2. /\ version' = w /\ tables' = TablesOf(w, tables) /\ file_to_compact' = {}
      /\ UNCHANGED next_file_number
  BY DEF TrivialMove, Install, TablesOf
<1> HIDE DEF w
<1> QED
  BY <1>1, <1>2 DEF LSMInv

(* Whatever BackgroundCompaction picks reaches down as far as it must. *)
LEMMA BackgroundCompactionStep ==
    ASSUME LSMInv, BackgroundCompaction
    PROVE  LSMInv'
<1>1. PICK c \in PickCompaction(version, compact_pointer, file_to_compact) :
          /\ IF IsTrivialMove(c) THEN TrivialMove(c) ELSE DoCompactionWork(c)
          /\ UNCHANGED <<mem, last_sequence, workload>>
  BY DEF BackgroundCompaction
<1>2. CompactionSound(c, tables, next_file_number) /\ ReachesDown(version, c)
  <2>1. \A s \in file_to_compact :
            s.level \in 0..(kNumLevels - 2) /\ s.file \in ToSet(version[s.level])
    BY DEF LSMInv
  <2> QED
    BY <2>1, TreeParts, PickSound, PickReaches
<1>3. CASE IsTrivialMove(c)
  BY <1>1, <1>2, <1>3, MoveStep
<1>4. CASE ~IsTrivialMove(c)
  BY <1>1, <1>2, <1>4, WorkStep
<1> QED
  BY <1>3, <1>4

(* So does a piece of a manual compaction. *)
LEMMA ManualCompactionStep ==
    ASSUME LSMInv, NEW level \in 0..(kNumLevels - 2), NEW begin, NEW end,
           ManualCompaction(level, begin, end)
    PROVE  LSMInv'
<1>1. PICK c \in CompactRange(version, level, begin, end) :
          DoCompactionWork(c) /\ UNCHANGED <<mem, last_sequence, workload>>
  BY DEF ManualCompaction
<1>2. CompactionSound(c, tables, next_file_number) /\ ReachesDown(version, c)
  BY TreeParts, RangeSound, RangeReaches
<1> QED
  BY <1>1, <1>2, WorkStep

(* The table a read is charged to is one of the version. *)
LEMMA ExhaustSeeksStep ==
    ASSUME LSMInv, NEW k, NEW s, ExhaustSeeks(k, s)
    PROVE  LSMInv'
<1> DEFINE key == LookupKey(k, s)
           charge == SeekCharge(Read(k, s))
<1>1. file_to_compact' = charge /\ UNCHANGED <<mem, last_sequence, version, tables, next_file_number, workload>>
  BY DEF ExhaustSeeks
<1>2. ASSUME NEW r \in charge
      PROVE  r.level \in 0..(kNumLevels - 2) /\ r.file \in ToSet(version[r.level])
  <2>1. CASE Lookup(mem, key) # {}
    <3>1. Read(k, s).seeks = <<>>
      BY <2>1 DEF Read
    <3>2. charge = {}
      BY <3>1 DEF SeekCharge
    <3> QED
      BY <1>2, <3>2
  <2>2. CASE Lookup(mem, key) = {}
    <3>1. charge = SeekCharge(GetFrom(version, tables, key))
      BY <2>2 DEF Read
    <3> HIDE DEF charge
    <3> QED
      BY <1>2, <3>1, TreeParts, ChargedFile
  <2> QED
    BY <2>1, <2>2
<1> HIDE DEF charge
<1> QED
  BY <1>1, <1>2 DEF LSMInv

(* And so is the one a sample is charged to. *)
LEMMA RecordReadSampleStep ==
    ASSUME LSMInv, NEW key, RecordReadSample(key)
    PROVE  LSMInv'
<1> DEFINE files == ForEachOverlapping(version, key.user, key)
           charge == ReadSample(version, key)
<1>1. file_to_compact' = charge /\ UNCHANGED <<mem, last_sequence, version, tables, next_file_number, workload>>
  BY DEF RecordReadSample
<1>2. files \in Seq(ReadsOf(version)) /\ (Len(files) >= 2 => files[1].level \in 0..(kNumLevels - 2))
  BY TreeParts, OverlappingReads
<1>3. charge = IF Len(files) < 2 THEN {} ELSE {files[1]}
  BY DEF ReadSample, SeekCharge
<1> HIDE DEF files, charge
<1>4. ASSUME NEW r \in charge
      PROVE  r.level \in 0..(kNumLevels - 2) /\ r.file \in ToSet(version[r.level])
  <2>1. Len(files) \in Nat /\ Len(files) >= 2 /\ r = files[1]
    BY <1>2, <1>3, <1>4
  <2>2. files[1] \in ReadsOf(version)
    BY <1>2, <2>1
  <2> QED
    BY <1>2, <2>1, <2>2 DEF ReadsOf
<1> QED
  BY <1>1, <1>4 DEF LSMInv

(* Snapshots come and go, and the rest stays. *)
LEMMA SnapshotStep ==
    ASSUME LSMInv, GetSnapshot \/ (\E s \in snapshots : ReleaseSnapshot(s))
    PROVE  LSMInv'
BY DEF LSMInv, GetSnapshot, ReleaseSnapshot

(* Every step keeps the invariant. *)
LEMMA LSMNext == LSMInv /\ [Next]_vars => LSMInv'
<1> SUFFICES ASSUME LSMInv, [Next]_vars PROVE LSMInv'
  OBVIOUS
<1>1. CASE Write
  BY <1>1, WriteStep
<1>2. CASE CompactMemTable
  BY <1>2, CompactMemTableStep
<1>3. CASE BackgroundCompaction
  BY <1>3, BackgroundCompactionStep
<1>4. CASE \E level \in 0..(kNumLevels - 2), r \in Ranges : ManualCompaction(level, r[1], r[2])
  BY <1>4, ManualCompactionStep
<1>5. CASE \E k \in UserKeys, s \in snapshots \cup {last_sequence} : ExhaustSeeks(k, s)
  BY <1>5, ExhaustSeeksStep
<1>6. CASE \E n \in 1..last_sequence : RecordReadSample(Entry(n))
  BY <1>6, RecordReadSampleStep
<1>7. CASE GetSnapshot \/ \E s \in snapshots : ReleaseSnapshot(s)
  BY <1>7, SnapshotStep
<1>8. CASE UNCHANGED vars
  BY <1>8 DEF LSMInv, vars
<1> QED
  BY <1>1, <1>2, <1>3, <1>4, <1>5, <1>6, <1>7, <1>8 DEF Next

(* The invariant says more than that neighbours are in order. *)
LEMMA InvDisjoint == LSMInv => LevelsDisjoint
<1> SUFFICES ASSUME LSMInv, NEW level \in Levels \ {0}, NEW i \in 2..Len(version[level])
             PROVE  IKLess(version[level][i - 1].largest, version[level][i].smallest)
  BY DEF LevelsDisjoint
<1>1. SortedFiles(version[level])
  BY DEF LSMInv, TreeSound, SortedLevels
<1>2. Len(version[level]) \in Nat
  BY TreeParts, LenProperties DEF VersionSound, FilesSound, IsSeq
<1>3. i - 1 \in 1..Len(version[level]) /\ i \in 1..Len(version[level]) /\ i - 1 < i
  BY <1>2
<1> QED
  BY <1>1, <1>3 DEF SortedFiles

(* The invariant holds in every state. *)
THEOREM LSMSound == Spec => []LSMInv
BY LSMInit, LSMNext, PTL DEF Spec

(* The tables of every level below 0 stand in key order without overlap,   *)
(* whatever is written, flushed, compacted, moved or asked for: what the   *)
(* binary search of Version::Get relies on, and what Builder::SaveTo and   *)
(* MaybeAddFile assert (version_set.cc).                                   *)
THEOREM TablesDisjoint == Spec => []LevelsDisjoint
BY LSMSound, InvDisjoint, PTL
=============================================================================
