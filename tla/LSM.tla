-------------------------------- MODULE LSM --------------------------------
(***************************************************************************)
(* leveldb's tree of tables, seen by one thread: a write goes into the     *)
(* memtable, a full memtable becomes a table, and compactions merge tables *)
(* into the levels below, while snapshots keep old entries readable.  What *)
(* several threads make of it is the business of module DB.                *)
(***************************************************************************)
EXTENDS Compactions

CONSTANTS
    Workloads,     \* bound: what a behaviour writes, as a sequence of <<user key, type>>
                   \* (keys are naturals in comparator order), and how many snapshots
                   \* it holds at a time
    WriteBuffer    \* options.write_buffer_size, in entries

ASSUME LSMAssumption ==
    /\ \A w \in Workloads :
           /\ w.writes \in Seq(Nat \X {kTypeDeletion, kTypeValue})
           /\ Len(w.writes) < kMaxSequenceNumber
    /\ WriteBuffer \in Nat \ {0}

VARIABLES
    mem,              \* the memtable, a set of internal keys
    last_sequence,    \* the number of the last write
    version,          \* the current version
    tables,           \* the tables on disk, by file number
    next_file_number,
    compact_pointer,  \* where the next compaction of each level begins
    file_to_compact,  \* the table too many reads had to pass, if any
    snapshots,        \* the sequence numbers somebody still reads at
    workload          \* what is to be written, chosen at the start

UserKeys == {w[1] : w \in ToSet(workload.writes)}

vars == <<mem, last_sequence, version, tables, next_file_number,
          compact_pointer, file_to_compact, snapshots, workload>>

Init ==
    /\ workload \in Workloads
    /\ mem = {}
    /\ last_sequence = 0
    /\ version = EmptyVersion
    /\ tables = <<>>
    /\ next_file_number = 1
    /\ compact_pointer = [level \in Levels |-> {}]
    /\ file_to_compact = {}
    /\ snapshots = {}

-----------------------------------------------------------------------------
(* DBImpl::Write of one Put or Delete, while the memtable has room. *)
Entry(n) == InternalKey(workload.writes[n][1], n, workload.writes[n][2])

Write ==
    /\ last_sequence < Len(workload.writes)
    /\ Cardinality(mem) < WriteBuffer
    /\ last_sequence' = last_sequence + 1
    /\ mem' = mem \cup {Entry(last_sequence + 1)}
    /\ UNCHANGED <<version, tables, next_file_number, compact_pointer,
                   file_to_compact, snapshots, workload>>

(* What an installed edit makes of the files: LogAndApply and DeleteObsoleteFiles. *)
Install(deleted, added, contents) ==
    LET next == SaveTo(version, deleted, added)
    IN /\ version' = next
       /\ tables' = [n \in {f.number : f \in FilesOf(next)} |-> contents[n]]
       /\ file_to_compact' = {}

(* The memtable becomes a table: because it is full, or because somebody   *)
(* asked for a compaction of a range.                                      *)
CompactMemTable ==
    LET file == FileMetaData(next_file_number, mem)
        level == PickLevelForMemTableOutput(version, file.smallest.user, file.largest.user)
    IN /\ mem # {}
       /\ Install({}, {<<level, file>>}, With(tables, next_file_number, mem))
       /\ next_file_number' = next_file_number + 1
       /\ mem' = {}
       /\ UNCHANGED <<last_sequence, compact_pointer, snapshots, workload>>

SmallestSnapshot == IF snapshots = {} THEN last_sequence ELSE Min(snapshots)

(* DoCompactionWork and InstallCompactionResults. *)
DoCompactionWork(c) ==
    LET outputs == CompactionOutputs(c, tables, SmallestSnapshot)
        number(i) == next_file_number + i - 1
        new == [n \in next_file_number..number(Len(outputs)) |->
                    outputs[n - next_file_number + 1]]
    IN /\ Install(AddInputDeletions(c),
                  {<<c.level + 1, FileMetaData(number(i), outputs[i])>> : i \in DOMAIN outputs},
                  Over(new, tables))
       /\ next_file_number' = next_file_number + Len(outputs)

TrivialMove(c) ==
    LET f == Head(c.inputs[1])
    IN /\ Install({<<c.level, f.number>>}, {<<c.level + 1, f>>}, tables)
       /\ UNCHANGED next_file_number

(* BackgroundCompaction without a manual compaction to do. *)
BackgroundCompaction ==
    \E c \in PickCompaction(version, compact_pointer, file_to_compact) :
        /\ IF IsTrivialMove(c) THEN TrivialMove(c) ELSE DoCompactionWork(c)
        /\ compact_pointer' = [compact_pointer EXCEPT ![c.level] = {c.pointer}]
        /\ UNCHANGED <<mem, last_sequence, snapshots, workload>>

(* One piece of the manual compaction of a level. *)
ManualCompaction(level, begin, end) ==
    \E c \in CompactRange(version, level, begin, end) :
        /\ DoCompactionWork(c)
        /\ compact_pointer' = [compact_pointer EXCEPT ![c.level] = {c.pointer}]
        /\ UNCHANGED <<mem, last_sequence, snapshots, workload>>

(* DBImpl::Get: the memtable, then the tables. *)
Read(user_key, sequence) ==
    LET key == LookupKey(user_key, sequence)
        inMem == Lookup(mem, key)
    IN IF inMem # {} THEN [found |-> inMem, seeks |-> <<>>]
       ELSE GetFrom(version, tables, key)

(* A read uses up the allowed seeks of the table it is charged to. *)
ExhaustSeeks(user_key, sequence) ==
    /\ file_to_compact = {}
    /\ file_to_compact' = SeekCharge(Read(user_key, sequence))
    /\ file_to_compact' # {}
    /\ UNCHANGED <<mem, last_sequence, version, tables, next_file_number,
                   compact_pointer, snapshots, workload>>

(* And so does an iterator that samples what it has just read. *)
RecordReadSample(key) ==
    /\ file_to_compact = {}
    /\ file_to_compact' = ReadSample(version, key)
    /\ file_to_compact' # {}
    /\ UNCHANGED <<mem, last_sequence, version, tables, next_file_number,
                   compact_pointer, snapshots, workload>>

GetSnapshot ==
    /\ Cardinality(snapshots) < workload.snapshots
    /\ last_sequence \notin snapshots
    /\ snapshots' = snapshots \cup {last_sequence}
    /\ UNCHANGED <<mem, last_sequence, version, tables, next_file_number,
                   compact_pointer, file_to_compact, workload>>

ReleaseSnapshot(s) ==
    /\ snapshots' = snapshots \ {s}
    /\ UNCHANGED <<mem, last_sequence, version, tables, next_file_number,
                   compact_pointer, file_to_compact, workload>>

Ranges == {<<{}, {}>>} \cup {<<{k}, {k}>> : k \in UserKeys}

Next ==
    \/ Write
    \/ CompactMemTable
    \/ BackgroundCompaction
    \/ \E level \in 0..(kNumLevels - 2), r \in Ranges : ManualCompaction(level, r[1], r[2])
    \/ \E k \in UserKeys, s \in snapshots \cup {last_sequence} : ExhaustSeeks(k, s)
    \/ \E n \in 1..last_sequence : RecordReadSample(Entry(n))
    \/ GetSnapshot
    \/ \E s \in snapshots : ReleaseSnapshot(s)

Spec == Init /\ [][Next]_vars

-----------------------------------------------------------------------------
written == {Entry(n) : n \in 1..last_sequence}

TypeOK ==
    /\ workload \in Workloads
    /\ last_sequence \in 0..Len(workload.writes)
    /\ mem \subseteq written
    /\ \A n \in DOMAIN tables : tables[n] \subseteq written
    /\ DOMAIN version = Levels
    /\ DOMAIN tables = {f.number : f \in FilesOf(version)}
    /\ DOMAIN tables \subseteq 1..(next_file_number - 1)
    /\ DOMAIN compact_pointer = Levels
    /\ snapshots \subseteq 0..last_sequence

(* The tables of a level below 0 do not overlap and stand in key order:    *)
(* the assertions of Builder::SaveTo and MaybeAddFile (version_set.cc).    *)
LevelsDisjoint ==
    \A level \in Levels \ {0} : \A i \in 2..Len(version[level]) :
        IKLess(version[level][i - 1].largest, version[level][i].smallest)

Value(entries) == {k \in entries : k.type = kTypeValue}

(* Whatever compactions did, a read at the last sequence number or at a    *)
(* snapshot finds the value the newest write up to it left, and nothing    *)
(* when that was a deletion: Version::Get stops at the first level that    *)
(* knows the key, so no older entry may stand above a newer one and no     *)
(* deletion may go before what it hides.                                   *)
ReadsRight ==
    \A k \in UserKeys, s \in snapshots \cup {last_sequence} :
        Value(Read(k, s).found) = Value(Lookup(written, LookupKey(k, s)))

(* Version::Get relies on "entries never hop across levels": of one user   *)
(* key, every entry above is newer than every entry below, and so it is    *)
(* between the tables of level 0 in the order of their numbers.            *)
NewestOnTop ==
    \A f, g \in FilesOf(version) :
        LET above == \/ \E i, j \in Levels : /\ i < j
                                             /\ f \in ToSet(version[i])
                                             /\ g \in ToSet(version[j])
                     \/ {f, g} \subseteq ToSet(version[0]) /\ f.number > g.number
        IN above => \A a \in tables[f.number], b \in tables[g.number] :
                        a.user = b.user => a.seq > b.seq

(* Compactions come to an end: each one moves entries to a lower level or  *)
(* drops them, so without further writes only so many can follow.          *)
Height(v) ==
    MapThenSumSet(LAMBDA level : (kNumLevels - level) * TotalFileSize(v[level]), Levels)

CompactionsDescend ==
    [][version' # version /\ mem' = mem => Height(version') < Height(version)]_vars
=============================================================================
