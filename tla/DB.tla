--------------------------------- MODULE DB ---------------------------------
(***************************************************************************)
(* leveldb's DBImpl: threads that write, read, hold snapshots and compact, *)
(* one background thread, a write-ahead log, a manifest, and crashes.  An  *)
(* action is what one thread does between taking the mutex and giving it   *)
(* up, or one step on the disk without it.                                 *)
(***************************************************************************)
EXTENDS Compactions

CONSTANTS
    Threads,        \* the threads that call Write
    Readers,        \* the threads that call Get or hold an iterator
    Scenarios,      \* bound: what the threads of a behaviour do, see Init
    WriteBuffer,    \* options.write_buffer_size, in entries
    kL0_StopWritesTrigger   \* 12 in the code

ASSUME DBAssumption ==
    /\ {WriteBuffer, kL0_StopWritesTrigger} \subseteq Nat \ {0}
    /\ kL0_CompactionTrigger <= kL0_StopWritesTrigger

(* A batch is a sequence of puts and deletions; a manual compaction is of  *)
(* a level that is not the last.                                           *)
ScenarioType ==
    [created : BOOLEAN, keys : SUBSET Nat,
     batches : Seq([batch : Seq(Nat \X {kTypeDeletion, kTypeValue}), sync : BOOLEAN]),
     manuals : Seq([level : 0..(kNumLevels - 2), begin : SUBSET Nat, end : SUBSET Nat]),
     reads : Nat, snapshots : Nat, closes : Nat, crashes : Nat,
     faults : SUBSET {"sync", "append", "manifest"}]

ASSUME ScenariosAssumption == Scenarios \subseteq ScenarioType

VARIABLES
    disk,       \* the database's directory
    vs,         \* versions_, the VersionSet
    mem, imm,   \* mem_, and imm_ as a set of at most one memtable
    logfile_number,
    pending_outputs,
    snapshots,
    bg_error,   \* bg_error_ is not ok
    writers,    \* writers_, the queue
    writing,    \* the group its first writer writes without the mutex, if any
    readers,    \* what each reader has pinned, if anything
    bg,         \* how far the background thread is
    background_compaction_scheduled,
    manual,     \* the manual compaction somebody waits for, if any; posted means
                \* that manual_compaction_ points to it
    phase,      \* "closed", "recovered", "described", "current", "open",
                \* "closing", "corrupt" when Open failed, or "dead" on a null pointer
    todo,       \* what is left of the scenario
    written,    \* history: the groups of entries the database stands for
    promised    \* history: the groups of the synced writes that returned ok

memory == <<mem, imm, logfile_number, snapshots>>
history == <<written, promised>>
vars == <<disk, vs, memory, pending_outputs, bg_error, writers, writing, readers,
          bg, background_compaction_scheduled, manual, phase, todo, history>>

(* No thread has written through a null pointer. *)
Alive == phase # "dead"

(* A directory's files of a kind without some. *)
Without(f, S) == [n \in DOMAIN f \ S |-> f[n]]

EmptyFile == [records |-> <<>>, synced |-> 0]

The(S) == CHOOSE x \in S : TRUE
Groups(records) == {ToSet(r) : r \in ToSet(records)} \ {{}}

-----------------------------------------------------------------------------
(* The version set on disk: edits in manifests, and CURRENT.               *)

NoEdit == [log_number |-> 0, next_file |-> 0, last_sequence |-> 0,
           pointers |-> {}, deleted |-> {}, added |-> {}]

(* NewDB: a first manifest, which is closed but not synced, and CURRENT. *)
NewDBEdit == [NoEdit EXCEPT !.next_file = 2]

NewVersionSet == [version |-> EmptyVersion, next_file_number |-> 2,
                  manifest_file_number |-> 0, last_sequence |-> 0, log_number |-> 0,
                  compact_pointer |-> [level \in Levels |-> {}], file_to_compact |-> {}]

(* Builder::Apply and SaveTo. *)
Apply(v, edit) ==
    [v EXCEPT !.version = SaveTo(v.version, edit.deleted, edit.added),
              !.compact_pointer = [level \in Levels |->
                  LET p == {q[2] : q \in {x \in edit.pointers : x[1] = level}}
                  IN IF p = {} THEN v.compact_pointer[level] ELSE p],
              !.file_to_compact = {}]

(* VersionSet::Recover, from the records of the manifest CURRENT names. *)
RecoveredVersions(edits) ==
    LET v == FoldLeft(Apply, NewVersionSet, edits)
        e == Last(edits)
    IN [v EXCEPT !.manifest_file_number = e.next_file, !.next_file_number = e.next_file + 1,
                 !.last_sequence = e.last_sequence, !.log_number = e.log_number]

(* WriteSnapshot, and the numbers LogAndApply puts into every edit. *)
SnapshotEdit(v) ==
    [NoEdit EXCEPT
        !.added = UNION {{<<level, f>> : f \in ToSet(v.version[level])} : level \in Levels},
        !.pointers = UNION {{<<level, p>> : p \in v.compact_pointer[level]} : level \in Levels}]

WithNumbers(v, edit) ==
    [edit EXCEPT !.next_file = v.next_file_number, !.last_sequence = v.last_sequence,
                 !.log_number = IF edit.log_number = 0 THEN v.log_number ELSE edit.log_number]

(* The end of LogAndApply: the new version is installed. *)
Installed(v, edit) ==
    [Apply(v, edit) EXCEPT !.log_number = edit.log_number]

NeedsCompaction(v) == SizeCompaction(v.version) \/ v.file_to_compact # {}

(* AddLiveFiles walks every version somebody holds: pinned are the ones    *)
(* besides the current one.                                                *)
LiveFiles(v, pinned) ==
    {f.number : f \in UNION {FilesOf(w) : w \in pinned \cup {v.version}}}

\* Mutant: only the current version's tables are kept
DeleteNotCurrent(d, v, live) ==
    [d EXCEPT !.logs = Without(@, {n \in DOMAIN @ : n < v.log_number}),
              !.manifests = Without(@, {n \in DOMAIN @ : n < v.manifest_file_number}),
              !.tables = Without(@, DOMAIN @ \ LiveFiles(v, {}))]

DeleteObsoleteFiles(d, v, live) ==
    [d EXCEPT !.logs = Without(@, {n \in DOMAIN @ : n < v.log_number}),
              !.manifests = Without(@, {n \in DOMAIN @ : n < v.manifest_file_number}),
              !.tables = Without(@, DOMAIN @ \ live)]

ReaderVersions == {p.version : p \in UNION {readers[r] : r \in Readers}}

-----------------------------------------------------------------------------
(* Opening and recovering.                                                 *)

(* Replaying one log: RecoverLogFile puts its records into a memtable and  *)
(* makes a level-0 table of it when it is full and at the end.  A record   *)
(* that a failed write left incomplete ends what the reader finds.         *)
Readable(records) ==
    LET torn == {i \in DOMAIN records : records[i] = <<>>}
    IN IF torn = {} THEN records ELSE SubSeq(records, 1, Min(torn) - 1)

ReplayRecord(s, record) ==
    LET full == s.mem \cup ToSet(record)
    IN IF Cardinality(full) > WriteBuffer
       THEN [mem |-> {}, done |-> Append(s.done, full)]
       ELSE [s EXCEPT !.mem = full]

Memtables(records) ==
    LET end == FoldLeft(ReplayRecord, [mem |-> {}, done |-> <<>>], Readable(records))
    IN IF end.mem = {} THEN end.done ELSE Append(end.done, end.mem)

(* One log of Recover: its tables get the next numbers, and only then is   *)
(* its own number marked as used.                                          *)
RecoverLogFile(s, number) ==
    LET tables == Memtables(disk.logs[number].records)
        new == [n \in s.next..(s.next + Len(tables) - 1) |-> tables[n - s.next + 1]]
        next == s.next + Len(tables)
    IN [tables |-> Over(new, s.tables), next |-> IF next <= number THEN number + 1 ELSE next]

LogsToRecover(v) == Ascending({n \in DOMAIN disk.logs : n >= v.log_number})

(* Creating the database: CURRENT is installed with a rename, synced; the  *)
(* manifest it points to is not.                                           *)
NewDB ==
    /\ phase = "closed" /\ disk.current = 0
    /\ disk' = [disk EXCEPT !.manifests = With(<<>>, 1, [records |-> <<NewDBEdit>>, synced |-> 0]),
                            !.current = 1]
    /\ UNCHANGED <<vs, memory, pending_outputs, bg_error, writers, writing, readers, bg,
                   background_compaction_scheduled, manual, phase, todo, history>>

(* Recover and the beginning of Open: the tables of the logs and a new log *)
(* are on disk, the edit that will name them is not.                       *)
Recover ==
    LET edits == disk.manifests[disk.current].records
        v == RecoveredVersions(edits)
        r == FoldLeft(RecoverLogFile, [tables |-> <<>>, next |-> v.next_file_number],
                      LogsToRecover(v))
        seqs == {e.seq : e \in UNION {r.tables[n] : n \in DOMAIN r.tables}}
        recovered == [v EXCEPT !.next_file_number = r.next + 1,
                               !.last_sequence = Max({@} \cup seqs)]
        edit == [NoEdit EXCEPT
                    !.added = {<<0, FileMetaData(n, r.tables[n])>> : n \in DOMAIN r.tables},
                    !.log_number = r.next]
    IN /\ phase = "closed" /\ disk.current # 0
       /\ IF edits = <<>> \/ ~LiveFiles(v, {}) \subseteq DOMAIN disk.tables
          THEN phase' = "corrupt" /\ UNCHANGED <<disk, vs, mem, logfile_number, bg>>
          ELSE /\ phase' = "recovered"
               /\ disk' = [disk EXCEPT !.tables = Over(r.tables, @), !.logs = With(@, r.next, EmptyFile)]
               /\ vs' = recovered
               /\ logfile_number' = r.next
               /\ mem' = {}
               /\ bg' = [bg EXCEPT !.edit = {WithNumbers(recovered, edit)}]
       /\ UNCHANGED <<imm, snapshots, pending_outputs, bg_error, writers, writing, readers,
                      background_compaction_scheduled, manual, todo, history>>

OpenUnchanged == <<memory, pending_outputs, bg_error, writers, writing, readers, manual,
                   todo, history>>

(* LogAndApply of Open's edit, which begins a manifest of its own ...      *)
WriteNewManifest ==
    /\ phase = "recovered" /\ phase' = "described"
    /\ disk' = [disk EXCEPT !.manifests = With(@, vs.manifest_file_number,
                   [records |-> <<SnapshotEdit(vs), The(bg.edit)>>, synced |-> 0])]
    /\ UNCHANGED <<OpenUnchanged, vs, bg, background_compaction_scheduled>>

\* Mutant: CURRENT points to a manifest that is not synced
SetCurrentUnsynced ==
    /\ phase = "described" /\ phase' = "current"
    /\ disk' = [disk EXCEPT !.current = vs.manifest_file_number]
    /\ UNCHANGED <<OpenUnchanged, vs, bg, background_compaction_scheduled>>

(* ... syncs it and has CURRENT point to it ...                            *)
SetCurrentFile ==
    /\ phase = "described" /\ phase' = "current"
    /\ disk' = [disk EXCEPT !.manifests[vs.manifest_file_number].synced = 2,
                            !.current = vs.manifest_file_number]
    /\ UNCHANGED <<OpenUnchanged, vs, bg, background_compaction_scheduled>>

(* ... and installs the version; then Open returns. *)
FinishOpen ==
    LET v == Installed(vs, The(bg.edit))
    IN /\ phase = "current" /\ phase' = "open"
       /\ vs' = v
       /\ disk' = DeleteObsoleteFiles(disk, v, LiveFiles(v, {}))
       /\ bg' = [bg EXCEPT !.edit = {}]
       /\ background_compaction_scheduled' = NeedsCompaction(v)
       /\ UNCHANGED OpenUnchanged

-----------------------------------------------------------------------------
(* Writing.                                                                *)

(* Write queues the next batch of the scenario; a batch without entries is *)
(* the null batch that asks for the memtable to be compacted.              *)
Write(t) ==
    LET next == Head(todo.batches)
    IN /\ phase = "open" /\ todo.batches # <<>>
       /\ \A i \in DOMAIN writers : writers[i].thread # t
       /\ writers' = Append(writers, [thread |-> t, batch |-> next.batch, sync |-> next.sync])
       /\ todo' = [todo EXCEPT !.batches = Tail(@)]
       /\ UNCHANGED <<disk, vs, memory, pending_outputs, bg_error, writing, readers, bg,
                      background_compaction_scheduled, manual, phase, history>>

MayCompact(error, immutable, m, v) ==
    ~error /\ phase = "open" /\ (immutable # {} \/ m # {} \/ NeedsCompaction(v))

Posted == {m \in manual : m.posted}

(* MakeRoomForWrite lets the first writer go on: the memtable has room, or *)
(* the previous one is compacted and level 0 not too full, and then a new  *)
(* log and memtable begin.                                                 *)
HasRoom == Head(writers).batch # <<>> /\ Cardinality(mem) <= WriteBuffer
MaySwitch == imm = {} /\ Len(vs.version[0]) < kL0_StopWritesTrigger

MakeRoomForWrite ==
    \/ HasRoom /\ UNCHANGED <<disk, vs, mem, imm, logfile_number,
                              background_compaction_scheduled>>
    \/ /\ ~HasRoom /\ MaySwitch
       /\ disk' = [disk EXCEPT !.logs = With(@, vs.next_file_number, EmptyFile)]
       /\ logfile_number' = vs.next_file_number
       /\ vs' = [vs EXCEPT !.next_file_number = @ + 1]
       /\ imm' = {mem} /\ mem' = {}
       /\ background_compaction_scheduled' =
              (background_compaction_scheduled \/ MayCompact(bg_error, imm', Posted, vs'))

(* BuildBatchGroup: the batches behind the first one, up to a sync write   *)
(* behind one that is not, or until the group is large.                    *)
BuildBatchGroup ==
    LET stops == {i \in DOMAIN writers : writers[i].sync /\ ~writers[1].sync}
    IN SubSeq(writers, 1, IF stops = {} THEN Len(writers) ELSE Min(stops) - 1)

GroupEntries(group) ==
    LET ops == FlattenSeq([i \in DOMAIN group |-> group[i].batch])
    IN [i \in DOMAIN ops |-> InternalKey(ops[i][1], vs.last_sequence + i, ops[i][2])]

BeginWrite ==
    /\ Alive /\ writers # <<>> /\ writing = {} /\ ~bg_error
    /\ MakeRoomForWrite
    /\ IF Head(writers).batch # <<>>
       THEN /\ writing' = {[count |-> Len(BuildBatchGroup), logged |-> FALSE,
                            record |-> GroupEntries(BuildBatchGroup)]}
            /\ UNCHANGED writers
       ELSE writers' = Tail(writers) /\ UNCHANGED writing
    /\ UNCHANGED <<snapshots, pending_outputs, bg_error, readers, bg, manual, phase, todo,
                   history>>

(* MakeRoomForWrite yields the background error to the first writer. *)
FailWrite ==
    /\ Alive /\ writers # <<>> /\ writing = {} /\ bg_error
    /\ writers' = Tail(writers)
    /\ UNCHANGED <<disk, vs, memory, pending_outputs, bg_error, writing, readers, bg,
                   background_compaction_scheduled, manual, phase, todo, history>>

(* Without the mutex: the record goes into the log. *)
AddRecord ==
    \E w \in writing :
        /\ Alive /\ ~w.logged
        /\ disk' = [disk EXCEPT !.logs[logfile_number].records = Append(@, w.record)]
        /\ writing' = {[w EXCEPT !.logged = TRUE]}
        /\ UNCHANGED <<vs, memory, pending_outputs, bg_error, writers, readers, bg,
                       background_compaction_scheduled, manual, phase, todo, history>>

(* The group is done: its entries are in the memtable if all went well,    *)
(* the sequence number counts them in any case, its writers return.        *)
EndGroup(w, ok) ==
    /\ Alive /\ writing' = {}
    /\ writers' = SubSeq(writers, w.count + 1, Len(writers))
    /\ mem' = IF ok THEN mem \cup ToSet(w.record) ELSE mem
    /\ vs' = [vs EXCEPT !.last_sequence = @ + Len(w.record)]
    /\ written' = IF ok THEN written \cup {ToSet(w.record)} ELSE written
    /\ promised' = IF ok /\ writers[1].sync THEN promised \cup {ToSet(w.record)} ELSE promised
    /\ UNCHANGED <<imm, logfile_number, snapshots, pending_outputs, readers, bg,
                   background_compaction_scheduled, manual, phase>>

\* Mutant: a write with sync returns ok without one
FinishUnsynced ==
    \E w \in writing : w.logged /\ EndGroup(w, TRUE) /\ UNCHANGED <<disk, bg_error, todo>>

FinishWrite ==
    \E w \in writing :
        /\ w.logged /\ EndGroup(w, TRUE)
        /\ disk' = IF ~writers[1].sync THEN disk
                   ELSE [disk EXCEPT !.logs[logfile_number].synced =
                                         Len(disk.logs[logfile_number].records)]
        /\ UNCHANGED <<bg_error, todo>>

(* Sync fails: nobody knows what is in the log, so no write comes after. *)
FailSync ==
    \E w \in writing :
        /\ w.logged /\ writers[1].sync /\ "sync" \in todo.faults
        /\ EndGroup(w, FALSE)
        /\ bg_error' = TRUE
        /\ todo' = [todo EXCEPT !.faults = @ \ {"sync"}]
        /\ UNCHANGED disk

(* AddRecord fails half-way, on a full disk say: part of the record is in  *)
(* the log, and the next write goes on behind it.                          *)
FailAddRecord ==
    \E w \in writing :
        /\ ~w.logged /\ "append" \in todo.faults
        /\ EndGroup(w, FALSE)
        /\ disk' = [disk EXCEPT !.logs[logfile_number].records = Append(@, <<>>)]
        /\ todo' = [todo EXCEPT !.faults = @ \ {"append"}]
        /\ UNCHANGED bg_error

-----------------------------------------------------------------------------
(* Reading.                                                                *)

(* Get, and an iterator for as long as it lives: the memtables and the     *)
(* version are referenced under the mutex and read without it.             *)
BeginRead(r) ==
    /\ phase = "open" /\ readers[r] = {} /\ todo.reads > 0
    /\ readers' = [readers EXCEPT ![r] =
           {[sequence |-> vs.last_sequence, mem |-> mem, imm |-> imm, version |-> vs.version]}]
    /\ todo' = [todo EXCEPT !.reads = @ - 1]
    /\ UNCHANGED <<disk, vs, memory, pending_outputs, bg_error, writers, writing, bg,
                   background_compaction_scheduled, manual, phase, history>>

ReadPinned(p, user_key) ==
    LET key == LookupKey(user_key, p.sequence)
        inMem == Lookup(p.mem, key)
        inImm == UNION {Lookup(m, key) : m \in p.imm}
    IN CASE inMem # {} -> [found |-> inMem, seeks |-> <<>>]
         [] inMem = {} /\ inImm # {} -> [found |-> inImm, seeks |-> <<>>]
         [] OTHER -> GetFrom(p.version, disk.tables, key)

(* The read is over; UpdateStats may have used up a table's seeks, which   *)
(* counts if its version is still the current one.                         *)
EndRead(r) ==
    \E p \in readers[r] :
        /\ Alive /\ readers' = [readers EXCEPT ![r] = {}]
        /\ \/ UNCHANGED <<vs, background_compaction_scheduled>>
           \/ \E k \in todo.keys :
                /\ p.version = vs.version /\ vs.file_to_compact = {}
                /\ SeekCharge(ReadPinned(p, k)) # {}
                /\ vs' = [vs EXCEPT !.file_to_compact = SeekCharge(ReadPinned(p, k))]
                /\ background_compaction_scheduled' =
                       (background_compaction_scheduled \/ MayCompact(bg_error, imm, Posted, vs'))
        /\ UNCHANGED <<disk, memory, pending_outputs, bg_error, writers, writing, bg, manual,
                       phase, todo, history>>

GetSnapshot ==
    /\ phase = "open" /\ todo.snapshots > 0
    /\ snapshots' = snapshots \cup {vs.last_sequence}
    /\ todo' = [todo EXCEPT !.snapshots = @ - 1]
    /\ UNCHANGED <<disk, vs, mem, imm, logfile_number, pending_outputs, bg_error, writers,
                   writing, readers, bg, background_compaction_scheduled, manual, phase, history>>

ReleaseSnapshot(s) ==
    /\ Alive /\ snapshots' = snapshots \ {s}
    /\ UNCHANGED <<disk, vs, mem, imm, logfile_number, pending_outputs, bg_error, writers,
                   writing, readers, bg, background_compaction_scheduled, manual, phase, todo,
                   history>>

-----------------------------------------------------------------------------
(* The background thread.                                                  *)

Idle == [pc |-> "idle", number |-> 0, job |-> {}, edit |-> {}]

BgUnchanged == <<mem, logfile_number, snapshots, writers, writing, readers, phase, history>>

\* Mutant: the table's number is used again
BeginMemTableUncounted ==
    /\ imm # {}
    /\ \/ bg.pc = "idle" /\ background_compaction_scheduled /\ phase = "open" /\ ~bg_error
       \/ bg.pc = "merging" /\ phase = "open"
    /\ bg' = [bg EXCEPT !.pc = "building", !.number = vs.next_file_number]
    /\ pending_outputs' = pending_outputs \cup {vs.next_file_number}
    /\ disk' = IF imm = {{}} THEN disk
               ELSE [disk EXCEPT !.tables = With(@, vs.next_file_number, The(imm))]
    /\ UNCHANGED <<BgUnchanged, vs, imm, bg_error, background_compaction_scheduled, manual, todo>>

(* WriteLevel0Table until it has the mutex again: the table is being       *)
(* written, and pending_outputs_ protects it.  It begins a BackgroundCall, *)
(* or interrupts a compaction while that is still reading.                 *)
BeginMemTable ==
    /\ imm # {}
    /\ \/ bg.pc = "idle" /\ background_compaction_scheduled /\ phase = "open" /\ ~bg_error
       \/ bg.pc = "merging" /\ phase = "open"
    /\ bg' = [bg EXCEPT !.pc = "building", !.number = vs.next_file_number]
    /\ vs' = [vs EXCEPT !.next_file_number = @ + 1]
    /\ pending_outputs' = pending_outputs \cup {vs.next_file_number}
    /\ disk' = IF imm = {{}} THEN disk
               ELSE [disk EXCEPT !.tables = With(@, vs.next_file_number, The(imm))]
    /\ UNCHANGED <<BgUnchanged, imm, bg_error, background_compaction_scheduled, manual, todo>>

(* CompactMemTable's edit: the table, where base allows it, and the log    *)
(* that is now the oldest one needed.                                      *)
MemTableEdit ==
    LET file == FileMetaData(bg.number, The(imm))
        level == PickLevelForMemTableOutput(vs.version, file.smallest.user, file.largest.user)
    IN [NoEdit EXCEPT !.log_number = logfile_number,
                      !.added = IF imm = {{}} THEN {} ELSE {<<level, file>>}]

\* Mutant: nobody looks whether there is more to do
EndWithoutLook(job, ok) ==
    LET m == IF job.manual /\ ok
             THEN {[x EXCEPT !.begin = {Last(job.c.inputs[1]).largest.user}, !.posted = FALSE]
                       : x \in manual}
             ELSE IF job.manual THEN {} ELSE manual
    IN /\ bg' = Idle
       /\ manual' = m
       /\ phase' = IF job.manual /\ Posted = {} THEN "dead" ELSE phase
       /\ background_compaction_scheduled' = FALSE

(* What BackgroundCall does in the end.  Of a manual compaction the part   *)
(* from its last input on is left.                                         *)
EndOfCall(job, ok) ==
    LET m == IF job.manual /\ ok
             THEN {[x EXCEPT !.begin = {Last(job.c.inputs[1]).largest.user}, !.posted = FALSE]
                       : x \in manual}
             ELSE IF job.manual THEN {} ELSE manual
    IN /\ bg' = Idle
       /\ manual' = m
       /\ phase' = IF job.manual /\ Posted = {} THEN "dead" ELSE phase
       /\ background_compaction_scheduled' =
              MayCompact(bg_error', imm', {x \in m : x.posted}, vs')

NoJob == [manual |-> FALSE]

(* After CompactMemTable the compaction it interrupted goes on, if any. *)
AfterMemTable ==
    IF bg.job # {}
    THEN /\ bg' = [bg EXCEPT !.pc = "merging", !.edit = {}, !.number = 0]
         /\ UNCHANGED <<background_compaction_scheduled, manual, phase>>
    ELSE EndOfCall(NoJob, TRUE)

FinishBuild ==
    /\ bg.pc = "building"
    /\ pending_outputs' = pending_outputs \ {bg.number}
    /\ IF phase = "closing"
       THEN bg_error' = TRUE /\ imm' = imm /\ vs' = vs /\ AfterMemTable
       ELSE /\ bg' = [bg EXCEPT !.pc = "logging", !.edit = {WithNumbers(vs, MemTableEdit)}]
            /\ UNCHANGED <<bg_error, imm, vs, background_compaction_scheduled, manual, phase>>
    /\ UNCHANGED <<disk, mem, logfile_number, snapshots, writers, writing, readers, todo, history>>

(* BackgroundCompaction when there is no memtable to compact: a compaction *)
(* is chosen, and the oldest snapshot fixes what it may drop.              *)
Chosen == IF Posted # {}
          THEN CompactRange(vs.version, The(Posted).level, The(Posted).begin, The(Posted).end)
          ELSE PickCompaction(vs.version, vs.compact_pointer, vs.file_to_compact)

BackgroundCallMayRun ==
    background_compaction_scheduled /\ bg.pc = "idle" /\ phase = "open" /\ ~bg_error

BeginCompaction ==
    /\ BackgroundCallMayRun /\ imm = {}
    /\ \E c \in Chosen :
        LET f == Head(c.inputs[1])
            move == [NoEdit EXCEPT !.deleted = {<<c.level, f.number>>},
                                   !.added = {<<c.level + 1, f>>},
                                   !.pointers = {<<c.level, c.pointer>>}]
            job == [c |-> c, manual |-> Posted # {}, outputs |-> <<>>, opened |-> FALSE,
                    smallest_snapshot |-> IF snapshots = {} THEN vs.last_sequence
                                          ELSE Min(snapshots)]
            moved == Posted = {} /\ IsTrivialMove(c)
        IN /\ vs' = [vs EXCEPT !.compact_pointer[c.level] = {c.pointer}]
           /\ bg' = IF moved THEN [Idle EXCEPT !.pc = "logging", !.edit = {WithNumbers(vs, move)}]
                    ELSE [Idle EXCEPT !.pc = "merging", !.job = {job}]
    /\ UNCHANGED <<BgUnchanged, disk, imm, pending_outputs, bg_error,
                   background_compaction_scheduled, manual, todo>>

(* A manual compaction finds no more files, or the call comes to nothing   *)
(* because of an error, of Close, or because nothing is left to do.        *)
IdleCall ==
    /\ Alive /\ background_compaction_scheduled /\ bg.pc = "idle"
    /\ bg_error \/ phase = "closing" \/ (phase = "open" /\ imm = {} /\ Chosen = {})
    /\ UNCHANGED <<vs, imm, bg_error>>
    /\ IF bg_error \/ phase = "closing" THEN EndOfCall(NoJob, TRUE)
       ELSE EndOfCall([manual |-> Posted # {}], FALSE)
    /\ UNCHANGED <<disk, mem, logfile_number, snapshots, pending_outputs, writers, writing,
                   readers, todo, history>>

(* DoCompactionWork opens its outputs; the memtable may be compacted       *)
(* before and, but for the last entry, after it.                           *)
OpenOutputs ==
    \E j \in bg.job :
        LET tables == CompactionOutputs(j.c, disk.tables, j.smallest_snapshot)
            n == vs.next_file_number
            new == [i \in n..(n + Len(tables) - 1) |-> tables[i - n + 1]]
        IN /\ bg.pc = "merging" /\ ~j.opened /\ phase = "open"
           /\ bg' = [bg EXCEPT !.job = {[j EXCEPT !.opened = TRUE,
                                          !.outputs = [i \in DOMAIN tables |-> n + i - 1]]}]
           /\ vs' = [vs EXCEPT !.next_file_number = n + Len(tables)]
           /\ pending_outputs' = pending_outputs \cup DOMAIN new
           /\ disk' = [disk EXCEPT !.tables = Over(new, @)]
           /\ UNCHANGED <<BgUnchanged, imm, bg_error, background_compaction_scheduled, manual, todo>>

(* InstallCompactionResults up to the manifest. *)
FinishCompactionWork ==
    \E j \in bg.job :
        LET edit == [NoEdit EXCEPT
                        !.deleted = AddInputDeletions(j.c),
                        !.added = {<<j.c.level + 1, FileMetaData(n, disk.tables[n])>>
                                       : n \in ToSet(j.outputs)},
                        !.pointers = {<<j.c.level, j.c.pointer>>}]
        IN /\ bg.pc = "merging" /\ j.opened /\ phase = "open"
           /\ bg' = [bg EXCEPT !.pc = "logging", !.edit = {WithNumbers(vs, edit)}]
           /\ UNCHANGED <<BgUnchanged, disk, vs, imm, pending_outputs, bg_error,
                          background_compaction_scheduled, manual, todo>>

(* LogAndApply without the mutex: the edit goes into the manifest ... *)
WriteEdit ==
    /\ bg.pc = "logging"
    /\ disk' = [disk EXCEPT !.manifests[vs.manifest_file_number].records =
                                Append(@, The(bg.edit))]
    /\ bg' = [bg EXCEPT !.pc = "logged"]
    /\ UNCHANGED <<BgUnchanged, vs, imm, pending_outputs, bg_error,
                   background_compaction_scheduled, manual, todo>>

OfMemTable == bg.number # 0
OutputsOf(jobs) == UNION {ToSet(j.outputs) : j \in jobs}
VersionsOf(jobs) == {j.c.version : j \in jobs}

(* ... is synced, and with the mutex again the version is installed: the   *)
(* memtable is gone or the compaction cleaned up, and files nobody needs   *)
(* are deleted, unless there was an error.  A trivial move deletes none.   *)
InstallEdit ==
    LET v == Installed(vs, The(bg.edit))
        m == vs.manifest_file_number
        synced == [disk EXCEPT !.manifests[m].synced = Len(disk.manifests[m].records)]
        jobs == IF OfMemTable THEN bg.job ELSE {}
        pending == IF OfMemTable THEN pending_outputs ELSE pending_outputs \ OutputsOf(bg.job)
        live == pending \cup LiveFiles(v, ReaderVersions \cup VersionsOf(jobs))
    IN /\ bg.pc = "logged"
       /\ vs' = v
       /\ disk' = IF bg_error \/ (~OfMemTable /\ bg.job = {}) THEN synced
                  ELSE DeleteObsoleteFiles(synced, v, live)
       /\ pending_outputs' = pending
       /\ imm' = IF OfMemTable THEN {} ELSE imm
       /\ bg_error' = bg_error
       /\ IF OfMemTable THEN AfterMemTable
          ELSE EndOfCall(IF bg.job = {} THEN NoJob ELSE The(bg.job), TRUE)
       /\ UNCHANGED <<mem, logfile_number, snapshots, writers, writing, readers, todo, history>>

(* The manifest cannot be synced: whether the edit is in it is not known,  *)
(* so nothing is deleted any more and no write is let in.                  *)
FailEdit ==
    /\ bg.pc = "logged" /\ "manifest" \in todo.faults
    /\ bg_error' = TRUE
    /\ UNCHANGED <<imm, vs>>
    /\ IF OfMemTable THEN AfterMemTable /\ UNCHANGED pending_outputs
       ELSE /\ EndOfCall(IF bg.job = {} THEN NoJob ELSE The(bg.job), FALSE)
            /\ pending_outputs' = pending_outputs \ OutputsOf(bg.job)
    /\ todo' = [todo EXCEPT !.faults = @ \ {"manifest"}]
    /\ UNCHANGED <<disk, mem, logfile_number, snapshots, writers, writing, readers, history>>

-----------------------------------------------------------------------------
(* Manual compactions: TEST_CompactRange posts what is left of the range   *)
(* until all of it is done, and takes it back after an error.              *)
PostManual ==
    /\ phase = "open" /\ ~bg_error
    /\ \/ LET m == Head(todo.manuals)
          IN /\ manual = {} /\ todo.manuals # <<>>
             /\ manual' = {[level |-> m.level, begin |-> m.begin, end |-> m.end, posted |-> TRUE]}
             /\ todo' = [todo EXCEPT !.manuals = Tail(@)]
       \/ \E m \in manual : /\ ~m.posted
                           /\ manual' = {[m EXCEPT !.posted = TRUE]}
                           /\ UNCHANGED todo
    /\ background_compaction_scheduled' = TRUE
    /\ UNCHANGED <<disk, vs, memory, pending_outputs, bg_error, writers, writing, readers, bg,
                   phase, history>>

CancelManual ==
    /\ Alive /\ manual # {} /\ bg_error
    /\ manual' = {}
    /\ UNCHANGED <<disk, vs, memory, pending_outputs, bg_error, writers, writing, readers, bg,
                   background_compaction_scheduled, phase, todo, history>>

-----------------------------------------------------------------------------
(* The end: a clean one, or a crash.                                       *)

(* What the process keeps in memory is gone. *)
Forget ==
    /\ vs' = NewVersionSet
    /\ mem' = {} /\ imm' = {} /\ snapshots' = {} /\ logfile_number' = 0
    /\ pending_outputs' = {} /\ bg_error' = FALSE
    /\ writers' = <<>> /\ writing' = {} /\ readers' = [r \in Readers |-> {}]
    /\ bg' = Idle /\ background_compaction_scheduled' = FALSE /\ manual' = {}
    /\ phase' = "closed"

(* ~DBImpl: nobody uses the database any more; shutting_down_ is set and   *)
(* the background thread is waited for.                                    *)
Close ==
    /\ phase = "open" /\ todo.closes > 0
    /\ writers = <<>> /\ manual = {} /\ snapshots = {} /\ \A r \in Readers : readers[r] = {}
    /\ phase' = "closing"
    /\ todo' = [todo EXCEPT !.closes = @ - 1]
    /\ UNCHANGED <<disk, vs, memory, pending_outputs, bg_error, writers, writing, readers, bg,
                   background_compaction_scheduled, manual, history>>

(* A compaction that notices shutting_down_ is given up. *)
AbortCompaction ==
    \E j \in bg.job :
        /\ bg.pc = "merging" /\ phase = "closing"
        /\ bg_error' = TRUE
        /\ pending_outputs' = pending_outputs \ ToSet(j.outputs)
        /\ UNCHANGED <<imm, vs>>
        /\ EndOfCall(j, FALSE)
        /\ UNCHANGED <<disk, mem, logfile_number, snapshots, writers, writing, readers, todo,
                       history>>

(* What the database stands for once it is opened again: less the entries  *)
(* of log records that are lost, and with those of writes that were in the *)
(* log but did not return ok.                                              *)
WrittenIn(left) ==
    LET edits == left.manifests[left.current].records
        first == IF edits = <<>> THEN 0 ELSE Last(edits).log_number
        inLogs(logs, Use(_)) == UNION {Groups(Use(logs[n].records)) :
                                          n \in {m \in DOMAIN logs : m >= first}}
        All(records) == records
        found == inLogs(left.logs, Readable)
    IN (written \ (inLogs(disk.logs, All) \ found)) \cup found

FinishClose ==
    /\ phase = "closing" /\ ~background_compaction_scheduled
    /\ Forget
    /\ written' = WrittenIn(disk)
    /\ UNCHANGED <<disk, todo, promised>>

(* The machine stops: of every log and manifest some prefix that holds at  *)
(* least what was synced survives.                                         *)
Survives(f, kept) ==
    [n \in DOMAIN f |-> [records |-> SubSeq(f[n].records, 1, kept[n]), synced |-> kept[n]]]

Survivors(f) == {kept \in [DOMAIN f -> 0..Max({0} \cup {Len(f[n].records) : n \in DOMAIN f})] :
                   \A n \in DOMAIN f : kept[n] \in f[n].synced..Len(f[n].records)}

Crash ==
    /\ phase \notin {"closed", "corrupt", "dead"} \/ (phase = "closed" /\ disk.current = 1)
    /\ todo.crashes > 0
    /\ todo' = [todo EXCEPT !.crashes = @ - 1]
    /\ \E logs \in Survivors(disk.logs), manifests \in Survivors(disk.manifests) :
        LET left == [disk EXCEPT !.logs = Survives(@, logs),
                                 !.manifests = Survives(@, manifests)]
        IN disk' = left /\ written' = WrittenIn(left)
    /\ Forget
    /\ UNCHANGED promised

-----------------------------------------------------------------------------
(* The directory of a database that was created and closed. *)
CreatedDisk ==
    [logs |-> With(<<>>, 3, EmptyFile), tables |-> <<>>, current |-> 2,
     manifests |-> With(<<>>, 2,
         [records |-> <<NoEdit, [NoEdit EXCEPT !.log_number = 3, !.next_file = 4]>>, synced |-> 2])]

NoDisk == [logs |-> <<>>, tables |-> <<>>, current |-> 0, manifests |-> <<>>]

(* A scenario says whether the database exists, and bounds what happens:   *)
(* the batches that are written, in order, the keys, reads, snapshots,     *)
(* manual compactions, closes, crashes and faults.                         *)
Init ==
    /\ todo \in Scenarios
    /\ disk = IF todo.created THEN CreatedDisk ELSE NoDisk
    /\ vs = NewVersionSet
    /\ mem = {} /\ imm = {} /\ snapshots = {} /\ logfile_number = 0
    /\ pending_outputs = {} /\ bg_error = FALSE
    /\ writers = <<>> /\ writing = {} /\ readers = [r \in Readers |-> {}]
    /\ bg = Idle /\ background_compaction_scheduled = FALSE /\ manual = {}
    /\ phase = "closed"
    /\ written = {} /\ promised = {}

Opening == NewDB \/ Recover \/ WriteNewManifest \/ SetCurrentFile \/ FinishOpen
WriteSteps == BeginWrite \/ FailWrite \/ AddRecord \/ FinishWrite
Background == \/ BeginMemTable \/ FinishBuild \/ BeginCompaction \/ IdleCall \/ OpenOutputs
              \/ FinishCompactionWork \/ WriteEdit \/ InstallEdit \/ AbortCompaction
Faults == FailSync \/ FailAddRecord \/ FailEdit \/ Crash
Clients == \/ \E t \in Threads : Write(t)
           \/ \E r \in Readers : BeginRead(r) \/ EndRead(r)
           \/ GetSnapshot \/ (\E s \in snapshots : ReleaseSnapshot(s))
           \/ PostManual \/ CancelManual \/ Close \/ FinishClose

Next == Opening \/ WriteSteps \/ Background \/ Faults \/ Clients

Spec == Init /\ [][Next]_vars

(* The threads in Write and the background thread run whenever they can;   *)
(* nobody has to call anything.  (The guards stand for ENABLED: a thread   *)
(* that does not wait has a step to take.)                                 *)
WriterRuns ==
    /\ Alive
    /\ writing # {} \/ (writers # <<>> /\ (bg_error \/ HasRoom \/ MaySwitch))
BackgroundRuns == Alive /\ background_compaction_scheduled

FairSpec ==
    /\ Spec
    /\ []<>~WriterRuns \/ []<><<WriteSteps>>_vars
    /\ []<>~BackgroundRuns \/ []<><<Background>>_vars

-----------------------------------------------------------------------------
TypeOK ==
    /\ phase \in {"closed", "recovered", "described", "current", "open", "closing", "corrupt", "dead"}
    /\ Cardinality(imm) <= 1 /\ Cardinality(writing) <= 1 /\ Cardinality(manual) <= 1
    /\ bg.pc \in {"idle", "building", "merging", "logging", "logged"}
    /\ \A r \in Readers : Cardinality(readers[r]) <= 1
    /\ pending_outputs \cup DOMAIN disk.tables \cup DOMAIN disk.logs \subseteq Nat
    /\ phase = "open" => logfile_number \in DOMAIN disk.logs

Value(entries) == {k \in entries : k.type = kTypeValue}

Now(s) == [sequence |-> s, mem |-> mem, imm |-> imm, version |-> vs.version]

(* What a read finds is what the writes the database stands for say, at    *)
(* the last sequence number, at every snapshot and for every reader that   *)
(* pinned a version, however many memtables, tables, crashes and           *)
(* recoveries lie between.                                                 *)
ReadsRight ==
    phase = "open" =>
        \A k \in todo.keys :
            \A p \in {Now(s) : s \in snapshots \cup {vs.last_sequence}}
                         \cup UNION {readers[r] : r \in Readers} :
                Value(ReadPinned(p, k).found)
                    = Value(Lookup(UNION written, LookupKey(k, p.sequence)))

(* The database is a store of batches that take effect whole and in order, *)
(* and that keeps the promised ones: what options.h says of a write with   *)
(* sync, that it has the semantics of a write() and an fsync().            *)
KV == INSTANCE KVStore WITH up <- phase = "open", store <- written
KeepsPromises == KV!Spec

(* What no crash and no failed write takes back. *)
Durable == promised \subseteq written

(* Whatever prefixes of the logs and manifests a crash leaves, in the      *)
(* middle of an edit, a deletion of files or another recovery, Open finds  *)
(* a version in the manifest CURRENT names, and all of its tables.         *)
Recoverable == phase # "corrupt"

(* Nobody finds a table he may read gone: readers and compactions keep the *)
(* tables of their versions, without any lock, until they are done.        *)
PinnedTablesExist ==
    LiveFiles(vs, ReaderVersions \cup VersionsOf(bg.job)) \subseteq DOMAIN disk.tables

(* A table that is part of a version, for this process or for the next, is *)
(* never written again: file numbers are not used twice.                   *)
TablesImmutable ==
    [][\A n \in (LiveFiles(vs, ReaderVersions) \cup LiveFiles(vs', {}))
                    \cap DOMAIN disk.tables \cap DOMAIN disk'.tables :
           disk'.tables[n] = disk.tables[n]]_vars

(* builder.SaveTo's "Must not overlap". *)
LevelsDisjoint ==
    \A level \in Levels \ {0} : \A i \in 2..Len(vs.version[level]) :
        IKLess(vs.version[level][i - 1].largest, vs.version[level][i].smallest)

(* A writer that waits for room is not forgotten: somebody will compact,   *)
(* and signal.                                                             *)
Waits == /\ phase = "open" /\ ~bg_error /\ writers # <<>> /\ writing = {}
         /\ ~HasRoom /\ ~MaySwitch
NoLostWakeup == Waits => background_compaction_scheduled

(* And in the end every writer returns, with ok or with an error, or the   *)
(* process ends before.                                                    *)
WritersReturn ==
    \A t \in Threads : (\E i \in DOMAIN writers : writers[i].thread = t)
                         ~> (phase = "dead" \/ \A i \in DOMAIN writers : writers[i].thread # t)

(* No thread uses manual_compaction_ after its owner took it back. *)
NoNullManual == Alive
=============================================================================
