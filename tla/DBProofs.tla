------------------------------ MODULE DBProofs ------------------------------
(***************************************************************************)
(* Tables and versions of DB: whoever may read a table finds it, no table  *)
(* that is part of a version is written again, and Open finds all tables   *)
(* of the version that the manifest names, whatever a crash left of it.    *)
(***************************************************************************)
EXTENDS DB, VersionLemmas

-----------------------------------------------------------------------------
(* The invariant.  First, what things are.                                 *)

LogFiles == [records : Seq(Seq(Keys)), synced : Nat]

DiskTyped(d) ==
    /\ d = [logs |-> d.logs, tables |-> d.tables, current |-> d.current,
            manifests |-> d.manifests]
    /\ IsFiniteSet(DOMAIN d.logs) /\ DOMAIN d.logs \subseteq Nat
    /\ d.logs \in [DOMAIN d.logs -> LogFiles]
    /\ DOMAIN d.tables \subseteq Nat /\ d.tables \in [DOMAIN d.tables -> Contents]
    /\ d.current \in Nat
    /\ d.manifests = [n \in DOMAIN d.manifests |-> d.manifests[n]]

(* The tables that an edit adds exist already, and it counts them. *)
EditSound(e, tables) ==
    /\ IsFiniteSet(e.added) /\ e.next_file \in Nat /\ e.last_sequence \in Nat
    /\ \A a \in e.added : MetaSound(a[2], tables, e.next_file)

(* The version set that the first k records of a manifest lead to. *)
Replayed(edits) == FoldLeft(Apply, NewVersionSet, edits)

After(m, k) == Replayed(SubSeq(m.records, 1, k)).version

ManifestTyped(m) ==
    /\ m = [records |-> m.records, synced |-> m.synced]
    /\ IsSeq(m.records) /\ m.synced \in 0..Len(m.records)

(* Of a manifest a crash leaves any k records, once k is not less than     *)
(* what is synced: each such version can be opened, and none of the tables *)
(* in it, nor the manifest itself, has a number it would give out again.   *)
RecordSound(m, k, current, tables) ==
    /\ m.records[k].next_file \in Nat /\ m.records[k].last_sequence \in Nat
    /\ current < m.records[k].next_file
    /\ m.records[k].next_file <= m.records[Len(m.records)].next_file
    /\ VersionSound(After(m, k), tables, m.records[k].next_file)

ManifestSound(m, current, tables) ==
    /\ ManifestTyped(m)
    /\ \A k \in 1..Len(m.records) : m.synced <= k => RecordSound(m, k, current, tables)

VersionSetShape(v) ==
    v = [version |-> v.version, next_file_number |-> v.next_file_number,
         manifest_file_number |-> v.manifest_file_number, last_sequence |-> v.last_sequence,
         log_number |-> v.log_number, compact_pointer |-> v.compact_pointer,
         file_to_compact |-> v.file_to_compact]

VersionSetSound(v, tables) ==
    /\ VersionSetShape(v)
    /\ {v.next_file_number, v.manifest_file_number, v.last_sequence} \subseteq Nat
    /\ VersionSound(v.version, tables, v.next_file_number)
    /\ \A s \in v.file_to_compact :
          s.level \in 0..(kNumLevels - 2) /\ s.file \in ToSet(v.version[s.level])

(* A compaction reads the tables of the version it began with, however old *)
(* that is by now; its outputs so far exist, and are pending, so that no   *)
(* deletion of obsolete files takes them.                                  *)
JobSound(j, tables, bound, pending) ==
    /\ j = [c |-> j.c, manual |-> j.manual, outputs |-> j.outputs, opened |-> j.opened,
            smallest_snapshot |-> j.smallest_snapshot]
    /\ CompactionSound(j.c, tables, bound)
    /\ IsSeq(j.outputs)
    /\ \A n \in ToSet(j.outputs) : n \in DOMAIN tables /\ n < bound /\ n \in pending

-----------------------------------------------------------------------------
(* Then, what the state is.                                                *)

ClientsTyped ==
    /\ todo \in ScenarioType
    /\ mem \in KeySets /\ imm \subseteq KeySets /\ (imm = {} \/ imm = {The(imm)})
    /\ writers \in Seq([thread : Threads, batch : Seq(Nat \X {kTypeDeletion, kTypeValue}),
                        sync : BOOLEAN])
    /\ writing \subseteq [count : Nat, logged : BOOLEAN, record : Seq(Keys)]
    /\ \A m \in manual : "level" \in DOMAIN m /\ m.level \in 0..(kNumLevels - 2)

DiskSound ==
    /\ DiskTyped(disk)
    /\ disk.current # 0 =>
          /\ disk.current \in DOMAIN disk.manifests
          /\ ManifestSound(disk.manifests[disk.current], disk.current, disk.tables)

ReadersSound ==
    /\ readers = [r \in Readers |-> readers[r]]
    /\ \A r \in Readers : \A p \in readers[r] :
          VersionSound(p.version, disk.tables, vs.next_file_number)

BgEditSound ==
    /\ bg.edit = {The(bg.edit)} /\ EditSound(The(bg.edit), disk.tables)
    /\ The(bg.edit).next_file <= vs.next_file_number

(* The memtable's table has a number of its own, and is written. *)
Building ==
    /\ imm # {} /\ bg.number \in Nat /\ bg.number < vs.next_file_number
    /\ bg.number \notin OutputsOf(bg.job)
    /\ imm # {{}} => bg.number \in DOMAIN disk.tables /\ disk.tables[bg.number] = The(imm)

BackgroundSound ==
    /\ bg = [pc |-> bg.pc, number |-> bg.number, job |-> bg.job, edit |-> bg.edit]
    /\ \A j \in bg.job : JobSound(j, disk.tables, vs.next_file_number, pending_outputs)
    /\ bg.pc = "building" => Building
    /\ bg.pc \in {"logging", "logged"} => BgEditSound

(* Nobody does anything. *)
Quiescent ==
    /\ imm = {} /\ pending_outputs = {} /\ bg_error = FALSE
    /\ writers = <<>> /\ writing = {} /\ readers = [r \in Readers |-> {}]
    /\ bg.pc = "idle" /\ bg.number = 0 /\ bg.job = {}
    /\ background_compaction_scheduled = FALSE /\ manual = {}

(* The manifest that Open writes: a snapshot, and the edit of Recover. *)
Described == [records |-> <<SnapshotEdit(vs), The(bg.edit)>>, synced |-> 0]

(* Between Recover and FinishOpen. *)
Opened ==
    /\ Quiescent /\ BgEditSound /\ The(bg.edit).next_file = vs.next_file_number
    /\ disk.current # 0
    /\ vs.manifest_file_number \in 1..(vs.next_file_number - 1)
    /\ phase \in {"recovered", "described"} => disk.current # vs.manifest_file_number
    /\ phase = "described" =>
          /\ vs.manifest_file_number \in DOMAIN disk.manifests
          /\ disk.manifests[vs.manifest_file_number] = Described
    /\ phase = "current" =>
          /\ disk.current = vs.manifest_file_number
          /\ disk.manifests[disk.current] = [Described EXCEPT !.synced = 2]

(* While the database is open, its version is what the manifest says, up   *)
(* to the edit that is being written, until a write of the manifest fails. *)
Running ==
    LET m == disk.manifests[disk.current]
        n == Len(m.records)
    IN /\ disk.current # 0 /\ disk.current = vs.manifest_file_number
       /\ m.records # <<>> /\ m.records[n].next_file <= vs.next_file_number
       /\ bg.pc = "logging" => m.records[n].next_file <= The(bg.edit).next_file
       /\ bg.pc = "logged" => m.records[n] = The(bg.edit)
       /\ ~bg_error => IF bg.pc = "logged"
                       THEN m.synced = n - 1 /\ n > 1 /\ After(m, n - 1) = vs.version
                       ELSE m.synced = n /\ After(m, n) = vs.version

PhaseSound ==
    /\ phase \in {"closed", "corrupt"} => Quiescent /\ bg = Idle /\ vs = NewVersionSet
    /\ phase \in {"recovered", "described", "current"} => Opened
    /\ phase \in {"open", "closing", "dead"} => Running
    /\ phase \in {"closed", "corrupt", "recovered", "described", "current", "open", "closing", "dead"}

DBInv ==
    /\ ClientsTyped /\ DiskSound /\ VersionSetSound(vs, disk.tables)
    /\ ReadersSound /\ BackgroundSound /\ PhaseSound

(* No crash cuts the first manifest, which is not synced. *)
Opens ==
    /\ todo.created \/ todo.crashes = 0
    /\ todo.created => disk.current # 0 /\ disk.manifests[disk.current].synced # 0
    /\ disk.current # 0 => disk.manifests[disk.current].records # <<>>
    /\ phase # "corrupt"

(* Of the version before only the files of each level matter.              *)
LEMMA SaveToSame ==
    ASSUME NEW v, NEW w, NEW deleted, NEW added,
           \A level \in Levels : ToSet(v[level]) = ToSet(w[level])
    PROVE  SaveTo(v, deleted, added) = SaveTo(w, deleted, added)
<1>1. \A level \in Levels : KeptOf(ToSet(v[level]), deleted, added, level)
                              = KeptOf(ToSet(w[level]), deleted, added, level)
  OBVIOUS
<1> DEFINE to(x) == [level \in Levels |-> InFileOrder(KeptOf(ToSet(x[level]), deleted, added, level))]
<1>2. SaveTo(v, deleted, added) = to(v) /\ SaveTo(w, deleted, added) = to(w)
  BY DEF SaveTo, KeptOf, GoneFrom, NewIn
<1>3. to(v) = to(w)
  BY <1>1
<1> QED
  BY <1>2, <1>3

-----------------------------------------------------------------------------
(* Replaying a manifest, edit by edit.  The version sets are in no set, so *)
(* the recursion that FoldLeft is has a proof of its own.                  *)

Replays(f, n, edits) ==
    f = [s \in SUBSET (1..n) |->
            IF s = {} THEN NewVersionSet ELSE Apply(f[s \ {Max(s)}], edits[Max(s)])]

(* There is a function that replays the first edits, whichever they are. *)
LEMMA SomethingReplays ==
    ASSUME NEW edits, NEW n \in Nat
    PROVE  \E f : Replays(f, n, edits)
<1> DEFINE Q == {k \in Nat : \E f : Replays(f, k, edits)}
<1>1. 0 \in Q
  <2> DEFINE f == [s \in SUBSET (1..0) |-> NewVersionSet]
  <2>1. \A s \in SUBSET (1..0) : s = {}
    OBVIOUS
  <2>2. Replays(f, 0, edits)
    BY <2>1 DEF Replays
  <2> QED
    BY <2>2
<1>2. \A k \in Nat : k \in Q => k + 1 \in Q
  <2> SUFFICES ASSUME NEW k \in Nat, NEW f, Replays(f, k, edits)
               PROVE  \E g : Replays(g, k + 1, edits)
    OBVIOUS
  <2> DEFINE m == k + 1
             g == [s \in SUBSET (1..m) |->
                     IF m \in s THEN Apply(f[s \ {m}], edits[m]) ELSE f[s]]
  <2>1. \A s \in SUBSET (1..m) : m \in s => Max(s) = m /\ s \ {m} \in SUBSET (1..k)
    <3> SUFFICES ASSUME NEW s \in SUBSET (1..m), m \in s PROVE Max(s) = m /\ s \ {m} \in SUBSET (1..k)
      OBVIOUS
    <3>1. Max(s) \in s /\ \A x \in s : x <= m
      BY MaxIsElement
    <3>2. m >= Max(s) /\ \A y \in s : Max(s) >= y
      <4>1. \E x \in s : \A y \in s : x >= y
        BY <3>1
      <4> QED
        BY <3>1, <4>1 DEF Max
    <3>3. \A x \in s \ {m} : x \in 1..k
      OBVIOUS
    <3>4. Max(s) = m
      <4>1. Max(s) \in Nat /\ m \in Nat /\ Max(s) >= m /\ m >= Max(s)
        <5>3. m \in Nat
          OBVIOUS
        <5>4. s \subseteq 1..m
          OBVIOUS
        <5> HIDE DEF m
        <5>1. Max(s) \in 1..m /\ m \in Nat
          BY <3>1, <5>3, <5>4
        <5>2. Max(s) \in Nat
          BY <5>1
        <5> QED
          BY <3>2, <5>1, <5>2
      <4> HIDE DEF m
      <4> QED
        BY <4>1
    <3> QED
      BY <3>3, <3>4
  <2>2. \A s \in SUBSET (1..m) : m \notin s => s \in SUBSET (1..k)
    OBVIOUS
  <2>3. \A s \in SUBSET (1..k) : s # {} => Max(s) \in s /\ s \ {Max(s)} \in SUBSET (1..k)
    BY MaxIsElement
  <2>4. \A s \in SUBSET (1..k) : f[s] = IF s = {} THEN NewVersionSet ELSE Apply(f[s \ {Max(s)}], edits[Max(s)])
    BY DEF Replays
  <2>5. \A s \in SUBSET (1..k) : s \in SUBSET (1..m) /\ m \notin s
    OBVIOUS
  <2>6. \A s \in SUBSET (1..m) : g[s] = IF m \in s THEN Apply(f[s \ {m}], edits[m]) ELSE f[s]
    OBVIOUS
  <2>7. g = [s \in SUBSET (1..m) |-> g[s]]
    OBVIOUS
  <2> HIDE DEF g, m
  <2>8. \A s \in SUBSET (1..m) : g[s] = IF s = {} THEN NewVersionSet ELSE Apply(g[s \ {Max(s)}], edits[Max(s)])
    <3> SUFFICES ASSUME NEW s \in SUBSET (1..m)
                 PROVE  g[s] = IF s = {} THEN NewVersionSet ELSE Apply(g[s \ {Max(s)}], edits[Max(s)])
      OBVIOUS
    <3>1. CASE m \in s
      <4>1. g[s \ {m}] = f[s \ {m}]
        BY <2>1, <2>5, <2>6, <3>1
      <4> QED
        BY <2>1, <2>6, <3>1, <4>1
    <3>2. CASE m \notin s
      <4>1. s \in SUBSET (1..k) /\ g[s] = f[s]
        BY <2>2, <2>6, <3>2
      <4>2. CASE s = {}
        BY <2>4, <4>1, <4>2
      <4>3. CASE s # {}
        <5>1. g[s \ {Max(s)}] = f[s \ {Max(s)}]
          BY <2>3, <2>5, <2>6, <4>1, <4>3
        <5> QED
          BY <2>4, <4>1, <4>3, <5>1
      <4> QED
        BY <4>2, <4>3
    <3> QED
      BY <3>1, <3>2
  <2>9. Replays(g, m, edits)
    BY <2>7, <2>8 DEF Replays
  <2> QED
    BY <2>9 DEF m
<1> HIDE DEF Q
<1>3. \A k \in Nat : k \in Q
  BY <1>1, <1>2, NumberInduction
<1> QED
  BY <1>3 DEF Q

ReplaysTo(h, n, edits) ==
    /\ h[0] = NewVersionSet
    /\ \A i \in 1..n : h[i] = Apply(h[i - 1], edits[i])

(* And so the edits can be replayed one after the other. *)
LEMMA ReplaySteps ==
    ASSUME NEW edits, IsSeq(edits)
    PROVE  \E h : ReplaysTo(h, Len(edits), edits) /\ h[Len(edits)] = Replayed(edits)
<1> DEFINE n == Len(edits)
           E(g) == [s \in SUBSET (1..n) |->
                      IF s = {} THEN NewVersionSet ELSE Apply(g[s \ {Max(s)}], edits[Max(s)])]
<1>1. n \in Nat /\ DOMAIN edits = 1..n
  BY LenProperties DEF IsSeq
<1>2. \A g : Replays(g, n, edits) <=> g = E(g)
  BY DEF Replays
<1>3. Replayed(edits) = (CHOOSE g : g = E(g))[1..n]
  BY <1>1 DEF Replayed, FoldLeft, MapThenFoldSet
<1>4. PICK it : it = E(it) /\ Replayed(edits) = it[1..n]
  <2>1. \E g : g = E(g)
    <3> HIDE DEF E
    <3> QED
      BY <1>1, <1>2, SomethingReplays
  <2> HIDE DEF E
  <2> QED
    BY <1>3, <2>1
<1>5. Replays(it, n, edits)
  BY <1>2, <1>4
<1> HIDE DEF E, n
<1> DEFINE h == [i \in 0..n |-> it[1..i]]
<1>6. h[0] = NewVersionSet
  <2>1. 1..0 = {} /\ 1..0 \in SUBSET (1..n) /\ 0 \in 0..n
    BY <1>1
  <2>2. it[{}] = NewVersionSet
    BY <1>5 DEF Replays
  <2> QED
    BY <2>1, <2>2
<1>7. ASSUME NEW i \in 1..n PROVE h[i] = Apply(h[i - 1], edits[i])
  <2>1. i \in 0..n /\ i - 1 \in 0..n /\ 1..i \in SUBSET (1..n) /\ 1..i # {}
    BY <1>1
  <2>2. Max(1..i) = i /\ (1..i) \ {i} = 1..(i - 1)
    BY <1>1, MaxOfPrefix
  <2>3. it[1..i] = Apply(it[(1..i) \ {Max(1..i)}], edits[Max(1..i)])
    BY <1>5, <2>1 DEF Replays
  <2> QED
    BY <2>1, <2>2, <2>3
<1>8. h[n] = Replayed(edits)
  BY <1>1, <1>4
<1> HIDE DEF h
<1> QED
  BY <1>6, <1>7, <1>8 DEF ReplaysTo, n

(* Equal edits replay to the same version set. *)
LEMMA ReplayOnce ==
    ASSUME NEW n \in Nat, NEW e1, NEW e2, NEW g, NEW h,
           ReplaysTo(g, n, e1), ReplaysTo(h, n, e2), \A i \in 1..n : e1[i] = e2[i]
    PROVE  g[n] = h[n]
<1> DEFINE Q == {i \in 0..n : g[i] = h[i]}
<1>1. 0 \in Q
  BY DEF ReplaysTo
<1>2. \A i \in 1..n : i - 1 \in Q => i \in Q
  BY DEF ReplaysTo
<1> HIDE DEF Q
<1>3. \A i \in 0..n : i \in Q
  BY <1>1, <1>2, BoundedInduction
<1> QED
  BY <1>3 DEF Q

(* Without edits it is the new version set. *)
LEMMA ReplayedNone == Replayed(<<>>) = NewVersionSet
<1>1. IsSeq(<<>>) /\ Len(<<>>) = 0
  BY DEF IsSeq
<1>2. PICK h : ReplaysTo(h, 0, <<>>) /\ h[0] = Replayed(<<>>)
  BY <1>1, ReplaySteps
<1> QED
  BY <1>2 DEF ReplaysTo

(* One edit more is applied to what the others made. *)
LEMMA ReplayedMore ==
    ASSUME NEW edits, IsSeq(edits), NEW e
    PROVE  /\ IsSeq(Append(edits, e))
           /\ Replayed(Append(edits, e)) = Apply(Replayed(edits), e)
<1> DEFINE more == Append(edits, e)
           n == Len(edits)
<1>1. n \in Nat /\ edits \in Seq(ToSet(edits))
  BY LenProperties DEF IsSeq
<1>2. /\ Len(more) = n + 1 /\ more[n + 1] = e /\ \A i \in 1..n : more[i] = edits[i]
      /\ more \in Seq(ToSet(edits) \cup {e})
  <2>1. edits \in Seq(ToSet(edits) \cup {e})
    BY <1>1
  <2> QED
    BY <1>1, <2>1, AppendProperties
<1>3. IsSeq(more)
  BY <1>2, SeqOfItsSet DEF IsSeq
<1> HIDE DEF more, n
<1>4. PICK g : ReplaysTo(g, n, edits) /\ g[n] = Replayed(edits)
  BY ReplaySteps DEF n
<1>5. PICK h : ReplaysTo(h, n + 1, more) /\ h[n + 1] = Replayed(more)
  <2>1. PICK h : ReplaysTo(h, Len(more), more) /\ h[Len(more)] = Replayed(more)
    BY <1>3, ReplaySteps
  <2> QED
    BY <1>2, <2>1
<1>6. ReplaysTo(h, n, more)
  BY <1>1, <1>5 DEF ReplaysTo
<1>7. h[n] = g[n]
  BY <1>1, <1>2, <1>4, <1>6, ReplayOnce
<1>8. h[n + 1] = Apply(h[n], more[n + 1])
  <2>1. n + 1 \in 1..(n + 1) /\ (n + 1) - 1 = n
    BY <1>1
  <2>2. h[n + 1] = Apply(h[(n + 1) - 1], more[n + 1])
    BY <1>5, <2>1 DEF ReplaysTo
  <2> QED
    BY <2>1, <2>2
<1> QED
  BY <1>2, <1>3, <1>4, <1>5, <1>7, <1>8 DEF more

(* Applying an edit changes the version and the compaction pointers, and   *)
(* nothing else.                                                           *)
LEMMA ApplyShape ==
    ASSUME NEW v, VersionSetShape(v), NEW e
    PROVE  /\ VersionSetShape(Apply(v, e))
           /\ Apply(v, e).version = SaveTo(v.version, e.deleted, e.added)
           /\ Apply(v, e).file_to_compact = {}
           /\ Apply(v, e).next_file_number = v.next_file_number
           /\ Apply(v, e).manifest_file_number = v.manifest_file_number
           /\ Apply(v, e).last_sequence = v.last_sequence
<1>1. PICK a, b, c, d, l, p, f :
         v = [version |-> a, next_file_number |-> b, manifest_file_number |-> c,
              last_sequence |-> d, log_number |-> l, compact_pointer |-> p, file_to_compact |-> f]
  BY DEF VersionSetShape
<1>2. PICK q : Apply(v, e) = [v EXCEPT !.version = SaveTo(v.version, e.deleted, e.added),
                                       !.compact_pointer = q, !.file_to_compact = {}]
  BY DEF Apply
<1>3. Apply(v, e) =
         [version |-> SaveTo(a, e.deleted, e.added), next_file_number |-> b,
          manifest_file_number |-> c, last_sequence |-> d, log_number |-> l,
          compact_pointer |-> q, file_to_compact |-> {}]
  BY <1>1, <1>2
<1> QED
  BY <1>1, <1>3 DEF VersionSetShape

(* What is replayed is a version set. *)
LEMMA ReplayedShape ==
    ASSUME NEW edits, IsSeq(edits)
    PROVE  VersionSetShape(Replayed(edits)) /\ Replayed(edits).file_to_compact = {}
<1> DEFINE n == Len(edits)
<1>1. n \in Nat
  BY LenProperties DEF IsSeq
<1>2. PICK h : ReplaysTo(h, n, edits) /\ h[n] = Replayed(edits)
  BY ReplaySteps
<1> HIDE DEF n
<1> DEFINE Q == {i \in 0..n : VersionSetShape(h[i]) /\ h[i].file_to_compact = {}}
<1>3. 0 \in Q
  <2>1. VersionSetShape(NewVersionSet) /\ NewVersionSet.file_to_compact = {}
    BY DEF NewVersionSet, VersionSetShape
  <2> QED
    BY <1>1, <1>2, <2>1 DEF ReplaysTo
<1>4. \A i \in 1..n : i - 1 \in Q => i \in Q
  <2> SUFFICES ASSUME NEW i \in 1..n, VersionSetShape(h[i - 1])
               PROVE  VersionSetShape(h[i]) /\ h[i].file_to_compact = {}
    BY <1>1
  <2>1. h[i] = Apply(h[i - 1], edits[i])
    BY <1>2 DEF ReplaysTo
  <2>2. VersionSetShape(Apply(h[i - 1], edits[i])) /\ Apply(h[i - 1], edits[i]).file_to_compact = {}
    BY ApplyShape
  <2> QED
    BY <2>1, <2>2
<1> HIDE DEF Q
<1>5. \A i \in 0..n : i \in Q
  BY <1>1, <1>3, <1>4, BoundedInduction
<1> QED
  BY <1>1, <1>2, <1>5 DEF Q

-----------------------------------------------------------------------------
(* Replaying logs. *)

(* Up to where it is torn, a log consists of records. *)
LEMMA ReadablePart ==
    ASSUME NEW records \in Seq(Seq(Keys))
    PROVE  Readable(records) \in Seq(Seq(Keys))
<1> DEFINE torn == {i \in DOMAIN records : records[i] = <<>>}
<1>1. DOMAIN records = 1..Len(records) /\ Len(records) \in Nat
  BY LenProperties
<1>2. CASE torn = {}
  BY <1>2 DEF Readable
<1>3. CASE torn # {}
  <2>1. torn \in SUBSET Nat
    BY <1>1
  <2>2. \E i \in torn : \A j \in torn : i <= j
    <3> HIDE DEF torn
    <3> QED
      BY <1>3, <2>1, LeastOf
  <2>3. Min(torn) \in torn
    <3> HIDE DEF torn
    <3> QED
      BY <2>2 DEF Min
  <2>4. Min(torn) - 1 \in 0..Len(records)
    BY <1>1, <2>3
  <2>5. Readable(records) = SubSeq(records, 1, Min(torn) - 1)
    BY <1>3 DEF Readable
  <2> HIDE DEF torn
  <2>6. SubSeq(records, 1, Min(torn) - 1) \in Seq(Seq(Keys))
    BY <1>1, <2>4, SubSeqProperties
  <2> QED
    BY <2>5, <2>6
<1> QED
  BY <1>2, <1>3

Recovering == [mem : KeySets, done : Seq(Contents)]

(* Replaying a record leaves a memtable and tables that are not empty. *)
LEMMA RecordReplayed ==
    ASSUME NEW s \in Recovering, NEW record \in Seq(Keys)
    PROVE  ReplayRecord(s, record) \in Recovering
<1> DEFINE full == s.mem \cup ToSet(record)
<1>1. s.mem \in KeySets /\ s.done \in Seq(Contents)
  BY DEF Recovering
<1>2. full \in KeySets
  BY <1>1, KeySetOfSeq, KeySetsJoin
<1>5. {} \in KeySets
  BY FS_EmptySet DEF KeySets
<1> HIDE DEF full
<1>3. CASE Cardinality(full) > WriteBuffer
  <2>1. full # {}
    <3>1. WriteBuffer \in Nat /\ Cardinality({}) = 0
      BY DBAssumption, FS_EmptySet
    <3>2. ~(0 > WriteBuffer)
      BY <3>1
    <3> QED
      BY <1>3, <3>1, <3>2
  <2>2. Append(s.done, full) \in Seq(Contents)
    BY <1>1, <1>2, <2>1, AppendProperties DEF Contents
  <2>3. ReplayRecord(s, record) = [mem |-> {}, done |-> Append(s.done, full)]
    BY <1>3 DEF ReplayRecord, full
  <2> QED
    BY <1>5, <2>2, <2>3 DEF Recovering
<1>4. CASE ~(Cardinality(full) > WriteBuffer)
  <2>1. ReplayRecord(s, record) = [s EXCEPT !.mem = full]
    BY <1>4 DEF ReplayRecord, full
  <2> QED
    BY <1>2, <2>1 DEF Recovering
<1> QED
  BY <1>3, <1>4

ReplayStarts == [mem |-> {}, done |-> <<>>]

RunsThrough(h, e) ==
    h[0] = ReplayStarts /\ \A i \in 1..Len(e) : h[i] = ReplayRecord(h[i - 1], e[i])

ReplayEnds(tables, end) ==
    tables = IF end.mem = {} THEN end.done ELSE Append(end.done, end.mem)

(* Replaying a log goes on record by record. *)
LEMMA LogReplays ==
    ASSUME NEW records \in Seq(Seq(Keys)), NEW e, e = Readable(records)
    PROVE  \E h \in [0..Len(e) -> Recovering] :
              RunsThrough(h, e) /\ ReplayEnds(Memtables(records), h[Len(e)])
<1> DEFINE n == Len(e)
           b == ReplayStarts
           X == Recovering
           G == [p \in (1..n) \X X |-> ReplayRecord(p[2], e[p[1]])]
           E(g) == [s \in SUBSET (1..n) |->
                      IF s = {} THEN b ELSE ReplayRecord(g[s \ {Max(s)}], e[Max(s)])]
           end == FoldLeft(ReplayRecord, b, e)
<1>1. n \in Nat /\ DOMAIN e = 1..n /\ \A i \in 1..n : e[i] \in Seq(Keys)
  BY ReadablePart, LenProperties
<1>2. b \in X
  BY FS_EmptySet DEF Recovering, KeySets, ReplayStarts
<1>3. G \in [(1..n) \X X -> X]
  BY <1>1, RecordReplayed
<1>4. \A i \in 1..n : \A x \in X : G[<<i, x>>] = ReplayRecord(x, e[i])
  OBVIOUS
<1>9. end = (CHOOSE g : g = E(g))[1..n]
  BY <1>1 DEF FoldLeft, MapThenFoldSet
<1>14. ReplayEnds(Memtables(records), end)
  BY DEF Memtables, ReplayStarts, ReplayEnds
<1> HIDE DEF n, G, b, X, end
<1>5. PICK f \in [SUBSET (1..n) -> X] : Unfolds(f, n, b, G)
  BY <1>1, <1>2, <1>3, PrefixRecursion
<1>6. \A s \in SUBSET (1..n) : s # {} => Max(s) \in 1..n /\ s \ {Max(s)} \in SUBSET (1..n)
  BY <1>1, MaxIsElement
<1>7. \A s \in SUBSET (1..n) :
         f[s] = IF s = {} THEN b ELSE ReplayRecord(f[s \ {Max(s)}], e[Max(s)])
  BY <1>4, <1>5, <1>6 DEF Unfolds
<1>8. f = E(f)
  BY <1>5, <1>7
<1>10. PICK it : it = E(it) /\ end = it[1..n]
  <2> HIDE DEF E
  <2> QED
    BY <1>8, <1>9
<1>11. UnfoldsIn(it, n, X, b, G)
  <2>1. it[{}] = b
    BY <1>10
  <2>2. \A s \in SUBSET (1..n) : s # {} => it[s] = ReplayRecord(it[s \ {Max(s)}], e[Max(s)])
    BY <1>10
  <2> QED
    BY <1>4, <1>6, <2>1, <2>2 DEF UnfoldsIn
<1> HIDE DEF E
<1>17. InSteps(it, n, X, b, G)
  BY <1>1, <1>2, <1>3, <1>11, PrefixSteps
<1>12. PICK h \in [0..n -> X] :
          h[0] = b /\ h[n] = it[1..n] /\ \A i \in 1..n : h[i] = G[<<i, h[i - 1]>>]
  BY <1>17 DEF InSteps
<1>13. \A i \in 1..n : h[i] = ReplayRecord(h[i - 1], e[i])
  <2> SUFFICES ASSUME NEW i \in 1..n PROVE h[i] = ReplayRecord(h[i - 1], e[i])
    OBVIOUS
  <2>1. i - 1 \in 0..n
    BY <1>1
  <2>2. h[i - 1] \in X
    BY <2>1
  <2>3. h[i] = G[<<i, h[i - 1]>>]
    BY <1>12
  <2> QED
    BY <1>4, <2>2, <2>3
<1>15. ReplayEnds(Memtables(records), h[n])
  BY <1>10, <1>12, <1>14
<1>16. RunsThrough(h, e)
  BY <1>12, <1>13 DEF RunsThrough, n, b
<1> QED
  BY <1>15, <1>16 DEF n, X

(* The tables a log makes are tables, none of them empty. *)
LEMMA MemtablesTyped ==
    ASSUME NEW records \in Seq(Seq(Keys))
    PROVE  Memtables(records) \in Seq(Contents)
<1>0. PICK e : e = Readable(records)
  OBVIOUS
<1>1. Len(e) \in 0..Len(e)
  BY <1>0, ReadablePart, LenProperties
<1>4. \E h \in [0..Len(e) -> Recovering] :
         RunsThrough(h, e) /\ ReplayEnds(Memtables(records), h[Len(e)])
  BY <1>0, LogReplays
<1>5. PICK h \in [0..Len(e) -> Recovering] : ReplayEnds(Memtables(records), h[Len(e)])
  BY <1>4
<1>6. h[Len(e)] \in Recovering
  BY <1>1
<1> DEFINE end == h[Len(e)]
<1>2. end \in Recovering /\ ReplayEnds(Memtables(records), end)
  BY <1>5, <1>6
<1> HIDE DEF end
<1>3. end.mem \in KeySets /\ end.done \in Seq(Contents)
  BY <1>2 DEF Recovering
<1>7. end.mem # {} => Append(end.done, end.mem) \in Seq(Contents)
  BY <1>3, AppendProperties DEF Contents
<1> QED
  BY <1>2, <1>3, <1>7 DEF ReplayEnds

(* What is appended to a sequence is in it. *)
LEMMA SetAppended ==
    ASSUME NEW T, NEW s \in Seq(T), NEW x \in T
    PROVE  ToSet(Append(s, x)) = ToSet(s) \cup {x}
<1> DEFINE a == Append(s, x)
           n == Len(s)
<1>1. /\ a \in Seq(T) /\ Len(a) = n + 1 /\ n \in Nat
      /\ \A i \in 1..n : a[i] = s[i]
      /\ a[n + 1] = x
  BY AppendProperties, LenProperties
<1>2. DOMAIN s = 1..n /\ DOMAIN a = 1..(n + 1)
  BY <1>1, LenProperties
<1> HIDE DEF a, n
<1>3. 1..(n + 1) = 1..n \cup {n + 1}
  BY <1>1
<1>4. ToSet(a) = ToSet(s) \cup {x}
  BY <1>1, <1>2, <1>3 DEF ToSet
<1> QED
  BY <1>4 DEF a

(* What is replayed so far, in the memtable and the tables. *)
Held(s) == s.mem \cup UNION ToSet(s.done)

(* Replaying a record adds its entries. *)
LEMMA RecordHeld ==
    ASSUME NEW s \in Recovering, NEW record \in Seq(Keys)
    PROVE  Held(ReplayRecord(s, record)) = Held(s) \cup ToSet(record)
<1> DEFINE full == s.mem \cup ToSet(record)
<1>1. s.mem \in KeySets /\ s.done \in Seq(Contents)
  BY DEF Recovering
<1>2. full \in KeySets
  BY <1>1, KeySetOfSeq, KeySetsJoin
<1> HIDE DEF full
<1>3. CASE Cardinality(full) > WriteBuffer
  <2>1. full # {}
    <3>1. WriteBuffer \in Nat /\ Cardinality({}) = 0
      BY DBAssumption, FS_EmptySet
    <3>2. ~(0 > WriteBuffer)
      BY <3>1
    <3> QED
      BY <1>3, <3>1, <3>2
  <2>2. ToSet(Append(s.done, full)) = ToSet(s.done) \cup {full}
    BY <1>1, <1>2, <2>1, SetAppended DEF Contents
  <2>3. ReplayRecord(s, record) = [mem |-> {}, done |-> Append(s.done, full)]
    BY <1>3 DEF ReplayRecord, full
  <2>4. Held(ReplayRecord(s, record)) = UNION (ToSet(s.done) \cup {full})
    BY <2>2, <2>3 DEF Held
  <2> DEFINE done == ToSet(s.done)
  <2>5. UNION (done \cup {full}) = full \cup UNION done
    <3> HIDE DEF done
    <3> QED
      OBVIOUS
  <2>6. Held(s) \cup ToSet(record) = full \cup UNION done
    BY DEF Held, full
  <2> HIDE DEF done
  <2>7. Held(ReplayRecord(s, record)) = full \cup UNION done
    BY <2>4, <2>5 DEF done
  <2> QED
    BY <2>6, <2>7
<1>4. CASE ~(Cardinality(full) > WriteBuffer)
  <2>1. ReplayRecord(s, record) = [s EXCEPT !.mem = full]
    BY <1>4 DEF ReplayRecord, full
  <2>2. [s EXCEPT !.mem = full].mem = full /\ [s EXCEPT !.mem = full].done = s.done
    BY DEF Recovering
  <2>3. Held(ReplayRecord(s, record)) = full \cup UNION ToSet(s.done)
    BY <2>1, <2>2 DEF Held
  <2> QED
    BY <2>3 DEF Held, full
<1> QED
  BY <1>3, <1>4

(* The tables of a log hold every record that can be read. *)
LEMMA MemtablesHold ==
    ASSUME NEW records \in Seq(Seq(Keys)), NEW e, e = Readable(records), NEW j \in 1..Len(e)
    PROVE  ToSet(e[j]) \subseteq UNION ToSet(Memtables(records))
<1> DEFINE n == Len(e)
<1>1. n \in Nat /\ DOMAIN e = 1..n /\ \A i \in 1..n : e[i] \in Seq(Keys)
  BY ReadablePart, LenProperties
<1>11. \E h \in [0..Len(e) -> Recovering] :
          RunsThrough(h, e) /\ ReplayEnds(Memtables(records), h[Len(e)])
  BY LogReplays
<1>10. PICK h \in [0..n -> Recovering] : RunsThrough(h, e) /\ ReplayEnds(Memtables(records), h[n])
  BY <1>11
<1>2. h[0] = ReplayStarts /\ \A i \in 1..n : h[i] = ReplayRecord(h[i - 1], e[i])
  BY <1>10 DEF RunsThrough
<1> DEFINE Q == {i \in 0..n : \A k \in 1..i : ToSet(e[k]) \subseteq Held(h[i])}
<1> HIDE DEF n
<1>3. \A i \in 1..n : i - 1 \in Q => i \in Q
  <2> SUFFICES ASSUME NEW i \in 1..n, i - 1 \in Q PROVE i \in Q
    OBVIOUS
  <2>1. Held(h[i]) = Held(h[i - 1]) \cup ToSet(e[i])
    <3>1. i - 1 \in 0..n /\ h[i - 1] \in Recovering /\ e[i] \in Seq(Keys)
      BY <1>1
    <3> QED
      BY <1>2, <3>1, RecordHeld
  <2>2. \A k \in 1..i : k = i \/ k \in 1..(i - 1)
    BY <1>1
  <2>3. \A k \in 1..i : ToSet(e[k]) \subseteq Held(h[i])
    BY <2>1, <2>2
  <2> QED
    BY <1>1, <2>3
<1>4. 0 \in Q
  BY <1>1
<1> HIDE DEF Q
<1>5. \A i \in 0..n : i \in Q
  BY <1>1, <1>3, <1>4, BoundedInduction
<1>6. ToSet(e[j]) \subseteq Held(h[n])
  BY <1>1, <1>5 DEF Q, n
<1>7. h[n] \in Recovering
  BY <1>1
<1> DEFINE end == h[n]
<1>8. /\ end.mem \in KeySets /\ end.done \in Seq(Contents)
      /\ Memtables(records) = IF end.mem = {} THEN end.done ELSE Append(end.done, end.mem)
  BY <1>7, <1>10 DEF Recovering, ReplayEnds
<1> HIDE DEF end
<1>9. UNION ToSet(Memtables(records)) = Held(end)
  <2>1. CASE end.mem = {}
    BY <1>8, <2>1 DEF Held
  <2>2. CASE end.mem # {}
    <3>2. end.mem \in Contents
      BY <1>8, <2>2 DEF Contents
    <3>1. ToSet(Append(end.done, end.mem)) = ToSet(end.done) \cup {end.mem}
      BY <1>8, <3>2, SetAppended
    <3> QED
      BY <1>8, <2>2, <3>1 DEF Held
  <2> QED
    BY <2>1, <2>2
<1> QED
  BY <1>6, <1>9 DEF end

-----------------------------------------------------------------------------
(* The tables Recover makes: new numbers, from next on.                    *)

LogsRead(next) ==
    {s \in [tables : UNION {[D -> Contents] : D \in SUBSET Nat}, next : Nat] :
        next <= s.next /\ \A n \in DOMAIN s.tables : next <= n /\ n < s.next}

(* Recovering a log takes new numbers for its tables and leaves the tables *)
(* of the logs before it.                                                  *)
LEMMA LogRecovered ==
    ASSUME DiskTyped(disk), NEW next \in Nat, NEW s \in LogsRead(next),
           NEW number \in DOMAIN disk.logs
    PROVE  RecoverLogFile(s, number) \in LogsRead(next)
<1> DEFINE tables == Memtables(disk.logs[number].records)
           new == [n \in s.next..(s.next + Len(tables) - 1) |-> tables[n - s.next + 1]]
           upto == s.next + Len(tables)
           all == Over(new, s.tables)
           nxt == IF upto <= number THEN number + 1 ELSE upto
<1>1. number \in Nat /\ disk.logs[number].records \in Seq(Seq(Keys))
  BY DEF DiskTyped, LogFiles
<1>2. tables \in Seq(Contents)
  BY <1>1, MemtablesTyped
<1>3. RecoverLogFile(s, number) = [tables |-> all, next |-> nxt]
  BY DEF RecoverLogFile
<1> HIDE DEF tables
<1>4. Len(tables) \in Nat /\ \A i \in 1..Len(tables) : tables[i] \in Contents
  BY <1>2
<1>5. s.next \in Nat /\ next <= s.next /\ \A n \in DOMAIN s.tables : n \in Nat /\ next <= n /\ n < s.next
  BY DEF LogsRead
<1>6. \A n \in DOMAIN s.tables : s.tables[n] \in Contents
  BY DEF LogsRead
<1>7. \A n \in s.next..(s.next + Len(tables) - 1) :
         n \in Nat /\ next <= n /\ n < upto /\ n - s.next + 1 \in 1..Len(tables)
  BY <1>4, <1>5
<1>8. DOMAIN all = DOMAIN s.tables \cup s.next..(s.next + Len(tables) - 1)
  BY DEF Over
<1>9. \A n \in DOMAIN all : all[n] \in Contents
  BY <1>4, <1>6, <1>7 DEF Over
<1>10. upto \in Nat /\ nxt \in Nat /\ upto <= nxt /\ next <= nxt /\ s.next <= nxt
  BY <1>1, <1>4, <1>5
<1>11. \A n \in DOMAIN all : n \in Nat /\ next <= n /\ n < nxt
  BY <1>5, <1>7, <1>8, <1>10
<1>12. all = [n \in DOMAIN all |-> all[n]]
  BY DEF Over
<1> HIDE DEF all, nxt
<1>13. all \in [DOMAIN all -> Contents] /\ DOMAIN all \in SUBSET Nat
  BY <1>9, <1>11, <1>12
<1>14. all \in UNION {[D -> Contents] : D \in SUBSET Nat}
  BY <1>13
<1> QED
  BY <1>3, <1>10, <1>11, <1>14 DEF LogsRead

(* The entries of its tables; and what a log is that they hold. *)
Tabled(s) == UNION {s.tables[n] : n \in DOMAIN s.tables}

Taken(s, number) ==
    /\ number < s.next
    /\ \A g \in Groups(Readable(disk.logs[number].records)) : g \subseteq Tabled(s)

(* The log that is recovered is taken over, and so the ones before stay. *)
LEMMA LogTaken ==
    ASSUME DiskTyped(disk), NEW next \in Nat, NEW s \in LogsRead(next),
           NEW number \in DOMAIN disk.logs, NEW t, t = RecoverLogFile(s, number)
    PROVE  Taken(t, number) /\ \A m \in DOMAIN disk.logs : Taken(s, m) => Taken(t, m)
<1> DEFINE records == disk.logs[number].records
           e == Readable(records)
           tables == Memtables(records)
           new == [n \in s.next..(s.next + Len(tables) - 1) |-> tables[n - s.next + 1]]
           upto == s.next + Len(tables)
           all == Over(new, s.tables)
           nxt == IF upto <= number THEN number + 1 ELSE upto
<1>1. number \in Nat /\ records \in Seq(Seq(Keys)) /\ DOMAIN disk.logs \subseteq Nat
  BY DEF DiskTyped, LogFiles
<1>2. tables \in Seq(Contents)
  BY <1>1, MemtablesTyped
<1>3. t.tables = all /\ t.next = nxt
  BY DEF RecoverLogFile
<1>4. s.next \in Nat /\ \A n \in DOMAIN s.tables : n \in Nat /\ n < s.next
  BY DEF LogsRead
<1>5. ToSet(e) = {e[i] : i \in 1..Len(e)}
  <2>1. DOMAIN e = 1..Len(e)
    BY <1>1, ReadablePart, LenProperties
  <2> QED
    BY <2>1 DEF ToSet
<1>6. \A j \in 1..Len(e) : ToSet(e[j]) \subseteq UNION ToSet(tables)
  BY <1>1, MemtablesHold
<1>7. \A g \in Groups(e) : g \subseteq UNION ToSet(tables)
  <2> HIDE DEF e, tables
  <2> QED
    BY <1>5, <1>6 DEF Groups
<1> HIDE DEF e, records, tables
<1>8. Len(tables) \in Nat /\ DOMAIN tables = 1..Len(tables)
  BY <1>2, LenProperties
<1>9. ToSet(tables) = {tables[i] : i \in 1..Len(tables)}
  BY <1>8 DEF ToSet
<1>10. \A i \in 1..Len(tables) : /\ s.next + i - 1 \in s.next..(s.next + Len(tables) - 1)
                                 /\ (s.next + i - 1) - s.next + 1 = i
  BY <1>4, <1>8
<1>11. \A i \in 1..Len(tables) : s.next + i - 1 \in DOMAIN all /\ all[s.next + i - 1] = tables[i]
  BY <1>10 DEF Over
<1>12. \A n \in DOMAIN s.tables : n \in DOMAIN all /\ all[n] = s.tables[n]
  <2>1. \A n \in s.next..(s.next + Len(tables) - 1) : ~(n < s.next)
    BY <1>4, <1>8
  <2> QED
    BY <1>4, <2>1 DEF Over
<1>13. number < nxt /\ s.next <= nxt /\ nxt \in Nat
  BY <1>1, <1>4, <1>8
<1> HIDE DEF all, nxt
<1>14. UNION ToSet(tables) \subseteq Tabled(t) /\ Tabled(s) \subseteq Tabled(t)
  BY <1>3, <1>9, <1>11, <1>12 DEF Tabled
<1>15. Taken(t, number)
  BY <1>3, <1>7, <1>13, <1>14 DEF Taken, e, records
<1>16. ASSUME NEW m \in DOMAIN disk.logs, Taken(s, m) PROVE Taken(t, m)
  <2>1. m < nxt
    BY <1>1, <1>4, <1>13, <1>16 DEF Taken
  <2> QED
    BY <1>3, <1>14, <1>16, <2>1 DEF Taken
<1> QED
  BY <1>15, <1>16

LogsReplayed(h, e, next) ==
    /\ h[0] = [tables |-> <<>>, next |-> next]
    /\ \A i \in 1..Len(e) : h[i] = RecoverLogFile(h[i - 1], e[i])

(* Recovering the logs goes on log by log. *)
LEMMA LogsInTurn ==
    ASSUME DiskTyped(disk), NEW next \in Nat, NEW v, NEW e, e = LogsToRecover(v)
    PROVE  /\ Len(e) \in Nat /\ DOMAIN e = 1..Len(e)
           /\ \A i \in 1..Len(e) : e[i] \in DOMAIN disk.logs
           /\ ToSet(e) = {m \in DOMAIN disk.logs : m >= v.log_number}
           /\ \E h \in [0..Len(e) -> LogsRead(next)] :
                 /\ LogsReplayed(h, e, next)
                 /\ h[Len(e)] = FoldLeft(RecoverLogFile, [tables |-> <<>>, next |-> next], e)
<1> DEFINE n == Len(e)
           b == [tables |-> <<>>, next |-> next]
           X == LogsRead(next)
           G == [p \in (1..n) \X X |-> RecoverLogFile(p[2], e[p[1]])]
           E(g) == [s \in SUBSET (1..n) |->
                      IF s = {} THEN b ELSE RecoverLogFile(g[s \ {Max(s)}], e[Max(s)])]
           end == FoldLeft(RecoverLogFile, b, e)
<1>1. /\ n \in Nat /\ DOMAIN e = 1..n /\ \A i \in 1..n : e[i] \in DOMAIN disk.logs
      /\ ToSet(e) = {m \in DOMAIN disk.logs : m >= v.log_number}
  <2> DEFINE S == {m \in DOMAIN disk.logs : m >= v.log_number}
  <2>1. S \in SUBSET Nat /\ IsFiniteSet(S)
    BY FS_Subset DEF DiskTyped
  <2>2. e = Ascending(S)
    BY DEF LogsToRecover
  <2>3. S \subseteq DOMAIN disk.logs
    OBVIOUS
  <2> HIDE DEF S
  <2>4. e \in Seq(S) /\ ToSet(e) = S
    BY <2>1, <2>2, NumbersInOrder
  <2>5. ToSet(e) = {m \in DOMAIN disk.logs : m >= v.log_number}
    BY <2>4 DEF S
  <2> QED
    BY <2>3, <2>4, <2>5, LenProperties
<1>2. b \in X
  <2>1. DOMAIN <<>> = {} /\ <<>> \in [{} -> Contents]
    OBVIOUS
  <2>2. <<>> \in UNION {[D -> Contents] : D \in SUBSET Nat}
    BY <2>1
  <2> QED
    BY <2>1, <2>2 DEF LogsRead
<1>3. G \in [(1..n) \X X -> X]
  BY <1>1, LogRecovered
<1>4. \A i \in 1..n : \A x \in X : G[<<i, x>>] = RecoverLogFile(x, e[i])
  OBVIOUS
<1>9. end = (CHOOSE g : g = E(g))[1..n]
  BY <1>1 DEF FoldLeft, MapThenFoldSet
<1> HIDE DEF n, G, b, X, end
<1>5. PICK f \in [SUBSET (1..n) -> X] : Unfolds(f, n, b, G)
  BY <1>1, <1>2, <1>3, PrefixRecursion
<1>6. \A s \in SUBSET (1..n) : s # {} => Max(s) \in 1..n /\ s \ {Max(s)} \in SUBSET (1..n)
  BY <1>1, MaxIsElement
<1>7. \A s \in SUBSET (1..n) :
         f[s] = IF s = {} THEN b ELSE RecoverLogFile(f[s \ {Max(s)}], e[Max(s)])
  BY <1>4, <1>5, <1>6 DEF Unfolds
<1>8. f = E(f)
  BY <1>5, <1>7
<1>10. PICK it : it = E(it) /\ end = it[1..n]
  <2> HIDE DEF E
  <2> QED
    BY <1>8, <1>9
<1>11. UnfoldsIn(it, n, X, b, G)
  <2>1. it[{}] = b
    BY <1>10
  <2>2. \A s \in SUBSET (1..n) : s # {} => it[s] = RecoverLogFile(it[s \ {Max(s)}], e[Max(s)])
    BY <1>10
  <2> QED
    BY <1>4, <1>6, <2>1, <2>2 DEF UnfoldsIn
<1> HIDE DEF E
<1>12. InSteps(it, n, X, b, G)
  BY <1>1, <1>2, <1>3, <1>11, PrefixSteps
<1>13. PICK h \in [0..n -> X] :
          h[0] = b /\ h[n] = it[1..n] /\ \A i \in 1..n : h[i] = G[<<i, h[i - 1]>>]
  BY <1>12 DEF InSteps
<1>14. \A i \in 1..n : h[i] = RecoverLogFile(h[i - 1], e[i])
  <2> SUFFICES ASSUME NEW i \in 1..n PROVE h[i] = RecoverLogFile(h[i - 1], e[i])
    OBVIOUS
  <2>1. i - 1 \in 0..n
    BY <1>1
  <2>2. h[i - 1] \in X
    BY <2>1
  <2>3. h[i] = G[<<i, h[i - 1]>>]
    BY <1>13
  <2> QED
    BY <1>4, <2>2, <2>3
<1>15. LogsReplayed(h, e, next)
  BY <1>13, <1>14 DEF LogsReplayed, b, n
<1>16. h[n] = FoldLeft(RecoverLogFile, [tables |-> <<>>, next |-> next], e)
  BY <1>10, <1>13 DEF end, b
<1> QED
  BY <1>1, <1>15, <1>16 DEF n, X

(* So all logs make tables with numbers from the next one on, and each of  *)
(* those that are recovered is taken over.                                 *)
LEMMA LogsRecovered ==
    ASSUME DiskTyped(disk), NEW next \in Nat, NEW v, NEW r,
           r = FoldLeft(RecoverLogFile, [tables |-> <<>>, next |-> next], LogsToRecover(v))
    PROVE  /\ r \in LogsRead(next)
           /\ \A m \in DOMAIN disk.logs : m >= v.log_number => Taken(r, m)
<1>1. PICK e : e = LogsToRecover(v)
  OBVIOUS
<1> DEFINE n == Len(e)
<1>2. /\ n \in Nat /\ DOMAIN e = 1..n
      /\ \A i \in 1..n : e[i] \in DOMAIN disk.logs
      /\ ToSet(e) = {m \in DOMAIN disk.logs : m >= v.log_number}
      /\ \E h \in [0..n -> LogsRead(next)] :
            /\ LogsReplayed(h, e, next)
            /\ h[n] = FoldLeft(RecoverLogFile, [tables |-> <<>>, next |-> next], e)
  BY <1>1, LogsInTurn
<1>3. PICK h \in [0..n -> LogsRead(next)] : LogsReplayed(h, e, next) /\ h[n] = r
  BY <1>1, <1>2
<1>4. \A i \in 1..n : h[i] = RecoverLogFile(h[i - 1], e[i])
  BY <1>3 DEF LogsReplayed
<1> DEFINE Q == {i \in 0..n : \A k \in 1..i : Taken(h[i], e[k])}
<1> HIDE DEF n
<1>5. \A i \in 1..n : i - 1 \in Q => i \in Q
  <2> SUFFICES ASSUME NEW i \in 1..n, i - 1 \in Q PROVE i \in Q
    OBVIOUS
  <2>1. i - 1 \in 0..n /\ h[i - 1] \in LogsRead(next) /\ e[i] \in DOMAIN disk.logs
    BY <1>2
  <2>2. /\ Taken(h[i], e[i])
        /\ \A m \in DOMAIN disk.logs : Taken(h[i - 1], m) => Taken(h[i], m)
    BY <1>4, <2>1, LogTaken
  <2>3. \A k \in 1..i : k = i \/ k \in 1..(i - 1)
    BY <1>2
  <2>4. \A k \in 1..(i - 1) : e[k] \in DOMAIN disk.logs
    BY <1>2
  <2>5. \A k \in 1..i : Taken(h[i], e[k])
    BY <2>2, <2>3, <2>4
  <2> QED
    BY <1>2, <2>5
<1>6. 0 \in Q
  BY <1>2
<1> HIDE DEF Q
<1>7. \A i \in 0..n : i \in Q
  BY <1>2, <1>5, <1>6, BoundedInduction
<1>8. n \in 0..n
  BY <1>2
<1>9. \A k \in 1..n : Taken(r, e[k])
  BY <1>3, <1>7, <1>8 DEF Q
<1>10. ASSUME NEW m \in DOMAIN disk.logs, m >= v.log_number PROVE Taken(r, m)
  <2>1. m \in ToSet(e)
    BY <1>2, <1>10
  <2>2. PICK k \in 1..n : m = e[k]
    BY <1>2, <2>1 DEF ToSet
  <2> QED
    BY <1>9, <2>2
<1> QED
  BY <1>3, <1>8, <1>10

(* What is known of those numbers and tables. *)
LEMMA ReadTables ==
    ASSUME NEW next \in Nat, NEW r \in LogsRead(next)
    PROVE  /\ r.next \in Nat /\ next <= r.next
           /\ DOMAIN r.tables \subseteq Nat /\ IsFiniteSet(DOMAIN r.tables)
           /\ r.tables \in [DOMAIN r.tables -> Contents]
           /\ \A n \in DOMAIN r.tables : next <= n /\ n < r.next
<1>1. /\ r.next \in Nat /\ next <= r.next
      /\ DOMAIN r.tables \subseteq Nat
      /\ r.tables \in [DOMAIN r.tables -> Contents]
      /\ \A n \in DOMAIN r.tables : next <= n /\ n < r.next
  BY DEF LogsRead
<1>2. DOMAIN r.tables \subseteq 0..r.next
  <2> SUFFICES ASSUME NEW n \in DOMAIN r.tables PROVE n \in 0..r.next
    OBVIOUS
  <2>1. n \in Nat /\ n < r.next /\ r.next \in Nat
    BY <1>1
  <2> QED
    BY <2>1
<1>3. IsFiniteSet(0..r.next)
  BY <1>1, FS_Interval
<1> QED
  BY <1>1, <1>2, <1>3, FS_Subset

(* A finite set of numbers has its maximum. *)
LEMMA MaxOfFinite ==
    ASSUME NEW S \in SUBSET Nat, IsFiniteSet(S), S # {}
    PROVE  Max(S) \in S /\ \A l \in S : l <= Max(S)
<1> DEFINE Q == {T \in SUBSET S : T # {} => \E k \in T : \A l \in T : k >= l}
<1>1. ASSUME NEW T \in SUBSET S, \A U \in SUBSET T : U # T => U \in Q PROVE T \in Q
  <2> SUFFICES ASSUME T # {} PROVE \E k \in T : \A l \in T : k >= l
    OBVIOUS
  <2>1. PICK a \in T : TRUE
    OBVIOUS
  <2>2. CASE T \ {a} = {}
    <3>1. \A l \in T : a >= l
      BY <2>1, <2>2
    <3> QED
      BY <2>1, <3>1
  <2>3. CASE T \ {a} # {}
    <3>5. T \ {a} \in Q
      BY <1>1, <2>1
    <3>1. PICK k \in T \ {a} : \A l \in T \ {a} : k >= l
      BY <2>3, <3>5
    <3>2. k \in Nat /\ a \in Nat
      BY <2>1, <3>1
    <3>3. CASE k >= a
      BY <3>1, <3>3
    <3>4. CASE ~(k >= a)
      <4>1. \A l \in T \ {a} : l \in Nat /\ a >= l
        BY <3>1, <3>2, <3>4
      <4> QED
        BY <2>1, <3>2, <4>1
    <3> QED
      BY <3>3, <3>4
  <2> QED
    BY <2>2, <2>3
<1> HIDE DEF Q
<1>2. S \in Q
  BY <1>1, SubsetInduction
<1>3. \E k \in S : \A l \in S : k >= l
  BY <1>2 DEF Q
<1>4. Max(S) \in S /\ \A l \in S : Max(S) >= l
  BY <1>3 DEF Max
<1>5. \A k \in Nat, l \in Nat : k >= l => l <= k
  OBVIOUS
<1> QED
  BY <1>4, <1>5

(* The largest sequence number that is recovered is a number, and no other *)
(* is larger.                                                              *)
LEMMA LargestSequence ==
    ASSUME NEW last \in Nat, NEW tables, IsFiniteSet(DOMAIN tables),
           tables \in [DOMAIN tables -> Contents]
    PROVE  LET all == {last} \cup {e.seq : e \in UNION {tables[n] : n \in DOMAIN tables}}
           IN Max(all) \in Nat /\ \A s \in all : s <= Max(all)
<1> DEFINE T == {tables[n] : n \in DOMAIN tables}
           all == UNION T
           seqs == {e.seq : e \in all}
<1>1. IsFiniteSet(T)
  <2>1. [n \in DOMAIN tables |-> tables[n]] \in Surjection(DOMAIN tables, T)
    BY DEF Surjection
  <2> HIDE DEF T
  <2> QED
    BY <2>1, FS_Surjection
<1>2. \A K \in T : IsFiniteSet(K) /\ K \subseteq Keys
  BY DEF Contents, KeySets
<1> HIDE DEF T
<1>3. IsFiniteSet(all) /\ all \subseteq Keys
  BY <1>1, <1>2, FS_UNION
<1> HIDE DEF all
<1>4. IsFiniteSet(seqs) /\ seqs \subseteq Nat
  <2>1. [e \in all |-> e.seq] \in Surjection(all, seqs)
    BY DEF Surjection
  <2>2. seqs \subseteq Nat
    BY <1>3 DEF Keys
  <2> HIDE DEF seqs
  <2> QED
    BY <1>3, <2>1, <2>2, FS_Surjection
<1> HIDE DEF seqs
<1>5. IsFiniteSet({last} \cup seqs) /\ {last} \cup seqs \in SUBSET Nat /\ {last} \cup seqs # {}
  BY <1>4, FS_Singleton, FS_Union
<1>6. /\ Max({last} \cup seqs) \in Nat
      /\ \A s \in {last} \cup seqs : s <= Max({last} \cup seqs)
  BY <1>5, MaxOfFinite
<1> QED
  BY <1>6 DEF seqs, all, T

-----------------------------------------------------------------------------
(* Groups of batches, and reads. *)

Queue == Seq([thread : Threads, batch : Seq(Nat \X {kTypeDeletion, kTypeValue}), sync : BOOLEAN])

(* A group of batches is a part of the queue. *)
LEMMA GroupTyped ==
    ASSUME writers \in Queue
    PROVE  BuildBatchGroup \in Queue /\ Len(BuildBatchGroup) \in Nat
<1> DEFINE stops == {i \in DOMAIN writers : writers[i].sync /\ ~writers[1].sync}
           upto == IF stops = {} THEN Len(writers) ELSE Min(stops) - 1
<1>1. DOMAIN writers = 1..Len(writers) /\ Len(writers) \in Nat
  BY LenProperties DEF Queue
<1>2. stops # {} => Min(stops) \in stops
  <2>1. stops \in SUBSET Nat
    BY <1>1
  <2> HIDE DEF stops
  <2>2. stops # {} => \E i \in stops : \A j \in stops : i <= j
    BY <2>1, LeastOf
  <2> QED
    BY <2>2 DEF Min
<1>3. stops \subseteq 1..Len(writers)
  BY <1>1
<1>4. BuildBatchGroup = SubSeq(writers, 1, upto)
  BY DEF BuildBatchGroup
<1> HIDE DEF stops
<1> DEFINE n == Len(writers)
<1>7. n \in Nat /\ stops \subseteq 1..n /\ upto = IF stops = {} THEN n ELSE Min(stops) - 1
  BY <1>1, <1>3
<1> HIDE DEF upto, n
<1>8. stops = {} => upto \in 0..n
  <2> HIDE DEF stops
  <2> QED
    BY <1>7
<1>9. stops # {} => upto \in 0..n
  <2> HIDE DEF stops
  <2> DEFINE k == Min(stops)
  <2> SUFFICES ASSUME stops # {} PROVE upto \in 0..n
    OBVIOUS
  <2>1. k \in 1..n /\ n \in Nat /\ upto = k - 1
    BY <1>2, <1>7
  <2> HIDE DEF k
  <2> QED
    BY <2>1
<1>5. upto \in 0..n
  BY <1>8, <1>9
<1>6. SubSeq(writers, 1, upto) \in Queue /\ Len(SubSeq(writers, 1, upto)) = upto
  <2> DEFINE T == [thread : Threads, batch : Seq(Nat \X {kTypeDeletion, kTypeValue}), sync : BOOLEAN]
  <2>1. writers \in Seq(T) /\ n = Len(writers)
    BY DEF Queue, n
  <2> HIDE DEF T
  <2>2. SubSeq(writers, 1, upto) \in Seq(T) /\ Len(SubSeq(writers, 1, upto)) = upto
    BY <1>5, <1>7, <2>1, SubSeqProperties
  <2> QED
    BY <2>2 DEF Queue, T
<1> QED
  BY <1>4, <1>5, <1>6, <1>7

(* Its entries are keys with sequence numbers from the last one on. *)
LEMMA EntriesTyped ==
    ASSUME NEW group \in Queue, vs.last_sequence \in Nat
    PROVE  GroupEntries(group) \in Seq(Keys)
<1> DEFINE T == Nat \X {kTypeDeletion, kTypeValue}
           batches == [i \in DOMAIN group |-> group[i].batch]
           ops == FlattenSeq(batches)
<1>1. DOMAIN group = 1..Len(group) /\ Len(group) \in Nat /\ \A i \in 1..Len(group) : group[i].batch \in Seq(T)
  <2> DEFINE W == [thread : Threads, batch : Seq(T), sync : BOOLEAN]
  <2>1. group \in Seq(W) /\ \A w \in W : w.batch \in Seq(T)
    BY DEF Queue
  <2> HIDE DEF W, T
  <2>2. DOMAIN group = 1..Len(group) /\ Len(group) \in Nat /\ \A i \in 1..Len(group) : group[i] \in W
    BY <2>1, LenProperties
  <2> QED
    BY <2>1, <2>2
<1>2. batches \in Seq(Seq(T))
  <2>1. batches \in [1..Len(group) -> Seq(T)]
    BY <1>1
  <2> HIDE DEF batches
  <2> QED
    BY <1>1, <2>1, SeqOfLength
<1>3. ops \in Seq(T)
  <2> HIDE DEF batches, T
  <2> QED
    BY <1>2, FlattenTyped
<1>4. GroupEntries(group)
        = [i \in DOMAIN ops |-> InternalKey(ops[i][1], vs.last_sequence + i, ops[i][2])]
  BY DEF GroupEntries
<1> HIDE DEF ops
<1>5. DOMAIN ops = 1..Len(ops) /\ Len(ops) \in Nat
      /\ \A i \in 1..Len(ops) : ops[i] \in Nat \X {kTypeDeletion, kTypeValue}
  BY <1>3, LenProperties
<1>6. \A i \in 1..Len(ops) : InternalKey(ops[i][1], vs.last_sequence + i, ops[i][2]) \in Keys
  <2> SUFFICES ASSUME NEW i \in 1..Len(ops)
               PROVE  InternalKey(ops[i][1], vs.last_sequence + i, ops[i][2]) \in Keys
    OBVIOUS
  <2>1. ops[i][1] \in Nat /\ ops[i][2] \in {kTypeDeletion, kTypeValue}
    BY <1>5
  <2>2. vs.last_sequence + i \in Nat
    BY <1>5
  <2> QED
    BY <2>1, <2>2 DEF InternalKey, Keys
<1>7. GroupEntries(group) \in [1..Len(ops) -> Keys]
  BY <1>4, <1>5, <1>6
<1> QED
  BY <1>5, <1>7, SeqOfLength

(* What is left of a queue is a queue. *)
LEMMA RestOfQueue ==
    ASSUME NEW T, NEW q \in Seq(T), NEW n \in Nat
    PROVE  SubSeq(q, n + 1, Len(q)) \in Seq(T)
<1>1. Len(q) \in Nat
  OBVIOUS
<1>2. CASE n <= Len(q)
  BY <1>1, <1>2, SubSeqProperties
<1>3. CASE ~(n <= Len(q))
  <2>1. SubSeq(q, n + 1, Len(q)) = <<>>
    BY <1>1, <1>3
  <2> QED
    BY <2>1
<1> QED
  BY <1>2, <1>3

(* A read of what it pinned charges a file of the version it pinned. *)
LEMMA PinnedCharge ==
    ASSUME NEW p, NEW bound, VersionSound(p.version, disk.tables, bound), DiskTyped(disk),
           NEW k, NEW s \in SeekCharge(ReadPinned(p, k))
    PROVE  s.level \in 0..(kNumLevels - 2) /\ s.file \in ToSet(p.version[s.level])
<1> DEFINE key == LookupKey(k, p.sequence)
<1>1. SeekCharge([found |-> Lookup(p.mem, key), seeks |-> <<>>]) = {}
  BY DEF SeekCharge
<1>2. SeekCharge([found |-> UNION {Lookup(m, key) : m \in p.imm}, seeks |-> <<>>]) = {}
  BY DEF SeekCharge
<1>3. \/ ReadPinned(p, k) = [found |-> Lookup(p.mem, key), seeks |-> <<>>]
      \/ ReadPinned(p, k) = [found |-> UNION {Lookup(m, key) : m \in p.imm}, seeks |-> <<>>]
      \/ ReadPinned(p, k) = GetFrom(p.version, disk.tables, key)
  BY DEF ReadPinned
<1>4. s \in SeekCharge(GetFrom(p.version, disk.tables, key))
  BY <1>1, <1>2, <1>3
<1> HIDE DEF key
<1> QED
  BY <1>4, ChargedFile DEF DiskTyped

-----------------------------------------------------------------------------
(* Tables come and go, those below a number stay. *)

Grown(t1, t2, bound) ==
    \A n \in DOMAIN t1 : n < bound => n \in DOMAIN t2 /\ t2[n] = t1[n]

(* A file stays sound, *)
LEMMA MetaGrown ==
    ASSUME NEW f, NEW t1, NEW t2, NEW b1 \in Nat, NEW b2 \in Nat, NEW b \in Nat,
           b1 <= b, b1 <= b2, DOMAIN t1 \subseteq Nat, Grown(t1, t2, b), MetaSound(f, t1, b1)
    PROVE  MetaSound(f, t2, b2)
<1>1. f.number \in DOMAIN t1 /\ f.number \in Nat /\ f.number < b1
      /\ f = FileMetaData(f.number, t1[f.number])
  BY DEF MetaSound
<1>2. f.number < b /\ f.number < b2
  BY <1>1
<1>3. f.number \in DOMAIN t2 /\ t2[f.number] = t1[f.number]
  BY <1>1, <1>2 DEF Grown
<1> QED
  BY <1>1, <1>2, <1>3 DEF MetaSound

(* a version stays sound, *)
LEMMA VersionGrown ==
    ASSUME NEW v, NEW t1, NEW t2, NEW b1 \in Nat, NEW b2 \in Nat, NEW b \in Nat,
           b1 <= b, b1 <= b2, DOMAIN t1 \subseteq Nat, Grown(t1, t2, b),
           VersionSound(v, t1, b1)
    PROVE  VersionSound(v, t2, b2)
BY MetaGrown DEF VersionSound, FilesSound

(* an edit that is being written does, *)
LEMMA EditGrown ==
    ASSUME NEW e, NEW t1, NEW t2, NEW b \in Nat, e.next_file <= b,
           DOMAIN t1 \subseteq Nat, Grown(t1, t2, b), EditSound(e, t1)
    PROVE  EditSound(e, t2)
BY MetaGrown DEF EditSound

(* a compaction and its outputs do, *)
LEMMA JobGrown ==
    ASSUME NEW j, NEW t1, NEW t2, NEW b1 \in Nat, NEW b2 \in Nat, b1 <= b2,
           DOMAIN t1 \subseteq Nat, Grown(t1, t2, b1), NEW p1, NEW p2, p1 \subseteq p2,
           JobSound(j, t1, b1, p1)
    PROVE  JobSound(j, t2, b2, p2)
<1>1. CompactionSound(j.c, t2, b2)
  BY VersionGrown DEF JobSound, CompactionSound
<1>2. ASSUME NEW n \in ToSet(j.outputs) PROVE n \in DOMAIN t2 /\ n < b2 /\ n \in p2
  <2>1. n \in DOMAIN t1 /\ n < b1 /\ n \in p1 /\ n \in Nat
    BY DEF JobSound
  <2>2. n < b2
    BY <2>1
  <2> QED
    BY <2>1, <2>2 DEF Grown
<1> QED
  BY <1>1, <1>2 DEF JobSound

(* and so does a manifest, as long as the tables below a number stay. *)
LEMMA ManifestGrown ==
    ASSUME NEW m, NEW current, NEW t1, NEW t2, NEW b \in Nat,
           m.records # <<>> => m.records[Len(m.records)].next_file <= b,
           DOMAIN t1 \subseteq Nat, Grown(t1, t2, b), ManifestSound(m, current, t1)
    PROVE  ManifestSound(m, current, t2)
<1>1. ManifestTyped(m)
  BY DEF ManifestSound
<1>2. ASSUME NEW k \in 1..Len(m.records), m.synced <= k PROVE RecordSound(m, k, current, t2)
  <2>1. RecordSound(m, k, current, t1)
    BY <1>2 DEF ManifestSound
  <2>2. Len(m.records) \in Nat /\ m.synced \in Nat /\ m.synced <= Len(m.records)
        /\ Len(m.records) \in 1..Len(m.records)
    BY <1>1, <1>2 DEF ManifestTyped, IsSeq
  <2>3. RecordSound(m, Len(m.records), current, t1)
    BY <2>2 DEF ManifestSound
  <2>4. m.records[Len(m.records)].next_file \in Nat /\ m.records[k].next_file \in Nat
        /\ m.records[k].next_file <= m.records[Len(m.records)].next_file
    BY <2>1, <2>3 DEF RecordSound
  <2>5. m.records # <<>>
    BY <2>2
  <2>6. m.records[k].next_file <= b
    BY <2>4, <2>5
  <2>7. VersionSound(After(m, k), t2, m.records[k].next_file)
    BY <2>1, <2>4, <2>6, VersionGrown DEF RecordSound
  <2> QED
    BY <2>1, <2>7 DEF RecordSound
<1> QED
  BY <1>1, <1>2 DEF ManifestSound

-----------------------------------------------------------------------------
(* Steps that go on from where the database is. *)

Onward ==
    /\ DOMAIN disk.tables \subseteq Nat
    /\ {vs.next_file_number, vs'.next_file_number} \subseteq Nat
    /\ vs.next_file_number <= vs'.next_file_number
    /\ Grown(disk.tables, disk'.tables, vs.next_file_number)

(* In such a step of the database every version stays sound, *)
LEMMA OnwardVersion ==
    ASSUME Onward, NEW v, VersionSound(v, disk.tables, vs.next_file_number)
    PROVE  VersionSound(v, disk'.tables, vs'.next_file_number)
<1> DEFINE b1 == vs.next_file_number
           b2 == vs'.next_file_number
           t1 == disk.tables
           t2 == disk'.tables
<1>1. b1 \in Nat /\ b2 \in Nat /\ b1 <= b2 /\ b1 <= b1 /\ DOMAIN t1 \subseteq Nat /\ Grown(t1, t2, b1)
      /\ VersionSound(v, t1, b1)
  BY DEF Onward
<1> HIDE DEF b1, b2, t1, t2
<1>2. VersionSound(v, t2, b2)
  BY <1>1, VersionGrown
<1> QED
  BY <1>2 DEF t2, b2

(* the readers' versions do, *)
LEMMA OnwardReaders ==
    ASSUME Onward, ReadersSound, UNCHANGED readers
    PROVE  ReadersSound'
BY OnwardVersion DEF ReadersSound

(* so do the compactions, *)
LEMMA OnwardJobs ==
    ASSUME Onward, NEW p2, pending_outputs \subseteq p2, NEW j,
           JobSound(j, disk.tables, vs.next_file_number, pending_outputs)
    PROVE  JobSound(j, disk'.tables, vs'.next_file_number, p2)
<1> DEFINE b1 == vs.next_file_number
           b2 == vs'.next_file_number
           t1 == disk.tables
           t2 == disk'.tables
           p1 == pending_outputs
<1>1. b1 \in Nat /\ b2 \in Nat /\ b1 <= b2 /\ DOMAIN t1 \subseteq Nat /\ Grown(t1, t2, b1)
      /\ p1 \subseteq p2 /\ JobSound(j, t1, b1, p1)
  BY DEF Onward
<1> HIDE DEF b1, b2, t1, t2, p1
<1>2. JobSound(j, t2, b2, p2)
  BY <1>1, JobGrown
<1> QED
  BY <1>2 DEF t2, b2

(* the edit that is being written, *)
LEMMA OnwardEdit ==
    ASSUME Onward, BgEditSound, bg'.edit = bg.edit
    PROVE  BgEditSound'
<1> DEFINE e == The(bg.edit)
           b1 == vs.next_file_number
           b2 == vs'.next_file_number
           t1 == disk.tables
           t2 == disk'.tables
<1>1. b1 \in Nat /\ b2 \in Nat /\ b1 <= b2 /\ DOMAIN t1 \subseteq Nat /\ Grown(t1, t2, b1)
      /\ EditSound(e, t1) /\ e.next_file <= b1 /\ e.next_file \in Nat
  BY DEF Onward, BgEditSound, EditSound
<1>2. bg'.edit = {e} /\ The(bg'.edit) = e
  BY DEF BgEditSound
<1> HIDE DEF b1, b2, t1, t2, e
<1>3. EditSound(e, t2) /\ e.next_file <= b2
  BY <1>1, EditGrown
<1> QED
  BY <1>2, <1>3 DEF BgEditSound, t2, b2

(* and everything the background thread has. *)
LEMMA OnwardBackground ==
    ASSUME Onward, BackgroundSound, UNCHANGED <<bg, imm>>,
           pending_outputs \subseteq pending_outputs'
    PROVE  BackgroundSound'
<1>1. \A j \in bg'.job : JobSound(j, disk'.tables, vs'.next_file_number, pending_outputs')
  BY OnwardJobs DEF BackgroundSound
<1>2. bg'.pc = "building" => Building'
  <2> SUFFICES ASSUME bg.pc = "building" PROVE Building'
    OBVIOUS
  <2>1. Building
    BY DEF BackgroundSound
  <2>2. bg.number < vs'.next_file_number
    BY <2>1 DEF Building, Onward
  <2>3. imm # {{}} => bg.number \in DOMAIN disk'.tables /\ disk'.tables[bg.number] = The(imm)
    BY <2>1 DEF Building, Onward, Grown
  <2> QED
    BY <2>1, <2>2, <2>3 DEF Building
<1>3. bg'.pc \in {"logging", "logged"} => BgEditSound'
  BY OnwardEdit DEF BackgroundSound
<1> QED
  BY <1>1, <1>2, <1>3 DEF BackgroundSound

(* Somebody who does something has the database open. *)
LEMMA Active ==
    ASSUME DBInv, ~Quiescent
    PROVE  phase \in {"open", "closing", "dead"} /\ Running
BY DEF DBInv, PhaseSound, Opened

(* A step that leaves the manifest and the version alone.                  *)
Steady ==
    /\ phase \in {"open", "closing", "dead"} /\ phase' \in {"open", "closing", "dead"}
    /\ DiskTyped(disk')
    /\ disk'.current = disk.current /\ disk'.manifests = disk.manifests
    /\ Grown(disk.tables, disk'.tables, vs.next_file_number)
    /\ VersionSetShape(vs')
    /\ vs'.version = vs.version /\ vs'.manifest_file_number = vs.manifest_file_number
    /\ vs'.next_file_number \in Nat /\ vs.next_file_number <= vs'.next_file_number
    /\ vs'.last_sequence \in Nat
    /\ \A s \in vs'.file_to_compact :
          s.level \in 0..(kNumLevels - 2) /\ s.file \in ToSet(vs.version[s.level])

LastRecord(m) == m.records[Len(m.records)]

(* ... and an edit that is being written.                                  *)
EditsGoOn ==
    /\ bg_error => bg_error'
    /\ bg'.pc = "logging" =>
          LastRecord(disk.manifests[disk.current]).next_file <= The(bg'.edit).next_file
    /\ bg'.pc = "logged" => bg.pc = "logged" /\ bg'.edit = bg.edit
    /\ bg.pc = "logged" => bg'.pc = "logged" \/ bg_error'

(* A step that leaves manifest and version alone goes on from where the    *)
(* database is.                                                            *)
LEMMA SteadyOnward ==
    ASSUME DBInv, Steady
    PROVE  Onward /\ Running
<1>1. DOMAIN disk.tables \subseteq Nat /\ vs.next_file_number \in Nat
  BY DEF DBInv, DiskSound, DiskTyped, VersionSetSound
<1>2. Running
  BY DEF DBInv, PhaseSound, Steady
<1> QED
  BY <1>1, <1>2 DEF Onward, Steady

(* Such a step keeps the invariant, if it does so for the clients, the     *)
(* readers and the background thread.                                      *)
LEMMA SteadyStep ==
    ASSUME DBInv, Steady, EditsGoOn, ClientsTyped', ReadersSound', BackgroundSound'
    PROVE  DBInv'
<1>1. Onward /\ Running
  BY SteadyOnward
<1> DEFINE m == disk.manifests[disk.current]
<1>2. disk.current # 0 /\ disk.current \in DOMAIN disk.manifests
      /\ ManifestSound(m, disk.current, disk.tables)
      /\ m.records # <<>> /\ LastRecord(m).next_file <= vs.next_file_number
  BY <1>1 DEF DBInv, DiskSound, Running, LastRecord
<1>3. ManifestSound(m, disk.current, disk'.tables)
  <2> DEFINE b == vs.next_file_number
             t1 == disk.tables
             t2 == disk'.tables
             c == disk.current
  <2>1. b \in Nat /\ DOMAIN t1 \subseteq Nat /\ Grown(t1, t2, b) /\ ManifestSound(m, c, t1)
        /\ m.records[Len(m.records)].next_file <= b
    BY <1>1, <1>2 DEF Onward, LastRecord
  <2> HIDE DEF b, t1, t2, c, m
  <2>2. ManifestSound(m, c, t2)
    BY <2>1, ManifestGrown
  <2> QED
    BY <2>2 DEF c, t2
<1>4. DiskSound'
  BY <1>2, <1>3 DEF DiskSound, Steady
<1>5. VersionSetSound(vs, disk.tables)'
  <2>1. VersionSound(vs.version, disk'.tables, vs'.next_file_number)
    BY <1>1, OnwardVersion DEF DBInv, VersionSetSound
  <2>2. vs.manifest_file_number \in Nat
    BY DEF DBInv, VersionSetSound
  <2> QED
    BY <2>1, <2>2 DEF VersionSetSound, Steady
<1>6. Running'
  <2>1. disk'.manifests[disk'.current] = m
    BY DEF Steady
  <2> DEFINE n == Len(m.records)
  <2>2. /\ disk.current # 0 /\ disk.current = vs.manifest_file_number
        /\ m.records # <<>> /\ m.records[n].next_file <= vs.next_file_number
        /\ bg.pc = "logged" => m.records[n] = The(bg.edit)
        /\ ~bg_error => IF bg.pc = "logged"
                        THEN m.synced = n - 1 /\ n > 1 /\ After(m, n - 1) = vs.version
                        ELSE m.synced = n /\ After(m, n) = vs.version
    BY <1>1 DEF Running
  <2>3. m.records[n].next_file \in Nat
    <3>1. ManifestTyped(m)
      BY <1>2 DEF ManifestSound
    <3>2. n \in 1..n /\ m.synced <= n
      BY <1>2, <3>1 DEF ManifestTyped, IsSeq
    <3> QED
      BY <1>2, <3>2 DEF ManifestSound, RecordSound
  <2> HIDE DEF m, n
  <2>4. m.records[n].next_file <= vs'.next_file_number
    BY <2>2, <2>3, <1>1 DEF Onward
  <2>5. bg'.pc = "logging" => m.records[n].next_file <= The(bg'.edit).next_file
    BY DEF EditsGoOn, LastRecord, m, n
  <2>6. bg'.pc = "logged" => m.records[n] = The(bg'.edit)
    BY <2>2 DEF EditsGoOn
  <2>7. ~bg_error' => IF bg'.pc = "logged"
                      THEN m.synced = n - 1 /\ n > 1 /\ After(m, n - 1) = vs.version
                      ELSE m.synced = n /\ After(m, n) = vs.version
    BY <2>2 DEF EditsGoOn
  <2>8. /\ disk'.current # 0 /\ disk'.current = vs'.manifest_file_number
        /\ vs'.version = vs.version
    BY <2>2 DEF Steady
  <2> QED
    BY <2>1, <2>2, <2>4, <2>5, <2>6, <2>7, <2>8 DEF Running, n
<1>7. PhaseSound'
  BY <1>6 DEF PhaseSound, Steady
<1> QED
  BY <1>4, <1>5, <1>7 DEF DBInv

(* What does not change goes on.                                           *)

(* A background thread that does nothing does nothing to its edit. *)
LEMMA SameEdits ==
    ASSUME DBInv, Running, bg_error => bg_error', UNCHANGED bg
    PROVE  EditsGoOn
BY DEF EditsGoOn, Running, LastRecord

(* A step that touches no file and no version leaves both alone, *)
LEMMA SameDisk ==
    ASSUME DBInv, phase \in {"open", "closing", "dead"}, phase' \in {"open", "closing", "dead"},
           UNCHANGED disk,
           VersionSetShape(vs'), vs'.version = vs.version,
           vs'.manifest_file_number = vs.manifest_file_number,
           vs'.next_file_number = vs.next_file_number, vs'.last_sequence \in Nat,
           \A s \in vs'.file_to_compact :
              s.level \in 0..(kNumLevels - 2) /\ s.file \in ToSet(vs.version[s.level])
    PROVE  Steady
<1>1. Grown(disk.tables, disk'.tables, vs.next_file_number)
  BY DEF Grown
<1>2. DiskTyped(disk)
  BY DEF DBInv, DiskSound
<1>3. vs.next_file_number \in Nat /\ vs.next_file_number <= vs.next_file_number
  BY DEF DBInv, VersionSetSound
<1> QED
  BY <1>1, <1>2, <1>3 DEF Steady

(* the more so if it does not touch the version set. *)
LEMMA SameDiskAndVersions ==
    ASSUME DBInv, phase \in {"open", "closing", "dead"}, phase' \in {"open", "closing", "dead"},
           UNCHANGED <<disk, vs>>
    PROVE  Steady
BY SameDisk DEF DBInv, VersionSetSound

-----------------------------------------------------------------------------
(* What is left of a scenario is one. *)

(* A scenario of which something was done is a scenario. *)
LEMMA ScenarioLeft ==
    ASSUME NEW s \in ScenarioType
    PROVE  /\ \A q \in Seq([batch : Seq(Nat \X {kTypeDeletion, kTypeValue}), sync : BOOLEAN]) :
                 [s EXCEPT !.batches = q] \in ScenarioType
           /\ \A q \in Seq([level : 0..(kNumLevels - 2), begin : SUBSET Nat, end : SUBSET Nat]) :
                 [s EXCEPT !.manuals = q] \in ScenarioType
           /\ \A n \in Nat : /\ [s EXCEPT !.reads = n] \in ScenarioType
                             /\ [s EXCEPT !.snapshots = n] \in ScenarioType
                             /\ [s EXCEPT !.closes = n] \in ScenarioType
                             /\ [s EXCEPT !.crashes = n] \in ScenarioType
           /\ \A S \in SUBSET s.faults : [s EXCEPT !.faults = S] \in ScenarioType
<1> DEFINE Q == Seq([batch : Seq(Nat \X {kTypeDeletion, kTypeValue}), sync : BOOLEAN])
           R == Seq([level : 0..(kNumLevels - 2), begin : SUBSET Nat, end : SUBSET Nat])
           F == SUBSET {"sync", "append", "manifest"}
           B == BOOLEAN
           K == SUBSET Nat
<1>1. ScenarioType = [created : B, keys : K, batches : Q, manuals : R, reads : Nat,
                      snapshots : Nat, closes : Nat, crashes : Nat, faults : F]
  BY DEF ScenarioType
<1>2. \A S \in SUBSET s.faults : S \in F
  BY <1>1
<1> HIDE DEF Q, R, F, B, K
<1>3. \A q \in Q : [s EXCEPT !.batches = q] \in ScenarioType
  BY <1>1
<1>4. \A q \in R : [s EXCEPT !.manuals = q] \in ScenarioType
  BY <1>1
<1>5. \A n \in Nat : /\ [s EXCEPT !.reads = n] \in ScenarioType
                     /\ [s EXCEPT !.snapshots = n] \in ScenarioType
  BY <1>1
<1>6. \A n \in Nat : /\ [s EXCEPT !.closes = n] \in ScenarioType
                     /\ [s EXCEPT !.crashes = n] \in ScenarioType
  BY <1>1
<1>7. \A S \in F : [s EXCEPT !.faults = S] \in ScenarioType
  BY <1>1
<1> QED
  BY <1>2, <1>3, <1>4, <1>5, <1>6, <1>7 DEF Q, R

(* What a scenario consists of. *)
LEMMA ScenarioFields ==
    ASSUME NEW s \in ScenarioType
    PROVE  /\ s.batches \in Seq([batch : Seq(Nat \X {kTypeDeletion, kTypeValue}), sync : BOOLEAN])
           /\ s.manuals \in Seq([level : 0..(kNumLevels - 2), begin : SUBSET Nat, end : SUBSET Nat])
           /\ {s.reads, s.snapshots, s.closes, s.crashes} \subseteq Nat
BY DEF ScenarioType

(* Queueing a batch keeps the invariant. *)
LEMMA WriteKeeps ==
    ASSUME DBInv, NEW t \in Threads, Write(t)
    PROVE  DBInv'
<1> DEFINE next == Head(todo.batches)
           Q == Seq(Nat \X {kTypeDeletion, kTypeValue})
<1>1. todo.batches \in Seq([batch : Q, sync : BOOLEAN]) /\ todo.batches # <<>>
  BY ScenarioFields DEF DBInv, ClientsTyped, Write
<1>2. next \in [batch : Q, sync : BOOLEAN] /\ Tail(todo.batches) \in Seq([batch : Q, sync : BOOLEAN])
  <2> DEFINE W == [batch : Q, sync : BOOLEAN]
             s == todo.batches
  <2>1. s \in Seq(W) /\ s # <<>>
    BY <1>1
  <2> HIDE DEF W, s
  <2>2. Head(s) \in W /\ Tail(s) \in Seq(W)
    BY <2>1
  <2> QED
    BY <2>2 DEF W, s
<1>3. todo' \in ScenarioType
  BY <1>2, ScenarioLeft DEF DBInv, ClientsTyped, Write
<1>4. writers' \in Seq([thread : Threads, batch : Q, sync : BOOLEAN])
  <2>1. [thread |-> t, batch |-> next.batch, sync |-> next.sync]
           \in [thread : Threads, batch : Q, sync : BOOLEAN]
    <3> HIDE DEF Q, next
    <3> QED
      BY <1>2
  <2>2. writers \in Seq([thread : Threads, batch : Q, sync : BOOLEAN])
        /\ writers' = Append(writers, [thread |-> t, batch |-> next.batch, sync |-> next.sync])
    BY DEF DBInv, ClientsTyped, Write
  <2> HIDE DEF Q, next
  <2> QED
    BY <2>1, <2>2, AppendProperties
<1>5. ClientsTyped'
  BY <1>3, <1>4 DEF DBInv, ClientsTyped, Write, memory
<1>6. Steady
  BY SameDiskAndVersions DEF Write
<1>7. Onward /\ Running
  BY <1>6, SteadyOnward
<1>8. EditsGoOn
  BY <1>7, SameEdits DEF Write
<1>9. ReadersSound'
  BY <1>7, OnwardReaders DEF DBInv, Write
<1>10. BackgroundSound'
  BY <1>7, OnwardBackground DEF DBInv, Write, memory
<1> QED
  BY <1>5, <1>6, <1>8, <1>9, <1>10, SteadyStep

(* So does a write that is refused because of an earlier error. *)
LEMMA FailWriteKeeps ==
    ASSUME DBInv, FailWrite
    PROVE  DBInv'
<1>1. ClientsTyped'
  <2> DEFINE W == [thread : Threads, batch : Seq(Nat \X {kTypeDeletion, kTypeValue}), sync : BOOLEAN]
  <2>1. writers \in Seq(W) /\ writers # <<>> /\ writers' = Tail(writers)
    BY DEF DBInv, ClientsTyped, FailWrite
  <2>2. writers' \in Seq(W)
    <3> HIDE DEF W
    <3> QED
      BY <2>1
  <2> QED
    BY <2>2 DEF DBInv, ClientsTyped, FailWrite, memory
<1>2. phase \in {"open", "closing", "dead"}
  BY Active DEF FailWrite, Quiescent
<1>3. Steady
  BY <1>2, SameDiskAndVersions DEF FailWrite
<1>4. Onward /\ Running
  BY <1>3, SteadyOnward
<1>5. EditsGoOn
  BY <1>4, SameEdits DEF FailWrite
<1>6. ReadersSound'
  BY <1>4, OnwardReaders DEF DBInv, FailWrite
<1>7. BackgroundSound'
  BY <1>4, OnwardBackground DEF DBInv, FailWrite, memory
<1> QED
  BY <1>1, <1>3, <1>5, <1>6, <1>7, SteadyStep

(* A read pins the current version, whose tables exist. *)
LEMMA BeginReadKeeps ==
    ASSUME DBInv, NEW r \in Readers, BeginRead(r)
    PROVE  DBInv'
<1>1. ClientsTyped'
  <2>1. todo.reads - 1 \in Nat
    BY ScenarioFields DEF DBInv, ClientsTyped, BeginRead
  <2>2. todo' \in ScenarioType
    BY <2>1, ScenarioLeft DEF DBInv, ClientsTyped, BeginRead
  <2> QED
    BY <2>2 DEF DBInv, ClientsTyped, BeginRead, memory
<1>2. Steady
  BY SameDiskAndVersions DEF BeginRead
<1>3. Onward /\ Running
  BY <1>2, SteadyOnward
<1>4. EditsGoOn
  BY <1>3, SameEdits DEF BeginRead
<1>5. ReadersSound'
  <2> DEFINE pin == [sequence |-> vs.last_sequence, mem |-> mem, imm |-> imm, version |-> vs.version]
  <2>1. VersionSound(pin.version, disk.tables, vs.next_file_number)
    BY DEF DBInv, VersionSetSound
  <2>2. readers = [q \in Readers |-> readers[q]] /\ readers' = [readers EXCEPT ![r] = {pin}]
    BY DEF DBInv, ReadersSound, BeginRead
  <2> HIDE DEF pin
  <2>3. readers' = [q \in Readers |-> IF q = r THEN {pin} ELSE readers[q]]
    BY <2>2
  <2>4. \A q \in Readers : \A p \in readers'[q] :
           VersionSound(p.version, disk.tables, vs.next_file_number)
    BY <2>1, <2>3 DEF DBInv, ReadersSound
  <2>5. readers' = [q \in Readers |-> readers'[q]]
    BY <2>3
  <2> QED
    BY <2>4, <2>5 DEF ReadersSound, BeginRead
<1>6. BackgroundSound'
  BY <1>3, OnwardBackground DEF DBInv, BeginRead, memory
<1> QED
  BY <1>1, <1>2, <1>4, <1>5, <1>6, SteadyStep

(* Logs are written, and nothing else on disk.                             *)
LEMMA LogsWritten ==
    ASSUME DBInv, NEW logs, disk' = [disk EXCEPT !.logs = logs],
           IsFiniteSet(DOMAIN logs), DOMAIN logs \subseteq Nat, logs \in [DOMAIN logs -> LogFiles]
    PROVE  /\ DiskTyped(disk')
           /\ disk'.current = disk.current /\ disk'.manifests = disk.manifests
           /\ disk'.tables = disk.tables
<1>1. DiskTyped(disk)
  BY DEF DBInv, DiskSound
<1>2. PICK l, t, c, m : disk = [logs |-> l, tables |-> t, current |-> c, manifests |-> m]
  BY <1>1 DEF DiskTyped
<1>3. disk' = [logs |-> logs, tables |-> t, current |-> c, manifests |-> m]
  BY <1>2
<1>4. disk'.logs = logs /\ disk'.tables = disk.tables /\ disk'.current = disk.current
      /\ disk'.manifests = disk.manifests
      /\ disk' = [logs |-> disk'.logs, tables |-> disk'.tables, current |-> disk'.current,
                  manifests |-> disk'.manifests]
  BY <1>2, <1>3
<1> QED
  BY <1>1, <1>4 DEF DiskTyped

(* A log file, from its parts. *)
LEMMA LogFileMade ==
    ASSUME NEW r \in Seq(Seq(Keys)), NEW s \in Nat
    PROVE  [records |-> r, synced |-> s] \in LogFiles
BY DEF LogFiles

(* A record that is appended to a log is all that changes on disk. *)
LEMMA LogAppended ==
    ASSUME DBInv, NEW n, NEW record \in Seq(Keys),
           disk' = [disk EXCEPT !.logs[n].records = Append(@, record)]
    PROVE  /\ DiskTyped(disk')
           /\ disk'.current = disk.current /\ disk'.manifests = disk.manifests
           /\ disk'.tables = disk.tables
<1> DEFINE f == disk.logs
           g == [f EXCEPT ![n].records = Append(@, record)]
<1>1. /\ IsFiniteSet(DOMAIN f) /\ DOMAIN f \subseteq Nat /\ f \in [DOMAIN f -> LogFiles]
      /\ disk' = [disk EXCEPT !.logs = g]
  BY DEF DBInv, DiskSound, DiskTyped
<1> HIDE DEF f
<1>2. DOMAIN g = DOMAIN f
  OBVIOUS
<1>3. \A k \in DOMAIN f : g[k] \in LogFiles
  <2> SUFFICES ASSUME NEW k \in DOMAIN f PROVE g[k] \in LogFiles
    OBVIOUS
  <2>1. f[k] \in [records : Seq(Seq(Keys)), synced : Nat]
    BY <1>1 DEF LogFiles
  <2>2. g[k] = IF k = n THEN [f[k] EXCEPT !.records = Append(f[k].records, record)] ELSE f[k]
    OBVIOUS
  <2>3. Append(f[k].records, record) \in Seq(Seq(Keys))
    BY <2>1, AppendProperties
  <2> DEFINE x == f[k]
             more == Append(f[k].records, record)
  <2>4. x \in [records : Seq(Seq(Keys)), synced : Nat] /\ more \in Seq(Seq(Keys))
        /\ g[k] \in {[x EXCEPT !.records = more], x}
    BY <2>1, <2>2, <2>3
  <2> HIDE DEF x, more, g
  <2>5. [x EXCEPT !.records = more] \in [records : Seq(Seq(Keys)), synced : Nat]
    BY <2>4
  <2> QED
    BY <2>4, <2>5 DEF LogFiles
<1>4. g = [k \in DOMAIN f |-> g[k]]
  OBVIOUS
<1> HIDE DEF g
<1>5. g \in [DOMAIN g -> LogFiles]
  BY <1>2, <1>3, <1>4
<1> QED
  BY <1>1, <1>2, <1>5, LogsWritten

(* So is the length up to which a log is synced. *)
LEMMA LogSynced ==
    ASSUME DBInv, NEW n, disk' = [disk EXCEPT !.logs[n].synced = Len(disk.logs[n].records)]
    PROVE  /\ DiskTyped(disk')
           /\ disk'.current = disk.current /\ disk'.manifests = disk.manifests
           /\ disk'.tables = disk.tables
<1> DEFINE f == disk.logs
           g == [f EXCEPT ![n].synced = Len(f[n].records)]
<1>1. /\ IsFiniteSet(DOMAIN f) /\ DOMAIN f \subseteq Nat /\ f \in [DOMAIN f -> LogFiles]
      /\ disk' = [disk EXCEPT !.logs = g]
  BY DEF DBInv, DiskSound, DiskTyped
<1> HIDE DEF f
<1>2. DOMAIN g = DOMAIN f
  OBVIOUS
<1>3. \A k \in DOMAIN f : g[k] \in LogFiles
  <2> SUFFICES ASSUME NEW k \in DOMAIN f PROVE g[k] \in LogFiles
    OBVIOUS
  <2>1. f[k] \in [records : Seq(Seq(Keys)), synced : Nat]
    BY <1>1 DEF LogFiles
  <2>2. g[k] = IF k = n THEN [f[k] EXCEPT !.synced = Len(f[k].records)] ELSE f[k]
    OBVIOUS
  <2>3. Len(f[k].records) \in Nat
    BY <2>1, LenProperties
  <2> DEFINE x == f[k]
             all == Len(f[k].records)
  <2>4. x \in [records : Seq(Seq(Keys)), synced : Nat] /\ all \in Nat
        /\ g[k] \in {[x EXCEPT !.synced = all], x}
    BY <2>1, <2>2, <2>3
  <2> HIDE DEF x, all, g
  <2>5. [x EXCEPT !.synced = all] \in [records : Seq(Seq(Keys)), synced : Nat]
    BY <2>4
  <2> QED
    BY <2>4, <2>5 DEF LogFiles
<1>4. g = [k \in DOMAIN f |-> g[k]]
  OBVIOUS
<1> HIDE DEF g
<1>5. g \in [DOMAIN g -> LogFiles]
  BY <1>2, <1>3, <1>4
<1> QED
  BY <1>1, <1>2, <1>5, LogsWritten

(* A new log is an empty one. *)
LEMMA FileAdded ==
    ASSUME NEW f, IsFiniteSet(DOMAIN f), DOMAIN f \subseteq Nat, f \in [DOMAIN f -> LogFiles],
           NEW n \in Nat, NEW g, g = With(f, n, EmptyFile)
    PROVE  IsFiniteSet(DOMAIN g) /\ DOMAIN g \subseteq Nat /\ g \in [DOMAIN g -> LogFiles]
<1>1. EmptyFile \in LogFiles
  BY DEF EmptyFile, LogFiles
<1>2. DOMAIN g = DOMAIN f \cup {n}
  BY DEF With
<1>3. \A k \in DOMAIN g : g[k] \in LogFiles
  BY <1>1 DEF With
<1>4. g = [k \in DOMAIN g |-> g[k]]
  BY DEF With
<1>5. IsFiniteSet(DOMAIN g)
  <2> DEFINE D == DOMAIN f
             F == DOMAIN g
  <2>1. IsFiniteSet(D) /\ F = D \cup {n}
    BY <1>2
  <2> HIDE DEF D, F
  <2>2. IsFiniteSet(D \cup {n})
    BY <2>1, FS_Union, FS_Singleton
  <2>3. IsFiniteSet(F)
    BY <2>1, <2>2
  <2> QED
    BY <2>3 DEF F
<1> QED
  BY <1>2, <1>3, <1>4, <1>5

(* And it is all that changes on disk. *)
LEMMA LogAdded ==
    ASSUME DBInv, NEW n \in Nat, disk' = [disk EXCEPT !.logs = With(@, n, EmptyFile)]
    PROVE  /\ DiskTyped(disk')
           /\ disk'.current = disk.current /\ disk'.manifests = disk.manifests
           /\ disk'.tables = disk.tables
<1> DEFINE f == disk.logs
           g == With(f, n, EmptyFile)
<1>1. /\ IsFiniteSet(DOMAIN f) /\ DOMAIN f \subseteq Nat /\ f \in [DOMAIN f -> LogFiles]
      /\ disk' = [disk EXCEPT !.logs = g]
  BY DEF DBInv, DiskSound, DiskTyped
<1>2. g = With(f, n, EmptyFile)
  OBVIOUS
<1> HIDE DEF f, g
<1>3. IsFiniteSet(DOMAIN g) /\ DOMAIN g \subseteq Nat /\ g \in [DOMAIN g -> LogFiles]
  BY <1>1, <1>2, FileAdded
<1> QED
  BY <1>1, <1>3, LogsWritten

(* The rest of a step that only writes logs.                               *)
LEMMA OnlyLogs ==
    ASSUME DBInv, phase \in {"open", "closing", "dead"}, UNCHANGED <<phase, readers, bg>>,
           DiskTyped(disk'), disk'.current = disk.current, disk'.manifests = disk.manifests,
           disk'.tables = disk.tables, VersionSetShape(vs'), vs'.version = vs.version,
           vs'.manifest_file_number = vs.manifest_file_number,
           vs'.file_to_compact = vs.file_to_compact,
           vs'.next_file_number \in Nat, vs.next_file_number <= vs'.next_file_number,
           vs'.last_sequence \in Nat, bg_error => bg_error',
           imm' = imm \/ bg.pc # "building", pending_outputs' = pending_outputs,
           ClientsTyped'
    PROVE  DBInv'
<1>1. Grown(disk.tables, disk'.tables, vs.next_file_number)
  BY DEF Grown
<1>2. Steady
  <2>1. \A s \in vs.file_to_compact :
           s.level \in 0..(kNumLevels - 2) /\ s.file \in ToSet(vs.version[s.level])
    BY DEF DBInv, VersionSetSound
  <2> QED
    BY <1>1, <2>1 DEF Steady
<1>3. Onward /\ Running
  BY <1>2, SteadyOnward
<1>4. EditsGoOn
  BY <1>3, SameEdits
<1>5. ReadersSound'
  BY <1>3, OnwardReaders DEF DBInv
<1>6. BackgroundSound'
  <2>1. CASE imm' = imm
    BY <1>3, <2>1, OnwardBackground DEF DBInv
  <2>2. CASE bg.pc # "building"
    <3>1. \A j \in bg'.job : JobSound(j, disk'.tables, vs'.next_file_number, pending_outputs')
      BY <1>3, OnwardJobs DEF DBInv, BackgroundSound
    <3>2. bg'.pc \in {"logging", "logged"} => BgEditSound'
      BY <1>3, OnwardEdit DEF DBInv, BackgroundSound
    <3> QED
      BY <2>2, <3>1, <3>2 DEF DBInv, BackgroundSound
  <2> QED
    BY <2>1, <2>2
<1> QED
  BY <1>2, <1>4, <1>5, <1>6, SteadyStep

(* What the version set consists of. *)
LEMMA VersionsAre ==
    ASSUME DBInv
    PROVE  /\ VersionSetShape(vs) /\ vs.next_file_number \in Nat /\ vs.last_sequence \in Nat
           /\ vs.next_file_number <= vs.next_file_number
BY DEF DBInv, VersionSetSound

(* Giving out a file number changes the next number only. *)
LEMMA NumberTaken ==
    ASSUME DBInv, NEW n \in Nat, vs.next_file_number <= n,
           NEW w, w = [vs EXCEPT !.next_file_number = n]
    PROVE  /\ VersionSetShape(w) /\ w.version = vs.version
           /\ w.manifest_file_number = vs.manifest_file_number
           /\ w.file_to_compact = vs.file_to_compact
           /\ w.next_file_number = n /\ w.last_sequence = vs.last_sequence
<1>1. PICK a, b, c, d, l, p, f :
         vs = [version |-> a, next_file_number |-> b, manifest_file_number |-> c,
              last_sequence |-> d, log_number |-> l, compact_pointer |-> p, file_to_compact |-> f]
  BY VersionsAre DEF VersionSetShape
<1>2. w = [version |-> a, next_file_number |-> n, manifest_file_number |-> c,
           last_sequence |-> d, log_number |-> l, compact_pointer |-> p, file_to_compact |-> f]
  BY <1>1
<1> QED
  BY <1>1, <1>2 DEF VersionSetShape

(* Giving out sequence numbers changes the last one only. *)
LEMMA SequenceTaken ==
    ASSUME DBInv, NEW n \in Nat, NEW w, w = [vs EXCEPT !.last_sequence = n]
    PROVE  /\ VersionSetShape(w) /\ w.version = vs.version
           /\ w.manifest_file_number = vs.manifest_file_number
           /\ w.file_to_compact = vs.file_to_compact
           /\ w.next_file_number = vs.next_file_number /\ w.last_sequence = n
<1>1. PICK a, b, c, d, l, p, f :
         vs = [version |-> a, next_file_number |-> b, manifest_file_number |-> c,
              last_sequence |-> d, log_number |-> l, compact_pointer |-> p, file_to_compact |-> f]
  BY VersionsAre DEF VersionSetShape
<1>2. w = [version |-> a, next_file_number |-> b, manifest_file_number |-> c,
           last_sequence |-> n, log_number |-> l, compact_pointer |-> p, file_to_compact |-> f]
  BY <1>1
<1> QED
  BY <1>1, <1>2 DEF VersionSetShape

(* MakeRoomForWrite begins a log and a memtable, if anything. *)
LEMMA RoomMade ==
    ASSUME DBInv, phase \in {"open", "closing", "dead"}, MakeRoomForWrite
    PROVE  /\ DiskTyped(disk')
           /\ disk'.current = disk.current /\ disk'.manifests = disk.manifests
           /\ disk'.tables = disk.tables
           /\ VersionSetShape(vs') /\ vs'.version = vs.version
           /\ vs'.manifest_file_number = vs.manifest_file_number
           /\ vs'.file_to_compact = vs.file_to_compact
           /\ vs'.next_file_number \in Nat /\ vs.next_file_number <= vs'.next_file_number
           /\ vs'.last_sequence \in Nat
           /\ mem' \in KeySets /\ imm' \subseteq KeySets /\ (imm' = {} \/ imm' = {The(imm')})
           /\ imm' = imm \/ bg.pc # "building"
<1>1. vs.next_file_number \in Nat /\ vs.next_file_number <= vs.next_file_number + 1
      /\ vs.next_file_number + 1 \in Nat
  BY VersionsAre
<1>2. CASE UNCHANGED <<disk, vs, mem, imm>>
  BY <1>2, VersionsAre DEF DBInv, DiskSound, ClientsTyped
<1>3. CASE /\ imm = {} /\ disk' = [disk EXCEPT !.logs = With(@, vs.next_file_number, EmptyFile)]
           /\ vs' = [vs EXCEPT !.next_file_number = @ + 1]
           /\ imm' = {mem} /\ mem' = {}
  <2>1. /\ DiskTyped(disk') /\ disk'.current = disk.current /\ disk'.manifests = disk.manifests
        /\ disk'.tables = disk.tables
    BY <1>1, <1>3, LogAdded
  <2> DEFINE n == vs.next_file_number + 1
  <2>2. n \in Nat /\ vs.next_file_number <= n /\ vs' = [vs EXCEPT !.next_file_number = n]
    BY <1>1, <1>3
  <2> HIDE DEF n
  <2>3. /\ VersionSetShape(vs') /\ vs'.version = vs.version
        /\ vs'.manifest_file_number = vs.manifest_file_number
        /\ vs'.file_to_compact = vs.file_to_compact
        /\ vs'.next_file_number = n /\ vs'.last_sequence = vs.last_sequence
    BY <2>2, NumberTaken
  <2>4. mem' \in KeySets /\ imm' \subseteq KeySets /\ imm' = {The(imm')}
    <3>1. mem \in KeySets /\ {} \in KeySets
      BY FS_EmptySet DEF DBInv, ClientsTyped, KeySets
    <3>2. The({mem}) = mem
      BY DEF The
    <3> QED
      BY <1>3, <3>1, <3>2
  <2>5. bg.pc # "building"
    BY <1>3 DEF DBInv, BackgroundSound, Building
  <2> QED
    BY <2>1, <2>2, <2>3, <2>4, <2>5, VersionsAre
<1> QED
  BY <1>2, <1>3 DEF MakeRoomForWrite, MaySwitch

(* The first writer of the queue begins to write. *)
LEMMA BeginWriteKeeps ==
    ASSUME DBInv, BeginWrite
    PROVE  DBInv'
<1>1. phase \in {"open", "closing", "dead"}
  BY Active DEF BeginWrite, Quiescent
<1>2. MakeRoomForWrite /\ UNCHANGED <<phase, readers, bg, bg_error, pending_outputs, todo, manual>>
      /\ writers # <<>>
  BY DEF BeginWrite
<1>3. writers' \in Queue
  <2> DEFINE W == [thread : Threads, batch : Seq(Nat \X {kTypeDeletion, kTypeValue}), sync : BOOLEAN]
  <2>1. writers \in Seq(W) /\ writers # <<>> /\ writers' \in {Tail(writers), writers}
    BY DEF DBInv, ClientsTyped, BeginWrite
  <2>2. writers' \in Seq(W)
    <3> HIDE DEF W
    <3> QED
      BY <2>1
  <2> QED
    BY <2>2 DEF Queue
<1>4. writing' \subseteq [count : Nat, logged : BOOLEAN, record : Seq(Keys)]
  <2>1. writers \in Queue
    BY DEF DBInv, ClientsTyped, Queue
  <2>2. BuildBatchGroup \in Queue /\ Len(BuildBatchGroup) \in Nat
    BY <2>1, GroupTyped
  <2>3. GroupEntries(BuildBatchGroup) \in Seq(Keys)
    BY <2>2, EntriesTyped, VersionsAre
  <2>4. [count |-> Len(BuildBatchGroup), logged |-> FALSE, record |-> GroupEntries(BuildBatchGroup)]
           \in [count : Nat, logged : BOOLEAN, record : Seq(Keys)]
    <3> DEFINE x == GroupEntries(BuildBatchGroup)
               y == Len(BuildBatchGroup)
    <3> HIDE DEF x, y
    <3>1. x \in Seq(Keys) /\ y \in Nat
      BY <2>2, <2>3 DEF x, y
    <3>2. [count |-> y, logged |-> FALSE, record |-> x]
             \in [count : Nat, logged : BOOLEAN, record : Seq(Keys)]
      BY <3>1
    <3> QED
      BY <3>2 DEF x, y
  <2>5. \/ writing' = {[count |-> Len(BuildBatchGroup), logged |-> FALSE,
                        record |-> GroupEntries(BuildBatchGroup)]}
        \/ writing' = writing
    BY DEF BeginWrite
  <2> QED
    BY <2>4, <2>5 DEF DBInv, ClientsTyped
<1>5. ClientsTyped'
  BY <1>1, <1>2, <1>3, <1>4, RoomMade DEF DBInv, ClientsTyped, Queue
<1> QED
  BY <1>1, <1>2, <1>5, RoomMade, OnlyLogs

(* The record goes into the log. *)
LEMMA AddRecordKeeps ==
    ASSUME DBInv, AddRecord
    PROVE  DBInv'
<1>1. PICK w \in writing :
         /\ disk' = [disk EXCEPT !.logs[logfile_number].records = Append(@, w.record)]
         /\ writing' = {[w EXCEPT !.logged = TRUE]}
         /\ UNCHANGED <<vs, memory, pending_outputs, bg_error, writers, readers, bg,
                        background_compaction_scheduled, manual, phase, todo, history>>
  BY DEF AddRecord
<1>2. phase \in {"open", "closing", "dead"}
  BY Active DEF Quiescent
<1>3. w \in [count : Nat, logged : BOOLEAN, record : Seq(Keys)]
  BY DEF DBInv, ClientsTyped
<1>4. w.record \in Seq(Keys)
  BY <1>3
<1>5. /\ DiskTyped(disk') /\ disk'.current = disk.current /\ disk'.manifests = disk.manifests
      /\ disk'.tables = disk.tables
  BY <1>1, <1>4, LogAppended
<1>6. [w EXCEPT !.logged = TRUE] \in [count : Nat, logged : BOOLEAN, record : Seq(Keys)]
  <2> DEFINE Q == Seq(Keys)
  <2> HIDE DEF Q
  <2>1. [w EXCEPT !.logged = TRUE] \in [count : Nat, logged : BOOLEAN, record : Q]
    BY <1>3 DEF Q
  <2> QED
    BY <2>1 DEF Q
<1>7. ClientsTyped'
  BY <1>1, <1>6 DEF DBInv, ClientsTyped, memory
<1>8. /\ VersionSetShape(vs') /\ vs'.next_file_number \in Nat /\ vs'.last_sequence \in Nat
      /\ vs.next_file_number <= vs'.next_file_number /\ vs' = vs /\ imm' = imm
  BY <1>1, VersionsAre DEF memory
<1> QED
  BY <1>1, <1>2, <1>5, <1>7, <1>8, OnlyLogs

(* The end of a group, however it went, keeps the invariant. *)
LEMMA GroupEnded ==
    ASSUME DBInv, NEW w \in writing, NEW ok \in BOOLEAN, EndGroup(w, ok), todo' \in ScenarioType,
           bg_error => bg_error',
           DiskTyped(disk'), disk'.current = disk.current, disk'.manifests = disk.manifests,
           disk'.tables = disk.tables
    PROVE  DBInv'
<1>1. phase \in {"open", "closing", "dead"}
  BY Active DEF Quiescent
<1>2. UNCHANGED <<phase, readers, bg, imm, pending_outputs, manual>>
  BY DEF EndGroup
<1>3. w.count \in Nat /\ w.record \in Seq(Keys)
  BY DEF DBInv, ClientsTyped
<1>4. Len(w.record) \in Nat
  BY <1>3, LenProperties
<1> DEFINE n == vs.last_sequence + Len(w.record)
<1>5. n \in Nat /\ vs' = [vs EXCEPT !.last_sequence = n]
  BY <1>4, VersionsAre DEF EndGroup
<1> HIDE DEF n
<1>6. /\ VersionSetShape(vs') /\ vs'.version = vs.version
      /\ vs'.manifest_file_number = vs.manifest_file_number
      /\ vs'.file_to_compact = vs.file_to_compact
      /\ vs'.next_file_number = vs.next_file_number /\ vs'.last_sequence = n
  BY <1>5, SequenceTaken
<1>7. mem' \in KeySets
  <2>1. mem \in KeySets /\ ToSet(w.record) \in KeySets
    BY <1>3, KeySetOfSeq DEF DBInv, ClientsTyped
  <2>2. mem' \in {mem \cup ToSet(w.record), mem}
    BY DEF EndGroup
  <2> QED
    BY <2>1, <2>2, KeySetsJoin
<1>8. writers' \in Queue
  <2> DEFINE W == [thread : Threads, batch : Seq(Nat \X {kTypeDeletion, kTypeValue}), sync : BOOLEAN]
  <2>1. writers \in Seq(W) /\ writers' = SubSeq(writers, w.count + 1, Len(writers))
    BY DEF DBInv, ClientsTyped, EndGroup
  <2> HIDE DEF W
  <2>2. writers' \in Seq(W)
    BY <1>3, <2>1, RestOfQueue
  <2> QED
    BY <2>2 DEF Queue, W
<1>9. ClientsTyped'
  BY <1>2, <1>7, <1>8 DEF DBInv, ClientsTyped, EndGroup, Queue
<1> QED
  BY <1>1, <1>2, <1>5, <1>6, <1>9, VersionsAre, OnlyLogs

(* A directory that is not touched stays what it is. *)
LEMMA SameTypedDisk ==
    ASSUME DBInv, disk' = disk
    PROVE  /\ DiskTyped(disk') /\ disk'.current = disk.current /\ disk'.manifests = disk.manifests
           /\ disk'.tables = disk.tables
BY DEF DBInv, DiskSound

(* A write that succeeds ends. *)
LEMMA FinishWriteKeeps ==
    ASSUME DBInv, FinishWrite
    PROVE  DBInv'
<1>1. PICK w \in writing :
         /\ EndGroup(w, TRUE)
         /\ disk' = IF ~writers[1].sync THEN disk
                    ELSE [disk EXCEPT !.logs[logfile_number].synced =
                                          Len(disk.logs[logfile_number].records)]
         /\ UNCHANGED <<bg_error, todo>>
  BY DEF FinishWrite
<1>2. \/ disk' = disk
      \/ disk' = [disk EXCEPT !.logs[logfile_number].synced =
                                 Len(disk.logs[logfile_number].records)]
  BY <1>1
<1>3. /\ DiskTyped(disk') /\ disk'.current = disk.current /\ disk'.manifests = disk.manifests
      /\ disk'.tables = disk.tables
  BY <1>2, LogSynced, SameTypedDisk
<1>4. todo' \in ScenarioType
  BY <1>1 DEF DBInv, ClientsTyped
<1> QED
  BY <1>1, <1>3, <1>4, GroupEnded

(* A fault happens once. *)
LEMMA FaultUsed ==
    ASSUME DBInv, NEW fault, todo' = [todo EXCEPT !.faults = @ \ {fault}]
    PROVE  todo' \in ScenarioType
<1> DEFINE S == todo.faults \ {fault}
<1>1. S \in SUBSET todo.faults /\ todo' = [todo EXCEPT !.faults = S] /\ todo \in ScenarioType
  BY DEF DBInv, ClientsTyped
<1> HIDE DEF S
<1> QED
  BY <1>1, ScenarioLeft

(* A write whose sync fails ends. *)
LEMMA FailSyncKeeps ==
    ASSUME DBInv, FailSync
    PROVE  DBInv'
<1>1. PICK w \in writing :
         /\ EndGroup(w, FALSE) /\ bg_error' = TRUE
         /\ todo' = [todo EXCEPT !.faults = @ \ {"sync"}] /\ UNCHANGED disk
  BY DEF FailSync
<1>2. /\ DiskTyped(disk') /\ disk'.current = disk.current /\ disk'.manifests = disk.manifests
      /\ disk'.tables = disk.tables
  BY <1>1, SameTypedDisk
<1>3. todo' \in ScenarioType
  BY <1>1, FaultUsed
<1> QED
  BY <1>1, <1>2, <1>3, GroupEnded

(* A write that leaves a part of its record in the log ends. *)
LEMMA FailAddRecordKeeps ==
    ASSUME DBInv, FailAddRecord
    PROVE  DBInv'
<1>1. PICK w \in writing :
         /\ EndGroup(w, FALSE)
         /\ disk' = [disk EXCEPT !.logs[logfile_number].records = Append(@, <<>>)]
         /\ todo' = [todo EXCEPT !.faults = @ \ {"append"}] /\ UNCHANGED bg_error
  BY DEF FailAddRecord
<1>2. <<>> \in Seq(Keys)
  OBVIOUS
<1>3. /\ DiskTyped(disk') /\ disk'.current = disk.current /\ disk'.manifests = disk.manifests
      /\ disk'.tables = disk.tables
  BY <1>1, <1>2, LogAppended
<1>4. todo' \in ScenarioType
  BY <1>1, FaultUsed
<1> QED
  BY <1>1, <1>3, <1>4, GroupEnded

(* A snapshot pins no file. *)
LEMMA GetSnapshotKeeps ==
    ASSUME DBInv, GetSnapshot
    PROVE  DBInv'
<1>1. todo.snapshots - 1 \in Nat
  BY ScenarioFields DEF DBInv, ClientsTyped, GetSnapshot
<1>2. todo' \in ScenarioType
  BY <1>1, ScenarioLeft DEF DBInv, ClientsTyped, GetSnapshot
<1>3. ClientsTyped'
  BY <1>2 DEF DBInv, ClientsTyped, GetSnapshot
<1> QED
  BY <1>3, SameTypedDisk, VersionsAre, OnlyLogs DEF GetSnapshot

(* Nor does giving it back release one. *)
LEMMA ReleaseSnapshotKeeps ==
    ASSUME DBInv, NEW s, ReleaseSnapshot(s)
    PROVE  DBInv'
<1>1. UNCHANGED <<disk, vs, mem, imm, pending_outputs, bg_error, writers, writing, readers, bg,
                  background_compaction_scheduled, manual, phase, todo>>
  BY DEF ReleaseSnapshot
<1>2. ClientsTyped' /\ DiskSound' /\ VersionSetSound(vs, disk.tables)' /\ ReadersSound'
  BY <1>1 DEF DBInv, ClientsTyped, DiskSound, ReadersSound
<1>3. BackgroundSound'
  BY <1>1 DEF DBInv, BackgroundSound, Building, BgEditSound
<1>4. PhaseSound'
  BY <1>1 DEF DBInv, PhaseSound, Quiescent, Opened, Running, BgEditSound, Described
<1> QED
  BY <1>2, <1>3, <1>4 DEF DBInv

(* A manual compaction is asked for. *)
LEMMA PostManualKeeps ==
    ASSUME DBInv, PostManual
    PROVE  DBInv'
<1>1. todo' \in ScenarioType /\ \A m \in manual' : "level" \in DOMAIN m /\ m.level \in 0..(kNumLevels - 2)
  <2>1. CASE \E m \in manual : manual' = {[m EXCEPT !.posted = TRUE]} /\ UNCHANGED todo
    <3>1. PICK m \in manual : manual' = {[m EXCEPT !.posted = TRUE]} /\ UNCHANGED todo
      BY <2>1
    <3>2. "level" \in DOMAIN m /\ m.level \in 0..(kNumLevels - 2)
      BY DEF DBInv, ClientsTyped
    <3> DEFINE x == [m EXCEPT !.posted = TRUE]
    <3>3. DOMAIN x = DOMAIN m /\ x.level = m.level
      BY <3>2
    <3> HIDE DEF x
    <3> QED
      BY <3>1, <3>2, <3>3 DEF DBInv, ClientsTyped, x
  <2>2. CASE LET m == Head(todo.manuals)
             IN /\ todo.manuals # <<>>
                /\ manual' = {[level |-> m.level, begin |-> m.begin, end |-> m.end, posted |-> TRUE]}
                /\ todo' = [todo EXCEPT !.manuals = Tail(@)]
    <3> DEFINE W == [level : 0..(kNumLevels - 2), begin : SUBSET Nat, end : SUBSET Nat]
               s == todo.manuals
    <3>1. s \in Seq(W) /\ s # <<>>
      BY <2>2, ScenarioFields DEF DBInv, ClientsTyped
    <3>2. Head(s) \in W /\ Tail(s) \in Seq(W)
      <4> HIDE DEF W, s
      <4> QED
        BY <3>1
    <3>3. todo' \in ScenarioType
      BY <2>2, <3>2, ScenarioLeft DEF DBInv, ClientsTyped
    <3>4. Head(s).level \in 0..(kNumLevels - 2)
      BY <3>2
    <3> HIDE DEF W
    <3> QED
      BY <2>2, <3>3, <3>4
  <2> QED
    BY <2>1, <2>2 DEF PostManual
<1>2. ClientsTyped'
  BY <1>1 DEF DBInv, ClientsTyped, PostManual, memory
<1>3. phase = "open" /\ imm' = imm
      /\ UNCHANGED <<disk, vs, phase, readers, bg, bg_error, pending_outputs>>
  BY DEF PostManual, memory
<1> QED
  BY <1>2, <1>3, SameTypedDisk, VersionsAre, OnlyLogs

(* Or taken back. *)
LEMMA CancelManualKeeps ==
    ASSUME DBInv, CancelManual
    PROVE  DBInv'
<1>1. ClientsTyped'
  BY DEF DBInv, ClientsTyped, CancelManual, memory
<1>2. phase \in {"open", "closing", "dead"}
  BY Active DEF CancelManual, Quiescent
<1>3. imm' = imm /\ UNCHANGED <<disk, vs, phase, readers, bg, bg_error, pending_outputs>>
  BY DEF CancelManual, memory
<1> QED
  BY <1>1, <1>2, <1>3, SameTypedDisk, VersionsAre, OnlyLogs

Leveled(M) == \A m \in M : "level" \in DOMAIN m /\ m.level \in 0..(kNumLevels - 2)

(* A read that is over may leave a file to compact, of the current version. *)
LEMMA EndReadKeeps ==
    ASSUME DBInv, NEW r \in Readers, EndRead(r)
    PROVE  DBInv'
<1>1. PICK p \in readers[r] :
         /\ readers' = [readers EXCEPT ![r] = {}]
         /\ \/ vs' = vs
            \/ \E k \in todo.keys :
                 /\ p.version = vs.version
                 /\ vs' = [vs EXCEPT !.file_to_compact = SeekCharge(ReadPinned(p, k))]
         /\ UNCHANGED <<disk, memory, pending_outputs, bg_error, writers, writing, bg, manual,
                        phase, todo, history>>
  BY DEF EndRead
<1>2. phase \in {"open", "closing", "dead"}
  <2>1. readers[r] # {}
    BY <1>1
  <2>2. readers # [q \in Readers |-> {}]
    BY <2>1
  <2> QED
    BY <2>2, Active DEF Quiescent
<1>3. /\ VersionSetShape(vs') /\ vs'.version = vs.version
      /\ vs'.manifest_file_number = vs.manifest_file_number
      /\ vs'.next_file_number = vs.next_file_number /\ vs'.last_sequence \in Nat
      /\ \A s \in vs'.file_to_compact :
            s.level \in 0..(kNumLevels - 2) /\ s.file \in ToSet(vs.version[s.level])
  <2>1. CASE vs' = vs
    BY <2>1 DEF DBInv, VersionSetSound
  <2>2. CASE \E k \in todo.keys :
               /\ p.version = vs.version
               /\ vs' = [vs EXCEPT !.file_to_compact = SeekCharge(ReadPinned(p, k))]
    <3>1. PICK k \in todo.keys :
               /\ p.version = vs.version
               /\ vs' = [vs EXCEPT !.file_to_compact = SeekCharge(ReadPinned(p, k))]
      BY <2>2
    <3> DEFINE charge == SeekCharge(ReadPinned(p, k))
    <3>2. \A s \in charge : s.level \in 0..(kNumLevels - 2) /\ s.file \in ToSet(vs.version[s.level])
      <4>1. VersionSound(p.version, disk.tables, vs.next_file_number) /\ DiskTyped(disk)
        BY DEF DBInv, ReadersSound, DiskSound
      <4> QED
        BY <3>1, <4>1, PinnedCharge
    <3>3. vs' = [vs EXCEPT !.file_to_compact = charge]
      BY <3>1
    <3> HIDE DEF charge
    <3>4. PICK a, b, c, d, l, q, f :
             vs = [version |-> a, next_file_number |-> b, manifest_file_number |-> c,
                  last_sequence |-> d, log_number |-> l, compact_pointer |-> q, file_to_compact |-> f]
      BY VersionsAre DEF VersionSetShape
    <3>5. vs' = [version |-> a, next_file_number |-> b, manifest_file_number |-> c,
                 last_sequence |-> d, log_number |-> l, compact_pointer |-> q,
                 file_to_compact |-> charge]
      BY <3>3, <3>4
    <3>6. d \in Nat
      BY <3>4, VersionsAre
    <3> QED
      BY <3>2, <3>4, <3>5, <3>6 DEF VersionSetShape
  <2> QED
    BY <1>1, <2>1, <2>2
<1>4. Steady
  BY <1>1, <1>2, <1>3, SameDisk
<1>5. Onward /\ Running
  BY <1>4, SteadyOnward
<1>6. EditsGoOn
  BY <1>1, <1>5, SameEdits
<1>7. ReadersSound'
  <2>1. readers = [q \in Readers |-> readers[q]]
    BY DEF DBInv, ReadersSound
  <2>2. readers' = [q \in Readers |-> IF q = r THEN {} ELSE readers[q]]
    BY <1>1, <2>1
  <2>3. \A q \in Readers : \A x \in readers'[q] :
           VersionSound(x.version, disk.tables, vs.next_file_number)
    BY <2>2 DEF DBInv, ReadersSound
  <2>4. readers' = [q \in Readers |-> readers'[q]]
    BY <2>2
  <2> QED
    BY <1>1, <1>3, <2>3, <2>4 DEF ReadersSound
<1>8. BackgroundSound'
  BY <1>1, <1>5, OnwardBackground DEF DBInv, memory
<1>9. ClientsTyped'
  BY <1>1 DEF DBInv, ClientsTyped, memory
<1> QED
  BY <1>4, <1>6, <1>7, <1>8, <1>9, SteadyStep

(* Closing begins. *)
LEMMA CloseKeeps ==
    ASSUME DBInv, Close
    PROVE  DBInv'
<1>1. Steady
  BY SameDiskAndVersions DEF Close
<1>2. Onward /\ Running
  BY <1>1, SteadyOnward
<1>3. EditsGoOn
  BY <1>2, SameEdits DEF Close
<1>4. ReadersSound'
  BY <1>2, OnwardReaders DEF DBInv, Close
<1>5. BackgroundSound'
  BY <1>2, OnwardBackground DEF DBInv, Close, memory
<1>6. ClientsTyped'
  <2>1. todo.closes - 1 \in Nat
    BY ScenarioFields DEF DBInv, ClientsTyped, Close
  <2>2. todo' \in ScenarioType
    BY <2>1, ScenarioLeft DEF DBInv, ClientsTyped, Close
  <2> QED
    BY <2>2 DEF DBInv, ClientsTyped, Close, memory
<1> QED
  BY <1>1, <1>3, <1>4, <1>5, <1>6, SteadyStep

-----------------------------------------------------------------------------
(* The end of a background call. *)

(* A background call ends with an idle background thread. *)
LEMMA CallEnded ==
    ASSUME DBInv, NEW job, NEW ok, EndOfCall(job, ok)
    PROVE  bg' = Idle /\ phase' \in {phase, "dead"} /\ Leveled(manual')
<1>1. Leveled(manual)
  BY DEF DBInv, ClientsTyped, Leveled
<1> DEFINE b == {Last(job.c.inputs[1]).largest.user}
           M == {[x EXCEPT !.begin = b, !.posted = FALSE] : x \in manual}
<1>2. manual' \in {M, {}, manual}
  BY DEF EndOfCall
<1> HIDE DEF b
<1>3. Leveled(M)
  <2> SUFFICES ASSUME NEW x \in manual
               PROVE  LET y == [x EXCEPT !.begin = b, !.posted = FALSE]
                      IN "level" \in DOMAIN y /\ y.level \in 0..(kNumLevels - 2)
    BY DEF Leveled
  <2>1. "level" \in DOMAIN x /\ x.level \in 0..(kNumLevels - 2)
    BY <1>1 DEF Leveled
  <2> DEFINE y == [x EXCEPT !.begin = b, !.posted = FALSE]
  <2>2. DOMAIN y = DOMAIN x /\ y.level = x.level
    BY <2>1
  <2> QED
    BY <2>1, <2>2
<1> HIDE DEF M
<1>4. Leveled({})
  BY DEF Leveled
<1>5. bg' = Idle /\ phase' \in {phase, "dead"}
  BY DEF EndOfCall
<1> QED
  BY <1>1, <1>2, <1>3, <1>4, <1>5

(* Which has nothing. *)
LEMMA IdleSound ==
    ASSUME bg' = Idle
    PROVE  BackgroundSound'
BY DEF Idle, BackgroundSound

(* And no edit to write, unless there was an error. *)
LEMMA IdleEdits ==
    ASSUME bg' = Idle, bg_error => bg_error', bg.pc # "logged" \/ bg_error'
    PROVE  EditsGoOn
BY DEF Idle, EditsGoOn

(* A call that finds nothing to do ends. *)
LEMMA IdleCallKeeps ==
    ASSUME DBInv, IdleCall
    PROVE  DBInv'
<1>1. bg' = Idle /\ phase' \in {phase, "dead"} /\ Leveled(manual')
  BY CallEnded DEF IdleCall
<1>2. phase \in {"open", "closing", "dead"}
  BY Active DEF IdleCall, Quiescent
<1>3. Steady
  BY <1>1, <1>2, SameDiskAndVersions DEF IdleCall
<1>4. Onward /\ Running
  BY <1>3, SteadyOnward
<1>5. EditsGoOn
  BY <1>1, IdleEdits DEF IdleCall
<1>6. ReadersSound'
  BY <1>4, OnwardReaders DEF DBInv, IdleCall
<1>7. BackgroundSound'
  BY <1>1, IdleSound
<1>8. ClientsTyped'
  BY <1>1 DEF DBInv, ClientsTyped, IdleCall, Leveled
<1> QED
  BY <1>3, <1>5, <1>6, <1>7, <1>8, SteadyStep

(* A compaction that notices Close ends. *)
LEMMA AbortCompactionKeeps ==
    ASSUME DBInv, AbortCompaction
    PROVE  DBInv'
<1>1. PICK j \in bg.job :
        /\ bg.pc = "merging" /\ phase = "closing" /\ bg_error' = TRUE
        /\ UNCHANGED <<imm, vs>> /\ EndOfCall(j, FALSE)
        /\ UNCHANGED <<disk, mem, logfile_number, snapshots, writers, writing, readers, todo,
                       history>>
  BY DEF AbortCompaction
<1>2. bg' = Idle /\ phase' \in {phase, "dead"} /\ Leveled(manual')
  BY <1>1, CallEnded
<1>3. Steady
  BY <1>1, <1>2, SameDiskAndVersions
<1>4. Onward /\ Running
  BY <1>3, SteadyOnward
<1>5. EditsGoOn
  BY <1>1, <1>2, IdleEdits
<1>6. ReadersSound'
  BY <1>1, <1>4, OnwardReaders DEF DBInv
<1>7. BackgroundSound'
  BY <1>2, IdleSound
<1>8. ClientsTyped'
  BY <1>1, <1>2 DEF DBInv, ClientsTyped, Leveled
<1> QED
  BY <1>3, <1>5, <1>6, <1>7, <1>8, SteadyStep

(* Tables are written, and nothing else on disk.                           *)
LEMMA TablesWritten ==
    ASSUME DBInv, NEW tables, disk' = [disk EXCEPT !.tables = tables],
           DOMAIN tables \subseteq Nat, tables \in [DOMAIN tables -> Contents]
    PROVE  /\ DiskTyped(disk') /\ disk'.current = disk.current /\ disk'.manifests = disk.manifests
           /\ disk'.tables = tables
<1>1. DiskTyped(disk)
  BY DEF DBInv, DiskSound
<1>2. PICK l, t, c, m : disk = [logs |-> l, tables |-> t, current |-> c, manifests |-> m]
  BY <1>1 DEF DiskTyped
<1>3. disk' = [logs |-> l, tables |-> tables, current |-> c, manifests |-> m]
  BY <1>2
<1>4. disk'.logs = disk.logs /\ disk'.tables = tables /\ disk'.current = disk.current
      /\ disk'.manifests = disk.manifests
      /\ disk' = [logs |-> disk'.logs, tables |-> disk'.tables, current |-> disk'.current,
                  manifests |-> disk'.manifests]
  BY <1>2, <1>3
<1> QED
  BY <1>1, <1>4 DEF DiskTyped

(* Tables with new numbers leave the old ones what they are. *)
LEMMA TablesAdded ==
    ASSUME NEW f, DOMAIN f \subseteq Nat, f \in [DOMAIN f -> Contents],
           NEW new, DOMAIN new \subseteq Nat, new \in [DOMAIN new -> Contents],
           NEW bound \in Nat, \A n \in DOMAIN new : bound <= n, NEW g, g = Over(new, f)
    PROVE  /\ DOMAIN g \subseteq Nat /\ g \in [DOMAIN g -> Contents]
           /\ Grown(f, g, bound) /\ DOMAIN new \subseteq DOMAIN g
           /\ \A n \in DOMAIN new : g[n] = new[n]
<1>1. DOMAIN g = DOMAIN new \cup DOMAIN f
  BY DEF Over
<1>2. \A n \in DOMAIN g : g[n] = IF n \in DOMAIN new THEN new[n] ELSE f[n]
  BY DEF Over
<1>3. \A n \in DOMAIN g : g[n] \in Contents
  BY <1>1, <1>2
<1>4. g = [n \in DOMAIN g |-> g[n]]
  BY DEF Over
<1>5. \A n \in DOMAIN f : n < bound => n \notin DOMAIN new
  <2> SUFFICES ASSUME NEW n \in DOMAIN f, n < bound, n \in DOMAIN new PROVE FALSE
    OBVIOUS
  <2>1. n \in Nat /\ bound <= n
    OBVIOUS
  <2> QED
    BY <2>1
<1>6. Grown(f, g, bound)
  BY <1>1, <1>2, <1>5 DEF Grown
<1> QED
  BY <1>1, <1>2, <1>3, <1>4, <1>6

(* So does a single one. *)
LEMMA TableAdded ==
    ASSUME NEW f, DOMAIN f \subseteq Nat, f \in [DOMAIN f -> Contents],
           NEW n \in Nat, NEW x \in Contents, NEW g, g = With(f, n, x)
    PROVE  /\ DOMAIN g \subseteq Nat /\ g \in [DOMAIN g -> Contents]
           /\ Grown(f, g, n) /\ n \in DOMAIN g /\ g[n] = x
<1>1. DOMAIN g = DOMAIN f \cup {n}
  BY DEF With
<1>2. \A k \in DOMAIN g : g[k] = IF k = n THEN x ELSE f[k]
  BY DEF With
<1>3. \A k \in DOMAIN g : g[k] \in Contents
  BY <1>1, <1>2
<1>4. g = [k \in DOMAIN g |-> g[k]]
  BY DEF With
<1>5. \A k \in DOMAIN f : k < n => k # n
  OBVIOUS
<1>6. Grown(f, g, n)
  BY <1>1, <1>2, <1>5 DEF Grown
<1> QED
  BY <1>1, <1>2, <1>3, <1>4, <1>6

(* What the background thread consists of. *)
LEMMA BackgroundIs ==
    ASSUME DBInv
    PROVE  \E a, b, c, d : bg = [pc |-> a, number |-> b, job |-> c, edit |-> d]
BY DEF DBInv, BackgroundSound

(* The memtable goes to a table with a new number. *)
LEMMA BeginMemTableKeeps ==
    ASSUME DBInv, BeginMemTable
    PROVE  DBInv'
<1> DEFINE n == vs.next_file_number
<1>1. n \in Nat /\ n + 1 \in Nat /\ n <= n + 1
  BY VersionsAre
<1>2. /\ imm # {} /\ phase = "open"
      /\ bg.pc = "idle" \/ bg.pc = "merging"
      /\ bg' = [bg EXCEPT !.pc = "building", !.number = n]
      /\ vs' = [vs EXCEPT !.next_file_number = n + 1]
      /\ pending_outputs' = pending_outputs \cup {n}
      /\ disk' = IF imm = {{}} THEN disk
                 ELSE [disk EXCEPT !.tables = With(@, n, The(imm))]
      /\ UNCHANGED <<BgUnchanged, imm, bg_error, background_compaction_scheduled, manual, todo>>
  BY DEF BeginMemTable
<1> HIDE DEF n
<1> DEFINE k == n + 1
<1>3. /\ VersionSetShape(vs') /\ vs'.version = vs.version
      /\ vs'.manifest_file_number = vs.manifest_file_number
      /\ vs'.file_to_compact = vs.file_to_compact
      /\ vs'.next_file_number = k /\ vs'.last_sequence = vs.last_sequence
  <2>1. vs.next_file_number <= k /\ k \in Nat /\ vs' = [vs EXCEPT !.next_file_number = k]
    BY <1>1, <1>2 DEF n
  <2> HIDE DEF k
  <2> QED
    BY <2>1, NumberTaken
<1>4. /\ DiskTyped(disk') /\ disk'.current = disk.current /\ disk'.manifests = disk.manifests
      /\ Grown(disk.tables, disk'.tables, n)
      /\ imm # {{}} => n \in DOMAIN disk'.tables /\ disk'.tables[n] = The(imm)
  <2>1. CASE imm = {{}}
    <3>1. disk' = disk
      BY <1>2, <2>1
    <3> QED
      BY <2>1, <3>1, SameTypedDisk DEF Grown
  <2>2. CASE imm # {{}}
    <3>1. The(imm) \in Contents
      <4>1. imm = {The(imm)} /\ imm \subseteq KeySets
        BY <1>2 DEF DBInv, ClientsTyped
      <4>2. The(imm) # {}
        BY <2>2, <4>1
      <4>3. The(imm) \in imm
        BY <4>1
      <4> QED
        BY <4>1, <4>2, <4>3 DEF Contents
    <3> DEFINE g == With(disk.tables, n, The(imm))
    <3>2. DOMAIN disk.tables \subseteq Nat /\ disk.tables \in [DOMAIN disk.tables -> Contents]
      BY DEF DBInv, DiskSound, DiskTyped
    <3>3. /\ DOMAIN g \subseteq Nat /\ g \in [DOMAIN g -> Contents]
          /\ Grown(disk.tables, g, n) /\ n \in DOMAIN g /\ g[n] = The(imm)
      BY <1>1, <3>1, <3>2, TableAdded
    <3>4. disk' = [disk EXCEPT !.tables = g]
      BY <1>2, <2>2
    <3> HIDE DEF g
    <3>5. /\ DiskTyped(disk') /\ disk'.current = disk.current /\ disk'.manifests = disk.manifests
          /\ disk'.tables = g
      BY <3>3, <3>4, TablesWritten
    <3> QED
      BY <3>3, <3>5
  <2> QED
    BY <2>1, <2>2
<1>5. Steady
  <2>1. \A s \in vs.file_to_compact :
           s.level \in 0..(kNumLevels - 2) /\ s.file \in ToSet(vs.version[s.level])
    BY DEF DBInv, VersionSetSound
  <2>2. phase' = "open"
    BY <1>2 DEF BgUnchanged
  <2>3. vs'.next_file_number \in Nat /\ vs.next_file_number <= vs'.next_file_number
        /\ vs'.last_sequence \in Nat
    BY <1>1, <1>3, VersionsAre DEF n
  <2> QED
    BY <1>2, <1>3, <1>4, <2>1, <2>2, <2>3 DEF Steady, n
<1>6. Onward /\ Running
  BY <1>5, SteadyOnward
<1>7. PICK a, b, c, d : bg = [pc |-> a, number |-> b, job |-> c, edit |-> d]
  BY BackgroundIs
<1>8. bg' = [pc |-> "building", number |-> n, job |-> c, edit |-> d] /\ bg'.job = bg.job
  BY <1>2, <1>7
<1>9. EditsGoOn
  BY <1>2, <1>8 DEF EditsGoOn
<1>10. ReadersSound'
  BY <1>2, <1>6, OnwardReaders DEF DBInv, BgUnchanged
<1>11. BackgroundSound'
  <2>1. \A j \in bg'.job : JobSound(j, disk'.tables, vs'.next_file_number, pending_outputs')
    BY <1>2, <1>6, <1>8, OnwardJobs DEF DBInv, BackgroundSound
  <2>2. n \notin OutputsOf(bg'.job)
    <3> SUFFICES ASSUME NEW j \in bg.job, n \in ToSet(j.outputs) PROVE FALSE
      BY <1>8 DEF OutputsOf
    <3>1. JobSound(j, disk.tables, vs.next_file_number, pending_outputs)
      BY DEF DBInv, BackgroundSound
    <3>2. n < n
      BY <3>1 DEF JobSound, n
    <3> QED
      BY <1>1, <3>2
  <2>3. Building'
    BY <1>1, <1>2, <1>3, <1>4, <1>8, <2>2 DEF Building
  <2> QED
    BY <1>8, <2>1, <2>3 DEF BackgroundSound
<1>12. ClientsTyped'
  BY <1>2 DEF DBInv, ClientsTyped, BgUnchanged
<1> QED
  BY <1>5, <1>9, <1>10, <1>11, <1>12, SteadyStep

(* After that the compaction it interrupted goes on, whose files all exist. *)
LEMMA TableDone ==
    ASSUME DBInv, AfterMemTable,
           \A j \in bg.job : JobSound(j, disk'.tables, vs'.next_file_number, pending_outputs')
    PROVE  BackgroundSound' /\ bg'.pc \in {"idle", "merging"} /\ phase' \in {phase, "dead"}
           /\ Leveled(manual')
<1>1. CASE bg.job # {}
  <2>1. bg' = [bg EXCEPT !.pc = "merging", !.edit = {}, !.number = 0]
        /\ UNCHANGED <<background_compaction_scheduled, manual, phase>>
    BY <1>1 DEF AfterMemTable
  <2>2. PICK a, b, c, d : bg = [pc |-> a, number |-> b, job |-> c, edit |-> d]
    BY BackgroundIs
  <2>3. bg' = [pc |-> "merging", number |-> 0, job |-> c, edit |-> {}] /\ bg'.job = bg.job
    BY <2>1, <2>2
  <2>4. BackgroundSound'
    BY <2>3 DEF BackgroundSound
  <2> QED
    BY <2>1, <2>3, <2>4 DEF DBInv, ClientsTyped, Leveled
<1>2. CASE bg.job = {}
  <2>1. EndOfCall(NoJob, TRUE)
    BY <1>2 DEF AfterMemTable
  <2>2. bg' = Idle /\ phase' \in {phase, "dead"} /\ Leveled(manual')
    BY <2>1, CallEnded
  <2> QED
    BY <2>2, IdleSound DEF Idle
<1> QED
  BY <1>1, <1>2

-----------------------------------------------------------------------------
(* Edits. *)

IsEdit(e) ==
    e = [log_number |-> e.log_number, next_file |-> e.next_file,
         last_sequence |-> e.last_sequence, pointers |-> e.pointers, deleted |-> e.deleted,
         added |-> e.added]

(* An edit, from its parts. *)
LEMMA EditMade ==
    ASSUME NEW l, NEW n, NEW s, NEW p, NEW d, NEW a, NEW e,
           e = [log_number |-> l, next_file |-> n, last_sequence |-> s, pointers |-> p,
                deleted |-> d, added |-> a]
    PROVE  IsEdit(e) /\ e.added = a /\ e.deleted = d /\ e.next_file = n /\ e.last_sequence = s
BY DEF IsEdit

(* The edits the code makes. *)
LEMMA EditsMade ==
    ASSUME NEW l, NEW p, NEW d, NEW a
    PROVE  /\ IsEdit([NoEdit EXCEPT !.log_number = l, !.added = a])
           /\ [NoEdit EXCEPT !.log_number = l, !.added = a].added = a
           /\ IsEdit([NoEdit EXCEPT !.deleted = d, !.added = a, !.pointers = p])
           /\ [NoEdit EXCEPT !.deleted = d, !.added = a, !.pointers = p].added = a
<1> DEFINE zero == 0
           none == {}
           e == [NoEdit EXCEPT !.log_number = l]
           f == [e EXCEPT !.added = a]
           g == [NoEdit EXCEPT !.deleted = d]
           h == [g EXCEPT !.added = a]
           k == [h EXCEPT !.pointers = p]
<1>1. NoEdit = [log_number |-> zero, next_file |-> zero, last_sequence |-> zero,
                pointers |-> none, deleted |-> none, added |-> none]
  BY DEF NoEdit
<1> HIDE DEF zero, none
<1>2. e = [log_number |-> l, next_file |-> zero, last_sequence |-> zero,
           pointers |-> none, deleted |-> none, added |-> none]
  BY <1>1
<1>3. g = [log_number |-> zero, next_file |-> zero, last_sequence |-> zero,
           pointers |-> none, deleted |-> d, added |-> none]
  BY <1>1
<1>4. [NoEdit EXCEPT !.log_number = l, !.added = a] = f
      /\ [NoEdit EXCEPT !.deleted = d, !.added = a, !.pointers = p] = k
  OBVIOUS
<1> HIDE DEF e, g
<1>5. f = [log_number |-> l, next_file |-> zero, last_sequence |-> zero,
           pointers |-> none, deleted |-> none, added |-> a]
  BY <1>2
<1>6. h = [log_number |-> zero, next_file |-> zero, last_sequence |-> zero,
           pointers |-> none, deleted |-> d, added |-> a]
  BY <1>3
<1> HIDE DEF h
<1>7. k = [log_number |-> zero, next_file |-> zero, last_sequence |-> zero,
           pointers |-> p, deleted |-> d, added |-> a]
  BY <1>6
<1> HIDE DEF f, k
<1>8. IsEdit(f) /\ f.added = a
  BY <1>5, EditMade
<1>9. IsEdit(k) /\ k.added = a
  BY <1>7, EditMade
<1> QED
  BY <1>4, <1>8, <1>9

(* The numbers LogAndApply puts into an edit change none of its files. *)
LEMMA Numbered ==
    ASSUME NEW v, NEW e, IsEdit(e)
    PROVE  /\ IsEdit(WithNumbers(v, e))
           /\ WithNumbers(v, e).added = e.added /\ WithNumbers(v, e).deleted = e.deleted
           /\ WithNumbers(v, e).next_file = v.next_file_number
           /\ WithNumbers(v, e).last_sequence = v.last_sequence
<1>1. PICK l, n, s, p, d, a :
         e = [log_number |-> l, next_file |-> n, last_sequence |-> s, pointers |-> p,
              deleted |-> d, added |-> a]
  BY DEF IsEdit
<1>2. PICK q : WithNumbers(v, e) = [e EXCEPT !.next_file = v.next_file_number,
                                             !.last_sequence = v.last_sequence,
                                             !.log_number = q]
  BY DEF WithNumbers
<1> DEFINE x == v.next_file_number
           y == v.last_sequence
<1>3. WithNumbers(v, e) = [e EXCEPT !.next_file = x, !.last_sequence = y, !.log_number = q]
  BY <1>2
<1> HIDE DEF x, y
<1>4. WithNumbers(v, e) = [log_number |-> q, next_file |-> x, last_sequence |-> y,
                           pointers |-> p, deleted |-> d, added |-> a]
  BY <1>1, <1>3
<1> DEFINE w == WithNumbers(v, e)
<1>5. w = [log_number |-> q, next_file |-> x, last_sequence |-> y,
           pointers |-> p, deleted |-> d, added |-> a]
  BY <1>4
<1> HIDE DEF w
<1>6. IsEdit(w) /\ w.added = a /\ w.deleted = d /\ w.next_file = x /\ w.last_sequence = y
  BY <1>5, EditMade
<1>7. e.added = a /\ e.deleted = d
  BY <1>1
<1> QED
  BY <1>6, <1>7 DEF w, x, y

(* An edit whose files exist may be written. *)
LEMMA EditFits ==
    ASSUME DBInv, NEW e, IsEdit(e), IsFiniteSet(e.added),
           \A a \in e.added : MetaSound(a[2], disk.tables, vs.next_file_number),
           bg'.edit = {WithNumbers(vs, e)}, disk'.tables = disk.tables,
           vs'.next_file_number = vs.next_file_number
    PROVE  BgEditSound' /\ The(bg'.edit).next_file = vs.next_file_number
<1> DEFINE w == WithNumbers(vs, e)
<1>1. The(bg'.edit) = w
  BY DEF The
<1>2. w.added = e.added /\ w.next_file = vs.next_file_number /\ w.last_sequence = vs.last_sequence
  BY Numbered
<1>3. bg'.edit = {w}
  OBVIOUS
<1> HIDE DEF w
<1>4. EditSound(w, disk.tables)
  BY <1>2, VersionsAre DEF EditSound
<1> QED
  BY <1>1, <1>2, <1>3, <1>4, VersionsAre DEF BgEditSound

(* It names the next file number, which no earlier edit exceeds. *)
LEMMA EditBegun ==
    ASSUME DBInv, Running, bg_error => bg_error', bg.pc # "logged",
           The(bg'.edit).next_file = vs.next_file_number, bg'.pc = "logging"
    PROVE  EditsGoOn
BY DEF EditsGoOn, Running, LastRecord

(* The memtable's table is finished: its edit names it. *)
LEMMA FinishBuildKeeps ==
    ASSUME DBInv, FinishBuild
    PROVE  DBInv'
<1>1. /\ bg.pc = "building" /\ pending_outputs' = pending_outputs \ {bg.number}
      /\ UNCHANGED <<disk, mem, logfile_number, snapshots, writers, writing, readers, todo, history>>
      /\ imm' = imm /\ vs' = vs
  BY DEF FinishBuild
<1>2. phase \in {"open", "closing", "dead"}
  BY <1>1, Active DEF Quiescent
<1>3. Building
  BY <1>1 DEF DBInv, BackgroundSound
<1>4. \A j \in bg.job : JobSound(j, disk'.tables, vs'.next_file_number, pending_outputs')
  <2> SUFFICES ASSUME NEW j \in bg.job
               PROVE  JobSound(j, disk'.tables, vs'.next_file_number, pending_outputs')
    OBVIOUS
  <2>1. JobSound(j, disk.tables, vs.next_file_number, pending_outputs)
    BY DEF DBInv, BackgroundSound
  <2>2. \A n \in ToSet(j.outputs) : n # bg.number
    BY <1>3 DEF Building, OutputsOf
  <2> QED
    BY <1>1, <2>1, <2>2 DEF JobSound
<1>5. CASE bg_error' = TRUE /\ AfterMemTable
  <2>1. BackgroundSound' /\ bg'.pc \in {"idle", "merging"} /\ phase' \in {phase, "dead"}
        /\ Leveled(manual')
    BY <1>4, <1>5, TableDone
  <2>2. Steady
    BY <1>1, <1>2, <2>1, SameDiskAndVersions
  <2>3. Onward /\ Running
    BY <2>2, SteadyOnward
  <2>4. EditsGoOn
    BY <1>5, <2>1 DEF EditsGoOn
  <2>5. ReadersSound'
    BY <1>1, <2>3, OnwardReaders DEF DBInv
  <2>6. ClientsTyped'
    BY <1>1, <2>1 DEF DBInv, ClientsTyped, Leveled
  <2> QED
    BY <2>1, <2>2, <2>4, <2>5, <2>6, SteadyStep
<1>6. CASE /\ bg' = [bg EXCEPT !.pc = "logging", !.edit = {WithNumbers(vs, MemTableEdit)}]
           /\ UNCHANGED <<bg_error, imm, vs, background_compaction_scheduled, manual, phase>>
  <2>1. Steady
    BY <1>1, <1>2, <1>6, SameDiskAndVersions
  <2>2. Onward /\ Running
    BY <2>1, SteadyOnward
  <2> DEFINE f == FileMetaData(bg.number, The(imm))
             level == PickLevelForMemTableOutput(vs.version, f.smallest.user, f.largest.user)
             files == IF imm = {{}} THEN {} ELSE {<<level, f>>}
             e == [NoEdit EXCEPT !.log_number = logfile_number, !.added = files]
             w == WithNumbers(vs, e)
  <2>3. MemTableEdit = e
    BY DEF MemTableEdit
  <2>4. \A a \in files : MetaSound(a[2], disk.tables, vs.next_file_number)
    BY <1>3 DEF Building, MetaSound, FileMetaData
  <2>5. IsFiniteSet(files)
    BY FS_EmptySet, FS_Singleton
  <2> HIDE DEF files
  <2>7. IsEdit(e) /\ e.added = files
    BY EditsMade
  <2> HIDE DEF e
  <2>8. bg' = [bg EXCEPT !.pc = "logging", !.edit = {w}]
    BY <1>6, <2>3
  <2> HIDE DEF w
  <2>9. PICK a, b, c, d : bg = [pc |-> a, number |-> b, job |-> c, edit |-> d]
    BY BackgroundIs
  <2>10. bg' = [pc |-> "logging", number |-> b, job |-> c, edit |-> {w}] /\ bg'.job = bg.job
         /\ bg'.edit = {w} /\ bg'.pc = "logging"
    <3> DEFINE W == {w}
    <3> HIDE DEF W
    <3>1. bg' = [pc |-> "logging", number |-> b, job |-> c, edit |-> W]
      BY <2>8, <2>9 DEF W
    <3> QED
      BY <2>9, <3>1 DEF W
  <2>11. BgEditSound' /\ The(bg'.edit).next_file = vs.next_file_number
    BY <1>1, <2>4, <2>5, <2>7, <2>10, EditFits DEF w
  <2>12. BackgroundSound'
    BY <1>4, <2>10, <2>11 DEF BackgroundSound
  <2>13. EditsGoOn
    BY <1>1, <1>6, <2>2, <2>10, <2>11, EditBegun
  <2>14. ReadersSound'
    BY <1>1, <2>2, OnwardReaders DEF DBInv
  <2>15. ClientsTyped'
    BY <1>1, <1>6 DEF DBInv, ClientsTyped
  <2> QED
    BY <2>1, <2>12, <2>13, <2>14, <2>15, SteadyStep
<1> QED
  BY <1>5, <1>6 DEF FinishBuild

(* The manifest cannot be synced: nothing is deleted or installed. *)
LEMMA FailEditKeeps ==
    ASSUME DBInv, FailEdit
    PROVE  DBInv'
<1>1. /\ bg.pc = "logged" /\ bg_error' = TRUE /\ UNCHANGED <<imm, vs>>
      /\ todo' = [todo EXCEPT !.faults = @ \ {"manifest"}]
      /\ UNCHANGED <<disk, mem, logfile_number, snapshots, writers, writing, readers, history>>
  BY DEF FailEdit
<1>2. phase \in {"open", "closing", "dead"}
  BY <1>1, Active DEF Quiescent
<1>3. BackgroundSound' /\ bg'.pc \in {"idle", "merging"} /\ phase' \in {phase, "dead"}
      /\ Leveled(manual')
  <2>1. CASE AfterMemTable /\ UNCHANGED pending_outputs
    <3>1. \A j \in bg.job : JobSound(j, disk'.tables, vs'.next_file_number, pending_outputs')
      BY <1>1, <2>1 DEF DBInv, BackgroundSound
    <3> QED
      BY <2>1, <3>1, TableDone
  <2>2. CASE EndOfCall(IF bg.job = {} THEN NoJob ELSE The(bg.job), FALSE)
    <3> DEFINE job == IF bg.job = {} THEN NoJob ELSE The(bg.job)
    <3>2. EndOfCall(job, FALSE)
      BY <2>2
    <3> HIDE DEF job
    <3>1. bg' = Idle /\ phase' \in {phase, "dead"} /\ Leveled(manual')
      BY <3>2, CallEnded
    <3> QED
      BY <3>1, IdleSound DEF Idle
  <2> QED
    BY <2>1, <2>2 DEF FailEdit
<1>4. Steady
  BY <1>1, <1>2, <1>3, SameDiskAndVersions
<1>5. Onward /\ Running
  BY <1>4, SteadyOnward
<1>6. EditsGoOn
  BY <1>1, <1>3 DEF EditsGoOn
<1>7. ReadersSound'
  BY <1>1, <1>5, OnwardReaders DEF DBInv
<1>8. ClientsTyped'
  <2>1. todo' \in ScenarioType
    BY <1>1, FaultUsed
  <2> QED
    BY <1>1, <1>3, <2>1 DEF DBInv, ClientsTyped, Leveled
<1> QED
  BY <1>3, <1>4, <1>6, <1>7, <1>8, SteadyStep

(* The background thread begins to write an edit. *)
LEMMA EditBegins ==
    ASSUME DBInv, NEW e, IsEdit(e), IsFiniteSet(e.added),
           \A a \in e.added : MetaSound(a[2], disk.tables, vs.next_file_number),
           NEW n, NEW jobs, jobs \subseteq bg.job,
           bg' = [pc |-> "logging", number |-> n, job |-> jobs, edit |-> {WithNumbers(vs, e)}],
           UNCHANGED <<disk, pending_outputs>>,
           vs'.next_file_number = vs.next_file_number
    PROVE  /\ BackgroundSound' /\ bg'.pc = "logging"
           /\ The(bg'.edit).next_file = vs.next_file_number
<1> DEFINE W == {WithNumbers(vs, e)}
<1>1. bg' = [pc |-> "logging", number |-> n, job |-> jobs, edit |-> W]
  OBVIOUS
<1> HIDE DEF W
<1>2. /\ bg'.pc = "logging" /\ bg'.job = jobs /\ bg'.edit = W
      /\ bg' = [pc |-> bg'.pc, number |-> bg'.number, job |-> bg'.job, edit |-> bg'.edit]
  BY <1>1
<1>3. BgEditSound' /\ The(bg'.edit).next_file = vs.next_file_number
  BY <1>2, EditFits DEF W
<1>4. \A j \in bg'.job : JobSound(j, disk'.tables, vs'.next_file_number, pending_outputs')
  BY <1>2 DEF DBInv, BackgroundSound
<1> QED
  BY <1>2, <1>3, <1>4 DEF BackgroundSound

(* A compaction is done: its edit names its outputs, which exist. *)
LEMMA FinishCompactionWorkKeeps ==
    ASSUME DBInv, FinishCompactionWork
    PROVE  DBInv'
<1> DEFINE files(j) == {<<j.c.level + 1, FileMetaData(n, disk.tables[n])>> : n \in ToSet(j.outputs)}
           e(j) == [NoEdit EXCEPT !.deleted = AddInputDeletions(j.c), !.added = files(j),
                                  !.pointers = {<<j.c.level, j.c.pointer>>}]
<1>1. PICK j \in bg.job :
        /\ bg.pc = "merging" /\ j.opened /\ phase = "open"
        /\ bg' = [bg EXCEPT !.pc = "logging", !.edit = {WithNumbers(vs, e(j))}]
        /\ UNCHANGED <<BgUnchanged, disk, vs, imm, pending_outputs, bg_error,
                       background_compaction_scheduled, manual, todo>>
  BY DEF FinishCompactionWork
<1>2. JobSound(j, disk.tables, vs.next_file_number, pending_outputs)
  BY DEF DBInv, BackgroundSound
<1>3. \A a \in files(j) : MetaSound(a[2], disk.tables, vs.next_file_number)
  BY <1>2 DEF JobSound, MetaSound, FileMetaData
<1>4. IsFiniteSet(files(j))
  <2> DEFINE S == ToSet(j.outputs)
             F == files(j)
             h == [n \in S |-> <<j.c.level + 1, FileMetaData(n, disk.tables[n])>>]
  <2>1. IsFiniteSet(S)
    BY <1>2, SeqOfItsSet DEF JobSound, IsSeq
  <2>2. h \in Surjection(S, F)
    BY DEF Surjection
  <2> HIDE DEF S, F, h
  <2>3. IsFiniteSet(F)
    BY <2>1, <2>2, FS_Surjection
  <2> QED
    BY <2>3 DEF F
<1>5. IsEdit(e(j)) /\ e(j).added = files(j)
  <2> DEFINE F == files(j)
  <2> HIDE DEF F
  <2>1. IsEdit([NoEdit EXCEPT !.deleted = AddInputDeletions(j.c), !.added = F,
                              !.pointers = {<<j.c.level, j.c.pointer>>}])
        /\ [NoEdit EXCEPT !.deleted = AddInputDeletions(j.c), !.added = F,
                          !.pointers = {<<j.c.level, j.c.pointer>>}].added = F
    BY EditsMade
  <2> QED
    BY <2>1 DEF F
<1> DEFINE x == e(j)
<1>6. IsEdit(x) /\ IsFiniteSet(x.added)
      /\ \A a \in x.added : MetaSound(a[2], disk.tables, vs.next_file_number)
  BY <1>3, <1>4, <1>5
<1>7. bg' = [bg EXCEPT !.pc = "logging", !.edit = {WithNumbers(vs, x)}]
  BY <1>1
<1> HIDE DEF e, files, x
<1>8. PICK a, b, c, d : bg = [pc |-> a, number |-> b, job |-> c, edit |-> d]
  BY BackgroundIs
<1>9. bg' = [pc |-> "logging", number |-> b, job |-> bg.job, edit |-> {WithNumbers(vs, x)}]
  <2> DEFINE W == {WithNumbers(vs, x)}
  <2> HIDE DEF W
  <2>1. bg' = [bg EXCEPT !.pc = "logging", !.edit = W]
    BY <1>7 DEF W
  <2>2. bg' = [pc |-> "logging", number |-> b, job |-> c, edit |-> W] /\ bg.job = c
    BY <1>8, <2>1
  <2> QED
    BY <2>2 DEF W
<1>10. /\ BackgroundSound' /\ bg'.pc = "logging"
       /\ The(bg'.edit).next_file = vs.next_file_number
  BY <1>1, <1>6, <1>9, EditBegins
<1>11. phase' = phase /\ readers' = readers /\ phase = "open"
  BY <1>1 DEF BgUnchanged
<1>12. Steady
  BY <1>1, <1>11, SameDiskAndVersions
<1>13. Onward /\ Running
  BY <1>12, SteadyOnward
<1>14. EditsGoOn
  BY <1>1, <1>10, <1>13, EditBegun
<1>15. ReadersSound'
  BY <1>11, <1>13, OnwardReaders DEF DBInv
<1>16. ClientsTyped'
  BY <1>1 DEF DBInv, ClientsTyped, BgUnchanged
<1> QED
  BY <1>10, <1>12, <1>14, <1>15, <1>16, SteadyStep

(* A compaction's outputs get new numbers and are pending. *)
LEMMA OpenOutputsKeeps ==
    ASSUME DBInv, OpenOutputs
    PROVE  DBInv'
<1> DEFINE n == vs.next_file_number
           made(j) == CompactionOutputs(j.c, disk.tables, j.smallest_snapshot)
<1>1. PICK j \in bg.job :
        LET tables == made(j)
            new == [i \in n..(n + Len(tables) - 1) |-> tables[i - n + 1]]
        IN /\ bg.pc = "merging" /\ ~j.opened /\ phase = "open"
           /\ bg' = [bg EXCEPT !.job = {[j EXCEPT !.opened = TRUE,
                                          !.outputs = [i \in DOMAIN tables |-> n + i - 1]]}]
           /\ vs' = [vs EXCEPT !.next_file_number = n + Len(tables)]
           /\ pending_outputs' = pending_outputs \cup DOMAIN new
           /\ disk' = [disk EXCEPT !.tables = Over(new, @)]
           /\ UNCHANGED <<BgUnchanged, imm, bg_error, background_compaction_scheduled, manual, todo>>
  BY DEF OpenOutputs
<1> DEFINE tables == made(j)
           size == Len(tables)
           new == [i \in n..(n + size - 1) |-> tables[i - n + 1]]
           numbers == [i \in DOMAIN tables |-> n + i - 1]
           job == [j EXCEPT !.opened = TRUE, !.outputs = numbers]
           g == Over(new, disk.tables)
           next == n + size
<1>2. /\ bg.pc = "merging" /\ phase = "open"
      /\ bg' = [bg EXCEPT !.job = {job}]
      /\ vs' = [vs EXCEPT !.next_file_number = next]
      /\ pending_outputs' = pending_outputs \cup DOMAIN new
      /\ disk' = [disk EXCEPT !.tables = g]
      /\ UNCHANGED <<BgUnchanged, imm, bg_error, background_compaction_scheduled, manual, todo>>
  BY <1>1
<1>3. JobSound(j, disk.tables, n, pending_outputs)
  BY DEF DBInv, BackgroundSound
<1>4. DOMAIN disk.tables \subseteq Nat /\ disk.tables \in [DOMAIN disk.tables -> Contents]
  BY DEF DBInv, DiskSound, DiskTyped
<1>5. tables \in Seq(Contents)
  <2>1. CompactionSound(j.c, disk.tables, n)
    BY <1>3 DEF JobSound
  <2> QED
    BY <1>4, <2>1, OutputsTyped
<1> HIDE DEF tables, made
<1>6. size \in Nat /\ DOMAIN tables = 1..size /\ \A i \in 1..size : tables[i] \in Contents
  BY <1>5, LenProperties
<1>7. n \in Nat
  BY VersionsAre
<1> HIDE DEF n, size
<1>8. next \in Nat /\ n <= next
  BY <1>6, <1>7
<1>9. \A i \in n..(n + size - 1) : i \in Nat /\ n <= i /\ i - n + 1 \in 1..size
  BY <1>6, <1>7
<1>10. DOMAIN new = n..(n + size - 1) /\ new \in [DOMAIN new -> Contents]
       /\ DOMAIN new \subseteq Nat /\ \A i \in DOMAIN new : n <= i
  BY <1>6, <1>9
<1>11. \A i \in 1..size : numbers[i] \in DOMAIN new /\ numbers[i] < next /\ numbers[i] \in Nat
  BY <1>6, <1>7, <1>10
<1>12. numbers \in [1..size -> Nat]
  BY <1>6, <1>11
<1> HIDE DEF new, numbers
<1>13. IsSeq(numbers) /\ \A k \in ToSet(numbers) : k \in DOMAIN new /\ k < next
  <2>1. numbers \in Seq(Nat) /\ ToSet(numbers) = {numbers[i] : i \in 1..size}
    BY <1>6, <1>12, SeqOfLength
  <2>2. IsSeq(numbers)
    BY <2>1, SeqOfItsSet DEF IsSeq
  <2> QED
    BY <1>11, <2>1, <2>2
<1>14. /\ DOMAIN g \subseteq Nat /\ g \in [DOMAIN g -> Contents]
       /\ Grown(disk.tables, g, n) /\ DOMAIN new \subseteq DOMAIN g
  <2> DEFINE f == disk.tables
  <2> HIDE DEF f
  <2>1. DOMAIN f \subseteq Nat /\ f \in [DOMAIN f -> Contents]
    BY <1>4 DEF f
  <2> DEFINE q == Over(new, f)
  <2>2. /\ DOMAIN q \subseteq Nat /\ q \in [DOMAIN q -> Contents]
        /\ Grown(f, q, n) /\ DOMAIN new \subseteq DOMAIN q
    BY <1>7, <1>10, <2>1, TablesAdded
  <2> QED
    BY <2>2 DEF f
<1> HIDE DEF g, next
<1>15. /\ DiskTyped(disk') /\ disk'.current = disk.current /\ disk'.manifests = disk.manifests
       /\ disk'.tables = g
  BY <1>2, <1>14, TablesWritten
<1>16. /\ VersionSetShape(vs') /\ vs'.version = vs.version
       /\ vs'.manifest_file_number = vs.manifest_file_number
       /\ vs'.file_to_compact = vs.file_to_compact
       /\ vs'.next_file_number = next /\ vs'.last_sequence = vs.last_sequence
  BY <1>2, <1>8, NumberTaken DEF n
<1>17. phase' = phase /\ readers' = readers
  BY <1>2 DEF BgUnchanged
<1>18. Steady
  <2>1. \A s \in vs.file_to_compact :
           s.level \in 0..(kNumLevels - 2) /\ s.file \in ToSet(vs.version[s.level])
    BY DEF DBInv, VersionSetSound
  <2> QED
    BY <1>2, <1>8, <1>14, <1>15, <1>16, <1>17, <2>1, VersionsAre DEF Steady, n
<1>19. Onward /\ Running
  BY <1>18, SteadyOnward
<1>20. JobSound(job, disk'.tables, vs'.next_file_number, pending_outputs')
  <2>1. JobSound(j, disk'.tables, vs'.next_file_number, pending_outputs')
    BY <1>2, <1>3, <1>19, OnwardJobs DEF n
  <2>2. PICK c, m, o, p, s :
           j = [c |-> c, manual |-> m, outputs |-> o, opened |-> p, smallest_snapshot |-> s]
    BY <1>3 DEF JobSound
  <2> DEFINE t == TRUE
  <2>3. job = [[j EXCEPT !.opened = t] EXCEPT !.outputs = numbers]
    OBVIOUS
  <2> HIDE DEF t, job
  <2>4. [j EXCEPT !.opened = t]
          = [c |-> c, manual |-> m, outputs |-> o, opened |-> t, smallest_snapshot |-> s]
    BY <2>2
  <2> DEFINE k == [j EXCEPT !.opened = t]
  <2>5. job = [k EXCEPT !.outputs = numbers]
    BY <2>3
  <2>6. k = [c |-> c, manual |-> m, outputs |-> o, opened |-> t, smallest_snapshot |-> s]
    BY <2>4
  <2> HIDE DEF k
  <2>7. job = [c |-> c, manual |-> m, outputs |-> numbers, opened |-> t, smallest_snapshot |-> s]
    BY <2>5, <2>6
  <2>8. /\ job.c = j.c /\ job.outputs = numbers
        /\ job = [c |-> job.c, manual |-> job.manual, outputs |-> job.outputs,
                  opened |-> job.opened, smallest_snapshot |-> job.smallest_snapshot]
    BY <2>2, <2>7
  <2>9. \A i \in ToSet(numbers) :
           i \in DOMAIN disk'.tables /\ i < vs'.next_file_number /\ i \in pending_outputs'
    BY <1>2, <1>13, <1>14, <1>15, <1>16
  <2> QED
    BY <1>13, <2>1, <2>8, <2>9 DEF JobSound
<1> HIDE DEF job
<1>21. PICK a, b, c, d : bg = [pc |-> a, number |-> b, job |-> c, edit |-> d]
  BY BackgroundIs
<1>22. bg' = [pc |-> a, number |-> b, job |-> {job}, edit |-> d]
  BY <1>2, <1>21
<1>23. bg'.pc = "merging" /\ bg'.job = {job}
  BY <1>2, <1>21, <1>22
<1>24. BackgroundSound'
  BY <1>20, <1>22, <1>23 DEF BackgroundSound
<1>25. EditsGoOn
  BY <1>2, <1>23 DEF EditsGoOn
<1>26. ReadersSound'
  BY <1>17, <1>19, OnwardReaders DEF DBInv
<1>27. ClientsTyped'
  BY <1>2 DEF DBInv, ClientsTyped, BgUnchanged
<1> QED
  BY <1>18, <1>24, <1>25, <1>26, <1>27, SteadyStep

(* A compaction pointer is moved, and no file with it. *)
LEMMA PointerMoved ==
    ASSUME DBInv, NEW level, NEW p, NEW w, w = [vs EXCEPT !.compact_pointer[level] = p]
    PROVE  /\ VersionSetShape(w) /\ w.version = vs.version
           /\ w.manifest_file_number = vs.manifest_file_number
           /\ w.file_to_compact = vs.file_to_compact
           /\ w.next_file_number = vs.next_file_number /\ w.last_sequence = vs.last_sequence
<1>1. PICK a, b, c, d, l, q, f :
         vs = [version |-> a, next_file_number |-> b, manifest_file_number |-> c,
              last_sequence |-> d, log_number |-> l, compact_pointer |-> q, file_to_compact |-> f]
  BY VersionsAre DEF VersionSetShape
<1> DEFINE r == [vs.compact_pointer EXCEPT ![level] = p]
<1>2. w = [vs EXCEPT !.compact_pointer = r]
  OBVIOUS
<1> HIDE DEF r
<1>3. w = [version |-> a, next_file_number |-> b, manifest_file_number |-> c,
           last_sequence |-> d, log_number |-> l, compact_pointer |-> r, file_to_compact |-> f]
  BY <1>1, <1>2
<1> QED
  BY <1>1, <1>3 DEF VersionSetShape

(* Whatever compaction is chosen, its files exist. *)
LEMMA ChosenSound ==
    ASSUME DBInv, NEW c \in Chosen
    PROVE  CompactionSound(c, disk.tables, vs.next_file_number)
<1>1. VersionSound(vs.version, disk.tables, vs.next_file_number)
  BY DEF DBInv, VersionSetSound
<1>2. CASE Posted # {}
  <2>1. The(Posted) \in Posted
    BY <1>2 DEF The
  <2>2. The(Posted).level \in 0..(kNumLevels - 2)
    BY <2>1 DEF Posted, DBInv, ClientsTyped
  <2>3. c \in CompactRange(vs.version, The(Posted).level, The(Posted).begin, The(Posted).end)
    BY <1>2 DEF Chosen
  <2> QED
    BY <1>1, <2>2, <2>3, RangeSound
<1>3. CASE Posted = {}
  <2>1. c \in PickCompaction(vs.version, vs.compact_pointer, vs.file_to_compact)
    BY <1>3 DEF Chosen
  <2>2. \A s \in vs.file_to_compact :
           s.level \in 0..(kNumLevels - 2) /\ s.file \in ToSet(vs.version[s.level])
    BY DEF DBInv, VersionSetSound
  <2> QED
    BY <1>1, <2>1, <2>2, PickSound
<1> QED
  BY <1>2, <1>3

(* A compaction begins, or a file is moved. *)
LEMMA BeginCompactionKeeps ==
    ASSUME DBInv, BeginCompaction
    PROVE  DBInv'
<1> DEFINE file(c) == Head(c.inputs[1])
           move(c) == [NoEdit EXCEPT !.deleted = {<<c.level, file(c).number>>},
                                     !.added = {<<c.level + 1, file(c)>>},
                                     !.pointers = {<<c.level, c.pointer>>}]
           job(c) == [c |-> c, manual |-> Posted # {}, outputs |-> <<>>, opened |-> FALSE,
                      smallest_snapshot |-> IF snapshots = {} THEN vs.last_sequence
                                            ELSE Min(snapshots)]
<1>1. /\ bg.pc = "idle" /\ phase = "open"
      /\ UNCHANGED <<BgUnchanged, disk, imm, pending_outputs, bg_error,
                     background_compaction_scheduled, manual, todo>>
  BY DEF BeginCompaction, BackgroundCallMayRun
<1>2. PICK c \in Chosen :
        /\ vs' = [vs EXCEPT !.compact_pointer[c.level] = {c.pointer}]
        /\ bg' = IF Posted = {} /\ IsTrivialMove(c)
                 THEN [Idle EXCEPT !.pc = "logging", !.edit = {WithNumbers(vs, move(c))}]
                 ELSE [Idle EXCEPT !.pc = "merging", !.job = {job(c)}]
  BY DEF BeginCompaction
<1>3. CompactionSound(c, disk.tables, vs.next_file_number)
  BY ChosenSound
<1>4. /\ VersionSetShape(vs') /\ vs'.version = vs.version
      /\ vs'.manifest_file_number = vs.manifest_file_number
      /\ vs'.file_to_compact = vs.file_to_compact
      /\ vs'.next_file_number = vs.next_file_number /\ vs'.last_sequence = vs.last_sequence
  BY <1>2, PointerMoved
<1>5. phase' = phase /\ readers' = readers
  BY <1>1 DEF BgUnchanged
<1>6. Steady
  <2>1. \A s \in vs.file_to_compact :
           s.level \in 0..(kNumLevels - 2) /\ s.file \in ToSet(vs.version[s.level])
    BY DEF DBInv, VersionSetSound
  <2>2. /\ phase \in {"open", "closing", "dead"} /\ phase' \in {"open", "closing", "dead"}
        /\ UNCHANGED disk /\ vs'.last_sequence \in Nat
    BY <1>1, <1>4, <1>5, VersionsAre
  <2> QED
    BY <1>4, <2>1, <2>2, SameDisk
<1>7. Onward /\ Running
  BY <1>6, SteadyOnward
<1>8. ReadersSound'
  BY <1>5, <1>7, OnwardReaders DEF DBInv
<1>9. ClientsTyped'
  BY <1>1 DEF DBInv, ClientsTyped, BgUnchanged
<1>10. CASE Posted = {} /\ IsTrivialMove(c)
  <2> DEFINE e == move(c)
             added == {<<c.level + 1, file(c)>>}
  <2>1. file(c) \in FilesOf(c.version)
    <3> DEFINE s == c.inputs[1]
    <3>1. IsSeq(s) /\ ToSet(s) \subseteq FilesOf(c.version) /\ Len(s) = 1
      BY <1>3, <1>10 DEF CompactionSound, IsTrivialMove
    <3> HIDE DEF s
    <3>2. s[1] \in ToSet(s) /\ Head(s) = s[1]
      BY <3>1 DEF IsSeq
    <3> QED
      BY <3>1, <3>2 DEF s
  <2>2. MetaSound(file(c), disk.tables, vs.next_file_number)
    BY <1>3, <2>1, VersionFiles DEF CompactionSound
  <2>3. IsFiniteSet(added) /\ \A a \in added : MetaSound(a[2], disk.tables, vs.next_file_number)
    <3> DEFINE f == file(c)
    <3>1. MetaSound(f, disk.tables, vs.next_file_number)
      BY <2>2
    <3> HIDE DEF f
    <3>2. IsFiniteSet({<<c.level + 1, f>>})
      BY FS_Singleton
    <3>3. \A a \in {<<c.level + 1, f>>} : MetaSound(a[2], disk.tables, vs.next_file_number)
      BY <3>1
    <3> QED
      BY <3>2, <3>3 DEF f
  <2> HIDE DEF added
  <2>4. IsEdit(e) /\ e.added = added
    <3>1. IsEdit([NoEdit EXCEPT !.deleted = {<<c.level, file(c).number>>}, !.added = added,
                                !.pointers = {<<c.level, c.pointer>>}])
          /\ [NoEdit EXCEPT !.deleted = {<<c.level, file(c).number>>}, !.added = added,
                            !.pointers = {<<c.level, c.pointer>>}].added = added
      BY EditsMade
    <3> QED
      BY <3>1 DEF added
  <2>5. bg' = [Idle EXCEPT !.pc = "logging", !.edit = {WithNumbers(vs, e)}]
    BY <1>2, <1>10
  <2> HIDE DEF e, move
  <2>6. bg' = [pc |-> "logging", number |-> 0, job |-> {}, edit |-> {WithNumbers(vs, e)}]
    <3> DEFINE W == {WithNumbers(vs, e)}
    <3> HIDE DEF W
    <3>1. bg' = [Idle EXCEPT !.pc = "logging", !.edit = W]
      BY <2>5 DEF W
    <3>2. bg' = [pc |-> "logging", number |-> 0, job |-> {}, edit |-> W]
      BY <3>1 DEF Idle
    <3> QED
      BY <3>2 DEF W
  <2>7. /\ BackgroundSound' /\ bg'.pc = "logging"
        /\ The(bg'.edit).next_file = vs.next_file_number
    BY <1>1, <1>4, <2>3, <2>4, <2>6, EditBegins
  <2>8. EditsGoOn
    BY <1>1, <1>7, <2>7, EditBegun
  <2> QED
    BY <1>6, <1>8, <1>9, <2>7, <2>8, SteadyStep
<1>11. CASE ~(Posted = {} /\ IsTrivialMove(c))
  <2> DEFINE j == job(c)
  <2>1. bg' = [Idle EXCEPT !.pc = "merging", !.job = {j}]
    BY <1>2, <1>11
  <2> DEFINE old == IF snapshots = {} THEN vs.last_sequence ELSE Min(snapshots)
             man == Posted # {}
  <2>2. j = [c |-> c, manual |-> man, outputs |-> <<>>, opened |-> FALSE, smallest_snapshot |-> old]
    OBVIOUS
  <2> HIDE DEF old, man
  <2>3. JobSound(j, disk.tables, vs.next_file_number, pending_outputs)
    <3> HIDE DEF j
    <3>1. /\ j.c = c /\ j.outputs = <<>>
          /\ j = [c |-> j.c, manual |-> j.manual, outputs |-> j.outputs, opened |-> j.opened,
                  smallest_snapshot |-> j.smallest_snapshot]
      BY <2>2
    <3>2. IsSeq(<<>>) /\ ToSet(<<>>) = {}
      BY DEF IsSeq, ToSet
    <3> QED
      BY <1>3, <3>1, <3>2 DEF JobSound
  <2> HIDE DEF j, job
  <2>4. bg' = [pc |-> "merging", number |-> 0, job |-> {j}, edit |-> {}]
    <3> DEFINE J == {j}
    <3> HIDE DEF J
    <3>1. bg' = [Idle EXCEPT !.pc = "merging", !.job = J]
      BY <2>1 DEF J
    <3>2. bg' = [pc |-> "merging", number |-> 0, job |-> J, edit |-> {}]
      BY <3>1 DEF Idle
    <3> QED
      BY <3>2 DEF J
  <2>5. bg'.pc = "merging" /\ bg'.job = {j}
    BY <2>4
  <2>6. BackgroundSound'
    BY <1>1, <1>4, <2>3, <2>4, <2>5 DEF BackgroundSound
  <2>7. EditsGoOn
    BY <1>1, <2>5 DEF EditsGoOn
  <2> QED
    BY <1>6, <1>8, <1>9, <2>6, <2>7, SteadyStep
<1> QED
  BY <1>10, <1>11

(* One more record in a manifest leaves the versions of the others.        *)

(* The beginnings of a sequence, and the beginnings of those. *)
LEMMA FirstParts ==
    ASSUME NEW s, IsSeq(s)
    PROVE  /\ SubSeq(s, 1, Len(s)) = s /\ Len(s) \in Nat
           /\ \A k \in 0..Len(s) : IsSeq(SubSeq(s, 1, k)) /\ Len(SubSeq(s, 1, k)) = k
           /\ \A k \in 0..Len(s) : \A i \in 0..k : SubSeq(SubSeq(s, 1, k), 1, i) = SubSeq(s, 1, i)
<1>1. Len(s) \in Nat /\ DOMAIN s = 1..Len(s) /\ s \in Seq(ToSet(s))
  BY DEF IsSeq
<1>2. SubSeq(s, 1, Len(s)) = s
  BY <1>1
<1>3. ASSUME NEW k \in 0..Len(s)
      PROVE  IsSeq(SubSeq(s, 1, k)) /\ Len(SubSeq(s, 1, k)) = k
  <2>1. SubSeq(s, 1, k) \in Seq(ToSet(s)) /\ Len(SubSeq(s, 1, k)) = k
    BY <1>1
  <2> QED
    BY <2>1, SeqOfItsSet DEF IsSeq
<1>4. ASSUME NEW k \in 0..Len(s), NEW i \in 0..k
      PROVE  SubSeq(SubSeq(s, 1, k), 1, i) = SubSeq(s, 1, i)
  <2>1. SubSeq(s, 1, k) = [j \in 1..k |-> s[j]]
    BY <1>1
  <2>2. SubSeq(s, 1, i) = [j \in 1..i |-> s[j]]
    BY <1>1
  <2> DEFINE p == SubSeq(s, 1, k)
  <2>3. SubSeq(p, 1, i) = [j \in 1..i |-> p[j]]
    <3>1. p \in Seq(ToSet(s)) /\ Len(p) = k
      BY <1>1
    <3> HIDE DEF p
    <3> QED
      BY <3>1
  <2>4. \A j \in 1..i : p[j] = s[j]
    BY <2>1
  <2> QED
    BY <2>2, <2>3, <2>4
<1> QED
  BY <1>1, <1>2, <1>3, <1>4

(* The record is sound if its edit is, and the version it leads to is the  *)
(* last one with the edit.                                                 *)
LEMMA RecordAppended ==
    ASSUME NEW m, NEW current \in Nat, NEW tables, ManifestSound(m, current, tables), m.records # <<>>,
           DOMAIN tables \subseteq Nat, tables \in [DOMAIN tables -> Contents],
           NEW e, EditSound(e, tables), LastRecord(m).next_file <= e.next_file,
           NEW m2, m2 = [records |-> Append(m.records, e), synced |-> m.synced]
    PROVE  /\ ManifestSound(m2, current, tables)
           /\ Len(m2.records) = Len(m.records) + 1 /\ Len(m.records) \in Nat \ {0}
           /\ m2.records[Len(m2.records)] = e /\ m2.synced = m.synced
           /\ After(m2, Len(m.records)) = After(m, Len(m.records))
           /\ After(m2, Len(m2.records)) = SaveTo(After(m, Len(m.records)), e.deleted, e.added)
<1> DEFINE r == m.records
           n == Len(r)
           a == Append(r, e)
<1>1. IsSeq(r) /\ m.synced \in 0..n
  BY DEF ManifestSound, ManifestTyped
<1>2. n \in Nat \ {0} /\ DOMAIN r = 1..n
  BY <1>1 DEF IsSeq
<1>3. IsSeq(a) /\ Replayed(a) = Apply(Replayed(r), e)
  BY <1>1, ReplayedMore
<1>4. /\ Len(a) = n + 1 /\ a[n + 1] = e /\ \A k \in 1..n : a[k] = r[k]
      /\ \A k \in 0..n : SubSeq(a, 1, k) = SubSeq(r, 1, k)
  <2>1. r \in Seq(ToSet(r) \cup {e}) /\ e \in ToSet(r) \cup {e}
    <3> DEFINE S == ToSet(r)
    <3>1. r \in Seq(S)
      BY <1>1 DEF IsSeq
    <3> HIDE DEF S
    <3>2. r \in Seq(S \cup {e})
      BY <3>1
    <3> QED
      BY <3>2 DEF S
  <2> DEFINE T == ToSet(r) \cup {e}
  <2> HIDE DEF T, r
  <2>2. r \in Seq(T) /\ e \in T
    BY <2>1 DEF T
  <2>3. Len(a) = n + 1 /\ a[n + 1] = e /\ \A k \in 1..n : a[k] = r[k]
    BY <2>2
  <2>4. ASSUME NEW k \in 0..n
        PROVE  SubSeq(a, 1, k) = SubSeq(r, 1, k)
    <3>1. a \in Seq(T)
      BY <2>2
    <3> HIDE DEF a
    <3>2. SubSeq(a, 1, k) = [j \in 1..k |-> a[j]]
      BY <2>3, <3>1, <2>2
    <3>3. SubSeq(r, 1, k) = [j \in 1..k |-> r[j]]
      BY <2>2
    <3>4. \A j \in 1..k : a[j] = r[j]
      BY <2>3, <2>2
    <3> QED
      BY <3>2, <3>3, <3>4
  <2> QED
    BY <2>3, <2>4
<1>5. m2.records = a /\ m2.synced = m.synced
  OBVIOUS
<1>6. \A k \in 0..n : After(m2, k) = After(m, k)
  BY <1>4, <1>5 DEF After
<1>7. After(m, n) = Replayed(r).version
  BY <1>1, FirstParts DEF After
<1>8. After(m2, n + 1) = SaveTo(After(m, n), e.deleted, e.added)
  <2>1. SubSeq(a, 1, n + 1) = a
    BY <1>3, <1>4, FirstParts
  <2>2. VersionSetShape(Replayed(r))
    BY <1>1, ReplayedShape
  <2>3. Apply(Replayed(r), e).version = SaveTo(Replayed(r).version, e.deleted, e.added)
    BY <2>2, ApplyShape
  <2> QED
    BY <1>3, <1>5, <1>7, <2>1, <2>3 DEF After
<1>9. RecordSound(m, n, current, tables)
  BY <1>1, <1>2 DEF ManifestSound
<1>10. e.next_file \in Nat /\ r[n].next_file \in Nat /\ r[n].next_file <= e.next_file
       /\ e.last_sequence \in Nat
  BY <1>9 DEF EditSound, RecordSound, LastRecord
<1>11. VersionSound(After(m2, n + 1), tables, e.next_file)
  <2> DEFINE v == After(m, n)
  <2>1. VersionSound(v, tables, r[n].next_file)
    BY <1>9 DEF RecordSound
  <2> HIDE DEF v
  <2>2. VersionSound(v, tables, e.next_file)
    <3> DEFINE b1 == r[n].next_file
    <3> HIDE DEF b1, r
    <3>1. Grown(tables, tables, b1)
      BY DEF Grown
    <3>2. b1 \in Nat /\ b1 <= b1 /\ b1 <= e.next_file
      BY <1>10 DEF b1
    <3> QED
      BY <2>1, <3>1, <3>2, <1>10, VersionGrown DEF b1
  <2>3. IsFiniteSet(e.added) /\ \A x \in e.added : MetaSound(x[2], tables, e.next_file)
    BY DEF EditSound
  <2>4. VersionSound(SaveTo(v, e.deleted, e.added), tables, e.next_file)
    BY <2>2, <2>3, SaveToSound
  <2> QED
    BY <1>8, <2>4 DEF v
<1>14. \A k \in 1..n : m.synced <= k => RecordSound(m, k, current, tables)
  BY DEF ManifestSound
<1>15. \A k \in 1..n : After(m2, k) = After(m, k)
  <2>1. \A k \in 1..n : k \in 0..n
    BY <1>2
  <2> QED
    BY <1>6, <2>1
<1>18. n \in 1..n
  <2> HIDE DEF n
  <2> QED
    BY <1>2
<1>12. ASSUME NEW k \in 1..(n + 1), m2.synced <= k
       PROVE  RecordSound(m2, k, current, tables)
  <2> HIDE DEF a, r, n
  <2>1. CASE k = n + 1
    <3>1. current < e.next_file
      <4>1. current < r[n].next_file
        BY <1>9 DEF RecordSound, r, n
      <4>2. r[n].next_file <= e.next_file /\ r[n].next_file \in Nat /\ e.next_file \in Nat
        BY <1>10
      <4> QED
        BY <4>1, <4>2
    <3> QED
      BY <1>4, <1>5, <1>10, <1>11, <2>1, <3>1 DEF RecordSound
  <2>2. CASE k \in 1..n
    <3>5. m.synced <= k
      BY <1>5, <1>12
    <3>1. RecordSound(m, k, current, tables)
      BY <1>14, <2>2, <3>5
    <3>2. a[k] = r[k] /\ r[k].next_file <= r[n].next_file
      BY <1>4, <2>2, <3>1 DEF RecordSound, r, n
    <3>3. r[k].next_file <= e.next_file
      <4>1. r[k].next_file \in Nat
        BY <3>1 DEF RecordSound, r
      <4> QED
        BY <3>2, <1>10, <4>1
    <3>4. After(m2, k) = After(m, k)
      BY <1>15, <2>2
    <3> QED
      BY <1>4, <1>5, <3>1, <3>2, <3>3, <3>4 DEF RecordSound, r
  <2> QED
    BY <1>2, <2>1, <2>2
<1>13. ManifestSound(m2, current, tables)
  <2>1. ManifestTyped(m2)
    BY <1>1, <1>2, <1>3, <1>4, <1>5 DEF ManifestTyped
  <2> QED
    BY <1>4, <1>5, <1>12, <2>1 DEF ManifestSound
<1>16. After(m2, n) = After(m, n)
  BY <1>15, <1>18
<1>17. m2.records[n + 1] = e /\ Len(m2.records) = n + 1
  BY <1>4, <1>5
<1> QED
  BY <1>2, <1>5, <1>8, <1>13, <1>16, <1>17

(* Manifests are written, and nothing else on disk.                        *)
LEMMA ManifestsWritten ==
    ASSUME DBInv, NEW ms, ms = [n \in DOMAIN ms |-> ms[n]], NEW d, d = [disk EXCEPT !.manifests = ms]
    PROVE  /\ DiskTyped(d) /\ d.manifests = ms
           /\ d.current = disk.current /\ d.tables = disk.tables /\ d.logs = disk.logs
<1>1. DiskTyped(disk)
  BY DEF DBInv, DiskSound
<1>2. PICK l, t, c, m : disk = [logs |-> l, tables |-> t, current |-> c, manifests |-> m]
  BY <1>1 DEF DiskTyped
<1>3. d = [logs |-> l, tables |-> t, current |-> c, manifests |-> ms]
  BY <1>2
<1>4. d.logs = disk.logs /\ d.tables = disk.tables /\ d.current = disk.current
      /\ d.manifests = ms
      /\ d = [logs |-> d.logs, tables |-> d.tables, current |-> d.current,
              manifests |-> d.manifests]
  BY <1>2, <1>3
<1> QED
  BY <1>1, <1>4 DEF DiskTyped

(* A manifest is replaced by another state of it. *)
LEMMA ManifestReplaced ==
    ASSUME DBInv, NEW c, NEW x, NEW d, d = [disk EXCEPT !.manifests[c] = x]
    PROVE  /\ DiskTyped(d)
           /\ d.current = disk.current /\ d.tables = disk.tables /\ d.logs = disk.logs
           /\ DOMAIN d.manifests = DOMAIN disk.manifests
           /\ c \in DOMAIN disk.manifests => d.manifests[c] = x
<1> DEFINE f == disk.manifests
           g == [f EXCEPT ![c] = x]
<1>1. d = [disk EXCEPT !.manifests = g]
  OBVIOUS
<1>2. /\ DOMAIN g = DOMAIN f /\ (c \in DOMAIN f => g[c] = x)
      /\ g = [n \in DOMAIN g |-> g[n]]
  <2> HIDE DEF f
  <2> QED
    OBVIOUS
<1> HIDE DEF g
<1> QED
  BY <1>1, <1>2, ManifestsWritten

(* A manifest, from its parts. *)
LEMMA ManifestIs ==
    ASSUME NEW m, ManifestTyped(m)
    PROVE  /\ \A r : [m EXCEPT !.records = r] = [records |-> r, synced |-> m.synced]
           /\ \A n : [m EXCEPT !.synced = n] = [records |-> m.records, synced |-> n]
<1>1. PICK a, b : m = [records |-> a, synced |-> b]
  BY DEF ManifestTyped
<1> QED
  BY <1>1

(* The edit goes into the manifest, whose synced part still leads to the   *)
(* current version.                                                        *)
LEMMA WriteEditKeeps ==
    ASSUME DBInv, WriteEdit
    PROVE  DBInv'
<1> DEFINE c == disk.current
           m == disk.manifests[c]
           e == The(bg.edit)
           n == Len(m.records)
           m2 == [records |-> Append(m.records, e), synced |-> m.synced]
<1>1. phase \in {"open", "closing", "dead"} /\ Running
  BY Active DEF WriteEdit, Quiescent
<1>2. /\ bg.pc = "logging" /\ c = vs.manifest_file_number /\ c # 0
      /\ disk' = [disk EXCEPT !.manifests[c].records = Append(@, e)]
      /\ bg' = [bg EXCEPT !.pc = "logged"]
      /\ UNCHANGED <<BgUnchanged, vs, imm, pending_outputs, bg_error,
                     background_compaction_scheduled, manual, todo>>
  BY <1>1 DEF WriteEdit, Running
<1>3. /\ m.records # <<>> /\ LastRecord(m).next_file <= e.next_file
      /\ e.next_file <= vs.next_file_number /\ EditSound(e, disk.tables)
      /\ bg.edit = {e}
  BY <1>1, <1>2 DEF Running, LastRecord, DBInv, BackgroundSound, BgEditSound
<1>4. /\ c \in Nat /\ c \in DOMAIN disk.manifests /\ ManifestSound(m, c, disk.tables)
      /\ DOMAIN disk.tables \subseteq Nat /\ disk.tables \in [DOMAIN disk.tables -> Contents]
  BY <1>2 DEF DBInv, DiskSound, DiskTyped
<1>5. /\ ManifestSound(m2, c, disk.tables)
      /\ Len(m2.records) = n + 1 /\ n \in Nat \ {0}
      /\ m2.records[n + 1] = e /\ m2.synced = m.synced
      /\ After(m2, n) = After(m, n)
  <2> HIDE DEF m, c, e
  <2> DEFINE w == m2
  <2>1. w = [records |-> Append(m.records, e), synced |-> m.synced]
    OBVIOUS
  <2> HIDE DEF w, n
  <2>2. /\ ManifestSound(w, c, disk.tables)
        /\ Len(w.records) = Len(m.records) + 1 /\ Len(m.records) \in Nat \ {0}
        /\ w.records[Len(w.records)] = e /\ w.synced = m.synced
        /\ After(w, Len(m.records)) = After(m, Len(m.records))
    BY <1>3, <1>4, <2>1, RecordAppended
  <2> QED
    BY <2>2 DEF w, n
<1>6. disk' = [disk EXCEPT !.manifests[c] = m2]
  <2> DEFINE f == disk.manifests
             p == Append(m.records, e)
             h == [m EXCEPT !.records = p]
  <2>1. disk' = [disk EXCEPT !.manifests[c] = h]
    BY <1>2
  <2>2. h = m2
    <3>1. ManifestTyped(m)
      BY <1>4 DEF ManifestSound
    <3> HIDE DEF m, p
    <3>2. h = [records |-> p, synced |-> m.synced]
      BY <3>1, ManifestIs
    <3> QED
      BY <3>2 DEF p
  <2> HIDE DEF h, m2
  <2> QED
    BY <2>1, <2>2
<1> HIDE DEF m2
<1>7. /\ DiskTyped(disk') /\ disk'.current = c /\ disk'.tables = disk.tables
      /\ c \in DOMAIN disk'.manifests /\ disk'.manifests[c] = m2
  <2> HIDE DEF c
  <2>1. /\ DiskTyped(disk') /\ disk'.current = disk.current /\ disk'.tables = disk.tables
        /\ DOMAIN disk'.manifests = DOMAIN disk.manifests
        /\ c \in DOMAIN disk.manifests => disk'.manifests[c] = m2
    BY <1>6, ManifestReplaced
  <2> QED
    BY <1>4, <2>1 DEF c
<1>8. DiskSound'
  BY <1>5, <1>7 DEF DiskSound
<1>9. VersionSetSound(vs, disk.tables)'
  BY <1>2, <1>7 DEF DBInv, VersionSetSound
<1>10. Onward
  BY <1>2, <1>4, <1>7, VersionsAre DEF Onward, Grown
<1>11. ReadersSound'
  BY <1>2, <1>10, OnwardReaders DEF DBInv, BgUnchanged
<1>12. PICK x, y, j, z : bg = [pc |-> x, number |-> y, job |-> j, edit |-> z]
  BY BackgroundIs
<1>13. bg' = [pc |-> "logged", number |-> y, job |-> j, edit |-> z]
       /\ bg'.job = bg.job /\ bg'.edit = bg.edit /\ bg'.pc = "logged"
  BY <1>2, <1>12
<1>14. BackgroundSound'
  <2>1. \A k \in bg'.job : JobSound(k, disk'.tables, vs'.next_file_number, pending_outputs')
    BY <1>2, <1>10, <1>13, OnwardJobs DEF DBInv, BackgroundSound
  <2>2. BgEditSound'
    BY <1>2, <1>10, <1>13, OnwardEdit DEF DBInv, BackgroundSound
  <2> QED
    BY <1>13, <2>1, <2>2 DEF BackgroundSound
<1>15. Running'
  <2>1. ~bg_error => m.synced = n /\ After(m, n) = vs.version
    BY <1>1, <1>2 DEF Running
  <2> DEFINE N == n + 1
  <2>2. N - 1 = n /\ N > 1 /\ N # 0
    BY <1>5
  <2>3. /\ m2.records # <<>>
        /\ m2.records[N].next_file <= vs.next_file_number /\ m2.records[N] = e
        /\ Len(m2.records) = N
    BY <1>3, <1>5, <2>2
  <2>4. ~bg_error => m2.synced = N - 1 /\ N > 1 /\ After(m2, N - 1) = vs.version
    BY <1>5, <2>1, <2>2
  <2> HIDE DEF N, n, m
  <2>5. The(bg'.edit) = e
    BY <1>13
  <2> HIDE DEF e
  <2>6. disk'.manifests[disk'.current] = m2 /\ disk'.current # 0
        /\ disk'.current = vs'.manifest_file_number
    BY <1>2, <1>7
  <2> QED
    BY <1>2, <1>13, <2>3, <2>4, <2>5, <2>6 DEF Running
<1>16. PhaseSound'
  <2>1. phase' \in {"open", "closing", "dead"}
    BY <1>1, <1>2 DEF BgUnchanged
  <2> QED
    BY <1>15, <2>1 DEF PhaseSound
<1>17. ClientsTyped'
  BY <1>2 DEF DBInv, ClientsTyped, BgUnchanged
<1> QED
  BY <1>8, <1>9, <1>11, <1>14, <1>16, <1>17 DEF DBInv

(* What DeleteObsoleteFiles leaves.                                        *)
LEMMA ObsoleteDeleted ==
    ASSUME NEW d, DiskTyped(d), NEW v, NEW live, NEW r, r = DeleteObsoleteFiles(d, v, live)
    PROVE  /\ DiskTyped(r) /\ r.current = d.current
           /\ \A n \in DOMAIN r.tables : n \in DOMAIN d.tables /\ r.tables[n] = d.tables[n]
           /\ \A n \in DOMAIN d.tables : n \in live => n \in DOMAIN r.tables /\ r.tables[n] = d.tables[n]
           /\ \A n \in DOMAIN d.manifests : ~(n < v.manifest_file_number) =>
                 n \in DOMAIN r.manifests /\ r.manifests[n] = d.manifests[n]
<1> DEFINE A == {n \in DOMAIN d.logs : n < v.log_number}
           B == {n \in DOMAIN d.manifests : n < v.manifest_file_number}
           C == DOMAIN d.tables \ live
           f == Without(d.logs, A)
           g == Without(d.manifests, B)
           h == Without(d.tables, C)
<1>1. PICK l, t, c, m : d = [logs |-> l, tables |-> t, current |-> c, manifests |-> m]
  BY DEF DiskTyped
<1>2. r = [d EXCEPT !.logs = f, !.manifests = g, !.tables = h]
  BY DEF DeleteObsoleteFiles
<1>3. /\ DOMAIN f = DOMAIN d.logs \ A /\ f = [n \in DOMAIN f |-> f[n]]
      /\ \A n \in DOMAIN f : f[n] = d.logs[n]
  BY DEF Without
<1>4. /\ DOMAIN g = DOMAIN d.manifests \ B /\ g = [n \in DOMAIN g |-> g[n]]
      /\ \A n \in DOMAIN g : g[n] = d.manifests[n]
  BY DEF Without
<1>5. /\ DOMAIN h = DOMAIN d.tables \ C /\ h = [n \in DOMAIN h |-> h[n]]
      /\ \A n \in DOMAIN h : h[n] = d.tables[n]
  BY DEF Without
<1> HIDE DEF f, g, h
<1>6. r = [logs |-> f, tables |-> h, current |-> c, manifests |-> g]
  BY <1>1, <1>2
<1>7. r.logs = f /\ r.tables = h /\ r.current = d.current /\ r.manifests = g
      /\ r = [logs |-> r.logs, tables |-> r.tables, current |-> r.current,
              manifests |-> r.manifests]
  BY <1>1, <1>6
<1>8. IsFiniteSet(DOMAIN f) /\ DOMAIN f \subseteq Nat /\ f \in [DOMAIN f -> LogFiles]
  <2>1. /\ IsFiniteSet(DOMAIN d.logs) /\ DOMAIN d.logs \subseteq Nat
        /\ d.logs \in [DOMAIN d.logs -> LogFiles]
    BY DEF DiskTyped
  <2>2. IsFiniteSet(DOMAIN f)
    BY <1>3, <2>1, FS_Subset
  <2>3. \A n \in DOMAIN f : f[n] \in LogFiles
    BY <1>3, <2>1
  <2> QED
    BY <1>3, <2>1, <2>2, <2>3
<1>9. DOMAIN h \subseteq Nat /\ h \in [DOMAIN h -> Contents]
  <2>1. DOMAIN d.tables \subseteq Nat /\ d.tables \in [DOMAIN d.tables -> Contents]
    BY DEF DiskTyped
  <2>2. \A n \in DOMAIN h : h[n] \in Contents
    BY <1>5, <2>1
  <2> QED
    BY <1>5, <2>1, <2>2
<1>10. DiskTyped(r)
  BY <1>4, <1>7, <1>8, <1>9 DEF DiskTyped
<1> QED
  BY <1>4, <1>5, <1>7, <1>10

(* The versions whose files are live stay sound. *)
LEMMA LiveKept ==
    ASSUME NEW t1, NEW t2, NEW live, DOMAIN t1 \subseteq Nat,
           \A n \in DOMAIN t1 : n \in live => n \in DOMAIN t2 /\ t2[n] = t1[n],
           NEW v, NEW pinned, LiveFiles(v, pinned) \subseteq live,
           NEW w \in pinned \cup {v.version}, NEW b \in Nat, VersionSound(w, t1, b)
    PROVE  VersionSound(w, t2, b)
<1>1. \A f \in FilesOf(w) : f.number \in live
  <2>1. \A f \in FilesOf(w) : f.number \in LiveFiles(v, pinned)
    BY DEF LiveFiles
  <2> QED
    BY <2>1
<1>2. \A f \in FilesOf(w) :
         f.number \in DOMAIN t1 /\ f.number < b => f.number \in DOMAIN t2 /\ t2[f.number] = t1[f.number]
  BY <1>1
<1>3. b <= b
  OBVIOUS
<1> QED
  BY <1>2, <1>3, VersionKept

(* The version of a manifest is the one before its last record, with that  *)
(* record's edit.                                                          *)
LEMMA LastReplayed ==
    ASSUME NEW m, ManifestTyped(m), m.records # <<>>
    PROVE  /\ Len(m.records) \in Nat \ {0}
           /\ After(m, Len(m.records))
                  = SaveTo(After(m, Len(m.records) - 1), LastRecord(m).deleted, LastRecord(m).added)
<1> DEFINE r == m.records
           n == Len(r)
           k == n - 1
           p == SubSeq(r, 1, k)
           e == r[n]
<1>1. IsSeq(r) /\ r # <<>>
  BY DEF ManifestTyped
<1>2. n \in Nat \ {0} /\ k \in 0..n
  <2>1. r \in Seq(ToSet(r))
    BY <1>1 DEF IsSeq
  <2> HIDE DEF r
  <2> QED
    BY <1>1, <2>1
<1>3. IsSeq(p) /\ SubSeq(r, 1, n) = r
  BY <1>1, <1>2, FirstParts
<1>4. Append(p, e) = r
  <2>1. r \in Seq(ToSet(r))
    BY <1>1 DEF IsSeq
  <2> HIDE DEF r
  <2>2. p \in Seq(ToSet(r)) /\ Len(p) = n - 1 /\ e \in ToSet(r) /\ \A i \in 1..(n - 1) : p[i] = r[i]
    <3>1. p \in Seq(ToSet(r)) /\ Len(p) = k /\ \A i \in 1..k : p[i] = r[i]
      <4> DEFINE S == ToSet(r)
      <4>1. r \in Seq(S) /\ k \in 0..Len(r)
        BY <1>2, <2>1
      <4> HIDE DEF S, k
      <4>2. p = [j \in 1..k |-> r[j]] /\ p \in Seq(S) /\ Len(p) = k
        BY <4>1
      <4> HIDE DEF p
      <4> QED
        BY <4>2 DEF S
    <3>2. n \in DOMAIN r
      BY <1>2, <2>1
    <3>3. e \in ToSet(r)
      BY <3>2 DEF ToSet
    <3> QED
      BY <3>1, <3>3
  <2> HIDE DEF p, e, n, k
  <2>3. n = Len(r) /\ e = r[n]
    BY DEF n, e
  <2>4. Append(p, e) \in Seq(ToSet(r)) /\ Len(Append(p, e)) = n
        /\ \A i \in 1..n : Append(p, e)[i] = r[i]
    <3>1. Append(p, e)[n] = e /\ \A i \in 1..(n - 1) : Append(p, e)[i] = p[i]
      BY <1>2, <2>2
    <3>2. \A i \in 1..n : i = n \/ i \in 1..(n - 1)
      BY <1>2
    <3> QED
      BY <1>2, <2>2, <2>3, <3>1, <3>2
  <2> DEFINE q == Append(p, e)
  <2> HIDE DEF q
  <2>5. q = r
    BY <2>1, <2>3, <2>4 DEF q
  <2> QED
    BY <2>5 DEF q
<1>5. Replayed(r) = Apply(Replayed(p), e)
  <2> HIDE DEF p, e, r
  <2>1. Replayed(Append(p, e)) = Apply(Replayed(p), e)
    BY <1>3, ReplayedMore
  <2> QED
    BY <1>4, <2>1
<1>6. Apply(Replayed(p), e).version = SaveTo(Replayed(p).version, e.deleted, e.added)
  <2> HIDE DEF p, e
  <2> QED
    BY <1>3, ReplayedShape, ApplyShape
<1> QED
  BY <1>2, <1>3, <1>5, <1>6 DEF After, LastRecord

(* Installing an edit changes the version, the pointers and the log number. *)
LEMMA InstalledShape ==
    ASSUME NEW v, VersionSetShape(v), NEW e, NEW w, w = Installed(v, e)
    PROVE  /\ VersionSetShape(w)
           /\ w.version = SaveTo(v.version, e.deleted, e.added)
           /\ w.file_to_compact = {}
           /\ w.next_file_number = v.next_file_number
           /\ w.manifest_file_number = v.manifest_file_number
           /\ w.last_sequence = v.last_sequence
<1> DEFINE u == Apply(v, e)
           x == e.log_number
<1>1. w = [u EXCEPT !.log_number = x]
  BY DEF Installed
<1>2. /\ VersionSetShape(u)
      /\ u.version = SaveTo(v.version, e.deleted, e.added)
      /\ u.file_to_compact = {}
      /\ u.next_file_number = v.next_file_number
      /\ u.manifest_file_number = v.manifest_file_number
      /\ u.last_sequence = v.last_sequence
  BY ApplyShape
<1> HIDE DEF u, x
<1>3. PICK a, b, c, d, l, p, f :
         u = [version |-> a, next_file_number |-> b, manifest_file_number |-> c,
              last_sequence |-> d, log_number |-> l, compact_pointer |-> p, file_to_compact |-> f]
  BY <1>2 DEF VersionSetShape
<1>4. w = [version |-> a, next_file_number |-> b, manifest_file_number |-> c,
           last_sequence |-> d, log_number |-> x, compact_pointer |-> p, file_to_compact |-> f]
  BY <1>1, <1>3
<1>5. /\ w.version = u.version /\ w.file_to_compact = u.file_to_compact
      /\ w.next_file_number = u.next_file_number
      /\ w.manifest_file_number = u.manifest_file_number
      /\ w.last_sequence = u.last_sequence /\ VersionSetShape(w)
  BY <1>3, <1>4 DEF VersionSetShape
<1> QED
  BY <1>2, <1>5

(* An edit that is synced is installed.                                    *)
CurrentSynced(d) ==
    d = [disk EXCEPT !.manifests[disk.current].synced =
                         Len(disk.manifests[disk.current].records)]

(* The current manifest, synced. *)
LEMMA ManifestSynced ==
    ASSUME DBInv, Running, NEW d, CurrentSynced(d)
    PROVE  LET m == disk.manifests[disk.current]
               n == Len(m.records)
           IN /\ ManifestTyped(m) /\ n \in Nat \ {0}
              /\ RecordSound(m, n, disk.current, disk.tables)
              /\ DiskTyped(d) /\ d.current = disk.current /\ d.tables = disk.tables
              /\ d.current \in DOMAIN d.manifests
              /\ d.manifests[d.current] = [records |-> m.records, synced |-> n]
<1> DEFINE c == disk.current
           m == disk.manifests[c]
           n == Len(m.records)
           m2 == [records |-> m.records, synced |-> n]
           h == [m EXCEPT !.synced = n]
<1>1. c \in DOMAIN disk.manifests /\ ManifestSound(m, c, disk.tables) /\ m.records # <<>>
  BY DEF DBInv, DiskSound, Running
<1>2. ManifestTyped(m)
  BY <1>1 DEF ManifestSound
<1>3. n \in Nat \ {0} /\ n \in 1..n /\ m.synced <= n
  <2>1. n \in Nat \ {0}
    BY <1>1, <1>2, LastReplayed
  <2>2. m.synced \in 0..n
    BY <1>2 DEF ManifestTyped
  <2> HIDE DEF n
  <2> QED
    BY <2>1, <2>2
<1>4. RecordSound(m, n, c, disk.tables)
  BY <1>1, <1>3 DEF ManifestSound
<1>5. h = m2
  <2> HIDE DEF m, n
  <2> QED
    BY <1>2, ManifestIs
<1>6. d = [disk EXCEPT !.manifests[c] = h]
  BY DEF CurrentSynced
<1> HIDE DEF h, m2, n, m
<1>7. /\ DiskTyped(d) /\ d.current = c /\ d.tables = disk.tables
      /\ DOMAIN d.manifests = DOMAIN disk.manifests
      /\ c \in DOMAIN disk.manifests => d.manifests[c] = m2
  <2> HIDE DEF c
  <2>1. d = [disk EXCEPT !.manifests[c] = m2]
    BY <1>5, <1>6
  <2>2. /\ DiskTyped(d) /\ d.current = disk.current /\ d.tables = disk.tables
        /\ DOMAIN d.manifests = DOMAIN disk.manifests
        /\ c \in DOMAIN disk.manifests => d.manifests[c] = m2
    BY <2>1, ManifestReplaced
  <2> QED
    BY <2>2 DEF c
<1> QED
  BY <1>1, <1>2, <1>3, <1>4, <1>7 DEF m2, m, n

(* The version that an edit makes of the current one is sound. *)
LEMMA InstalledSound ==
    ASSUME DBInv, NEW e, EditSound(e, disk.tables), e.next_file <= vs.next_file_number
    PROVE  VersionSound(SaveTo(vs.version, e.deleted, e.added), disk.tables, vs.next_file_number)
<1>1. /\ DOMAIN disk.tables \subseteq Nat /\ disk.tables \in [DOMAIN disk.tables -> Contents]
      /\ VersionSound(vs.version, disk.tables, vs.next_file_number)
      /\ vs.next_file_number \in Nat
  BY DEF DBInv, DiskSound, DiskTyped, VersionSetSound
<1>2. IsFiniteSet(e.added) /\ e.next_file \in Nat
  BY DEF EditSound
<1>3. \A a \in e.added : MetaSound(a[2], disk.tables, vs.next_file_number)
  <2> SUFFICES ASSUME NEW a \in e.added
               PROVE  MetaSound(a[2], disk.tables, vs.next_file_number)
    OBVIOUS
  <2>1. MetaSound(a[2], disk.tables, e.next_file)
    BY DEF EditSound
  <2>2. Grown(disk.tables, disk.tables, e.next_file) /\ e.next_file <= e.next_file
    BY <1>2 DEF Grown
  <2> QED
    BY <1>1, <1>2, <2>1, <2>2, MetaGrown
<1> QED
  BY <1>1, <1>2, <1>3, SaveToSound

(* The version is the manifest's again, and every table that is deleted is *)
(* in no version that somebody holds, and not pending.                     *)
LEMMA InstallEditKeeps ==
    ASSUME DBInv, InstallEdit
    PROVE  DBInv'
<1> DEFINE c == disk.current
           m == disk.manifests[c]
           n == Len(m.records)
           e == The(bg.edit)
           v == Installed(vs, e)
           synced == [disk EXCEPT !.manifests[c].synced = n]
           jobs == IF OfMemTable THEN bg.job ELSE {}
           pending == IF OfMemTable THEN pending_outputs ELSE pending_outputs \ OutputsOf(bg.job)
           live == pending \cup LiveFiles(v, ReaderVersions \cup VersionsOf(jobs))
           b == vs.next_file_number
<1>1. phase \in {"open", "closing", "dead"} /\ Running
  BY Active DEF InstallEdit, Quiescent
<1>2. /\ bg.pc = "logged" /\ c = vs.manifest_file_number /\ c # 0
      /\ vs' = v
      /\ disk' = IF bg_error \/ (~OfMemTable /\ bg.job = {}) THEN synced
                 ELSE DeleteObsoleteFiles(synced, v, live)
      /\ pending_outputs' = pending
      /\ imm' = IF OfMemTable THEN {} ELSE imm
      /\ bg_error' = bg_error
      /\ IF OfMemTable THEN AfterMemTable
         ELSE EndOfCall(IF bg.job = {} THEN NoJob ELSE The(bg.job), TRUE)
      /\ UNCHANGED <<mem, logfile_number, snapshots, writers, writing, readers, todo, history>>
  BY <1>1 DEF InstallEdit, Running
<1>3. /\ ManifestTyped(m) /\ n \in Nat \ {0} /\ RecordSound(m, n, c, disk.tables)
      /\ DiskTyped(synced) /\ synced.current = c /\ synced.tables = disk.tables
      /\ c \in DOMAIN synced.manifests
      /\ synced.manifests[c] = [records |-> m.records, synced |-> n]
  BY <1>1, ManifestSynced DEF CurrentSynced
<1>4. /\ m.records # <<>> /\ m.records[n] = e /\ m.records[n].next_file <= b
      /\ e.next_file <= b /\ EditSound(e, disk.tables)
      /\ ~bg_error => After(m, n - 1) = vs.version
  BY <1>1, <1>2 DEF Running, DBInv, BackgroundSound, BgEditSound
<1>5. /\ c \in Nat /\ b \in Nat /\ DOMAIN disk.tables \subseteq Nat
      /\ disk.tables \in [DOMAIN disk.tables -> Contents]
      /\ VersionSetShape(vs) /\ vs.manifest_file_number \in Nat /\ vs.last_sequence \in Nat
  BY DEF DBInv, DiskSound, DiskTyped, VersionSetSound
<1>6. /\ VersionSetShape(v) /\ v.version = SaveTo(vs.version, e.deleted, e.added)
      /\ v.file_to_compact = {} /\ v.next_file_number = b
      /\ v.manifest_file_number = c /\ v.last_sequence = vs.last_sequence
  <2> HIDE DEF e, v
  <2>1. v = Installed(vs, e) /\ VersionSetShape(vs)
    BY <1>5 DEF v
  <2>2. /\ VersionSetShape(v) /\ v.version = SaveTo(vs.version, e.deleted, e.added)
        /\ v.file_to_compact = {} /\ v.next_file_number = vs.next_file_number
        /\ v.manifest_file_number = vs.manifest_file_number
        /\ v.last_sequence = vs.last_sequence
    BY <2>1, InstalledShape
  <2>3. c = vs.manifest_file_number
    BY <1>2
  <2> QED
    BY <2>2, <2>3
<1>7. VersionSound(v.version, disk.tables, b)
  <2> HIDE DEF e, v
  <2> QED
    BY <1>4, <1>6, InstalledSound
<1>8. ~bg_error => After(m, n) = v.version
  <2>1. After(m, n) = SaveTo(After(m, n - 1), e.deleted, e.added)
    <3> HIDE DEF m, e
    <3> QED
      BY <1>3, <1>4, LastReplayed DEF LastRecord
  <2> QED
    BY <1>4, <1>6, <2>1
<1> HIDE DEF v, synced, live, e, m
<1>9. /\ DiskTyped(disk') /\ disk'.current = c
      /\ \A k \in DOMAIN disk.tables : bg_error \/ k \in live =>
            k \in DOMAIN disk'.tables /\ disk'.tables[k] = disk.tables[k]
      /\ c \in DOMAIN disk'.manifests
      /\ disk'.manifests[c] = [records |-> m.records, synced |-> n]
  <2>1. CASE bg_error \/ (~OfMemTable /\ bg.job = {})
    <3>1. disk' = synced
      BY <1>2, <2>1
    <3> QED
      BY <1>3, <3>1
  <2>2. CASE ~(bg_error \/ (~OfMemTable /\ bg.job = {}))
    <3>1. disk' = DeleteObsoleteFiles(synced, v, live)
      BY <1>2, <2>2
    <3>2. /\ DiskTyped(disk') /\ disk'.current = synced.current
          /\ \A k \in DOMAIN synced.tables : k \in live =>
                k \in DOMAIN disk'.tables /\ disk'.tables[k] = synced.tables[k]
          /\ \A k \in DOMAIN synced.manifests : ~(k < v.manifest_file_number) =>
                k \in DOMAIN disk'.manifests /\ disk'.manifests[k] = synced.manifests[k]
      BY <1>3, <3>1, ObsoleteDeleted
    <3>3. ~(c < v.manifest_file_number)
      BY <1>5, <1>6
    <3> QED
      BY <1>3, <2>2, <3>2, <3>3
  <2> QED
    BY <2>1, <2>2
<1>10. ASSUME NEW w \in (ReaderVersions \cup VersionsOf(jobs)) \cup {v.version}, NEW k \in Nat,
              VersionSound(w, disk.tables, k)
       PROVE  VersionSound(w, disk'.tables, k)
  <2>1. \A i \in DOMAIN disk.tables : i \in live => i \in DOMAIN disk'.tables /\ disk'.tables[i] = disk.tables[i]
    BY <1>9
  <2>2. LiveFiles(v, ReaderVersions \cup VersionsOf(jobs)) \subseteq live
    BY DEF live
  <2> DEFINE pinned == ReaderVersions \cup VersionsOf(jobs)
             t1 == disk.tables
             t2 == disk'.tables
  <2> HIDE DEF pinned, t1, t2
  <2>3. /\ DOMAIN t1 \subseteq Nat /\ VersionSound(w, t1, k)
        /\ \A i \in DOMAIN t1 : i \in live => i \in DOMAIN t2 /\ t2[i] = t1[i]
        /\ LiveFiles(v, pinned) \subseteq live /\ w \in pinned \cup {v.version}
    BY <1>5, <1>10, <2>1, <2>2 DEF pinned, t1, t2
  <2>4. VersionSound(w, t2, k)
    BY <2>3, LiveKept
  <2> QED
    BY <2>4 DEF t2
<1> DEFINE m2 == [records |-> m.records, synced |-> n]
<1>11. /\ m2.records = m.records /\ m2.synced = n /\ After(m2, n) = After(m, n)
  BY DEF After
<1>12. ManifestSound(m2, c, disk'.tables)
  <2>1. ManifestTyped(m2)
    BY <1>3, <1>11 DEF ManifestTyped
  <2>2. VersionSound(After(m, n), disk'.tables, m.records[n].next_file)
    <3>1. VersionSound(After(m, n), disk.tables, m.records[n].next_file)
          /\ m.records[n].next_file \in Nat
      BY <1>3 DEF RecordSound
    <3>2. CASE ~bg_error
      BY <1>8, <1>10, <3>1, <3>2
    <3>3. CASE bg_error
      <4> DEFINE t1 == disk.tables
                 t2 == disk'.tables
                 k == m.records[n].next_file
      <4>1. Grown(t1, t2, k)
        BY <1>9, <3>3 DEF Grown
      <4>2. DOMAIN t1 \subseteq Nat /\ k \in Nat /\ k <= k /\ VersionSound(After(m, n), t1, k)
        BY <1>5, <3>1
      <4> HIDE DEF t1, t2, k
      <4>3. VersionSound(After(m, n), t2, k)
        BY <4>1, <4>2, VersionGrown
      <4> QED
        BY <4>3 DEF t2, k
    <3> QED
      BY <3>2, <3>3
  <2>3. RecordSound(m2, n, c, disk'.tables)
    BY <1>3, <1>11, <2>2 DEF RecordSound
  <2>4. \A k \in 1..n : n <= k => k = n
    BY <1>3
  <2>5. Len(m2.records) = n
    BY <1>11 DEF m
  <2> HIDE DEF m2, n
  <2> QED
    BY <1>11, <2>1, <2>3, <2>4, <2>5 DEF ManifestSound
<1>13. DiskSound'
  BY <1>9, <1>12 DEF DiskSound
<1>14. vs'.next_file_number = b
  BY <1>2, <1>6
<1>15. VersionSetSound(vs, disk.tables)'
  <2>1. VersionSound(v.version, disk'.tables, b)
    BY <1>5, <1>7, <1>10
  <2> QED
    BY <1>2, <1>5, <1>6, <2>1 DEF VersionSetSound
<1>16. ReadersSound'
  <2>1. readers' = readers
    BY <1>2
  <2>2. ASSUME NEW r \in Readers, NEW p \in readers[r]
        PROVE  VersionSound(p.version, disk'.tables, b)
    <3>1. VersionSound(p.version, disk.tables, b)
      BY DEF DBInv, ReadersSound
    <3>2. p.version \in ReaderVersions
      BY DEF ReaderVersions
    <3> QED
      BY <1>5, <1>10, <3>1, <3>2
  <2> QED
    BY <1>14, <2>1, <2>2 DEF DBInv, ReadersSound
<1>17. BackgroundSound' /\ bg'.pc \in {"idle", "merging"} /\ phase' \in {phase, "dead"}
       /\ Leveled(manual')
  <2>1. CASE OfMemTable
    <3>1. AfterMemTable /\ jobs = bg.job /\ pending = pending_outputs
          /\ pending_outputs' = pending_outputs
      BY <1>2, <2>1
    <3>2. ASSUME NEW j \in bg.job
          PROVE  JobSound(j, disk'.tables, vs'.next_file_number, pending_outputs')
      <4>1. JobSound(j, disk.tables, b, pending_outputs)
        BY DEF DBInv, BackgroundSound
      <4>2. VersionSound(j.c.version, disk'.tables, b)
        <5>1. j.c.version \in VersionsOf(jobs)
          BY <3>1 DEF VersionsOf
        <5>2. VersionSound(j.c.version, disk.tables, b)
          BY <4>1 DEF JobSound, CompactionSound
        <5> QED
          BY <1>5, <1>10, <5>1, <5>2
      <4>3. \A k \in ToSet(j.outputs) : k \in DOMAIN disk'.tables
        <5>1. \A k \in ToSet(j.outputs) : k \in DOMAIN disk.tables /\ k \in pending_outputs
          BY <4>1 DEF JobSound
        <5>2. pending_outputs \subseteq live
          BY <3>1 DEF live
        <5> QED
          BY <1>9, <5>1, <5>2
      <4>4. CompactionSound(j.c, disk'.tables, b)
        BY <4>1, <4>2 DEF JobSound, CompactionSound
      <4> QED
        BY <1>14, <3>1, <4>1, <4>3, <4>4 DEF JobSound
    <3> QED
      BY <3>1, <3>2, TableDone
  <2>2. CASE ~OfMemTable
    <3>1. EndOfCall(IF bg.job = {} THEN NoJob ELSE The(bg.job), TRUE)
      BY <1>2, <2>2
    <3>2. bg' = Idle /\ phase' \in {phase, "dead"} /\ Leveled(manual')
      BY <3>1, CallEnded
    <3> QED
      BY <3>2, IdleSound DEF Idle
  <2> QED
    BY <2>1, <2>2
<1>18. PhaseSound'
  <2>1. phase' \in {"open", "closing", "dead"}
    BY <1>1, <1>17
  <2>2. Running'
    <3>1. ~bg_error' => m2.synced = n /\ After(m2, n) = vs'.version
      BY <1>2, <1>8, <1>11
    <3>2. /\ disk'.manifests[disk'.current] = m2 /\ Len(m2.records) = n /\ m2.records # <<>>
          /\ m2.records[n].next_file <= vs'.next_file_number
          /\ disk'.current # 0 /\ disk'.current = vs'.manifest_file_number
      BY <1>2, <1>4, <1>6, <1>9, <1>11, <1>14 DEF m
    <3>3. bg'.pc # "logging" /\ bg'.pc # "logged"
      BY <1>17
    <3> HIDE DEF m2, n
    <3> QED
      BY <3>1, <3>2, <3>3 DEF Running
  <2> QED
    BY <2>1, <2>2 DEF PhaseSound
<1>19. ClientsTyped'
  <2>1. imm' \subseteq KeySets /\ (imm' = {} \/ imm' = {The(imm')})
    BY <1>2 DEF DBInv, ClientsTyped
  <2> QED
    BY <1>2, <1>17, <2>1 DEF DBInv, ClientsTyped, Leveled
<1> QED
  BY <1>13, <1>15, <1>16, <1>17, <1>18, <1>19 DEF DBInv

(* A process that begins knows nothing.                                    *)
LEMMA NothingKnown ==
    ASSUME NEW tables
    PROVE  VersionSetSound(NewVersionSet, tables)
<1>1. /\ VersionSetShape(NewVersionSet)
      /\ NewVersionSet.next_file_number = 2 /\ NewVersionSet.manifest_file_number = 0
      /\ NewVersionSet.last_sequence = 0 /\ NewVersionSet.version = EmptyVersion
      /\ NewVersionSet.file_to_compact = {}
  BY DEF NewVersionSet, VersionSetShape
<1>2. VersionSound(EmptyVersion, tables, 2)
  BY EmptySound
<1> QED
  BY <1>1, <1>2 DEF VersionSetSound

(* A step to a state in which nobody does anything. *)
LEMMA QuietStep ==
    ASSUME Quiescent', DiskSound', VersionSetSound(vs, disk.tables)', PhaseSound', ClientsTyped',
           NEW e, bg' = [pc |-> "idle", number |-> 0, job |-> {}, edit |-> e]
    PROVE  DBInv'
<1>1. ReadersSound'
  BY DEF Quiescent, ReadersSound
<1>2. BackgroundSound'
  BY DEF BackgroundSound
<1> QED
  BY <1>1, <1>2 DEF DBInv

(* Whatever the process had is gone; what it left on disk is sound. *)
LEMMA Forgotten ==
    ASSUME Forget, DiskSound', todo' \in ScenarioType
    PROVE  DBInv'
<1>1. /\ vs' = NewVersionSet /\ mem' = {} /\ imm' = {} /\ pending_outputs' = {}
      /\ bg_error' = FALSE /\ writers' = <<>> /\ writing' = {}
      /\ readers' = [r \in Readers |-> {}] /\ bg' = Idle
      /\ background_compaction_scheduled' = FALSE /\ manual' = {} /\ phase' = "closed"
  BY DEF Forget
<1>2. bg' = [pc |-> "idle", number |-> 0, job |-> {}, edit |-> {}]
  BY <1>1 DEF Idle
<1>3. Quiescent'
  BY <1>1, <1>2 DEF Quiescent
<1>4. PhaseSound'
  BY <1>1, <1>3 DEF PhaseSound
<1>5. ClientsTyped'
  <2>1. {} \in KeySets
    BY FS_EmptySet DEF KeySets
  <2> QED
    BY <1>1, <2>1 DEF ClientsTyped
<1>6. VersionSetSound(vs, disk.tables)'
  BY <1>1, NothingKnown
<1> QED
  BY <1>2, <1>3, <1>4, <1>5, <1>6, QuietStep

(* A clean end. *)
LEMMA FinishCloseKeeps ==
    ASSUME DBInv, FinishClose
    PROVE  DBInv'
<1>1. Forget /\ disk' = disk /\ todo' = todo
  BY DEF FinishClose
<1>2. DiskSound'
  BY <1>1 DEF DBInv, DiskSound
<1>3. todo' \in ScenarioType
  BY <1>1 DEF DBInv, ClientsTyped
<1> QED
  BY <1>1, <1>2, <1>3, Forgotten

-----------------------------------------------------------------------------
(* What a crash leaves of a file.                                          *)

(* What was synced survives. *)
LEMMA SurvivorsKept ==
    ASSUME NEW f, NEW kept \in Survivors(f), NEW n \in DOMAIN f
    PROVE  kept[n] \in f[n].synced..Len(f[n].records)
BY DEF Survivors

(* Of a log some records survive. *)
LEMMA LogSurvives ==
    ASSUME NEW f, f \in [DOMAIN f -> LogFiles], NEW kept \in Survivors(f)
    PROVE  DOMAIN Survives(f, kept) = DOMAIN f /\ Survives(f, kept) \in [DOMAIN f -> LogFiles]
<1>1. ASSUME NEW n \in DOMAIN f
      PROVE  [records |-> SubSeq(f[n].records, 1, kept[n]), synced |-> kept[n]] \in LogFiles
  <2> DEFINE r == f[n].records
             s == f[n].synced
             k == kept[n]
  <2>1. f[n] \in [records : Seq(Seq(Keys)), synced : Nat]
    BY DEF LogFiles
  <2>2. k \in s..Len(r)
    BY SurvivorsKept
  <2>3. r \in Seq(Seq(Keys)) /\ s \in Nat
    BY <2>1
  <2> HIDE DEF r, s, k
  <2> DEFINE T == Seq(Keys)
  <2>4. r \in Seq(T)
    BY <2>3
  <2> HIDE DEF T
  <2>5. k \in 0..Len(r) /\ k \in Nat
    BY <2>2, <2>3, <2>4
  <2>6. SubSeq(r, 1, k) \in Seq(T)
    BY <2>4, <2>5
  <2> QED
    BY <2>5, <2>6, LogFileMade DEF T, r, k
<1> QED
  BY <1>1 DEF Survives

(* Of a manifest at least the synced records do, and each of its later     *)
(* beginnings is sound too.                                                *)
LEMMA ManifestSurvives ==
    ASSUME NEW m, NEW current, NEW tables, ManifestSound(m, current, tables),
           NEW k \in m.synced..Len(m.records),
           NEW w, w = [records |-> SubSeq(m.records, 1, k), synced |-> k]
    PROVE  ManifestSound(w, current, tables)
<1> DEFINE r == m.records
           p == SubSeq(r, 1, k)
<1>1. IsSeq(r) /\ m.synced \in 0..Len(r)
  BY DEF ManifestSound, ManifestTyped
<1>2. Len(r) \in Nat
  BY <1>1, FirstParts
<1>3. k \in 0..Len(r) /\ k \in Nat /\ m.synced <= k
  BY <1>1, <1>2
<1>4. IsSeq(p) /\ Len(p) = k
  BY <1>1, <1>3, FirstParts
<1>5. w.records = p /\ w.synced = k /\ w = [records |-> w.records, synced |-> w.synced]
  OBVIOUS
<1>6. ManifestTyped(w)
  BY <1>3, <1>4, <1>5 DEF ManifestTyped
<1>7. ASSUME k # 0
      PROVE  RecordSound(w, k, current, tables)
  <2>1. RecordSound(m, k, current, tables)
    BY <1>3, <1>7 DEF ManifestSound
  <2>2. p[k] = r[k]
    <3> DEFINE S == ToSet(r)
    <3>1. r \in Seq(S)
      BY <1>1 DEF IsSeq
    <3> HIDE DEF S, r
    <3> QED
      BY <1>3, <1>7, <3>1
  <2>3. After(w, k) = After(m, k)
    <3>1. k \in 0..k
      BY <1>3
    <3>2. SubSeq(p, 1, k) = SubSeq(r, 1, k)
      BY <1>1, <1>3, <3>1, FirstParts
    <3> QED
      BY <1>5, <3>2 DEF After
  <2>4. r[k].next_file \in Nat
    BY <2>1 DEF RecordSound
  <2> HIDE DEF p
  <2>5. w.records[k] = r[k] /\ Len(w.records) = k
    BY <1>4, <1>5, <2>2
  <2>6. r[k].next_file <= r[k].next_file
    BY <2>4
  <2>7. /\ r[k].last_sequence \in Nat /\ current < r[k].next_file
        /\ VersionSound(After(m, k), tables, r[k].next_file)
    BY <2>1 DEF RecordSound
  <2> QED
    BY <2>3, <2>4, <2>5, <2>6, <2>7 DEF RecordSound
<1>8. \A j \in 1..k : k <= j => j = k /\ k # 0
  BY <1>3
<1> HIDE DEF p
<1> QED
  BY <1>4, <1>5, <1>6, <1>7, <1>8 DEF ManifestSound

(* So a crash, at any time, leaves a directory that is sound. *)
LEMMA CrashKeeps ==
    ASSUME DBInv, Crash
    PROVE  DBInv'
<1>1. PICK kl \in Survivors(disk.logs), km \in Survivors(disk.manifests) :
         disk' = [disk EXCEPT !.logs = Survives(disk.logs, kl),
                              !.manifests = Survives(disk.manifests, km)]
  BY DEF Crash
<1>2. Forget /\ todo' = [todo EXCEPT !.crashes = @ - 1] /\ todo.crashes > 0
  BY DEF Crash
<1>3. todo' \in ScenarioType
  <2>1. todo \in ScenarioType /\ todo.crashes \in Nat
    BY ScenarioFields DEF DBInv, ClientsTyped
  <2> DEFINE k == todo.crashes - 1
  <2>2. k \in Nat
    BY <1>2, <2>1
  <2>3. todo' = [todo EXCEPT !.crashes = k]
    BY <1>2
  <2> HIDE DEF k
  <2> QED
    BY <2>1, <2>2, <2>3, ScenarioLeft
<1> DEFINE l == Survives(disk.logs, kl)
           ms == Survives(disk.manifests, km)
<1>4. PICK a, t, c, b : disk = [logs |-> a, tables |-> t, current |-> c, manifests |-> b]
  BY DEF DBInv, DiskSound, DiskTyped
<1>5. DOMAIN l = DOMAIN disk.logs /\ l \in [DOMAIN disk.logs -> LogFiles]
  BY LogSurvives DEF DBInv, DiskSound, DiskTyped
<1>6. ms = [n \in DOMAIN ms |-> ms[n]] /\ DOMAIN ms = DOMAIN disk.manifests
  BY DEF Survives
<1>7. ASSUME disk.current # 0
      PROVE  disk.current \in DOMAIN ms /\ ManifestSound(ms[disk.current], disk.current, disk.tables)
  <2> DEFINE n == disk.current
             m == disk.manifests[n]
             k == km[n]
  <2>1. n \in DOMAIN disk.manifests /\ ManifestSound(m, n, disk.tables)
    BY <1>7 DEF DBInv, DiskSound
  <2>2. k \in m.synced..Len(m.records)
    BY <2>1, SurvivorsKept
  <2>3. ms[n] = [records |-> SubSeq(m.records, 1, k), synced |-> k]
    BY <2>1 DEF Survives
  <2> DEFINE w == ms[n]
  <2> HIDE DEF m, k, w
  <2>4. w = [records |-> SubSeq(m.records, 1, k), synced |-> k]
    BY <2>3 DEF w
  <2>5. ManifestSound(w, n, disk.tables)
    BY <2>1, <2>2, <2>4, ManifestSurvives
  <2> QED
    BY <1>6, <2>1, <2>5 DEF w
<1> HIDE DEF l, ms
<1>8. disk' = [logs |-> l, tables |-> t, current |-> c, manifests |-> ms]
  BY <1>1, <1>4 DEF l, ms
<1>9. disk'.logs = l /\ disk'.tables = disk.tables /\ disk'.current = disk.current
      /\ disk'.manifests = ms
      /\ disk' = [logs |-> disk'.logs, tables |-> disk'.tables, current |-> disk'.current,
                  manifests |-> disk'.manifests]
  BY <1>4, <1>8
<1>10. DiskTyped(disk')
  BY <1>5, <1>6, <1>9 DEF DBInv, DiskSound, DiskTyped
<1>11. DiskSound'
  BY <1>7, <1>9, <1>10 DEF DiskSound
<1> QED
  BY <1>2, <1>3, <1>11, Forgotten

(* The first manifest.                                                     *)
LEMMA OneReplayed ==
    ASSUME NEW e
    PROVE  /\ IsSeq(<<e>>) /\ Len(<<e>>) = 1 /\ SubSeq(<<e>>, 1, 1) = <<e>>
           /\ VersionSetShape(Replayed(<<e>>))
           /\ Replayed(<<e>>).version = SaveTo(EmptyVersion, e.deleted, e.added)
<1>1. IsSeq(<<>>) /\ Append(<<>>, e) = <<e>>
  BY DEF IsSeq, ToSet
<1>2. IsSeq(<<e>>) /\ Replayed(<<e>>) = Apply(NewVersionSet, e)
  BY <1>1, ReplayedMore, ReplayedNone
<1>3. VersionSetShape(NewVersionSet) /\ NewVersionSet.version = EmptyVersion
  BY DEF NewVersionSet, VersionSetShape
<1>4. SubSeq(<<e>>, 1, 1) = <<e>> /\ Len(<<e>>) = 1
  BY <1>2, FirstParts
<1>5. /\ VersionSetShape(Apply(NewVersionSet, e))
      /\ Apply(NewVersionSet, e).version = SaveTo(NewVersionSet.version, e.deleted, e.added)
  BY <1>3, ApplyShape
<1> QED
  BY <1>2, <1>3, <1>4, <1>5

(* It names no files. *)
LEMMA NewDBSound ==
    ASSUME NEW tables, DOMAIN tables \subseteq Nat, tables \in [DOMAIN tables -> Contents],
           NEW m, m = [records |-> <<NewDBEdit>>, synced |-> 0]
    PROVE  ManifestSound(m, 1, tables)
<1> DEFINE e == NewDBEdit
<1>1. e.next_file = 2 /\ e.last_sequence = 0 /\ e.deleted = {} /\ e.added = {}
  BY DEF NewDBEdit, NoEdit
<1> HIDE DEF e
<1> DEFINE r == <<e>>
<1>2. /\ IsSeq(r) /\ Len(r) = 1 /\ SubSeq(r, 1, 1) = r /\ r[1] = e
      /\ Replayed(r).version = SaveTo(EmptyVersion, {}, {})
  BY <1>1, OneReplayed
<1>3. m.records = r /\ m.synced = 0 /\ m = [records |-> m.records, synced |-> m.synced]
  BY DEF e
<1> HIDE DEF r
<1>4. ManifestTyped(m)
  BY <1>2, <1>3 DEF ManifestTyped
<1>5. VersionSound(SaveTo(EmptyVersion, {}, {}), tables, 2)
  <2>1. IsFiniteSet({}) /\ VersionSound(EmptyVersion, tables, 2)
    BY FS_EmptySet, EmptySound
  <2> QED
    BY <2>1, SaveToSound
<1>6. After(m, 1) = SaveTo(EmptyVersion, {}, {})
  BY <1>2, <1>3 DEF After
<1>7. RecordSound(m, 1, 1, tables)
  BY <1>1, <1>2, <1>3, <1>5, <1>6 DEF RecordSound
<1> QED
  BY <1>2, <1>3, <1>4, <1>7 DEF ManifestSound

(* A new database begins with it. *)
LEMMA NewDBKeeps ==
    ASSUME DBInv, NewDB
    PROVE  DBInv'
<1> DEFINE m == [records |-> <<NewDBEdit>>, synced |-> 0]
           ms == With(<<>>, 1, m)
<1>1. /\ phase = "closed" /\ disk' = [disk EXCEPT !.manifests = ms, !.current = 1]
      /\ UNCHANGED <<vs, memory, pending_outputs, bg_error, writers, writing, readers, bg,
                     background_compaction_scheduled, manual, phase, todo, history>>
  BY DEF NewDB
<1>2. PICK a, t, c, b : disk = [logs |-> a, tables |-> t, current |-> c, manifests |-> b]
  BY DEF DBInv, DiskSound, DiskTyped
<1>3. ms = [n \in DOMAIN ms |-> ms[n]] /\ 1 \in DOMAIN ms /\ ms[1] = m
  BY DEF With
<1>4. ManifestSound(m, 1, disk.tables)
  <2> DEFINE w == m
  <2>1. w = [records |-> <<NewDBEdit>>, synced |-> 0]
    OBVIOUS
  <2> HIDE DEF w
  <2>2. ManifestSound(w, 1, disk.tables)
    BY <2>1, NewDBSound DEF DBInv, DiskSound, DiskTyped
  <2> QED
    BY <2>2 DEF w
<1> HIDE DEF ms, m
<1>5. disk' = [logs |-> a, tables |-> t, current |-> 1, manifests |-> ms]
  BY <1>1, <1>2
<1>6. disk'.logs = disk.logs /\ disk'.tables = disk.tables /\ disk'.current = 1
      /\ disk'.manifests = ms
      /\ disk' = [logs |-> disk'.logs, tables |-> disk'.tables, current |-> disk'.current,
                  manifests |-> disk'.manifests]
  BY <1>2, <1>5
<1>7. DiskTyped(disk')
  BY <1>3, <1>6 DEF DBInv, DiskSound, DiskTyped
<1>8. DiskSound'
  BY <1>3, <1>4, <1>6, <1>7 DEF DiskSound
<1>9. Quiescent /\ bg = Idle /\ vs = NewVersionSet
  BY <1>1 DEF DBInv, PhaseSound
<1>10. bg' = [pc |-> "idle", number |-> 0, job |-> {}, edit |-> {}]
  BY <1>1, <1>9 DEF Idle
<1>11. Quiescent' /\ bg' = Idle /\ vs' = NewVersionSet
  BY <1>1, <1>9 DEF Quiescent, memory
<1>12. PhaseSound'
  BY <1>1, <1>11 DEF PhaseSound
<1>13. VersionSetSound(vs, disk.tables)'
  BY <1>11, NothingKnown
<1>14. ClientsTyped'
  BY <1>1 DEF DBInv, ClientsTyped, memory
<1> QED
  BY <1>8, <1>10, <1>11, <1>12, <1>13, <1>14, QuietStep

-----------------------------------------------------------------------------
(* The manifest Open begins describes the recovered version.               *)

(* What is made of the elements of a finite set is finite. *)
LEMMA FiniteImage ==
    ASSUME NEW S, IsFiniteSet(S), NEW T, NEW f \in [S -> T], \A y \in T : \E x \in S : f[x] = y
    PROVE  IsFiniteSet(T)
<1>1. f \in Surjection(S, T)
  BY DEF Surjection
<1> QED
  BY <1>1, FS_Surjection

(* WriteSnapshot names the files of all levels. *)
LEMMA SnapshotNames ==
    ASSUME NEW v
    PROVE  /\ SnapshotEdit(v).deleted = {}
           /\ \A level \in Levels : NewIn(SnapshotEdit(v).added, level) = ToSet(v.version[level])
<1> DEFINE A == UNION {{<<level, f>> : f \in ToSet(v.version[level])} : level \in Levels}
           p == UNION {{<<level, q>> : q \in v.compact_pointer[level]} : level \in Levels}
<1>1. SnapshotEdit(v) = [NoEdit EXCEPT !.added = A, !.pointers = p]
  BY DEF SnapshotEdit
<1>2. \A level \in Levels : NewIn(A, level) = ToSet(v.version[level])
  <2> SUFFICES ASSUME NEW level \in Levels
               PROVE  NewIn(A, level) = ToSet(v.version[level])
    OBVIOUS
  <2> DEFINE S == ToSet(v.version[level])
  <2>1. ASSUME NEW f \in S
        PROVE  f \in NewIn(A, level)
    <3> DEFINE a == <<level, f>>
    <3>1. a \in A /\ a[1] = level /\ a[2] = f
      OBVIOUS
    <3> HIDE DEF A, a
    <3>2. a \in {x \in A : x[1] = level}
      BY <3>1
    <3>3. a[2] \in {y[2] : y \in {x \in A : x[1] = level}}
      BY <3>2
    <3> QED
      BY <3>1, <3>3 DEF NewIn
  <2>2. ASSUME NEW f \in NewIn(A, level)
        PROVE  f \in S
    <3>1. PICK a \in A : a[1] = level /\ f = a[2]
      BY DEF NewIn
    <3>2. PICK k \in Levels : \E g \in ToSet(v.version[k]) : a = <<k, g>>
      BY <3>1
    <3>3. PICK g \in ToSet(v.version[k]) : a = <<k, g>>
      BY <3>2
    <3> QED
      BY <3>1, <3>3
  <2> HIDE DEF A
  <2> QED
    BY <2>1, <2>2
<1> HIDE DEF A, p
<1>3. SnapshotEdit(v).deleted = {} /\ SnapshotEdit(v).added = A
  BY <1>1 DEF NoEdit
<1> QED
  BY <1>2, <1>3

(* A sequence of two. *)
LEMMA TwoInSeq ==
    ASSUME NEW x, NEW y
    PROVE  Append(<<x>>, y) = <<x, y>> /\ Len(<<x, y>>) = 2 /\ <<x, y>>[2] = y
<1> DEFINE T == {x, y}
           p == <<x>>
           q == Append(p, y)
           r == <<x, y>>
<1>1. p \in Seq(T) /\ Len(p) = 1 /\ p[1] = x /\ y \in T
  OBVIOUS
<1>2. r \in Seq(T) /\ Len(r) = 2 /\ r[1] = x /\ r[2] = y
  OBVIOUS
<1> HIDE DEF T, p
<1>3. q \in Seq(T) /\ Len(q) = 2 /\ q[1] = x /\ q[2] = y
  <2>1. /\ q \in Seq(T)
        /\ Len(q) = Len(p) + 1
        /\ \A i \in 1..Len(p) : q[i] = p[i]
        /\ q[Len(p) + 1] = y
    <3>1. p \in Seq(T) /\ y \in T
      BY <1>1
    <3> QED
      BY <3>1, AppendProperties
  <2> HIDE DEF q
  <2>2. 1 \in 1..Len(p) /\ Len(p) + 1 = 2
    BY <1>1
  <2> QED
    BY <1>1, <2>1, <2>2
<1> HIDE DEF q, r
<1>4. q = r
  BY <1>2, <1>3
<1> QED
  BY <1>2, <1>4 DEF p, q, r

Describes(r, v, e) == r = <<SnapshotEdit(v), e>>

(* Replaying a snapshot of a version and an edit gives the version with the*)
(* edit.                                                                   *)
LEMMA SnapshotReplayed ==
    ASSUME NEW v, NEW tables, NEW bound, VersionSound(v.version, tables, bound),
           DOMAIN tables \subseteq Nat, tables \in [DOMAIN tables -> Contents], NEW e, NEW r,
           Describes(r, v, e)
    PROVE  /\ IsSeq(r) /\ Len(r) = 2 /\ r[2] = e
           /\ Replayed(SubSeq(r, 1, 2)).version = SaveTo(v.version, e.deleted, e.added)
<1> DEFINE s == SnapshotEdit(v)
           w == SaveTo(EmptyVersion, s.deleted, s.added)
<1>1. s.deleted = {} /\ \A level \in Levels : NewIn(s.added, level) = ToSet(v.version[level])
  BY SnapshotNames
<1>2. IsFiniteSet(s.added) /\ \A a \in s.added : MetaSound(a[2], tables, bound)
  <2> DEFINE F(level) == {<<level, f>> : f \in ToSet(v.version[level])}
  <2>1. s.added = UNION {F(level) : level \in Levels}
    <3> DEFINE A == UNION {F(level) : level \in Levels}
               p == UNION {{<<level, q>> : q \in v.compact_pointer[level]} : level \in Levels}
    <3>1. s = [NoEdit EXCEPT !.added = A, !.pointers = p]
      BY DEF SnapshotEdit
    <3> HIDE DEF A, p, s
    <3>2. s.added = A
      BY <3>1 DEF NoEdit
    <3> QED
      BY <3>2 DEF A
  <2>2. ASSUME NEW level \in Levels
        PROVE  IsFiniteSet(F(level)) /\ \A a \in F(level) : MetaSound(a[2], tables, bound)
    <3> DEFINE S == ToSet(v.version[level])
    <3>1. FilesSound(v.version[level], tables, bound)
      BY DEF VersionSound
    <3>2. IsFiniteSet(S) /\ \A f \in S : MetaSound(f, tables, bound)
      BY <3>1, SeqOfItsSet DEF FilesSound, IsSeq
    <3> HIDE DEF S
    <3>3. IsFiniteSet({<<level, f>> : f \in S})
      <4> DEFINE T == {<<level, f>> : f \in S}
                 h == [f \in S |-> <<level, f>>]
      <4>1. h \in [S -> T] /\ \A y \in T : \E x \in S : h[x] = y
        OBVIOUS
      <4> HIDE DEF T, h
      <4>2. IsFiniteSet(T)
        BY <3>2, <4>1, FiniteImage
      <4> QED
        BY <4>2 DEF T
    <3> QED
      BY <3>2, <3>3 DEF S
  <2>3. IsFiniteSet({F(level) : level \in Levels})
    <3>1. IsFiniteSet(Levels)
      <4> DEFINE n == kNumLevels - 1
      <4>1. n \in Int /\ 0 \in Int
        BY VersionsAssumption
      <4> HIDE DEF n
      <4>2. IsFiniteSet(0..n)
        BY <4>1, FS_Interval
      <4> QED
        BY <4>2 DEF n, Levels
    <3> HIDE DEF F
    <3> DEFINE T == {F(level) : level \in Levels}
               h == [level \in Levels |-> F(level)]
    <3>2. h \in [Levels -> T] /\ \A y \in T : \E x \in Levels : h[x] = y
      OBVIOUS
    <3> HIDE DEF T, h
    <3>3. IsFiniteSet(T)
      BY <3>1, <3>2, FiniteImage
    <3> QED
      BY <3>3 DEF T
  <2>4. IsFiniteSet(UNION {F(level) : level \in Levels})
    BY <2>2, <2>3, FS_UNION
  <2> HIDE DEF F
  <2> QED
    BY <2>1, <2>2, <2>4
<1> HIDE DEF s
<1>3. VersionSound(EmptyVersion, tables, bound) /\ \A level \in Levels : ToSet(EmptyVersion[level]) = {}
  <2>1. \A level \in Levels : EmptyVersion[level] = <<>>
    BY DEF EmptyVersion
  <2>2. ToSet(<<>>) = {}
    BY DEF ToSet
  <2> QED
    BY <2>1, <2>2, EmptySound
<1>4. \A level \in Levels : ToSet(w[level]) = ToSet(v.version[level])
  <2>1. \A level \in Levels :
           ToSet(w[level]) = KeptOf(ToSet(EmptyVersion[level]), s.deleted, s.added, level)
    BY <1>2, <1>3, SaveToSound
  <2>2. \A level \in Levels : KeptOf({}, s.deleted, s.added, level) = NewIn(s.added, level)
    BY DEF KeptOf
  <2> QED
    BY <1>1, <1>3, <2>1, <2>2
<1> HIDE DEF w
<1>5. SaveTo(w, e.deleted, e.added) = SaveTo(v.version, e.deleted, e.added)
  BY <1>4, SaveToSame
<1>6. IsSeq(<<s>>) /\ VersionSetShape(Replayed(<<s>>)) /\ Replayed(<<s>>).version = w
  <2> DEFINE q == <<s>>
  <2>1. /\ IsSeq(q) /\ VersionSetShape(Replayed(q))
        /\ Replayed(q).version = SaveTo(EmptyVersion, s.deleted, s.added)
    BY OneReplayed
  <2> QED
    BY <2>1 DEF w
<1>7. Append(<<s>>, e) = <<s, e>>
  BY TwoInSeq
<1>8. IsSeq(<<s, e>>) /\ Replayed(<<s, e>>) = Apply(Replayed(<<s>>), e)
  BY <1>6, <1>7, ReplayedMore
<1>9. Apply(Replayed(<<s>>), e).version = SaveTo(w, e.deleted, e.added)
  BY <1>6, ApplyShape
<1>10. r = <<s, e>>
  BY DEF s, Describes
<1>11. IsSeq(r) /\ Len(r) = 2 /\ r[2] = e /\ SubSeq(r, 1, 2) = r
  <2>1. Len(<<s, e>>) = 2 /\ <<s, e>>[2] = e
    OBVIOUS
  <2> QED
    BY <1>8, <1>10, <2>1, FirstParts
<1> QED
  BY <1>5, <1>8, <1>9, <1>10, <1>11

(* While the database is being opened the background thread has the edit of*)
(* Open and nothing else.                                                  *)
LEMMA QuietBackground ==
    ASSUME DBInv, Quiescent
    PROVE  bg = [pc |-> "idle", number |-> 0, job |-> {}, edit |-> bg.edit]
<1>1. PICK a, b, c, d : bg = [pc |-> a, number |-> b, job |-> c, edit |-> d]
  BY BackgroundIs
<1>2. a = "idle" /\ b = 0 /\ c = {} /\ d = bg.edit
  BY <1>1 DEF Quiescent
<1> QED
  BY <1>1, <1>2

(* What Open keeps while it describes the version it recovered.            *)
LEMMA OpeningStep ==
    ASSUME DBInv, Opened, UNCHANGED <<OpenUnchanged, vs, bg, background_compaction_scheduled>>,
           DiskSound', disk'.tables = disk.tables
    PROVE  /\ Quiescent' /\ BgEditSound' /\ VersionSetSound(vs, disk.tables)' /\ ClientsTyped'
           /\ Described' = Described /\ (PhaseSound' => DBInv')
<1>1. Quiescent'
  BY DEF Opened, Quiescent, OpenUnchanged, memory
<1>2. BgEditSound'
  BY DEF Opened, BgEditSound
<1>3. VersionSetSound(vs, disk.tables)'
  BY DEF DBInv, VersionSetSound
<1>4. ClientsTyped'
  BY DEF DBInv, ClientsTyped, OpenUnchanged, memory
<1>5. Described' = Described
  BY DEF Described, SnapshotEdit
<1>6. bg' = [pc |-> "idle", number |-> 0, job |-> {}, edit |-> bg.edit]
  BY QuietBackground DEF Opened
<1> QED
  BY <1>1, <1>2, <1>3, <1>4, <1>5, <1>6, QuietStep

(* The new manifest is written, the current one is another. *)
LEMMA WriteNewManifestKeeps ==
    ASSUME DBInv, WriteNewManifest
    PROVE  DBInv'
<1> DEFINE n == vs.manifest_file_number
           ms == With(disk.manifests, n, Described)
<1>1. /\ phase = "recovered" /\ phase' = "described"
      /\ UNCHANGED <<OpenUnchanged, vs, bg, background_compaction_scheduled>>
      /\ disk' = [disk EXCEPT !.manifests = ms]
  BY DEF WriteNewManifest, Described
<1>2. Opened /\ disk.current # n
  BY <1>1 DEF DBInv, PhaseSound, Opened
<1>3. /\ ms = [k \in DOMAIN ms |-> ms[k]] /\ n \in DOMAIN ms /\ ms[n] = Described
      /\ \A k \in DOMAIN disk.manifests : k # n => k \in DOMAIN ms /\ ms[k] = disk.manifests[k]
  BY DEF With
<1> HIDE DEF ms
<1>4. /\ DiskTyped(disk') /\ disk'.manifests = ms
      /\ disk'.current = disk.current /\ disk'.tables = disk.tables
  BY <1>1, <1>3, ManifestsWritten
<1>5. DiskSound'
  BY <1>2, <1>3, <1>4 DEF DBInv, DiskSound
<1>6. /\ Quiescent' /\ BgEditSound' /\ Described' = Described /\ (PhaseSound' => DBInv')
  BY <1>1, <1>2, <1>4, <1>5, OpeningStep
<1>7. Opened'
  <2>1. vs' = vs /\ bg' = bg
    BY <1>1
  <2>2. disk'.current # 0 /\ disk'.current # vs'.manifest_file_number
    BY <1>2, <1>4, <2>1 DEF Opened
  <2>3. The(bg'.edit).next_file = vs'.next_file_number
        /\ vs'.manifest_file_number \in 1..(vs'.next_file_number - 1)
    BY <1>2, <2>1 DEF Opened
  <2>4. vs'.manifest_file_number \in DOMAIN disk'.manifests
        /\ disk'.manifests[vs'.manifest_file_number] = Described'
    BY <1>3, <1>4, <1>6, <2>1
  <2> QED
    BY <1>1, <1>6, <2>2, <2>3, <2>4 DEF Opened
<1>8. PhaseSound'
  BY <1>1, <1>7 DEF PhaseSound
<1> QED
  BY <1>6, <1>8

(* What replaying it gives. *)
LEMMA DescribedRecords ==
    ASSUME DBInv
    PROVE  LET e == The(bg.edit)
               r == <<SnapshotEdit(vs), e>>
           IN /\ IsSeq(r) /\ Len(r) = 2 /\ r[2] = e
              /\ Replayed(SubSeq(r, 1, 2)).version = SaveTo(vs.version, e.deleted, e.added)
<1> DEFINE e == The(bg.edit)
           r == <<SnapshotEdit(vs), e>>
           t == disk.tables
           b == vs.next_file_number
           v == vs
<1>1. Describes(r, v, e)
  BY DEF Describes
<1>2. /\ VersionSound(v.version, t, b)
      /\ DOMAIN t \subseteq Nat /\ t \in [DOMAIN t -> Contents]
  BY DEF DBInv, VersionSetSound, DiskSound, DiskTyped
<1> HIDE DEF e, r, t, b, v
<1>3. /\ IsSeq(r) /\ Len(r) = 2 /\ r[2] = e
      /\ Replayed(SubSeq(r, 1, 2)).version = SaveTo(v.version, e.deleted, e.added)
  BY <1>1, <1>2, SnapshotReplayed
<1> QED
  BY <1>3 DEF e, r, v

(* So it is sound. *)
LEMMA DescribedSound ==
    ASSUME DBInv, Opened, NEW m, m = [records |-> Described.records, synced |-> 2]
    PROVE  LET e == The(bg.edit)
           IN /\ ManifestSound(m, vs.manifest_file_number, disk.tables)
              /\ Len(m.records) = 2 /\ m.records[2] = e
              /\ After(m, 2) = SaveTo(vs.version, e.deleted, e.added)
<1> DEFINE e == The(bg.edit)
           r == <<SnapshotEdit(vs), e>>
           b == vs.next_file_number
<1>1. Described.records = r
  BY DEF Described
<1>2. /\ EditSound(e, disk.tables) /\ e.next_file = b /\ e.next_file <= b
      /\ vs.manifest_file_number \in 1..(b - 1)
  BY DEF Opened, BgEditSound
<1>3. /\ VersionSound(vs.version, disk.tables, b) /\ b \in Nat
      /\ DOMAIN disk.tables \subseteq Nat /\ disk.tables \in [DOMAIN disk.tables -> Contents]
  BY DEF DBInv, VersionSetSound, DiskSound, DiskTyped
<1>4. /\ IsSeq(r) /\ Len(r) = 2 /\ r[2] = e
      /\ Replayed(SubSeq(r, 1, 2)).version = SaveTo(vs.version, e.deleted, e.added)
  BY DescribedRecords
<1> HIDE DEF r, e
<1>5. m.records = r /\ m.synced = 2 /\ m = [records |-> m.records, synced |-> m.synced]
  BY <1>1
<1>6. After(m, 2) = SaveTo(vs.version, e.deleted, e.added)
  BY <1>4, <1>5 DEF After
<1>7. VersionSound(After(m, 2), disk.tables, e.next_file)
  BY <1>2, <1>6, InstalledSound
<1>8. ManifestTyped(m)
  BY <1>4, <1>5 DEF ManifestTyped
<1>9. RecordSound(m, 2, vs.manifest_file_number, disk.tables)
  <2>1. e.next_file \in Nat /\ e.last_sequence \in Nat
    BY <1>2 DEF EditSound
  <2>2. vs.manifest_file_number < e.next_file /\ e.next_file <= e.next_file
    BY <1>2, <1>3
  <2>3. m.records[2] = e /\ Len(m.records) = 2
    BY <1>4, <1>5
  <2> QED
    BY <1>7, <2>1, <2>2, <2>3 DEF RecordSound
<1>10. ManifestSound(m, vs.manifest_file_number, disk.tables)
  <2>1. \A k \in 1..2 : 2 <= k => k = 2
    OBVIOUS
  <2>2. Len(m.records) = 2 /\ m.synced = 2
    BY <1>4, <1>5
  <2> QED
    BY <1>8, <1>9, <2>1, <2>2 DEF ManifestSound
<1> QED
  BY <1>4, <1>5, <1>6, <1>10 DEF e

(* And so it is when it is synced. *)
LEMMA DescribedSynced ==
    [Described EXCEPT !.synced = 2] = [records |-> Described.records, synced |-> 2]
<1> DEFINE r == <<SnapshotEdit(vs), The(bg.edit)>>
<1>1. Described = [records |-> r, synced |-> 0]
  BY DEF Described
<1> HIDE DEF r
<1> QED
  BY <1>1

SyncedAndCurrent(d) ==
    d = [disk EXCEPT !.manifests[vs.manifest_file_number].synced = 2,
                     !.current = vs.manifest_file_number]

(* CURRENT names it, and every table stays. *)
LEMMA CurrentSet ==
    ASSUME DBInv, NEW n, n \in DOMAIN disk.manifests, disk.manifests[n] = Described,
           n = vs.manifest_file_number, n \in Nat, NEW d, SyncedAndCurrent(d)
    PROVE  /\ DiskTyped(d) /\ d.current = n /\ d.tables = disk.tables
           /\ n \in DOMAIN d.manifests
           /\ d.manifests[n] = [records |-> Described.records, synced |-> 2]
<1> DEFINE f == disk.manifests
           x == [Described EXCEPT !.synced = 2]
           g == [f EXCEPT ![n] = x]
<1>1. d = [disk EXCEPT !.manifests = g, !.current = n]
  BY DEF SyncedAndCurrent
<1>2. x = [records |-> Described.records, synced |-> 2]
  BY DescribedSynced
<1> HIDE DEF x
<1>3. n \in DOMAIN g /\ g[n] = x /\ g = [k \in DOMAIN g |-> g[k]]
  <2> HIDE DEF f
  <2>1. n \in DOMAIN f
    BY DEF f
  <2> QED
    BY <2>1
<1> HIDE DEF g
<1>4. DiskTyped(disk)
  BY DEF DBInv, DiskSound
<1>5. PICK l, t, c, m : disk = [logs |-> l, tables |-> t, current |-> c, manifests |-> m]
  BY <1>4 DEF DiskTyped
<1>6. d = [logs |-> l, tables |-> t, current |-> n, manifests |-> g]
  BY <1>1, <1>5
<1>7. d.logs = disk.logs /\ d.tables = disk.tables /\ d.current = n
      /\ d.manifests = g
      /\ d = [logs |-> d.logs, tables |-> d.tables, current |-> d.current,
              manifests |-> d.manifests]
  BY <1>5, <1>6
<1>8. DiskTyped(d)
  BY <1>3, <1>4, <1>7 DEF DiskTyped
<1> QED
  BY <1>2, <1>3, <1>7, <1>8

(* From now on the next Open begins with it. *)
LEMMA SetCurrentFileKeeps ==
    ASSUME DBInv, SetCurrentFile
    PROVE  DBInv'
<1> DEFINE n == vs.manifest_file_number
           m == [records |-> Described.records, synced |-> 2]
<1>1. /\ phase = "described" /\ phase' = "current"
      /\ UNCHANGED <<OpenUnchanged, vs, bg, background_compaction_scheduled>>
      /\ SyncedAndCurrent(disk')
  BY DEF SetCurrentFile, SyncedAndCurrent
<1>2. /\ Opened /\ n \in DOMAIN disk.manifests /\ disk.manifests[n] = Described
      /\ n \in 1..(vs.next_file_number - 1)
  BY <1>1 DEF DBInv, PhaseSound, Opened
<1>3. n \in Nat /\ n # 0
  BY <1>2, VersionsAre
<1>4. /\ DiskTyped(disk') /\ disk'.current = n /\ disk'.tables = disk.tables
      /\ n \in DOMAIN disk'.manifests /\ disk'.manifests[n] = m
  BY <1>1, <1>2, <1>3, CurrentSet
<1>5. ManifestSound(m, n, disk.tables)
  <2> DEFINE w == m
  <2>1. w = [records |-> Described.records, synced |-> 2]
    OBVIOUS
  <2> HIDE DEF w
  <2>2. ManifestSound(w, vs.manifest_file_number, disk.tables)
    BY <1>2, <2>1, DescribedSound
  <2> QED
    BY <2>2 DEF w
<1> HIDE DEF m
<1>6. DiskSound'
  BY <1>4, <1>5 DEF DiskSound
<1>7. /\ Quiescent' /\ BgEditSound' /\ Described' = Described /\ (PhaseSound' => DBInv')
  BY <1>1, <1>2, <1>4, <1>6, OpeningStep
<1>8. Opened'
  <2>1. vs' = vs /\ bg' = bg
    BY <1>1
  <2>2. disk'.current # 0 /\ disk'.current = vs'.manifest_file_number
    BY <1>3, <1>4, <2>1
  <2>3. The(bg'.edit).next_file = vs'.next_file_number
        /\ vs'.manifest_file_number \in 1..(vs'.next_file_number - 1)
    BY <1>2, <2>1 DEF Opened
  <2>4. disk'.manifests[disk'.current] = [Described EXCEPT !.synced = 2]'
    <3>1. [Described EXCEPT !.synced = 2]' = [Described EXCEPT !.synced = 2]
      BY <1>7
    <3> QED
      BY <1>4, <3>1, DescribedSynced DEF m
  <2> QED
    BY <1>1, <1>7, <2>2, <2>3, <2>4 DEF Opened
<1>9. PhaseSound'
  BY <1>1, <1>8 DEF PhaseSound
<1> QED
  BY <1>7, <1>9

(* The end of Open: the version is installed.                              *)
OpenInstalls(v, d) ==
    v = Installed(vs, The(bg.edit)) /\ d = DeleteObsoleteFiles(disk, v, LiveFiles(v, {}))

(* Open deletes no table of the version it installs, nor its manifest. *)
LEMMA OpenKeepsVersion ==
    ASSUME DBInv, phase = "current", NEW v, NEW d, OpenInstalls(v, d)
    PROVE  /\ VersionSetShape(v) /\ v.file_to_compact = {}
           /\ v.next_file_number = vs.next_file_number
           /\ v.manifest_file_number = vs.manifest_file_number
           /\ v.last_sequence = vs.last_sequence
           /\ VersionSound(v.version, d.tables, v.next_file_number)
           /\ DiskTyped(d) /\ d.current = disk.current /\ d.current \in DOMAIN d.manifests
           /\ d.manifests[d.current] = disk.manifests[disk.current]
           /\ \A n \in DOMAIN disk.tables : n \in LiveFiles(v, {}) =>
                 n \in DOMAIN d.tables /\ d.tables[n] = disk.tables[n]
<1> DEFINE e == The(bg.edit)
           c == disk.current
           b == vs.next_file_number
<1>1. Opened /\ c = vs.manifest_file_number
  BY DEF DBInv, PhaseSound, Opened
<1>2. c \in Nat /\ c # 0
  BY <1>1 DEF Opened, DBInv, VersionSetSound
<1>3. DiskTyped(disk) /\ c \in DOMAIN disk.manifests
  BY <1>2 DEF DBInv, DiskSound
<1>4. /\ VersionSetShape(v) /\ v.version = SaveTo(vs.version, e.deleted, e.added)
      /\ v.file_to_compact = {} /\ v.next_file_number = b
      /\ v.manifest_file_number = vs.manifest_file_number /\ v.last_sequence = vs.last_sequence
  <2> HIDE DEF e
  <2>1. v = Installed(vs, e) /\ VersionSetShape(vs)
    BY VersionsAre DEF e, OpenInstalls
  <2>2. /\ VersionSetShape(v) /\ v.version = SaveTo(vs.version, e.deleted, e.added)
        /\ v.file_to_compact = {} /\ v.next_file_number = vs.next_file_number
        /\ v.manifest_file_number = vs.manifest_file_number
        /\ v.last_sequence = vs.last_sequence
    BY <2>1, InstalledShape
  <2> QED
    BY <2>2
<1>5. VersionSound(v.version, disk.tables, b) /\ b \in Nat
  <2>1. EditSound(e, disk.tables) /\ e.next_file = b
    BY <1>1 DEF Opened, BgEditSound
  <2>2. b \in Nat /\ e.next_file <= b
    BY <2>1, VersionsAre
  <2> HIDE DEF e
  <2> QED
    BY <1>4, <2>1, <2>2, InstalledSound
<1> DEFINE live == LiveFiles(v, {})
<1>6. /\ DiskTyped(d) /\ d.current = c
      /\ \A n \in DOMAIN disk.tables : n \in live => n \in DOMAIN d.tables /\ d.tables[n] = disk.tables[n]
      /\ \A n \in DOMAIN disk.manifests : ~(n < v.manifest_file_number) =>
            n \in DOMAIN d.manifests /\ d.manifests[n] = disk.manifests[n]
  <2> HIDE DEF live
  <2>1. d = DeleteObsoleteFiles(disk, v, live)
    BY DEF live, OpenInstalls
  <2> QED
    BY <1>3, <2>1, ObsoleteDeleted
<1>7. d.current \in DOMAIN d.manifests /\ d.manifests[d.current] = disk.manifests[c]
  <2>1. ~(c < v.manifest_file_number)
    BY <1>1, <1>2, <1>4
  <2> QED
    BY <1>3, <1>6, <2>1
<1>8. VersionSound(v.version, d.tables, b)
  <2>1. DOMAIN disk.tables \subseteq Nat
    BY <1>3 DEF DiskTyped
  <2> DEFINE t1 == disk.tables
             t2 == d.tables
             none == {}
             w == v.version
  <2>2. /\ DOMAIN t1 \subseteq Nat /\ VersionSound(w, t1, b) /\ b \in Nat
        /\ \A n \in DOMAIN t1 : n \in live => n \in DOMAIN t2 /\ t2[n] = t1[n]
        /\ LiveFiles(v, none) \subseteq live /\ w \in none \cup {v.version}
    BY <1>5, <1>6, <2>1
  <2> HIDE DEF t1, t2, none, live, b, w
  <2>3. VersionSound(w, t2, b)
    BY <2>2, LiveKept
  <2> QED
    BY <2>3 DEF t2, w
<1> QED
  BY <1>4, <1>6, <1>7, <1>8

(* The database is open. *)
LEMMA FinishOpenKeeps ==
    ASSUME DBInv, FinishOpen
    PROVE  DBInv'
<1> DEFINE e == The(bg.edit)
           c == disk.current
           b == vs.next_file_number
           m == [records |-> Described.records, synced |-> 2]
<1>1. /\ phase = "current" /\ phase' = "open"
      /\ vs' = Installed(vs, e)
      /\ disk' = DeleteObsoleteFiles(disk, vs', LiveFiles(vs', {}))
      /\ bg' = [bg EXCEPT !.edit = {}]
      /\ UNCHANGED OpenUnchanged
  BY DEF FinishOpen
<1>2. /\ Opened /\ c = vs.manifest_file_number /\ c # 0
      /\ disk.manifests[c] = [Described EXCEPT !.synced = 2]
  BY <1>1 DEF DBInv, PhaseSound, Opened
<1>3. disk.manifests[c] = m
  BY <1>2, DescribedSynced
<1>4. /\ VersionSetShape(vs') /\ vs'.file_to_compact = {}
      /\ vs'.next_file_number = b /\ vs'.manifest_file_number = c
      /\ vs'.last_sequence = vs.last_sequence
      /\ VersionSound(vs'.version, disk'.tables, b)
      /\ DiskTyped(disk') /\ disk'.current = c /\ c \in DOMAIN disk'.manifests
      /\ disk'.manifests[c] = m
  <2> DEFINE v == vs'
             d == disk'
  <2>1. OpenInstalls(v, d)
    BY <1>1 DEF OpenInstalls
  <2> HIDE DEF v, d, m
  <2>2. /\ VersionSetShape(v) /\ v.file_to_compact = {}
        /\ v.next_file_number = vs.next_file_number
        /\ v.manifest_file_number = vs.manifest_file_number
        /\ v.last_sequence = vs.last_sequence
        /\ VersionSound(v.version, d.tables, v.next_file_number)
        /\ DiskTyped(d) /\ d.current = disk.current /\ d.current \in DOMAIN d.manifests
        /\ d.manifests[d.current] = disk.manifests[disk.current]
    BY <1>1, <2>1, OpenKeepsVersion
  <2> QED
    BY <1>2, <1>3, <2>2 DEF v, d
<1>5. /\ ManifestSound(m, c, disk.tables) /\ Len(m.records) = 2 /\ m.records[2] = e
      /\ After(m, 2) = SaveTo(vs.version, e.deleted, e.added)
  <2> DEFINE w == m
  <2>1. w = [records |-> Described.records, synced |-> 2]
    OBVIOUS
  <2> HIDE DEF w
  <2>2. /\ ManifestSound(w, vs.manifest_file_number, disk.tables)
        /\ Len(w.records) = 2 /\ w.records[2] = e
        /\ After(w, 2) = SaveTo(vs.version, e.deleted, e.added)
    BY <1>2, <2>1, DescribedSound
  <2> QED
    BY <1>2, <2>2 DEF w
<1>6. m.synced = 2
  OBVIOUS
<1> HIDE DEF m
<1>7. After(m, 2) = vs'.version
  <2> HIDE DEF e
  <2>1. Installed(vs, e).version = SaveTo(vs.version, e.deleted, e.added)
    BY VersionsAre, InstalledShape
  <2> QED
    BY <1>1, <1>5, <2>1
<1>8. e.next_file = b /\ b \in Nat /\ c \in Nat /\ vs.last_sequence \in Nat
  BY <1>2, VersionsAre DEF Opened, DBInv, VersionSetSound
<1>9. ManifestSound(m, c, disk'.tables)
  <2>1. RecordSound(m, 2, c, disk.tables) /\ ManifestTyped(m)
    BY <1>5, <1>6 DEF ManifestSound
  <2>2. RecordSound(m, 2, c, disk'.tables)
    BY <1>4, <1>5, <1>7, <1>8, <2>1 DEF RecordSound
  <2>3. \A k \in 1..2 : 2 <= k => k = 2
    OBVIOUS
  <2> QED
    BY <1>5, <1>6, <2>1, <2>2, <2>3 DEF ManifestSound
<1>10. DiskSound'
  BY <1>4, <1>9 DEF DiskSound
<1>11. VersionSetSound(vs, disk.tables)'
  BY <1>4, <1>8 DEF VersionSetSound
<1>12. bg' = [pc |-> "idle", number |-> 0, job |-> {}, edit |-> {}]
  <2> DEFINE x == bg.edit
  <2>1. bg = [pc |-> "idle", number |-> 0, job |-> {}, edit |-> x]
    BY <1>2, QuietBackground DEF Opened
  <2> HIDE DEF x
  <2> QED
    BY <1>1, <2>1
<1>13. ReadersSound'
  BY <1>1, <1>2 DEF ReadersSound, OpenUnchanged, Opened, Quiescent
<1>14. BackgroundSound'
  BY <1>12 DEF BackgroundSound
<1>15. Running'
  <2>1. /\ disk'.manifests[disk'.current] = m /\ disk'.current # 0
        /\ disk'.current = vs'.manifest_file_number
    BY <1>2, <1>4
  <2>2. m.records # <<>>
    BY <1>5
  <2>3. m.records[2].next_file <= vs'.next_file_number
    BY <1>4, <1>5, <1>8
  <2>4. bg'.pc = "idle"
    BY <1>12
  <2> HIDE DEF e, b, c
  <2> QED
    BY <1>5, <1>6, <1>7, <2>1, <2>2, <2>3, <2>4 DEF Running
<1>16. PhaseSound'
  BY <1>1, <1>15 DEF PhaseSound
<1>17. ClientsTyped'
  BY <1>1 DEF DBInv, ClientsTyped, OpenUnchanged, memory
<1> QED
  BY <1>10, <1>11, <1>13, <1>14, <1>16, <1>17 DEF DBInv

(* Recovering: what the manifest says, and the tables of the logs.         *)
LEMMA RecoveredShape ==
    ASSUME NEW edits, IsSeq(edits), NEW w, w = RecoveredVersions(edits),
           NEW e, e = Last(edits)
    PROVE  /\ VersionSetShape(w) /\ w.version = Replayed(edits).version
           /\ w.next_file_number = e.next_file + 1 /\ w.manifest_file_number = e.next_file
           /\ w.last_sequence = e.last_sequence /\ w.file_to_compact = {}
           /\ w.log_number = e.log_number
<1> DEFINE u == Replayed(edits)
           k == e.next_file + 1
<1>1. VersionSetShape(u) /\ u.file_to_compact = {}
  BY ReplayedShape
<1>2. w = [u EXCEPT !.manifest_file_number = e.next_file, !.next_file_number = k,
                    !.last_sequence = e.last_sequence, !.log_number = e.log_number]
  BY DEF RecoveredVersions, Replayed
<1>3. PICK a, b, c, d, l, p, f :
         u = [version |-> a, next_file_number |-> b, manifest_file_number |-> c,
              last_sequence |-> d, log_number |-> l, compact_pointer |-> p, file_to_compact |-> f]
  BY <1>1 DEF VersionSetShape
<1> HIDE DEF k, u
<1>4. w = [version |-> a, next_file_number |-> k, manifest_file_number |-> e.next_file,
           last_sequence |-> e.last_sequence, log_number |-> e.log_number,
           compact_pointer |-> p, file_to_compact |-> f]
  BY <1>2, <1>3
<1>5. VersionSetShape(w)
  BY <1>4 DEF VersionSetShape
<1>6. w.version = u.version /\ w.next_file_number = k /\ w.manifest_file_number = e.next_file
      /\ w.last_sequence = e.last_sequence /\ w.file_to_compact = u.file_to_compact
      /\ w.log_number = e.log_number
  BY <1>3, <1>4
<1> QED
  BY <1>1, <1>5, <1>6 DEF k, u

(* The edit that will name the logs' tables.                               *)
LogsEdit(t, l) ==
    [NoEdit EXCEPT !.added = {<<0, FileMetaData(n, t[n])>> : n \in DOMAIN t}, !.log_number = l]

(* It names tables that exist, with numbers below the next one. *)
LEMMA RecoveredEdit ==
    ASSUME NEW t, IsFiniteSet(DOMAIN t), DOMAIN t \subseteq Nat, NEW g,
           \A n \in DOMAIN t : n \in DOMAIN g /\ g[n] = t[n],
           NEW w, w.next_file_number \in Nat, w.last_sequence \in Nat,
           \A n \in DOMAIN t : n < w.next_file_number,
           NEW l
    PROVE  /\ EditSound(WithNumbers(w, LogsEdit(t, l)), g)
           /\ WithNumbers(w, LogsEdit(t, l)).next_file = w.next_file_number
<1> DEFINE e == LogsEdit(t, l)
           D == DOMAIN t
           A == {<<0, FileMetaData(n, t[n])>> : n \in D}
           h == [n \in D |-> <<0, FileMetaData(n, t[n])>>]
<1>1. h \in [D -> A] /\ \A y \in A : \E x \in D : h[x] = y
  OBVIOUS
<1>2. \A a \in A : MetaSound(a[2], g, w.next_file_number)
  <2> SUFFICES ASSUME NEW n \in D
               PROVE  MetaSound(FileMetaData(n, t[n]), g, w.next_file_number)
    OBVIOUS
  <2>1. FileMetaData(n, t[n]).number = n
    BY DEF FileMetaData
  <2>2. n \in DOMAIN g /\ g[n] = t[n] /\ n < w.next_file_number
    OBVIOUS
  <2> QED
    BY <2>1, <2>2 DEF MetaSound
<1>3. e = [NoEdit EXCEPT !.added = A, !.log_number = l]
  BY DEF LogsEdit
<1> HIDE DEF D, A, h, e
<1>4. IsFiniteSet(A)
  <2>1. IsFiniteSet(D)
    BY DEF D
  <2> QED
    BY <1>1, <2>1, FiniteImage
<1>5. IsEdit(e) /\ e.added = A
  BY <1>3 DEF NoEdit, IsEdit
<1>6. /\ IsEdit(WithNumbers(w, e)) /\ WithNumbers(w, e).added = e.added
      /\ WithNumbers(w, e).next_file = w.next_file_number
      /\ WithNumbers(w, e).last_sequence = w.last_sequence
  BY <1>5, Numbered
<1> QED
  BY <1>2, <1>4, <1>5, <1>6 DEF EditSound, e

(* The version of the manifest's last record.                              *)
LEMMA ManifestRecovered ==
    ASSUME NEW m, NEW c \in Nat, NEW tables, ManifestSound(m, c, tables), m.records # <<>>,
           NEW v, v = RecoveredVersions(m.records)
    PROVE  LET b == v.manifest_file_number
           IN /\ VersionSetShape(v) /\ v.file_to_compact = {}
              /\ b \in Nat /\ c < b /\ v.next_file_number = b + 1 /\ v.last_sequence \in Nat
              /\ VersionSound(v.version, tables, b)
              /\ m.records[Len(m.records)].next_file = b
              /\ v.last_sequence = m.records[Len(m.records)].last_sequence
              /\ v.log_number = m.records[Len(m.records)].log_number
<1> DEFINE r == m.records
           n == Len(r)
           e == r[n]
<1>1. ManifestTyped(m) /\ IsSeq(r) /\ m.synced \in 0..n
  BY DEF ManifestSound, ManifestTyped
<1>2. n \in Nat \ {0}
  BY <1>1, LastReplayed
<1>3. RecordSound(m, n, c, tables)
  <2>1. n \in 1..n /\ m.synced <= n
    <3> HIDE DEF n
    <3> QED
      BY <1>1, <1>2
  <2> QED
    BY <2>1 DEF ManifestSound
<1>4. /\ e.next_file \in Nat /\ e.last_sequence \in Nat /\ c < e.next_file
      /\ VersionSound(After(m, n), tables, e.next_file)
  BY <1>3 DEF RecordSound
<1>5. After(m, n) = Replayed(r).version
  BY <1>1, FirstParts DEF After
<1>6. e = Last(r)
  BY DEF Last
<1> DEFINE w == v
<1>7. w = RecoveredVersions(r)
  OBVIOUS
<1> HIDE DEF w, e, r
<1>8. /\ VersionSetShape(w) /\ w.version = Replayed(r).version
      /\ w.next_file_number = e.next_file + 1 /\ w.manifest_file_number = e.next_file
      /\ w.last_sequence = e.last_sequence /\ w.file_to_compact = {}
      /\ w.log_number = e.log_number
  BY <1>1, <1>6, <1>7, RecoveredShape
<1>9. /\ VersionSetShape(w) /\ w.file_to_compact = {}
      /\ w.manifest_file_number = e.next_file /\ w.next_file_number = e.next_file + 1
      /\ w.last_sequence \in Nat /\ VersionSound(w.version, tables, e.next_file)
  BY <1>4, <1>5, <1>8
<1>10. r[n].next_file = e.next_file
  BY DEF e
<1>11. w.last_sequence = r[n].last_sequence /\ w.log_number = r[n].log_number
  BY <1>8 DEF e
<1> QED
  BY <1>4, <1>9, <1>10, <1>11 DEF w, r

(* The disk with the logs' tables and a new log.                           *)
DiskRecovered(d, t, n) ==
    d = [disk EXCEPT !.tables = Over(t, @), !.logs = With(@, n, EmptyFile)]

(* Nothing is written over. *)
LEMMA RecoveredDisk ==
    ASSUME DiskTyped(disk), NEW t, NEW b \in Nat, NEW n \in Nat, NEW d, DiskRecovered(d, t, n),
           DOMAIN t \subseteq Nat, t \in [DOMAIN t -> Contents], \A k \in DOMAIN t : b <= k
    PROVE  /\ DiskTyped(d) /\ d.current = disk.current /\ d.manifests = disk.manifests
           /\ Grown(disk.tables, d.tables, b)
           /\ \A k \in DOMAIN t : k \in DOMAIN d.tables /\ d.tables[k] = t[k]
           /\ \A k \in DOMAIN disk.tables : k \notin DOMAIN t =>
                 k \in DOMAIN d.tables /\ d.tables[k] = disk.tables[k]
<1> DEFINE f == disk.tables
           g == Over(t, f)
           l == disk.logs
           h == With(l, n, EmptyFile)
<1>1. /\ DOMAIN f \subseteq Nat /\ f \in [DOMAIN f -> Contents]
      /\ IsFiniteSet(DOMAIN l) /\ DOMAIN l \subseteq Nat /\ l \in [DOMAIN l -> LogFiles]
  BY DEF DiskTyped
<1>2. g = Over(t, f) /\ h = With(l, n, EmptyFile) /\ d = [disk EXCEPT !.tables = g, !.logs = h]
  BY DEF DiskRecovered
<1>3. \A k \in DOMAIN f : k \notin DOMAIN t => k \in DOMAIN g /\ g[k] = f[k]
  BY DEF Over
<1> HIDE DEF f, g, l, h
<1>4. /\ DOMAIN g \subseteq Nat /\ g \in [DOMAIN g -> Contents]
      /\ Grown(f, g, b) /\ DOMAIN t \subseteq DOMAIN g
      /\ \A k \in DOMAIN t : g[k] = t[k]
  BY <1>1, <1>2, TablesAdded
<1>5. IsFiniteSet(DOMAIN h) /\ DOMAIN h \subseteq Nat /\ h \in [DOMAIN h -> LogFiles]
  BY <1>1, <1>2, FileAdded
<1>6. PICK x, y, c, m : disk = [logs |-> x, tables |-> y, current |-> c, manifests |-> m]
  BY DEF DiskTyped
<1>7. d = [logs |-> h, tables |-> g, current |-> c, manifests |-> m]
  BY <1>2, <1>6
<1>8. d.logs = h /\ d.tables = g /\ d.current = disk.current /\ d.manifests = disk.manifests
      /\ d = [logs |-> d.logs, tables |-> d.tables, current |-> d.current,
              manifests |-> d.manifests]
  BY <1>6, <1>7
<1>9. DiskTyped(d)
  BY <1>4, <1>5, <1>8 DEF DiskTyped
<1>10. \A k \in DOMAIN disk.tables : k \notin DOMAIN t =>
          k \in DOMAIN d.tables /\ d.tables[k] = disk.tables[k]
  BY <1>3, <1>8 DEF f
<1> QED
  BY <1>4, <1>8, <1>9, <1>10 DEF f

-----------------------------------------------------------------------------
RecoverNothing ==
    phase' = "corrupt" /\ UNCHANGED <<disk, vs, mem, logfile_number, bg>>

Untouched == <<imm, snapshots, pending_outputs, bg_error, writers, writing, readers,
               background_compaction_scheduled, manual, todo, history>>

(* Recover fails: nothing changes. *)
LEMMA NothingRecovered ==
    ASSUME DBInv, phase = "closed", RecoverNothing, UNCHANGED Untouched
    PROVE  DBInv'
<1>1. phase' = "corrupt" /\ UNCHANGED <<disk, vs, mem, bg>>
  BY DEF RecoverNothing
<1>2. Quiescent /\ bg = Idle /\ vs = NewVersionSet
  BY DEF DBInv, PhaseSound
<1>3. Quiescent'
  BY <1>1, <1>2 DEF Quiescent, Untouched
<1>4. PhaseSound'
  BY <1>1, <1>2, <1>3 DEF PhaseSound, Idle
<1>5. ClientsTyped'
  BY <1>1 DEF DBInv, ClientsTyped, Untouched
<1>6. DiskSound' /\ VersionSetSound(vs, disk.tables)'
  BY <1>1 DEF DBInv, DiskSound, VersionSetSound
<1>7. bg' = [pc |-> "idle", number |-> 0, job |-> {}, edit |-> {}]
  BY <1>1, <1>2 DEF Idle
<1> QED
  BY <1>3, <1>4, <1>5, <1>6, <1>7, QuietStep

(* The other case, with names for what it computes: the versions v of the  *)
(* manifest, the tables of the logs, the versions w and the edit.          *)
LogsFrom(v) == FoldLeft(RecoverLogFile, [tables |-> <<>>, next |-> v.next_file_number],
                        LogsToRecover(v))

SequenceFrom(v, t) == Max({v.last_sequence} \cup {e.seq : e \in UNION {t[n] : n \in DOMAIN t}})

VersionsFrom(v, r) == [v EXCEPT !.next_file_number = r.next + 1,
                                !.last_sequence = SequenceFrom(v, r.tables)]

RecoverSomething(v, r, w) ==
    /\ v = RecoveredVersions(disk.manifests[disk.current].records)
    /\ r = LogsFrom(v) /\ w = VersionsFrom(v, r)
    /\ phase' = "recovered" /\ DiskRecovered(disk', r.tables, r.next)
    /\ vs' = w /\ logfile_number' = r.next /\ mem' = {}
    /\ bg' = [bg EXCEPT !.edit = {WithNumbers(w, LogsEdit(r.tables, r.next))}]

(* Recover fails, or does what it should. *)
LEMMA RecoverSplits ==
    ASSUME Recover
    PROVE  /\ phase = "closed" /\ disk.current # 0 /\ UNCHANGED Untouched
           /\ RecoverNothing
                \/ (disk.manifests[disk.current].records # <<>>
                    /\ \E v, r, w : RecoverSomething(v, r, w))
<1> DEFINE edits == disk.manifests[disk.current].records
           v == RecoveredVersions(edits)
           r == LogsFrom(v)
           w == VersionsFrom(v, r)
           lost == edits = <<>> \/ ~LiveFiles(v, {}) \subseteq DOMAIN disk.tables
<1>1. /\ phase = "closed" /\ disk.current # 0 /\ UNCHANGED Untouched
      /\ IF lost THEN RecoverNothing ELSE RecoverSomething(v, r, w)
  BY DEF Recover, RecoverNothing, RecoverSomething, LogsFrom, VersionsFrom, SequenceFrom,
         DiskRecovered, LogsEdit, Untouched
<1> HIDE DEF v, r, w
<1> QED
  BY <1>1

(* What recovering the logs gives. *)
LEMMA LogsGiveTables ==
    ASSUME DiskTyped(disk), NEW v, v.next_file_number \in Nat, v.last_sequence \in Nat
    PROVE  LET r == LogsFrom(v)
           IN /\ r.next \in Nat /\ v.next_file_number <= r.next
              /\ DOMAIN r.tables \subseteq Nat /\ IsFiniteSet(DOMAIN r.tables)
              /\ r.tables \in [DOMAIN r.tables -> Contents]
              /\ \A n \in DOMAIN r.tables : v.next_file_number <= n /\ n < r.next
              /\ SequenceFrom(v, r.tables) \in Nat
              /\ v.last_sequence <= SequenceFrom(v, r.tables)
              /\ \A x \in Tabled(r) : x.seq <= SequenceFrom(v, r.tables)
              /\ \A m \in DOMAIN disk.logs : m >= v.log_number => Taken(r, m)
<1> DEFINE r == LogsFrom(v)
           b == v.next_file_number
<1>1. r \in LogsRead(b) /\ \A m \in DOMAIN disk.logs : m >= v.log_number => Taken(r, m)
  BY LogsRecovered DEF LogsFrom
<1> HIDE DEF r, b
<1>2. /\ r.next \in Nat /\ b <= r.next
      /\ DOMAIN r.tables \subseteq Nat /\ IsFiniteSet(DOMAIN r.tables)
      /\ r.tables \in [DOMAIN r.tables -> Contents]
      /\ \A n \in DOMAIN r.tables : b <= n /\ n < r.next
  BY <1>1, ReadTables DEF b
<1>3. /\ SequenceFrom(v, r.tables) \in Nat
      /\ v.last_sequence <= SequenceFrom(v, r.tables)
      /\ \A x \in Tabled(r) : x.seq <= SequenceFrom(v, r.tables)
  <2> DEFINE last == v.last_sequence
             t == r.tables
             all == {last} \cup {e.seq : e \in UNION {t[n] : n \in DOMAIN t}}
  <2>1. /\ last \in Nat /\ IsFiniteSet(DOMAIN t) /\ t \in [DOMAIN t -> Contents]
        /\ DOMAIN t \subseteq Nat
    BY <1>2
  <2>2. SequenceFrom(v, t) = Max(all) /\ Tabled(r) = UNION {t[n] : n \in DOMAIN t}
    BY DEF SequenceFrom, Tabled
  <2>3. last \in all /\ \A x \in Tabled(r) : x.seq \in all
    BY <2>2
  <2> HIDE DEF last, t
  <2>4. Max(all) \in Nat /\ \A s \in all : s <= Max(all)
    BY <2>1, LargestSequence
  <2> HIDE DEF all
  <2> QED
    BY <2>2, <2>3, <2>4 DEF last, t
<1> QED
  BY <1>1, <1>2, <1>3 DEF r, b

(* The version set that goes on from there. *)
LEMMA VersionsFromShape ==
    ASSUME NEW v, VersionSetShape(v), NEW r
    PROVE  LET w == VersionsFrom(v, r)
           IN /\ VersionSetShape(w) /\ w.version = v.version
              /\ w.next_file_number = r.next + 1
              /\ w.manifest_file_number = v.manifest_file_number
              /\ w.last_sequence = SequenceFrom(v, r.tables)
              /\ w.file_to_compact = v.file_to_compact
              /\ w.log_number = v.log_number
<1> DEFINE n == r.next + 1
           s == SequenceFrom(v, r.tables)
           w == VersionsFrom(v, r)
<1>1. w = [v EXCEPT !.next_file_number = n, !.last_sequence = s]
  BY DEF VersionsFrom
<1> HIDE DEF n, s, w
<1>2. /\ VersionSetShape(w) /\ w.version = v.version
      /\ w.next_file_number = n /\ w.manifest_file_number = v.manifest_file_number
      /\ w.last_sequence = s /\ w.file_to_compact = v.file_to_compact
      /\ w.log_number = v.log_number
  <2>1. PICK a, b, c, d, l, p, f :
           v = [version |-> a, next_file_number |-> b, manifest_file_number |-> c,
                last_sequence |-> d, log_number |-> l, compact_pointer |-> p,
                file_to_compact |-> f]
    BY DEF VersionSetShape
  <2>2. w = [version |-> a, next_file_number |-> n, manifest_file_number |-> c,
             last_sequence |-> s, log_number |-> l, compact_pointer |-> p,
             file_to_compact |-> f]
    BY <1>1, <2>1
  <2> QED
    BY <2>1, <2>2 DEF VersionSetShape
<1> QED
  BY <1>2 DEF n, s, w

(* After Recover the database is being opened: the tables of the logs      *)
(* exist, and the edit names them.                                         *)
LEMMA SomethingRecovered ==
    ASSUME DBInv, phase = "closed", disk.current # 0, UNCHANGED Untouched,
           disk.manifests[disk.current].records # <<>>,
           NEW v, NEW r, NEW w, RecoverSomething(v, r, w)
    PROVE  DBInv'
<1> DEFINE c == disk.current
           m == disk.manifests[c]
           b == v.manifest_file_number
<1>1. /\ DiskTyped(disk) /\ c \in Nat /\ c \in DOMAIN disk.manifests
      /\ ManifestSound(m, c, disk.tables) /\ m.records # <<>>
      /\ DOMAIN disk.tables \subseteq Nat
  BY DEF DBInv, DiskSound, DiskTyped
<1>2. /\ v = RecoveredVersions(m.records) /\ r = LogsFrom(v) /\ w = VersionsFrom(v, r)
      /\ phase' = "recovered" /\ DiskRecovered(disk', r.tables, r.next)
      /\ vs' = w /\ logfile_number' = r.next /\ mem' = {}
      /\ bg' = [bg EXCEPT !.edit = {WithNumbers(w, LogsEdit(r.tables, r.next))}]
  BY DEF RecoverSomething
<1> HIDE DEF m, c
<1>3. /\ VersionSetShape(v) /\ v.file_to_compact = {}
      /\ b \in Nat /\ c < b /\ v.next_file_number = b + 1 /\ v.last_sequence \in Nat
      /\ VersionSound(v.version, disk.tables, b)
      /\ m.records[Len(m.records)].next_file = b
  BY <1>1, <1>2, ManifestRecovered
<1> DEFINE k == b + 1
<1>4. k \in Nat /\ v.next_file_number = k /\ b <= k /\ b < k
  BY <1>3
<1> HIDE DEF b
<1>5. /\ r.next \in Nat /\ k <= r.next
      /\ DOMAIN r.tables \subseteq Nat /\ IsFiniteSet(DOMAIN r.tables)
      /\ r.tables \in [DOMAIN r.tables -> Contents]
      /\ \A n \in DOMAIN r.tables : k <= n /\ n < r.next
      /\ SequenceFrom(v, r.tables) \in Nat
  <2> HIDE DEF k
  <2>1. v.next_file_number \in Nat
    BY <1>4
  <2> QED
    BY <1>1, <1>2, <1>3, <1>4, <2>1, LogsGiveTables
<1> HIDE DEF k
<1>6. /\ VersionSetShape(w) /\ w.version = v.version
      /\ w.next_file_number = r.next + 1 /\ w.manifest_file_number = b
      /\ w.last_sequence \in Nat /\ w.file_to_compact = {}
  <2>1. /\ VersionSetShape(w) /\ w.version = v.version
        /\ w.next_file_number = r.next + 1
        /\ w.manifest_file_number = v.manifest_file_number
        /\ w.last_sequence = SequenceFrom(v, r.tables)
        /\ w.file_to_compact = v.file_to_compact
    <3>1. VersionSetShape(v) /\ w = VersionsFrom(v, r)
      BY <1>2, <1>3
    <3> QED
      BY <3>1, VersionsFromShape
  <2> QED
    BY <1>3, <1>5, <2>1 DEF b
<1>7. /\ DiskTyped(disk') /\ disk'.current = c /\ disk'.manifests = disk.manifests
      /\ Grown(disk.tables, disk'.tables, k)
      /\ \A n \in DOMAIN r.tables : n \in DOMAIN disk'.tables /\ disk'.tables[n] = r.tables[n]
  <2> DEFINE d == disk'
             t == r.tables
             l == r.next
  <2>1. DiskRecovered(d, t, l) /\ l \in Nat /\ DOMAIN t \subseteq Nat
        /\ t \in [DOMAIN t -> Contents] /\ \A n \in DOMAIN t : k <= n
    BY <1>2, <1>5
  <2> HIDE DEF d, t, l
  <2>2. /\ DiskTyped(d) /\ d.current = disk.current /\ d.manifests = disk.manifests
        /\ Grown(disk.tables, d.tables, k)
        /\ \A n \in DOMAIN t : n \in DOMAIN d.tables /\ d.tables[n] = t[n]
    BY <1>1, <1>4, <2>1, RecoveredDisk
  <2> QED
    BY <2>2 DEF d, t, c
<1> DEFINE N == r.next + 1
<1>8. N \in Nat /\ b <= N /\ b \in 1..(N - 1) /\ c # b /\ \A n \in DOMAIN r.tables : n < N
  <2>1. \A n \in DOMAIN r.tables : n \in Nat /\ n < r.next
    BY <1>5
  <2>2. b \in Nat /\ c \in Nat /\ c < b /\ r.next \in Nat /\ b < k /\ k <= r.next /\ k \in Nat
    BY <1>1, <1>3, <1>4, <1>5 DEF b
  <2> QED
    BY <2>1, <2>2
<1>9. w.next_file_number = N
  BY <1>6
<1> HIDE DEF N
<1>10. VersionSound(w.version, disk'.tables, N)
  <2> DEFINE t1 == disk.tables
             t2 == disk'.tables
             x == w.version
  <2>1. DOMAIN t1 \subseteq Nat /\ Grown(t1, t2, k) /\ VersionSound(x, t1, b)
        /\ b \in Nat /\ N \in Nat /\ k \in Nat /\ b <= k /\ b <= N
    BY <1>1, <1>3, <1>4, <1>6, <1>7, <1>8 DEF b
  <2> HIDE DEF t1, t2, x
  <2>2. VersionSound(x, t2, N)
    BY <2>1, VersionGrown
  <2> QED
    BY <2>2 DEF t2, x
<1>11. VersionSetSound(vs, disk.tables)'
  <2>1. b \in Nat
    BY <1>3 DEF b
  <2>2. vs' = w
    BY <1>2
  <2> QED
    BY <1>6, <1>8, <1>9, <1>10, <2>1, <2>2 DEF VersionSetSound
<1>12. ManifestSound(m, c, disk'.tables)
  <2> DEFINE t1 == disk.tables
             t2 == disk'.tables
  <2>1. DOMAIN t1 \subseteq Nat /\ Grown(t1, t2, k) /\ ManifestSound(m, c, t1) /\ k \in Nat
        /\ m.records[Len(m.records)].next_file <= k
    BY <1>1, <1>3, <1>4, <1>7 DEF b
  <2> HIDE DEF t1, t2
  <2>2. ManifestSound(m, c, t2)
    BY <2>1, ManifestGrown
  <2> QED
    BY <2>2 DEF t2
<1>13. DiskSound'
  <2>1. disk'.manifests[disk'.current] = m /\ disk'.current \in DOMAIN disk'.manifests
    BY <1>1, <1>7 DEF m
  <2> QED
    BY <1>7, <1>12, <2>1 DEF DiskSound
<1> DEFINE e == WithNumbers(w, LogsEdit(r.tables, r.next))
<1>14. EditSound(e, disk'.tables) /\ e.next_file = N
  <2> DEFINE t == r.tables
             l == r.next
             g == disk'.tables
  <2>1. /\ IsFiniteSet(DOMAIN t) /\ DOMAIN t \subseteq Nat
        /\ \A n \in DOMAIN t : n \in DOMAIN g /\ g[n] = t[n]
        /\ w.next_file_number \in Nat /\ w.last_sequence \in Nat
        /\ \A n \in DOMAIN t : n < w.next_file_number
    BY <1>5, <1>6, <1>7, <1>8, <1>9
  <2> HIDE DEF t, l, g
  <2>2. /\ EditSound(WithNumbers(w, LogsEdit(t, l)), g)
        /\ WithNumbers(w, LogsEdit(t, l)).next_file = w.next_file_number
    BY <2>1, RecoveredEdit
  <2> QED
    BY <1>9, <2>2 DEF t, l, g
<1>15. Quiescent /\ bg = Idle
  BY DEF DBInv, PhaseSound
<1>16. bg' = [pc |-> "idle", number |-> 0, job |-> {}, edit |-> {e}]
  BY <1>2, <1>15 DEF Idle
<1> HIDE DEF e
<1>17. Quiescent'
  BY <1>15, <1>16 DEF Quiescent, Untouched
<1>18. BgEditSound' /\ The(bg'.edit).next_file = vs'.next_file_number
  <2>1. bg'.edit = {e} /\ The(bg'.edit) = e
    BY <1>16 DEF The
  <2>2. e.next_file <= N
    BY <1>8, <1>14
  <2>3. vs'.next_file_number = N
    BY <1>2, <1>9
  <2> QED
    BY <1>14, <2>1, <2>2, <2>3 DEF BgEditSound
<1>19. Opened'
  <2>1. vs'.manifest_file_number = b /\ vs'.next_file_number = N
    BY <1>2, <1>6, <1>9
  <2>2. disk'.current # 0 /\ disk'.current # b
    BY <1>7, <1>8 DEF c
  <2> QED
    BY <1>2, <1>8, <1>17, <1>18, <2>1, <2>2 DEF Opened
<1>20. PhaseSound'
  BY <1>2, <1>19 DEF PhaseSound
<1>21. ClientsTyped'
  <2>1. {} \in KeySets
    BY FS_EmptySet DEF KeySets
  <2> QED
    BY <1>2, <2>1 DEF DBInv, ClientsTyped, Untouched
<1> QED
  BY <1>11, <1>13, <1>16, <1>17, <1>20, <1>21, QuietStep

(* Recover keeps the invariant. *)
LEMMA RecoverKeeps ==
    ASSUME DBInv, Recover
    PROVE  DBInv'
BY RecoverSplits, NothingRecovered, SomethingRecovered

(* The manifest of a database that was created and closed. *)
LEMMA CreatedSound ==
    ASSUME NEW tables, DOMAIN tables \subseteq Nat, tables \in [DOMAIN tables -> Contents],
           NEW e, e = [NoEdit EXCEPT !.log_number = 3, !.next_file = 4],
           NEW m, m = [records |-> <<NoEdit, e>>, synced |-> 2]
    PROVE  ManifestSound(m, 2, tables)
<1> DEFINE r == <<NoEdit, e>>
           w == SaveTo(EmptyVersion, {}, {})
           n == NoEdit
<1>1. n.deleted = {} /\ n.added = {}
  BY DEF NoEdit
<1>2. e.next_file = 4 /\ e.last_sequence = 0 /\ e.deleted = {} /\ e.added = {}
  BY DEF NoEdit
<1>3. m.records = r /\ m.synced = 2 /\ m = [records |-> m.records, synced |-> m.synced]
  OBVIOUS
<1>4. Len(r) = 2 /\ r[2] = e /\ Append(<<n>>, e) = r
  BY TwoInSeq
<1> HIDE DEF n, r
<1>5. IsSeq(<<n>>) /\ VersionSetShape(Replayed(<<n>>)) /\ Replayed(<<n>>).version = w
  BY <1>1, OneReplayed
<1>6. IsSeq(r) /\ Replayed(r) = Apply(Replayed(<<n>>), e)
  BY <1>4, <1>5, ReplayedMore
<1>7. Replayed(r).version = SaveTo(w, {}, {})
  <2> DEFINE u == Replayed(<<n>>)
  <2>1. Replayed(r) = Apply(u, e) /\ VersionSetShape(u) /\ u.version = w
    BY <1>5, <1>6
  <2> HIDE DEF u, w
  <2>2. Apply(u, e).version = SaveTo(u.version, e.deleted, e.added)
    BY <2>1, ApplyShape
  <2> QED
    BY <1>2, <2>1, <2>2
<1>8. After(m, 2) = SaveTo(w, {}, {})
  BY <1>3, <1>4, <1>6, <1>7, FirstParts DEF After
<1>9. VersionSound(SaveTo(w, {}, {}), tables, 4)
  <2>1. IsFiniteSet({}) /\ VersionSound(EmptyVersion, tables, 4)
    BY FS_EmptySet, EmptySound
  <2>2. VersionSound(w, tables, 4)
    BY <2>1, SaveToSound
  <2> HIDE DEF w
  <2> QED
    BY <2>1, <2>2, SaveToSound
<1>10. ManifestTyped(m)
  BY <1>3, <1>4, <1>6 DEF ManifestTyped
<1>11. RecordSound(m, 2, 2, tables)
  <2>1. m.records[2] = e /\ Len(m.records) = 2
    BY <1>3, <1>4
  <2>2. m.records[2].next_file = 4 /\ m.records[2].last_sequence = 0
    BY <1>2, <2>1
  <2>3. VersionSound(After(m, 2), tables, 4)
    BY <1>8, <1>9
  <2> HIDE DEF w
  <2> QED
    BY <2>1, <2>2, <2>3 DEF RecordSound
<1>12. \A k \in 1..2 : 2 <= k => k = 2
  OBVIOUS
<1>13. Len(m.records) = 2 /\ m.synced = 2
  BY <1>3, <1>4
<1> QED
  BY <1>10, <1>11, <1>12, <1>13 DEF ManifestSound

(* Such a directory is sound, and so is an empty one. *)
LEMMA DiskBegins ==
    ASSUME NEW d, d = CreatedDisk \/ d = NoDisk
    PROVE  /\ DiskTyped(d)
           /\ d.current # 0 => /\ d.current \in DOMAIN d.manifests
                               /\ ManifestSound(d.manifests[d.current], d.current, d.tables)
<1> DEFINE none == <<>>
<1>1. /\ IsFiniteSet(DOMAIN none) /\ DOMAIN none \subseteq Nat
      /\ none \in [DOMAIN none -> LogFiles] /\ none \in [DOMAIN none -> Contents]
      /\ none = [n \in DOMAIN none |-> none[n]]
  <2>1. DOMAIN none = {}
    OBVIOUS
  <2> QED
    BY <2>1, FS_EmptySet
<1>2. CASE d = NoDisk
  <2>1. d = [logs |-> none, tables |-> none, current |-> 0, manifests |-> none]
    BY <1>2 DEF NoDisk
  <2> HIDE DEF none
  <2>2. d.logs = none /\ d.tables = none /\ d.current = 0 /\ d.manifests = none
        /\ d = [logs |-> d.logs, tables |-> d.tables, current |-> d.current,
                manifests |-> d.manifests]
    BY <2>1
  <2> QED
    BY <1>1, <2>2 DEF DiskTyped
<1>3. CASE d = CreatedDisk
  <2> DEFINE e == [NoEdit EXCEPT !.log_number = 3, !.next_file = 4]
             m == [records |-> <<NoEdit, e>>, synced |-> 2]
             l == With(none, 3, EmptyFile)
             ms == With(none, 2, m)
  <2>1. d = [logs |-> l, tables |-> none, current |-> 2, manifests |-> ms]
    BY <1>3 DEF CreatedDisk
  <2>2. l = With(none, 3, EmptyFile)
    OBVIOUS
  <2>3. ms = [n \in DOMAIN ms |-> ms[n]] /\ 2 \in DOMAIN ms /\ ms[2] = m
    BY DEF With
  <2> HIDE DEF l, ms, none
  <2>4. IsFiniteSet(DOMAIN l) /\ DOMAIN l \subseteq Nat /\ l \in [DOMAIN l -> LogFiles]
    BY <1>1, <2>2, FileAdded
  <2>5. d.logs = l /\ d.tables = none /\ d.current = 2 /\ d.manifests = ms
        /\ d = [logs |-> d.logs, tables |-> d.tables, current |-> d.current,
                manifests |-> d.manifests]
    BY <2>1
  <2>6. ManifestSound(m, 2, none)
    <3> DEFINE w == m
               x == e
    <3>1. x = [NoEdit EXCEPT !.log_number = 3, !.next_file = 4]
          /\ w = [records |-> <<NoEdit, x>>, synced |-> 2]
      OBVIOUS
    <3> HIDE DEF w, x
    <3>2. ManifestSound(w, 2, none)
      BY <1>1, <3>1, CreatedSound
    <3> QED
      BY <3>2 DEF w
  <2> HIDE DEF m
  <2>7. DiskTyped(d)
    BY <1>1, <2>3, <2>4, <2>5 DEF DiskTyped
  <2> QED
    BY <2>3, <2>5, <2>6, <2>7
<1> QED
  BY <1>2, <1>3

(* The invariant holds in the beginning. *)
LEMMA DBBegins ==
    ASSUME Init
    PROVE  DBInv
<1>1. /\ todo \in Scenarios /\ disk = (IF todo.created THEN CreatedDisk ELSE NoDisk)
      /\ vs = NewVersionSet /\ mem = {} /\ imm = {}
      /\ pending_outputs = {} /\ bg_error = FALSE
      /\ writers = <<>> /\ writing = {} /\ readers = [r \in Readers |-> {}]
      /\ bg = Idle /\ background_compaction_scheduled = FALSE /\ manual = {}
      /\ phase = "closed"
  BY DEF Init
<1>2. disk = CreatedDisk \/ disk = NoDisk
  BY <1>1
<1>3. DiskSound
  BY <1>2, DiskBegins DEF DiskSound
<1>4. bg = [pc |-> "idle", number |-> 0, job |-> {}, edit |-> {}]
  BY <1>1 DEF Idle
<1>5. Quiescent
  BY <1>1, <1>4 DEF Quiescent
<1>6. PhaseSound
  BY <1>1, <1>5 DEF PhaseSound
<1>7. ClientsTyped
  <2>1. {} \in KeySets
    BY FS_EmptySet DEF KeySets
  <2>2. todo \in ScenarioType
    BY <1>1, ScenariosAssumption
  <2> QED
    BY <1>1, <2>1, <2>2 DEF ClientsTyped
<1>8. VersionSetSound(vs, disk.tables)
  BY <1>1, NothingKnown
<1>9. ReadersSound
  BY <1>1 DEF ReadersSound
<1>10. BackgroundSound
  BY <1>4 DEF BackgroundSound
<1> QED
  BY <1>3, <1>6, <1>7, <1>8, <1>9, <1>10 DEF DBInv

-----------------------------------------------------------------------------
(* It holds while nothing happens. *)
LEMMA DBStutters ==
    ASSUME DBInv, UNCHANGED vars
    PROVE  DBInv'
<1>1. UNCHANGED <<disk, vs, mem, imm, pending_outputs, bg_error, writers, writing, readers, bg,
                  background_compaction_scheduled, manual, phase, todo>>
  BY DEF vars, memory
<1>2. ClientsTyped'
  BY <1>1 DEF DBInv, ClientsTyped
<1>3. DiskSound' /\ VersionSetSound(vs, disk.tables)' /\ ReadersSound'
  BY <1>1 DEF DBInv, DiskSound, ReadersSound
<1>4. BackgroundSound'
  BY <1>1 DEF DBInv, BackgroundSound, Building, BgEditSound
<1>5. Quiescent' = Quiescent /\ Running' = Running
  BY <1>1 DEF Quiescent, Running
<1>6. Opened' = Opened
  BY <1>1, <1>5 DEF Opened, BgEditSound, Described
<1>7. PhaseSound'
  BY <1>1, <1>5, <1>6 DEF DBInv, PhaseSound
<1> QED
  BY <1>2, <1>3, <1>4, <1>7 DEF DBInv

(* Every step keeps it. *)
LEMMA DBKept ==
    ASSUME DBInv, [Next]_vars
    PROVE  DBInv'
<1>1. CASE Opening
  BY <1>1, NewDBKeeps, RecoverKeeps, WriteNewManifestKeeps, SetCurrentFileKeeps, FinishOpenKeeps
     DEF Opening
<1>2. CASE WriteSteps
  BY <1>2, BeginWriteKeeps, FailWriteKeeps, AddRecordKeeps, FinishWriteKeeps DEF WriteSteps
<1>3. CASE Background
  BY <1>3, BeginMemTableKeeps, FinishBuildKeeps, BeginCompactionKeeps, IdleCallKeeps,
     OpenOutputsKeeps, FinishCompactionWorkKeeps, WriteEditKeeps, InstallEditKeeps,
     AbortCompactionKeeps DEF Background
<1>4. CASE Faults
  BY <1>4, FailSyncKeeps, FailAddRecordKeeps, FailEditKeeps, CrashKeeps DEF Faults
<1>5. CASE Clients
  BY <1>5, WriteKeeps, BeginReadKeeps, EndReadKeeps, GetSnapshotKeeps, ReleaseSnapshotKeeps,
     PostManualKeeps, CancelManualKeeps, CloseKeeps, FinishCloseKeeps DEF Clients
<1>6. CASE UNCHANGED vars
  BY <1>6, DBStutters
<1> QED
  BY <1>1, <1>2, <1>3, <1>4, <1>5, <1>6 DEF Next

(* The invariant: the manifest that CURRENT names, each of its unsynced    *)
(* continuations, the current version, the versions of the readers and the *)
(* inputs and outputs of the compactions name tables that exist, hold what *)
(* is said of them, and have numbers that were given out; the edit that is *)
(* being written leads from the manifest's version to the next.            *)
THEOREM DBInvariant == Spec => []DBInv
<1>1. Init => DBInv
  BY DBBegins
<1>2. DBInv /\ [Next]_vars => DBInv'
  BY DBKept
<1> QED
  BY <1>1, <1>2, PTL DEF Spec

(* What the invariant says of the versions that somebody holds. *)
LEMMA PinnedSound ==
    ASSUME DBInv
    PROVE  PinnedTablesExist
<1>1. ASSUME NEW v \in (ReaderVersions \cup VersionsOf(bg.job)) \cup {vs.version}
      PROVE  VersionSound(v, disk.tables, vs.next_file_number)
  <2>1. CASE v = vs.version
    BY <2>1 DEF DBInv, VersionSetSound
  <2>2. CASE v \in ReaderVersions
    <3>1. PICK r \in Readers : \E p \in readers[r] : v = p.version
      BY <2>2 DEF ReaderVersions
    <3> QED
      BY <3>1 DEF DBInv, ReadersSound
  <2>3. CASE v \in VersionsOf(bg.job)
    <3>1. PICK j \in bg.job : v = j.c.version
      BY <2>3 DEF VersionsOf
    <3>2. JobSound(j, disk.tables, vs.next_file_number, pending_outputs)
      BY DEF DBInv, BackgroundSound
    <3> QED
      BY <3>1, <3>2 DEF JobSound, CompactionSound
  <2> QED
    BY <1>1, <2>1, <2>2, <2>3
<1>2. ASSUME NEW v \in (ReaderVersions \cup VersionsOf(bg.job)) \cup {vs.version},
             NEW f \in FilesOf(v)
      PROVE  f.number \in DOMAIN disk.tables
  <2>1. VersionSound(v, disk.tables, vs.next_file_number)
    BY <1>1
  <2>2. MetaSound(f, disk.tables, vs.next_file_number)
    BY <2>1, VersionFiles
  <2> QED
    BY <2>2 DEF MetaSound
<1> QED
  BY <1>2 DEF PinnedTablesExist, LiveFiles

(* DeleteObsoleteFiles deletes no table of a version that the database, a  *)
(* reader or a compaction still uses, for any number of threads, levels and*)
(* entries: they read without the mutex and find every table.              *)
THEOREM DBPinned == Spec => []PinnedTablesExist
<1>1. DBInv => PinnedTablesExist
  BY PinnedSound
<1> QED
  BY <1>1, DBInvariant, PTL

-----------------------------------------------------------------------------
(* Most steps leave the manifests alone, and write tables, if any, with    *)
(* new numbers and while the version stays what it is.                     *)
SameBounds == todo'.created = todo.created /\ todo'.crashes = todo.crashes

Ordinary ==
    /\ disk'.current = disk.current /\ disk'.manifests = disk.manifests
    /\ \/ disk'.tables = disk.tables
       \/ vs'.version = vs.version /\ Grown(disk.tables, disk'.tables, vs.next_file_number)
    /\ SameBounds
    /\ phase' = "corrupt" => phase = "corrupt"

(* What clients ask for reaches the disk only in other steps. *)
LEMMA ClientsOrdinary ==
    ASSUME DBInv, Clients
    PROVE  Ordinary
<1>1. todo \in ScenarioType
  BY DEF DBInv, ClientsTyped
<1>2. CASE \E t \in Threads : Write(t)
  BY <1>1, <1>2 DEF Write, ScenarioType, Ordinary, SameBounds
<1>3. CASE \E r \in Readers : BeginRead(r)
  BY <1>1, <1>3 DEF BeginRead, ScenarioType, Ordinary, SameBounds
<1>4. CASE \E r \in Readers : EndRead(r)
  BY <1>4 DEF EndRead, Ordinary, SameBounds
<1>5. CASE GetSnapshot
  BY <1>1, <1>5 DEF GetSnapshot, ScenarioType, Ordinary, SameBounds
<1>6. CASE \E s \in snapshots : ReleaseSnapshot(s)
  BY <1>6 DEF ReleaseSnapshot, Ordinary, SameBounds
<1>7. CASE PostManual
  BY <1>1, <1>7 DEF PostManual, ScenarioType, Ordinary, SameBounds
<1>8. CASE CancelManual
  BY <1>8 DEF CancelManual, Ordinary, SameBounds
<1>9. CASE Close
  BY <1>1, <1>9 DEF Close, ScenarioType, Ordinary, SameBounds
<1>10. CASE FinishClose
  BY <1>10 DEF FinishClose, Forget, Ordinary, SameBounds
<1> QED
  BY <1>2, <1>3, <1>4, <1>5, <1>6, <1>7, <1>8, <1>9, <1>10 DEF Clients

(* Writes reach the log and the memtable only. *)
LEMMA WritesOrdinary ==
    ASSUME DBInv, WriteSteps \/ FailSync \/ FailAddRecord
    PROVE  Ordinary
<1>1. todo \in ScenarioType
  BY DEF DBInv, ClientsTyped
<1>2. CASE BeginWrite
  <2>1. MakeRoomForWrite /\ UNCHANGED <<phase, todo>>
    BY <1>2 DEF BeginWrite
  <2>2. phase \in {"open", "closing", "dead"}
    BY <1>2, Active DEF BeginWrite, Quiescent
  <2> QED
    BY <2>1, <2>2, RoomMade DEF Ordinary, SameBounds
<1>3. CASE FailWrite
  BY <1>3 DEF FailWrite, Ordinary, SameBounds
<1>4. CASE AddRecord
  <2>1. PICK w \in writing :
           /\ disk' = [disk EXCEPT !.logs[logfile_number].records = Append(@, w.record)]
           /\ UNCHANGED <<phase, todo>>
    BY <1>4 DEF AddRecord
  <2>2. w.record \in Seq(Keys)
    BY DEF DBInv, ClientsTyped
  <2> QED
    BY <2>1, <2>2, LogAppended DEF Ordinary, SameBounds
<1>5. CASE FinishWrite
  <2>1. /\ disk' = IF ~writers[1].sync THEN disk
                   ELSE [disk EXCEPT !.logs[logfile_number].synced =
                                         Len(disk.logs[logfile_number].records)]
        /\ UNCHANGED <<phase, todo>>
    BY <1>5 DEF FinishWrite, EndGroup
  <2> QED
    BY <2>1, LogSynced DEF Ordinary, SameBounds
<1>6. CASE FailSync
  BY <1>1, <1>6 DEF FailSync, EndGroup, ScenarioType, Ordinary, SameBounds
<1>7. CASE FailAddRecord
  <2>1. /\ disk' = [disk EXCEPT !.logs[logfile_number].records = Append(@, <<>>)]
        /\ phase' = phase /\ todo' = [todo EXCEPT !.faults = @ \ {"append"}]
    BY <1>7 DEF FailAddRecord, EndGroup
  <2>2. SameBounds
    BY <1>1, <2>1 DEF ScenarioType, SameBounds
  <2> DEFINE none == <<>>
  <2>3. none \in Seq(Keys) /\ disk' = [disk EXCEPT !.logs[logfile_number].records = Append(@, none)]
    BY <2>1
  <2> HIDE DEF none
  <2> QED
    BY <2>1, <2>2, <2>3, LogAppended DEF Ordinary
<1> QED
  BY <1>2, <1>3, <1>4, <1>5, <1>6, <1>7 DEF WriteSteps

(* Compactions write tables with new numbers. *)
LEMMA MemTableOrdinary ==
    ASSUME DBInv, BeginMemTable
    PROVE  Ordinary
<1> DEFINE n == vs.next_file_number
           g == With(disk.tables, n, The(imm))
<1>1. /\ imm # {} /\ vs' = [vs EXCEPT !.next_file_number = @ + 1]
      /\ disk' = IF imm = {{}} THEN disk ELSE [disk EXCEPT !.tables = g]
      /\ phase' = phase /\ todo' = todo
  BY DEF BeginMemTable, BgUnchanged
<1>2. CASE imm = {{}}
  BY <1>1, <1>2 DEF Ordinary, SameBounds
<1>3. CASE imm # {{}}
  <2>1. The(imm) \in Contents
    BY <1>1, <1>3 DEF DBInv, ClientsTyped, Contents
  <2>2. /\ DOMAIN disk.tables \subseteq Nat /\ disk.tables \in [DOMAIN disk.tables -> Contents]
        /\ n \in Nat
    BY VersionsAre DEF DBInv, DiskSound, DiskTyped
  <2>3. DOMAIN g \subseteq Nat /\ g \in [DOMAIN g -> Contents] /\ Grown(disk.tables, g, n)
    BY <2>1, <2>2, TableAdded
  <2>4. disk' = [disk EXCEPT !.tables = g]
    BY <1>1, <1>3
  <2> DEFINE k == n + 1
  <2>5. vs'.version = vs.version
    <3>1. vs' = [vs EXCEPT !.next_file_number = k] /\ k \in Nat /\ vs.next_file_number <= k
      BY <1>1, <2>2
    <3> HIDE DEF k
    <3> QED
      BY <3>1, NumberTaken
  <2> HIDE DEF g
  <2>6. /\ disk'.current = disk.current /\ disk'.manifests = disk.manifests /\ disk'.tables = g
    BY <2>3, <2>4, TablesWritten
  <2> QED
    BY <1>1, <2>3, <2>5, <2>6 DEF Ordinary, SameBounds
<1> QED
  BY <1>2, <1>3

(* The outputs of a compaction have new numbers too. *)
LEMMA OutputsOrdinary ==
    ASSUME DBInv, OpenOutputs
    PROVE  Ordinary
<1> DEFINE n == vs.next_file_number
<1>1. PICK j \in bg.job :
        LET tables == CompactionOutputs(j.c, disk.tables, j.smallest_snapshot)
            new == [i \in n..(n + Len(tables) - 1) |-> tables[i - n + 1]]
        IN /\ vs' = [vs EXCEPT !.next_file_number = n + Len(tables)]
           /\ disk' = [disk EXCEPT !.tables = Over(new, @)]
           /\ phase' = phase /\ todo' = todo
  BY DEF OpenOutputs, BgUnchanged
<1> DEFINE tables == CompactionOutputs(j.c, disk.tables, j.smallest_snapshot)
           size == Len(tables)
           new == [i \in n..(n + size - 1) |-> tables[i - n + 1]]
           f == disk.tables
           g == Over(new, f)
           k == n + size
<1>2. vs' = [vs EXCEPT !.next_file_number = k] /\ disk' = [disk EXCEPT !.tables = g]
      /\ phase' = phase /\ todo' = todo
  BY <1>1
<1>3. DOMAIN f \subseteq Nat /\ f \in [DOMAIN f -> Contents] /\ n \in Nat
  BY VersionsAre DEF DBInv, DiskSound, DiskTyped
<1>4. tables \in Seq(Contents)
  <2>1. CompactionSound(j.c, disk.tables, n)
    BY DEF DBInv, BackgroundSound, JobSound
  <2> QED
    BY <1>3, <2>1, OutputsTyped
<1> HIDE DEF tables
<1>5. size \in Nat /\ DOMAIN tables = 1..size /\ \A i \in 1..size : tables[i] \in Contents
  BY <1>4, LenProperties
<1> HIDE DEF n, size
<1>6. k \in Nat /\ n <= k
  BY <1>3, <1>5
<1>7. \A i \in n..(n + size - 1) : i \in Nat /\ n <= i /\ i - n + 1 \in 1..size
  BY <1>3, <1>5
<1>8. DOMAIN new \subseteq Nat /\ new \in [DOMAIN new -> Contents] /\ \A i \in DOMAIN new : n <= i
  BY <1>5, <1>7
<1> HIDE DEF new, k, f
<1>9. DOMAIN g \subseteq Nat /\ g \in [DOMAIN g -> Contents] /\ Grown(f, g, n)
  BY <1>3, <1>8, TablesAdded
<1> HIDE DEF g
<1>10. disk'.current = disk.current /\ disk'.manifests = disk.manifests /\ disk'.tables = g
  BY <1>2, <1>9, TablesWritten
<1>11. vs'.version = vs.version
  BY <1>2, <1>6, NumberTaken DEF n
<1> QED
  BY <1>2, <1>9, <1>10, <1>11 DEF Ordinary, SameBounds, f, n

(* The background thread's other steps touch no file, but for the two that *)
(* write the manifest.                                                     *)
LEMMA BackgroundOrdinary ==
    ASSUME DBInv, Background \/ FailEdit
    PROVE  Ordinary \/ WriteEdit \/ InstallEdit
<1>1. todo \in ScenarioType
  BY DEF DBInv, ClientsTyped
<1>2. ASSUME NEW job, NEW ok, EndOfCall(job, ok)
      PROVE  phase' = "corrupt" => phase = "corrupt"
  BY <1>2 DEF EndOfCall
<1>3. AfterMemTable => (phase' = "corrupt" => phase = "corrupt")
  BY <1>2 DEF AfterMemTable
<1>4. CASE FinishBuild
  BY <1>3, <1>4 DEF FinishBuild, Ordinary, SameBounds
<1>5. CASE BeginCompaction
  BY <1>5 DEF BeginCompaction, BgUnchanged, Ordinary, SameBounds
<1>6. CASE IdleCall
  <2>1. UNCHANGED <<disk, todo>> /\ \E job, ok : EndOfCall(job, ok)
    BY <1>6 DEF IdleCall
  <2> QED
    BY <1>2, <2>1 DEF Ordinary, SameBounds
<1>7. CASE FinishCompactionWork
  BY <1>7 DEF FinishCompactionWork, BgUnchanged, Ordinary, SameBounds
<1>8. CASE AbortCompaction
  BY <1>2, <1>8 DEF AbortCompaction, Ordinary, SameBounds
<1>9. CASE FailEdit
  <2>1. UNCHANGED disk /\ todo' = [todo EXCEPT !.faults = @ \ {"manifest"}]
        /\ (AfterMemTable \/ \E job, ok : EndOfCall(job, ok))
    BY <1>9 DEF FailEdit
  <2> QED
    BY <1>1, <1>2, <1>3, <2>1 DEF ScenarioType, Ordinary, SameBounds
<1> QED
  BY <1>4, <1>5, <1>6, <1>7, <1>8, <1>9, MemTableOrdinary, OutputsOrdinary DEF Background

-----------------------------------------------------------------------------
(* Recover writes tables with numbers that no version has.                 *)
LEMMA RecoveredTables ==
    ASSUME DBInv, disk.current # 0, disk.manifests[disk.current].records # <<>>,
           NEW v, NEW r, NEW w, RecoverSomething(v, r, w)
    PROVE  /\ {v.manifest_file_number, v.next_file_number} \subseteq Nat
           /\ v.manifest_file_number <= v.next_file_number
           /\ VersionSound(v.version, disk.tables, v.manifest_file_number)
           /\ w.version = v.version
           /\ disk'.current = disk.current /\ disk'.manifests = disk.manifests
           /\ Grown(disk.tables, disk'.tables, v.next_file_number)
<1> DEFINE c == disk.current
           m == disk.manifests[c]
           b == v.manifest_file_number
           k == v.next_file_number
<1>1. /\ DiskTyped(disk) /\ c \in Nat /\ c \in DOMAIN disk.manifests
      /\ ManifestSound(m, c, disk.tables) /\ m.records # <<>>
  BY DEF DBInv, DiskSound, DiskTyped
<1>2. /\ v = RecoveredVersions(m.records) /\ r = LogsFrom(v) /\ w = VersionsFrom(v, r)
      /\ DiskRecovered(disk', r.tables, r.next)
  BY DEF RecoverSomething
<1> HIDE DEF m, c
<1>3. /\ VersionSetShape(v) /\ b \in Nat /\ k = b + 1 /\ v.last_sequence \in Nat
      /\ VersionSound(v.version, disk.tables, b)
  BY <1>1, <1>2, ManifestRecovered
<1>4. b \in Nat /\ k \in Nat /\ b <= k
  BY <1>3
<1> HIDE DEF b, k
<1>5. /\ r.next \in Nat /\ DOMAIN r.tables \subseteq Nat
      /\ r.tables \in [DOMAIN r.tables -> Contents]
      /\ \A n \in DOMAIN r.tables : k <= n
  BY <1>1, <1>2, <1>3, <1>4, LogsGiveTables DEF k
<1>6. w.version = v.version
  <2>1. VersionSetShape(v) /\ w = VersionsFrom(v, r)
    BY <1>2, <1>3
  <2> QED
    BY <2>1, VersionsFromShape
<1>7. /\ disk'.current = c /\ disk'.manifests = disk.manifests
      /\ Grown(disk.tables, disk'.tables, k)
  <2> DEFINE d == disk'
             t == r.tables
             l == r.next
  <2>1. DiskRecovered(d, t, l) /\ l \in Nat /\ DOMAIN t \subseteq Nat
        /\ t \in [DOMAIN t -> Contents] /\ \A n \in DOMAIN t : k <= n
    BY <1>2, <1>5
  <2> HIDE DEF d, t, l
  <2>2. /\ d.current = disk.current /\ d.manifests = disk.manifests
        /\ Grown(disk.tables, d.tables, k)
    BY <1>1, <1>4, <2>1, RecoveredDisk
  <2> QED
    BY <2>2 DEF d, c
<1> QED
  BY <1>3, <1>4, <1>6, <1>7 DEF b, k, c

(* What TablesImmutable says of one step. *)
Immutable ==
    \A n \in (LiveFiles(vs, ReaderVersions) \cup LiveFiles(vs', {}))
                 \cap DOMAIN disk.tables \cap DOMAIN disk'.tables :
        disk'.tables[n] = disk.tables[n]

(* Deleting tables changes none. *)
LEMMA DeletedImmutable ==
    ASSUME \A n \in DOMAIN disk'.tables :
              n \in DOMAIN disk.tables => disk'.tables[n] = disk.tables[n]
    PROVE  Immutable
BY DEF Immutable

(* Such steps write over no table of a version. *)
LEMMA OrdinaryImmutable ==
    ASSUME DBInv, Ordinary
    PROVE  Immutable
<1>1. CASE disk'.tables = disk.tables
  BY <1>1, DeletedImmutable
<1>2. CASE vs'.version = vs.version /\ Grown(disk.tables, disk'.tables, vs.next_file_number)
  <2>1. ASSUME NEW v \in ReaderVersions \cup {vs.version}, NEW f \in FilesOf(v)
        PROVE  f.number < vs.next_file_number
    <3>1. VersionSound(v, disk.tables, vs.next_file_number)
      <4>1. CASE v = vs.version
        BY <4>1 DEF DBInv, VersionSetSound
      <4>2. CASE v \in ReaderVersions
        <5>1. PICK r \in Readers : \E p \in readers[r] : v = p.version
          BY <4>2 DEF ReaderVersions
        <5> QED
          BY <5>1 DEF DBInv, ReadersSound
      <4> QED
        BY <2>1, <4>1, <4>2
    <3> QED
      BY <3>1, VersionFiles DEF MetaSound
  <2>2. \A n \in LiveFiles(vs, ReaderVersions) \cup LiveFiles(vs', {}) : n < vs.next_file_number
    BY <1>2, <2>1 DEF LiveFiles
  <2> QED
    BY <1>2, <2>2 DEF Immutable, Grown
<1> QED
  BY <1>1, <1>2 DEF Ordinary

(* Recover does not, since no version has the numbers of its tables. *)
LEMMA RecoverImmutable ==
    ASSUME DBInv, Recover
    PROVE  Immutable
<1>1. CASE RecoverNothing
  BY <1>1, DeletedImmutable DEF RecoverNothing
<1>2. ASSUME disk.manifests[disk.current].records # <<>>,
             NEW v, NEW r, NEW w, RecoverSomething(v, r, w)
      PROVE  Immutable
  <2> DEFINE b == v.manifest_file_number
             k == v.next_file_number
  <2>1. /\ {b, k} \subseteq Nat /\ b <= k
        /\ VersionSound(v.version, disk.tables, b) /\ w.version = v.version
        /\ Grown(disk.tables, disk'.tables, k)
    BY <1>2, RecoverSplits, RecoveredTables
  <2>2. LiveFiles(vs, ReaderVersions) = {}
    <3>1. Quiescent /\ vs = NewVersionSet
      BY RecoverSplits DEF DBInv, PhaseSound
    <3>2. vs.version = EmptyVersion /\ ReaderVersions = {}
      BY <3>1 DEF NewVersionSet, Quiescent, ReaderVersions
    <3> QED
      BY <3>2, EmptySound DEF LiveFiles
  <2>3. \A f \in FilesOf(v.version) : f.number \in DOMAIN disk.tables /\ f.number < b
    BY <2>1, VersionFiles DEF MetaSound
  <2>4. vs' = w
    BY <1>2 DEF RecoverSomething
  <2>5. \A n \in LiveFiles(vs', {}) : n \in DOMAIN disk.tables /\ n < b
    BY <2>1, <2>3, <2>4 DEF LiveFiles
  <2>6. DOMAIN disk.tables \subseteq Nat
    BY DEF DBInv, DiskSound, DiskTyped
  <2> HIDE DEF b, k
  <2>7. \A n \in LiveFiles(vs', {}) : n \in DOMAIN disk.tables /\ n < k
    BY <2>1, <2>5, <2>6
  <2> QED
    BY <2>1, <2>2, <2>7 DEF Immutable, Grown
<1> QED
  BY <1>1, <1>2, RecoverSplits

(* And the others write no table. *)
LEMMA FilesImmutable ==
    ASSUME DBInv, NewDB \/ WriteNewManifest \/ SetCurrentFile \/ FinishOpen
                    \/ WriteEdit \/ InstallEdit \/ Crash
    PROVE  Immutable
<1>1. DiskTyped(disk)
  BY DEF DBInv, DiskSound
<1>2. CASE NewDB
  BY <1>1, <1>2, DeletedImmutable DEF NewDB, DiskTyped
<1>3. CASE WriteNewManifest
  BY <1>1, <1>3, DeletedImmutable DEF WriteNewManifest, DiskTyped
<1>4. CASE SetCurrentFile
  BY <1>1, <1>4, DeletedImmutable DEF SetCurrentFile, DiskTyped
<1>5. CASE FinishOpen
  BY <1>1, <1>5, ObsoleteDeleted, DeletedImmutable DEF FinishOpen
<1>6. CASE WriteEdit
  <2> DEFINE c == vs.manifest_file_number
             x == [disk.manifests[c] EXCEPT !.records = Append(@, The(bg.edit))]
  <2>1. disk' = [disk EXCEPT !.manifests[c] = x]
    BY <1>6 DEF WriteEdit
  <2> HIDE DEF c, x
  <2> QED
    BY <2>1, ManifestReplaced, DeletedImmutable
<1>7. CASE InstallEdit
  <2> DEFINE c == vs.manifest_file_number
             x == [disk.manifests[c] EXCEPT !.synced = Len(disk.manifests[c].records)]
             synced == [disk EXCEPT !.manifests[c] = x]
  <2>1. disk' = synced \/ \E v, live : disk' = DeleteObsoleteFiles(synced, v, live)
    BY <1>7 DEF InstallEdit
  <2> HIDE DEF c, x
  <2>2. DiskTyped(synced) /\ synced.tables = disk.tables
    BY ManifestReplaced
  <2> HIDE DEF synced
  <2> QED
    BY <2>1, <2>2, ObsoleteDeleted, DeletedImmutable
<1>8. CASE Crash
  <2>1. PICK l, m : disk' = [disk EXCEPT !.logs = l, !.manifests = m]
    BY <1>8 DEF Crash
  <2>2. disk'.tables = disk.tables
    BY <1>1, <2>1 DEF DiskTyped
  <2> QED
    BY <2>2, DeletedImmutable
<1> QED
  BY <1>2, <1>3, <1>4, <1>5, <1>6, <1>7, <1>8

(* So no step writes over a table. *)
LEMMA StepImmutable ==
    ASSUME DBInv, [Next]_vars
    PROVE  Immutable
<1>1. CASE Opening
  BY <1>1, FilesImmutable, RecoverImmutable DEF Opening
<1>2. CASE WriteSteps
  BY <1>2, WritesOrdinary, OrdinaryImmutable
<1>3. CASE Background
  BY <1>3, BackgroundOrdinary, OrdinaryImmutable, FilesImmutable
<1>4. CASE Faults
  BY <1>4, WritesOrdinary, BackgroundOrdinary, OrdinaryImmutable, FilesImmutable DEF Faults
<1>5. CASE Clients
  BY <1>5, ClientsOrdinary, OrdinaryImmutable
<1>6. CASE UNCHANGED vars
  BY <1>6, DeletedImmutable DEF vars
<1> QED
  BY <1>1, <1>2, <1>3, <1>4, <1>5, <1>6 DEF Next

(* A table that is part of a version, of this process or of the next, is   *)
(* never written again: neither the numbers of Recover, nor those of a     *)
(* memtable or of a compaction's outputs are used twice, whatever was lost *)
(* in a crash.                                                             *)
THEOREM DBImmutable == Spec => TablesImmutable
<1>1. DBInv /\ [Next]_vars => [Immutable]_vars
  BY StepImmutable
<1> QED
  BY <1>1, DBInvariant, PTL DEF Spec, TablesImmutable, Immutable

-----------------------------------------------------------------------------
(* A step that leaves the manifests alone leaves the database recoverable. *)
LEMMA OrdinaryOpens ==
    ASSUME Opens, Ordinary
    PROVE  Opens'
BY DEF Opens, Ordinary, SameBounds

(* Recover finds a record and all tables of the version. *)
LEMMA RecoverFinds ==
    ASSUME DBInv, Opens, Recover
    PROVE  phase' # "corrupt"
<1> DEFINE c == disk.current
           m == disk.manifests[c]
           v == RecoveredVersions(m.records)
<1>1. c # 0 /\ c \in Nat /\ ManifestSound(m, c, disk.tables) /\ m.records # <<>>
  BY DEF Recover, DBInv, DiskSound, DiskTyped, Opens
<1> HIDE DEF v
<1>2. VersionSound(v.version, disk.tables, v.manifest_file_number)
  <2> HIDE DEF m, c
  <2> QED
    BY <1>1, ManifestRecovered DEF v
<1>3. LiveFiles(v, {}) \subseteq DOMAIN disk.tables
  BY <1>2, VersionFiles DEF LiveFiles, MetaSound
<1>4. IF m.records = <<>> \/ ~LiveFiles(v, {}) \subseteq DOMAIN disk.tables
      THEN TRUE ELSE phase' = "recovered"
  BY DEF Recover, v
<1> QED
  BY <1>1, <1>3, <1>4

(* And leaves the manifests alone. *)
LEMMA RecoverOpens ==
    ASSUME DBInv, Opens, Recover
    PROVE  Opens'
<1>1. /\ todo' = todo /\ disk.manifests[disk.current].records # <<>> /\ disk.current # 0
      /\ phase' # "corrupt"
  BY RecoverSplits, RecoverFinds DEF Untouched, Opens
<1>2. PICK v, r, w : RecoverSomething(v, r, w)
  BY <1>1, RecoverSplits DEF RecoverNothing
<1>3. disk'.current = disk.current /\ disk'.manifests = disk.manifests
  BY <1>1, <1>2, RecoveredTables
<1> QED
  BY <1>1, <1>3 DEF Opens

(* The other steps of Open: the manifest CURRENT names always has a record. *)
LEMMA OpeningOpens ==
    ASSUME DBInv, Opens, NewDB \/ WriteNewManifest \/ SetCurrentFile \/ FinishOpen
    PROVE  Opens'
<1>1. DiskTyped(disk)
  BY DEF DBInv, DiskSound
<1>2. CASE NewDB
  <2> DEFINE m == [records |-> <<NewDBEdit>>, synced |-> 0]
             ms == With(<<>>, 1, m)
  <2>1. /\ disk' = [disk EXCEPT !.manifests = ms, !.current = 1]
        /\ disk.current = 0 /\ UNCHANGED <<todo, phase>>
    BY <1>2 DEF NewDB
  <2>2. ms[1].records # <<>>
    BY DEF With
  <2> HIDE DEF ms
  <2>3. disk'.manifests = ms /\ disk'.current = 1
    BY <1>1, <2>1 DEF DiskTyped
  <2> QED
    BY <2>1, <2>2, <2>3 DEF Opens
<1>3. CASE WriteNewManifest
  <2> DEFINE n == vs.manifest_file_number
             ms == With(disk.manifests, n, Described)
  <2>1. /\ phase = "recovered" /\ phase' = "described" /\ todo' = todo
        /\ disk' = [disk EXCEPT !.manifests = ms]
    BY <1>3 DEF WriteNewManifest, Described, OpenUnchanged
  <2>2. Opened /\ disk.current # n /\ disk.current # 0
    BY <2>1 DEF DBInv, PhaseSound, Opened
  <2>3. /\ ms = [k \in DOMAIN ms |-> ms[k]]
        /\ disk.current \in DOMAIN disk.manifests => ms[disk.current] = disk.manifests[disk.current]
    BY <2>2 DEF With
  <2> HIDE DEF ms
  <2>4. disk'.manifests = ms /\ disk'.current = disk.current
    BY <2>1, <2>3, ManifestsWritten
  <2>5. disk.current \in DOMAIN disk.manifests
    BY <2>2 DEF DBInv, DiskSound
  <2> QED
    BY <2>1, <2>3, <2>4, <2>5 DEF Opens
<1>4. CASE SetCurrentFile
  <2> DEFINE n == vs.manifest_file_number
             m == [records |-> Described.records, synced |-> 2]
  <2>1. phase = "described" /\ phase' = "current" /\ todo' = todo /\ SyncedAndCurrent(disk')
    BY <1>4 DEF SetCurrentFile, SyncedAndCurrent, OpenUnchanged
  <2>2. /\ n \in DOMAIN disk.manifests /\ disk.manifests[n] = Described
        /\ n \in 1..(vs.next_file_number - 1)
    BY <2>1 DEF DBInv, PhaseSound, Opened
  <2>3. n \in Nat /\ n # 0
    BY <2>2, VersionsAre
  <2>4. disk'.current = n /\ disk'.manifests[n] = m
    BY <2>1, <2>2, <2>3, CurrentSet
  <2>5. m.records # <<>> /\ m.synced # 0
    BY DEF Described
  <2> HIDE DEF m
  <2> QED
    BY <2>1, <2>3, <2>4, <2>5 DEF Opens
<1>5. CASE FinishOpen
  <2> DEFINE v == vs'
             d == disk'
  <2>1. phase = "current" /\ phase' = "open" /\ todo' = todo /\ OpenInstalls(v, d)
    BY <1>5 DEF FinishOpen, OpenInstalls, OpenUnchanged
  <2> HIDE DEF v, d
  <2>2. /\ d.current = disk.current
        /\ d.manifests[d.current] = disk.manifests[disk.current]
    BY <2>1, OpenKeepsVersion
  <2> QED
    BY <2>1, <2>2 DEF Opens, d
<1> QED
  BY <1>2, <1>3, <1>4, <1>5

(* An edit is appended, and later synced. *)
LEMMA EditsOpen ==
    ASSUME DBInv, Opens, WriteEdit \/ InstallEdit
    PROVE  Opens'
<1> DEFINE c == disk.current
           m == disk.manifests[c]
           e == The(bg.edit)
           n == Len(m.records)
<1>1. phase \in {"open", "closing", "dead"} /\ Running
  BY Active DEF WriteEdit, InstallEdit, Quiescent
<1>2. c = vs.manifest_file_number /\ c # 0 /\ m.records # <<>>
  BY <1>1 DEF Running
<1>3. ManifestSound(m, c, disk.tables) /\ ManifestTyped(m) /\ c \in DOMAIN disk.manifests
  BY <1>2 DEF DBInv, DiskSound, ManifestSound
<1>4. CASE WriteEdit
  <2> DEFINE r == Append(m.records, e)
             h == [m EXCEPT !.records = r]
  <2>1. disk' = [disk EXCEPT !.manifests[c] = h] /\ UNCHANGED <<phase, todo>>
    BY <1>2, <1>4 DEF WriteEdit, BgUnchanged
  <2>2. h.records # <<>> /\ h.synced = m.synced
    <3> DEFINE s == m.records
    <3>1. IsSeq(s) /\ h = [records |-> r, synced |-> m.synced]
      BY <1>3, ManifestIs DEF ManifestTyped
    <3> HIDE DEF s, m
    <3> DEFINE T == ToSet(s) \cup {e}
    <3>2. s \in Seq(T) /\ e \in T
      BY <3>1 DEF IsSeq
    <3> HIDE DEF T, e
    <3>3. Append(s, e) # <<>>
      BY <3>2, AppendProperties
    <3> QED
      BY <3>1, <3>3 DEF s
  <2> HIDE DEF h
  <2>3. disk'.current = c /\ disk'.manifests[c] = h
    BY <1>3, <2>1, ManifestReplaced
  <2> QED
    BY <1>1, <1>2, <2>1, <2>2, <2>3 DEF Opens
<1>5. CASE InstallEdit
  <2> DEFINE synced == [disk EXCEPT !.manifests[c].synced = n]
  <2>1. /\ \/ disk' = synced
           \/ \E live : disk' = DeleteObsoleteFiles(synced, vs', live)
        /\ todo' = todo /\ vs' = Installed(vs, e)
        /\ AfterMemTable \/ \E job, ok : EndOfCall(job, ok)
    BY <1>2, <1>5 DEF InstallEdit
  <2>2. phase' # "corrupt"
    BY <1>1, <2>1 DEF AfterMemTable, EndOfCall
  <2>3. /\ n \in Nat \ {0} /\ DiskTyped(synced) /\ synced.current = c
        /\ c \in DOMAIN synced.manifests
        /\ synced.manifests[c] = [records |-> m.records, synced |-> n]
    BY <1>1, ManifestSynced DEF CurrentSynced
  <2>4. vs'.manifest_file_number = c /\ c \in Nat
    <3> HIDE DEF e
    <3>1. Installed(vs, e).manifest_file_number = vs.manifest_file_number
      BY VersionsAre, InstalledShape
    <3> QED
      BY <1>2, <2>1, <3>1 DEF DBInv, DiskSound, DiskTyped
  <2> HIDE DEF synced
  <2>5. disk'.current = c /\ disk'.manifests[c] = [records |-> m.records, synced |-> n]
    <3>1. CASE disk' = synced
      BY <2>3, <3>1
    <3>2. CASE \E live : disk' = DeleteObsoleteFiles(synced, vs', live)
      <4>1. PICK live : disk' = DeleteObsoleteFiles(synced, vs', live)
        BY <3>2
      <4> DEFINE v == vs'
                 d == disk'
      <4>2. d = DeleteObsoleteFiles(synced, v, live) /\ ~(c < v.manifest_file_number)
        BY <2>4, <4>1
      <4> HIDE DEF v, d
      <4>3. /\ d.current = synced.current
            /\ \A k \in DOMAIN synced.manifests : ~(k < v.manifest_file_number) =>
                  k \in DOMAIN d.manifests /\ d.manifests[k] = synced.manifests[k]
        BY <2>3, <4>2, ObsoleteDeleted
      <4> QED
        BY <2>3, <4>2, <4>3 DEF d
    <3> QED
      BY <2>1, <3>1, <3>2
  <2> HIDE DEF n
  <2>6. disk'.manifests[c].records # <<>> /\ disk'.manifests[c].synced # 0
    BY <1>2, <2>3, <2>5
  <2> QED
    BY <1>2, <2>1, <2>2, <2>5, <2>6 DEF Opens
<1> QED
  BY <1>4, <1>5

(* A crash leaves what was synced, which is something. *)
LEMMA CrashOpens ==
    ASSUME DBInv, Opens, Crash
    PROVE  Opens'
<1>1. PICK kl \in Survivors(disk.logs), km \in Survivors(disk.manifests) :
         disk' = [disk EXCEPT !.logs = Survives(disk.logs, kl),
                              !.manifests = Survives(disk.manifests, km)]
  BY DEF Crash
<1> DEFINE c == disk.current
           m == disk.manifests[c]
           l == Survives(disk.logs, kl)
           ms == Survives(disk.manifests, km)
           k == km[c]
<1>2. todo' = [todo EXCEPT !.crashes = @ - 1] /\ todo.crashes > 0 /\ phase' = "closed"
  BY DEF Crash, Forget
<1>3. todo.created /\ todo'.created
  <2>1. todo \in ScenarioType
    BY DEF DBInv, ClientsTyped
  <2> QED
    BY <1>2, <2>1 DEF Opens, ScenarioType
<1>4. c # 0 /\ m.synced # 0
  BY <1>3 DEF Opens
<1>5. c \in DOMAIN disk.manifests /\ ManifestTyped(m)
  BY <1>4 DEF DBInv, DiskSound, ManifestSound
<1>6. k \in m.synced..Len(m.records)
  BY <1>5, SurvivorsKept
<1>7. ms[c] = [records |-> SubSeq(m.records, 1, k), synced |-> k]
  BY <1>5 DEF Survives
<1> HIDE DEF ms, l
<1>8. disk'.manifests = ms /\ disk'.current = c
  <2>1. DiskTyped(disk)
    BY DEF DBInv, DiskSound
  <2>2. disk' = [disk EXCEPT !.logs = l, !.manifests = ms]
    BY <1>1 DEF l, ms
  <2> QED
    BY <2>1, <2>2 DEF DiskTyped
<1>9. k # 0 /\ SubSeq(m.records, 1, k) # <<>>
  <2> DEFINE s == m.records
  <2>1. IsSeq(s) /\ m.synced \in Nat /\ k \in 1..Len(s)
    BY <1>4, <1>5, <1>6, FirstParts DEF ManifestTyped
  <2> HIDE DEF s, k
  <2>2. k # 0 /\ k \in 0..Len(s)
    BY <2>1, FirstParts
  <2>3. Len(SubSeq(s, 1, k)) = k
    BY <2>1, <2>2, FirstParts
  <2> QED
    BY <2>2, <2>3 DEF s
<1> HIDE DEF m, k
<1> DEFINE q == SubSeq(m.records, 1, k)
           d == disk'
<1>10. ms[c] = [records |-> q, synced |-> k] /\ k # 0 /\ q # <<>>
       /\ d.current = c /\ d.manifests = ms
  BY <1>7, <1>8, <1>9
<1> HIDE DEF q, d, c
<1>11. d.manifests[d.current].records # <<>> /\ d.manifests[d.current].synced # 0
       /\ d.current # 0
  BY <1>4, <1>10
<1> QED
  BY <1>2, <1>3, <1>11 DEF Opens, d

(* So every step leaves the database recoverable. *)
LEMMA StepOpens ==
    ASSUME DBInv, Opens, [Next]_vars
    PROVE  Opens'
<1>1. CASE Opening
  BY <1>1, OpeningOpens, RecoverOpens DEF Opening
<1>2. CASE WriteSteps
  BY <1>2, WritesOrdinary, OrdinaryOpens
<1>3. CASE Background
  BY <1>3, BackgroundOrdinary, OrdinaryOpens, EditsOpen
<1>4. CASE Faults
  BY <1>4, WritesOrdinary, BackgroundOrdinary, OrdinaryOpens, EditsOpen, CrashOpens DEF Faults
<1>5. CASE Clients
  BY <1>5, ClientsOrdinary, OrdinaryOpens
<1>6. CASE UNCHANGED vars
  BY <1>6 DEF vars, Opens
<1> QED
  BY <1>1, <1>2, <1>3, <1>4, <1>5, <1>6 DEF Next

(* It is so in the beginning. *)
LEMMA OpensBegins ==
    ASSUME Init, todo.created \/ todo.crashes = 0
    PROVE  Opens
<1>1. /\ phase = "closed" /\ disk = (IF todo.created THEN CreatedDisk ELSE NoDisk)
      /\ todo \in ScenarioType
  BY ScenariosAssumption DEF Init
<1>2. CreatedDisk.current = 2 /\ CreatedDisk.manifests[2].records # <<>>
      /\ CreatedDisk.manifests[2].synced # 0
  BY DEF CreatedDisk, With
<1>3. NoDisk.current = 0
  BY DEF NoDisk
<1> QED
  BY <1>1, <1>2, <1>3 DEF Opens

(* Open never finds the database corrupt, whatever a crash at whatever time*)
(* left of logs and manifests, unless it was while the database was being  *)
(* created: NewDB does not sync its manifest, so that a crash then may     *)
(* leave CURRENT naming an empty one.                                      *)
THEOREM DBRecovers ==
    ASSUME \A s \in Scenarios : s.created \/ s.crashes = 0
    PROVE  Spec => []Recoverable
<1>1. Init => Opens
  BY OpensBegins DEF Init
<1>2. DBInv /\ Opens /\ [Next]_vars => Opens'
  BY StepOpens
<1>3. Opens => Recoverable
  BY DEF Opens, Recoverable
<1> QED
  BY <1>1, <1>2, <1>3, DBInvariant, PTL DEF Spec
=============================================================================
