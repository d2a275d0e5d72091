---------------------------- MODULE PromiseProofs ---------------------------
(***************************************************************************)
(* What DB promises its callers: batches take effect whole and in order,   *)
(* none is taken back while the process is up, and those of synced writes  *)
(* survive crashes, failed syncs and failed manifests.  The one thing that *)
(* breaks the promise is an append to the log that fails half-way, so that *)
(* the theorems are about scenarios without it (AppendsWhole).             *)
(***************************************************************************)
EXTENDS DBProofs

-----------------------------------------------------------------------------
(* The invariant: no two groups, in a log or in what the database stands   *)
(* for, share a sequence number; what a manifest says of logs and numbers, *)
(* up to any record a crash may leave, accounts for all of them; and the   *)
(* promised ones are synced.                                               *)

(* No entry of a group has a number above last. *)
Below(group, last) == \A e \in group : e.seq \in 0..last

(* The groups in the logs from first on. *)
LoggedIn(logs, first) == UNION {Groups(logs[n].records) : n \in {m \in DOMAIN logs : m >= first}}

Apart(groups) == \A b, c \in groups : b # c => \A x \in b, y \in c : x.seq # y.seq

(* With first as the oldest log that is replayed and last as the greatest  *)
(* number that was used, nothing is forgotten and no number used again.    *)
Carries(logs, groups, first, last) ==
    /\ \A n \in DOMAIN logs : n < first => \A g \in Groups(logs[n].records) : Below(g, last)
    /\ \A g \in groups : Below(g, last) \/ g \in LoggedIn(logs, first)

(* What the first k records of a manifest say of the logs. *)
FirstLog(m, k) == IF k = 0 THEN 0 ELSE m.records[k].log_number
LastNumber(m, k) == IF k = 0 THEN 0 ELSE m.records[k].last_sequence

ManifestCarries(m, k, logs, groups) ==
    /\ FirstLog(m, k) \in Nat /\ (k > 0 => FirstLog(m, k) < m.records[k].next_file)
    /\ Carries(logs, groups, FirstLog(m, k), LastNumber(m, k))

(* A log has no torn record, and the promised groups in it are synced. *)
LogSafe(f, kept) ==
    /\ f.synced <= Len(f.records) /\ \A i \in 1..Len(f.records) : f.records[i] # <<>>
    /\ Groups(f.records) \cap kept \subseteq Groups(SubSeq(f.records, 1, f.synced))

LogsSafe ==
    /\ \A n \in DOMAIN disk.logs : LogSafe(disk.logs[n], promised)
    /\ Apart(written \cup LoggedIn(disk.logs, 0))
    /\ promised \subseteq written

ManifestSays ==
    IF disk.current = 0 THEN written = {}
    ELSE LET m == disk.manifests[disk.current]
         IN \A k \in m.synced..Len(m.records) : ManifestCarries(m, k, disk.logs, written)

(* The group that is being written, once it is in the log. *)
Underway(writes) == {ToSet(w.record) : w \in {x \in writes : x.logged}}

(* It gets the next numbers. *)
WriteSound(w, last) ==
    /\ w.record # <<>>
    /\ \A e \in ToSet(w.record) : last < e.seq /\ e.seq <= last + Len(w.record)
    /\ w.logged => ToSet(w.record) \in Groups(disk.logs[logfile_number].records)

Used(logs, groups, underway, log, last) ==
    /\ \A g \in groups : Below(g, last)
    /\ \A n \in DOMAIN logs : \A g \in Groups(logs[n].records) :
          Below(g, last) \/ (n = log /\ g \in underway)

NumbersGoOn ==
    /\ logfile_number \in DOMAIN disk.logs
    /\ \A n \in DOMAIN disk.logs : n < vs.next_file_number
    /\ Used(disk.logs, written, Underway(writing), logfile_number, vs.last_sequence)

WritersSound ==
    /\ \A w \in writing : WriteSound(w, vs.last_sequence) /\ writing = {w}
    /\ writing # {} => writers # <<>>
    /\ writers # <<>> => phase \in {"open", "dead"}

(* Recover's edit begins with the new log, which is empty. *)
EditOpens ==
    LET e == The(bg.edit)
    IN e.log_number = logfile_number /\ e.last_sequence = vs.last_sequence
       /\ e.log_number < e.next_file

EditCarries(e) ==
    /\ e.log_number \in Nat /\ e.log_number <= logfile_number /\ e.log_number < e.next_file
    /\ Carries(disk.logs, written, e.log_number, e.last_sequence)

(* While the database is open, no log before the current one is replayed   *)
(* needlessly, and the current one is.                                     *)
LogsGoOn ==
    LET m == disk.manifests[disk.current]
    IN /\ vs.log_number \in Nat /\ vs.log_number <= logfile_number
       /\ \A k \in m.synced..Len(m.records) : FirstLog(m, k) <= logfile_number
       /\ bg.pc \in {"logging", "logged"} => EditCarries(The(bg.edit))

PromiseInv ==
    /\ LogsSafe /\ ManifestSays
    /\ phase \notin {"closed", "corrupt"} => NumbersGoOn
    /\ WritersSound
    /\ phase \in {"recovered", "described", "current"} => EditOpens
    /\ phase \in {"open", "closing", "dead"} => LogsGoOn
    /\ "append" \notin todo.faults

-----------------------------------------------------------------------------
(* Groups of entries in logs.                                              *)

(* A group of a log is what a record of it holds, if that is anything. *)
LEMMA InGroups ==
    ASSUME NEW r \in Seq(Seq(Keys)), NEW g
    PROVE  g \in Groups(r) <=> g # {} /\ \E i \in 1..Len(r) : g = ToSet(r[i])
<1>1. DOMAIN r = 1..Len(r)
  BY LenProperties
<1>2. ToSet(r) = {r[i] : i \in 1..Len(r)}
  BY <1>1 DEF ToSet
<1>3. Groups(r) = {ToSet(x) : x \in ToSet(r)} \ {{}}
  BY DEF Groups
<1> QED
  BY <1>2, <1>3

(* Its entries are keys. *)
LEMMA GroupsTyped ==
    ASSUME NEW r \in Seq(Seq(Keys)), NEW g \in Groups(r)
    PROVE  g # {} /\ \A e \in g : e \in Keys /\ e.seq \in Nat
<1>1. PICK i \in 1..Len(r) : g = ToSet(r[i])
  BY InGroups
<1>2. r[i] \in Seq(Keys)
  OBVIOUS
<1>3. g \subseteq Keys
  BY <1>1, <1>2, SeqOfItsSet
<1>4. \A e \in Keys : e.seq \in Nat
  BY DEF Keys
<1> QED
  BY <1>3, <1>4, InGroups

(* Appending a record adds its group. *)
LEMMA GroupAppended ==
    ASSUME NEW r \in Seq(Seq(Keys)), NEW x \in Seq(Keys)
    PROVE  Groups(Append(r, x)) = Groups(r) \cup ({ToSet(x)} \ {{}})
<1> DEFINE a == Append(r, x)
           n == Len(r)
<1>1. /\ a \in Seq(Seq(Keys)) /\ Len(a) = n + 1 /\ n \in Nat
      /\ \A i \in 1..n : a[i] = r[i]
      /\ a[n + 1] = x
  BY AppendProperties, LenProperties
<1> HIDE DEF a, n
<1>2. \A i \in 1..(n + 1) : i \in 1..n \/ i = n + 1
  BY <1>1
<1>3. \A i \in 1..n : i \in 1..(n + 1)
  BY <1>1
<1>4. n + 1 \in 1..(n + 1)
  BY <1>1
<1>5. ASSUME NEW g PROVE g \in Groups(a) <=> g \in Groups(r) \cup ({ToSet(x)} \ {{}})
  <2>1. g \in Groups(a) <=> g # {} /\ \E i \in 1..(n + 1) : g = ToSet(a[i])
    BY <1>1, InGroups
  <2>2. g \in Groups(r) <=> g # {} /\ \E i \in 1..n : g = ToSet(r[i])
    BY InGroups DEF n
  <2>3. (\E i \in 1..(n + 1) : g = ToSet(a[i])) <=> (\E i \in 1..n : g = ToSet(r[i])) \/ g = ToSet(x)
    BY <1>1, <1>2, <1>3, <1>4
  <2> QED
    BY <2>1, <2>2, <2>3
<1>6. Groups(a) = Groups(r) \cup ({ToSet(x)} \ {{}})
  BY <1>5
<1> QED
  BY <1>6 DEF a

(* The first records of a log are records of it; more of them have more    *)
(* groups, all of them all.                                                *)
LEMMA GroupsOfPart ==
    ASSUME NEW r \in Seq(Seq(Keys)), NEW k \in 0..Len(r)
    PROVE  /\ SubSeq(r, 1, k) \in Seq(Seq(Keys)) /\ Len(SubSeq(r, 1, k)) = k
           /\ \A i \in 1..k : SubSeq(r, 1, k)[i] = r[i]
           /\ Groups(SubSeq(r, 1, k)) \subseteq Groups(r)
           /\ \A j \in 0..k : /\ Groups(SubSeq(r, 1, j)) \subseteq Groups(SubSeq(r, 1, k))
                              /\ SubSeq(SubSeq(r, 1, k), 1, j) = SubSeq(r, 1, j)
           /\ SubSeq(r, 1, Len(r)) = r
<1> DEFINE n == Len(r)
<1>1. n \in Nat
  BY LenProperties
<1>2. ASSUME NEW j \in 0..n
      PROVE  /\ SubSeq(r, 1, j) \in Seq(Seq(Keys)) /\ Len(SubSeq(r, 1, j)) = j
             /\ \A i \in 1..j : SubSeq(r, 1, j)[i] = r[i]
  BY <1>1, SubSeqProperties
<1>3. ASSUME NEW i \in 0..n, NEW j \in 0..i, NEW g \in Groups(SubSeq(r, 1, j))
      PROVE  g \in Groups(SubSeq(r, 1, i))
  <2> DEFINE a == SubSeq(r, 1, j)
             b == SubSeq(r, 1, i)
  <2>1. j \in 0..n
    BY <1>1
  <2>2. /\ a \in Seq(Seq(Keys)) /\ Len(a) = j /\ \A h \in 1..j : a[h] = r[h]
        /\ b \in Seq(Seq(Keys)) /\ Len(b) = i /\ \A h \in 1..i : b[h] = r[h]
    BY <1>2, <2>1
  <2>3. (\A h \in 1..j : h \in 1..i) /\ g \in Groups(a)
    BY <1>1
  <2> HIDE DEF a, b
  <2>7. g # {} /\ \E h \in 1..Len(a) : g = ToSet(a[h])
    BY <2>2, <2>3, InGroups
  <2>4. PICK h \in 1..j : g # {} /\ g = ToSet(a[h])
    BY <2>2, <2>7
  <2>5. g = ToSet(b[h]) /\ h \in 1..i
    BY <2>2, <2>3, <2>4
  <2>6. g \in Groups(b)
    BY <2>2, <2>4, <2>5, InGroups
  <2> QED
    BY <2>6 DEF b
<1>4. SubSeq(r, 1, n) = r
  BY <1>1
<1>5. ASSUME NEW j \in 0..k PROVE SubSeq(SubSeq(r, 1, k), 1, j) = SubSeq(r, 1, j)
  <2> DEFINE a == SubSeq(r, 1, k)
             b == SubSeq(a, 1, j)
             c == SubSeq(r, 1, j)
  <2>1. j \in 0..n /\ k \in Nat
    BY <1>1
  <2>2. /\ a \in Seq(Seq(Keys)) /\ Len(a) = k /\ \A h \in 1..k : a[h] = r[h]
        /\ c \in Seq(Seq(Keys)) /\ Len(c) = j /\ \A h \in 1..j : c[h] = r[h]
    BY <1>2, <2>1
  <2> HIDE DEF a, c
  <2>3. b \in Seq(Seq(Keys)) /\ Len(b) = j /\ \A h \in 1..j : b[h] = a[h]
    BY <2>1, <2>2, SubSeqProperties
  <2>4. \A h \in 1..j : h \in 1..k
    BY <2>1
  <2> HIDE DEF b
  <2>5. \A h \in 1..Len(b) : b[h] = c[h]
    BY <2>2, <2>3, <2>4
  <2>6. b = c
    BY <2>2, <2>3, <2>5, SeqEqual
  <2> QED
    BY <2>6 DEF a, b, c
<1>6. k \in 0..k /\ n \in 0..n /\ k \in 0..n
  BY <1>1
<1>7. \A j \in 0..k : Groups(SubSeq(r, 1, j)) \subseteq Groups(SubSeq(r, 1, k))
  BY <1>3, <1>6
<1>8. Groups(SubSeq(r, 1, k)) \subseteq Groups(SubSeq(r, 1, n))
  BY <1>3, <1>6
<1> QED
  BY <1>2, <1>4, <1>5, <1>6, <1>7, <1>8

(* A log without a torn record is read to its end. *)
LEMMA WholeReadable ==
    ASSUME NEW r \in Seq(Seq(Keys)), \A i \in 1..Len(r) : r[i] # <<>>
    PROVE  Readable(r) = r
<1>1. DOMAIN r = 1..Len(r)
  BY LenProperties
<1> QED
  BY <1>1 DEF Readable

(* What is logged is in a log. *)
LEMMA InLogs ==
    ASSUME NEW l, NEW f, NEW g
    PROVE  g \in LoggedIn(l, f) <=> \E n \in DOMAIN l : n >= f /\ g \in Groups(l[n].records)
BY DEF LoggedIn

(* A log has records, which are sequences of keys. *)
LEMMA LogIs ==
    ASSUME DiskTyped(disk), NEW n \in DOMAIN disk.logs
    PROVE  /\ n \in Nat /\ disk.logs[n].records \in Seq(Seq(Keys)) /\ disk.logs[n].synced \in Nat
           /\ Len(disk.logs[n].records) \in Nat
<1>1. disk.logs[n] \in LogFiles /\ n \in Nat
  BY DEF DiskTyped
<1>2. disk.logs[n].records \in Seq(Seq(Keys)) /\ disk.logs[n].synced \in Nat
  BY <1>1 DEF LogFiles
<1> QED
  BY <1>1, <1>2, LenProperties

-----------------------------------------------------------------------------
(* Numbers.                                                                *)

(* What is below a number is below a greater one. *)
LEMMA BelowMore ==
    ASSUME NEW g, NEW a \in Nat, NEW b \in Nat, a <= b, Below(g, a)
    PROVE  Below(g, b)
BY DEF Below

(* Apart is what KVStore calls consistent. *)
LEMMA ApartConsistent ==
    ASSUME NEW S, Apart(S)
    PROVE  KV!Consistent(S)
<1> SUFFICES ASSUME NEW b \in S, NEW c \in S, b # c
             PROVE  KV!Numbers({b}) \cap KV!Numbers({c}) = {}
  BY DEF KV!Consistent
<1>1. KV!Numbers({b}) = {e.seq : e \in b} /\ KV!Numbers({c}) = {e.seq : e \in c}
  BY DEF KV!Numbers
<1> QED
  BY <1>1 DEF Apart

-----------------------------------------------------------------------------
(* Steps that leave alone what was written.                                *)

SameStore ==
    /\ disk'.logs = disk.logs
    /\ disk'.current = disk.current /\ disk'.manifests = disk.manifests
    /\ UNCHANGED history

(* They keep the logs and the manifest's account of them. *)
LEMMA StoreKept ==
    ASSUME LogsSafe, ManifestSays, SameStore
    PROVE  LogsSafe' /\ ManifestSays'
BY DEF LogsSafe, ManifestSays, SameStore, history

(* The edit of a step is the one before it, or a new one with the numbers  *)
(* of now.                                                                 *)
NewEdit(e) ==
    /\ e.last_sequence = vs.last_sequence /\ e.next_file = vs.next_file_number
    /\ e.log_number \in {vs.log_number, logfile_number}

RunsOn ==
    /\ phase \in {"open", "closing", "dead"} /\ phase' \in {"open", "closing", "dead"}
    /\ UNCHANGED <<logfile_number, writing>>
    /\ vs'.last_sequence = vs.last_sequence /\ vs'.log_number = vs.log_number
    /\ vs'.next_file_number \in Nat /\ vs.next_file_number <= vs'.next_file_number
    /\ writing # {} => writers' # <<>>
    /\ writers' # <<>> => phase' \in {"open", "dead"}
    /\ bg'.pc \in {"logging", "logged"} =>
          (bg.pc \in {"logging", "logged"} /\ bg'.edit = bg.edit) \/ NewEdit(The(bg'.edit))
    /\ todo'.faults \subseteq todo.faults

(* All numbers so far are accounted for by the last one and a log that is  *)
(* not after the current one.                                              *)
LEMMA UsedCarries ==
    ASSUME NEW l, DOMAIN l \subseteq Nat, NEW groups, NEW underway, NEW log \in Nat, NEW last,
           Used(l, groups, underway, log, last), NEW first \in Nat, first <= log
    PROVE  Carries(l, groups, first, last)
<1>1. ASSUME NEW n \in DOMAIN l, n < first, NEW g \in Groups(l[n].records) PROVE Below(g, last)
  <2>1. n # log
    BY <1>1
  <2> QED
    BY <2>1 DEF Used
<1> QED
  BY <1>1 DEF Used, Carries

(* So they are by a new edit. *)
LEMMA NewEditCarries ==
    ASSUME DBInv, NumbersGoOn, LogsGoOn, NEW e, NewEdit(e)
    PROVE  EditCarries(e)
<1>1. /\ DOMAIN disk.logs \subseteq Nat /\ logfile_number \in Nat /\ vs.log_number \in Nat
      /\ logfile_number < vs.next_file_number /\ vs.log_number <= logfile_number
      /\ vs.next_file_number \in Nat
  BY VersionsAre DEF DBInv, DiskSound, DiskTyped, NumbersGoOn, LogsGoOn
<1>2. e.log_number \in Nat /\ e.log_number <= logfile_number /\ e.log_number < e.next_file
  <2>1. e.log_number \in {vs.log_number, logfile_number} /\ e.next_file = vs.next_file_number
    BY DEF NewEdit
  <2> DEFINE a == e.log_number
             b == e.next_file
             c == vs.log_number
             d == vs.next_file_number
  <2>2. a \in {c, logfile_number} /\ b = d /\ c \in Nat /\ logfile_number \in Nat /\ d \in Nat
        /\ c <= logfile_number /\ logfile_number < d
    BY <1>1, <2>1
  <2> HIDE DEF a, b, c, d
  <2>3. a \in Nat /\ a <= logfile_number /\ a < b
    BY <2>2
  <2> QED
    BY <2>3 DEF a, b
<1>3. Used(disk.logs, written, Underway(writing), logfile_number, vs.last_sequence)
  BY DEF NumbersGoOn
<1>4. e.last_sequence = vs.last_sequence
  BY DEF NewEdit
<1>5. Carries(disk.logs, written, e.log_number, vs.last_sequence)
  BY <1>1, <1>2, <1>3, UsedCarries
<1> QED
  BY <1>2, <1>4, <1>5 DEF EditCarries

(* Such a step of the open database keeps the invariant. *)
LEMMA RunsOnKeeps ==
    ASSUME DBInv, PromiseInv, SameStore, RunsOn
    PROVE  PromiseInv'
<1>1. NumbersGoOn /\ LogsGoOn /\ LogsSafe /\ ManifestSays
  BY DEF PromiseInv, RunsOn
<1>2. LogsSafe' /\ ManifestSays'
  BY <1>1, StoreKept
<1>3. NumbersGoOn'
  <2>1. \A n \in DOMAIN disk.logs : n < vs'.next_file_number
    <3>1. DOMAIN disk.logs \subseteq Nat /\ vs.next_file_number \in Nat
      BY VersionsAre DEF DBInv, DiskSound, DiskTyped
    <3>2. \A n \in DOMAIN disk.logs : n \in Nat /\ n < vs.next_file_number
      BY <1>1, <3>1 DEF NumbersGoOn
    <3>3. vs'.next_file_number \in Nat /\ vs.next_file_number <= vs'.next_file_number
      BY DEF RunsOn
    <3> DEFINE a == vs.next_file_number
               b == vs'.next_file_number
               D == DOMAIN disk.logs
    <3>4. /\ a \in Nat /\ b \in Nat /\ a <= b /\ \A n \in D : n \in Nat /\ n < a
      BY <3>1, <3>2, <3>3
    <3> HIDE DEF a, b, D
    <3>5. \A n \in D : n < b
      BY <3>4
    <3> QED
      BY <3>5 DEF D, b
  <2>2. UNCHANGED <<logfile_number, writing>> /\ vs'.last_sequence = vs.last_sequence
    BY DEF RunsOn
  <2>3. disk'.logs = disk.logs /\ written' = written
    BY DEF SameStore, history
  <2>4. logfile_number' \in DOMAIN disk'.logs
    BY <1>1, <2>2, <2>3 DEF NumbersGoOn
  <2>5. Used(disk'.logs, written', Underway(writing'), logfile_number', vs'.last_sequence)
    BY <1>1, <2>2, <2>3 DEF NumbersGoOn
  <2> QED
    BY <2>1, <2>3, <2>4, <2>5 DEF NumbersGoOn
<1>4. WritersSound'
  <2>1. /\ writing' = writing /\ vs'.last_sequence = vs.last_sequence
        /\ logfile_number' = logfile_number /\ disk'.logs = disk.logs
    BY DEF RunsOn, SameStore
  <2>2. \A w \in writing : WriteSound(w, vs.last_sequence) /\ writing = {w}
    BY DEF PromiseInv, WritersSound
  <2>3. \A w \in writing' : WriteSound(w, vs.last_sequence)' /\ writing' = {w}
    BY <2>1, <2>2 DEF WriteSound
  <2> QED
    BY <2>1, <2>3 DEF RunsOn, WritersSound
<1>5. LogsGoOn'
  <2>1. /\ vs'.log_number = vs.log_number /\ logfile_number' = logfile_number
        /\ disk'.logs = disk.logs /\ written' = written
        /\ disk'.manifests = disk.manifests /\ disk'.current = disk.current
    BY DEF RunsOn, SameStore, history
  <2>2. ASSUME NEW e, EditCarries(e) PROVE EditCarries(e)'
    BY <2>1, <2>2 DEF EditCarries
  <2>3. bg'.pc \in {"logging", "logged"} => EditCarries(The(bg'.edit))
    <3>1. CASE bg.pc \in {"logging", "logged"} /\ bg'.edit = bg.edit
      BY <1>1, <3>1 DEF LogsGoOn
    <3>2. CASE NewEdit(The(bg'.edit))
      BY <1>1, <3>2, NewEditCarries
    <3> QED
      BY <3>1, <3>2 DEF RunsOn
  <2>4. bg'.pc \in {"logging", "logged"} => EditCarries(The(bg.edit))'
    BY <2>2, <2>3
  <2>5. /\ vs'.log_number \in Nat /\ vs'.log_number <= logfile_number'
        /\ LET m == disk'.manifests[disk'.current]
           IN \A k \in m.synced..Len(m.records) : FirstLog(m, k) <= logfile_number'
    BY <1>1, <2>1 DEF LogsGoOn
  <2> QED
    BY <2>4, <2>5 DEF LogsGoOn
<1>6. "append" \notin todo'.faults
  BY DEF PromiseInv, RunsOn
<1> QED
  BY <1>2, <1>3, <1>4, <1>5, <1>6 DEF PromiseInv, RunsOn

-----------------------------------------------------------------------------
(* Clients.                                                                *)

(* What a step of a client leaves of the scenario has its faults. *)
LEMMA FaultsLeft ==
    ASSUME NEW s \in ScenarioType
    PROVE  \A x : /\ [s EXCEPT !.batches = x].faults = s.faults
                  /\ [s EXCEPT !.manuals = x].faults = s.faults
                  /\ [s EXCEPT !.reads = x].faults = s.faults
                  /\ [s EXCEPT !.snapshots = x].faults = s.faults
                  /\ [s EXCEPT !.closes = x].faults = s.faults
                  /\ [s EXCEPT !.crashes = x].faults = s.faults
                  /\ [s EXCEPT !.faults = x].faults = x
BY DEF ScenarioType

(* The numbers of a version set that is not touched. *)
LEMMA SameNumbers ==
    ASSUME DBInv, vs' = vs
    PROVE  /\ vs'.last_sequence = vs.last_sequence /\ vs'.log_number = vs.log_number
           /\ vs'.next_file_number \in Nat /\ vs.next_file_number <= vs'.next_file_number
BY VersionsAre

(* Queueing a batch. *)
LEMMA WritePromises ==
    ASSUME DBInv, PromiseInv, NEW t \in Threads, Write(t)
    PROVE  PromiseInv'
<1>1. /\ phase = "open"
      /\ UNCHANGED <<disk, vs, logfile_number, writing, bg, phase, history>>
      /\ todo' = [todo EXCEPT !.batches = Tail(@)]
  BY DEF Write, memory
<1>2. writers' # <<>>
  <2> DEFINE T == [thread : Threads, batch : Seq(Nat \X {kTypeDeletion, kTypeValue}), sync : BOOLEAN]
  <2>1. writers \in Seq(T)
    BY DEF DBInv, ClientsTyped
  <2>2. PICK x : writers' = Append(writers, x)
    BY DEF Write
  <2> HIDE DEF T
  <2> QED
    BY <2>1, <2>2
<1>3. todo'.faults = todo.faults
  BY <1>1, FaultsLeft DEF DBInv, ClientsTyped
<1>4. SameStore
  BY <1>1 DEF SameStore
<1>5. RunsOn
  BY <1>1, <1>2, <1>3, SameNumbers DEF RunsOn
<1> QED
  BY <1>4, <1>5, RunsOnKeeps

(* A step of a client that touches neither the disk nor the queue. *)
LEMMA ClientPromises ==
    ASSUME DBInv, PromiseInv, phase \in {"open", "closing", "dead"},
           UNCHANGED <<disk, logfile_number, writers, writing, bg, phase, history>>,
           vs'.last_sequence = vs.last_sequence, vs'.log_number = vs.log_number,
           vs'.next_file_number = vs.next_file_number,
           todo'.faults \subseteq todo.faults
    PROVE  PromiseInv'
<1>1. SameStore
  BY DEF SameStore
<1>2. vs.next_file_number \in Nat /\ vs.next_file_number <= vs.next_file_number
  BY VersionsAre
<1>3. RunsOn
  BY <1>2 DEF RunsOn, PromiseInv, WritersSound
<1> QED
  BY <1>1, <1>3, RunsOnKeeps

(* Charging a table for a seek changes none of the numbers. *)
LEMMA ChargeNumbers ==
    ASSUME DBInv, NEW x, NEW w, w = [vs EXCEPT !.file_to_compact = x]
    PROVE  /\ w.last_sequence = vs.last_sequence /\ w.log_number = vs.log_number
           /\ w.next_file_number = vs.next_file_number
<1>1. PICK a, b, c, d, l, p, f :
         vs = [version |-> a, next_file_number |-> b, manifest_file_number |-> c,
              last_sequence |-> d, log_number |-> l, compact_pointer |-> p, file_to_compact |-> f]
  BY VersionsAre DEF VersionSetShape
<1> QED
  BY <1>1

(* Nothing changes that the invariant is about. *)
LEMMA NothingPromised ==
    ASSUME PromiseInv,
           UNCHANGED <<disk, vs, logfile_number, writers, writing, bg, phase, history>>,
           todo'.faults \subseteq todo.faults
    PROVE  PromiseInv'
BY DEF PromiseInv, LogsSafe, ManifestSays, NumbersGoOn, WritersSound, WriteSound, EditOpens,
       LogsGoOn, EditCarries, history

(* The clients' other steps. *)
LEMMA ClientsPromise ==
    ASSUME DBInv, PromiseInv, Clients, ~FinishClose
    PROVE  PromiseInv'
<1>1. todo \in ScenarioType
  BY DEF DBInv, ClientsTyped
<1>2. CASE \E t \in Threads : Write(t)
  BY <1>2, WritePromises
<1>3. CASE \E r \in Readers : BeginRead(r)
  BY <1>1, <1>3, FaultsLeft, NothingPromised DEF BeginRead, memory
<1>4. CASE \E r \in Readers : EndRead(r)
  <2>0. PICK r \in Readers : EndRead(r)
    BY <1>4
  <2>1. PICK p \in readers[r] :
           /\ \/ UNCHANGED <<vs, background_compaction_scheduled>>
              \/ \E x : vs' = [vs EXCEPT !.file_to_compact = x]
           /\ UNCHANGED <<disk, memory, pending_outputs, bg_error, writers, writing, bg, manual,
                          phase, todo, history>>
    BY <2>0 DEF EndRead
  <2>2. phase \in {"open", "closing", "dead"}
    <3>1. readers[r] # {}
      BY <2>1
    <3>2. ~Quiescent
      BY <3>1 DEF Quiescent
    <3> QED
      BY <3>2, Active
  <2>3. CASE UNCHANGED vs
    BY <2>1, <2>3, NothingPromised DEF memory
  <2>4. CASE \E x : vs' = [vs EXCEPT !.file_to_compact = x]
    <3>1. /\ vs'.last_sequence = vs.last_sequence /\ vs'.log_number = vs.log_number
          /\ vs'.next_file_number = vs.next_file_number
      BY <2>4, ChargeNumbers
    <3> QED
      BY <2>1, <2>2, <3>1, ClientPromises DEF memory
  <2> QED
    BY <2>1, <2>3, <2>4
<1>5. CASE GetSnapshot
  BY <1>1, <1>5, FaultsLeft, NothingPromised DEF GetSnapshot
<1>6. CASE \E s \in snapshots : ReleaseSnapshot(s)
  BY <1>6, NothingPromised DEF ReleaseSnapshot
<1>7. CASE PostManual
  <2>1. /\ todo' = todo \/ todo' = [todo EXCEPT !.manuals = Tail(@)]
        /\ UNCHANGED <<disk, vs, memory, writers, writing, bg, phase, history>>
    BY <1>7 DEF PostManual
  <2> DEFINE m == Tail(todo.manuals)
  <2>2. [todo EXCEPT !.manuals = Tail(@)] = [todo EXCEPT !.manuals = m]
    OBVIOUS
  <2> HIDE DEF m
  <2>3. [todo EXCEPT !.manuals = m].faults = todo.faults
    BY <1>1, FaultsLeft
  <2>4. todo'.faults = todo.faults
    BY <2>1, <2>2, <2>3
  <2> QED
    BY <2>1, <2>4, NothingPromised DEF memory
<1>8. CASE CancelManual
  BY <1>8, NothingPromised DEF CancelManual, memory
<1>9. CASE Close
  <2>1. /\ phase = "open" /\ writers = <<>> /\ phase' = "closing"
        /\ todo' = [todo EXCEPT !.closes = @ - 1]
        /\ UNCHANGED <<disk, vs, memory, pending_outputs, bg_error, writers, writing, readers, bg,
                       background_compaction_scheduled, manual, history>>
    BY <1>9 DEF Close
  <2>2. todo'.faults = todo.faults
    BY <1>1, <2>1, FaultsLeft
  <2>3. writing = {}
    BY <2>1 DEF PromiseInv, WritersSound
  <2>4. SameStore
    BY <2>1 DEF SameStore
  <2>5. RunsOn
    BY <2>1, <2>2, <2>3, SameNumbers DEF RunsOn, memory
  <2> QED
    BY <2>4, <2>5, RunsOnKeeps
<1> QED
  BY <1>2, <1>3, <1>4, <1>5, <1>6, <1>7, <1>8, <1>9 DEF Clients

-----------------------------------------------------------------------------
(* The background thread.                                                  *)

(* The oldest log is changed by none of these, *)
LEMMA LogNumberKept ==
    ASSUME DBInv, NEW n, NEW p
    PROVE  /\ [vs EXCEPT !.next_file_number = n].log_number = vs.log_number
           /\ [vs EXCEPT !.last_sequence = n].log_number = vs.log_number
           /\ [vs EXCEPT !.compact_pointer = p].log_number = vs.log_number
<1>1. PICK a, b, c, d, l, q, f :
         vs = [version |-> a, next_file_number |-> b, manifest_file_number |-> c,
              last_sequence |-> d, log_number |-> l, compact_pointer |-> q, file_to_compact |-> f]
  BY VersionsAre DEF VersionSetShape
<1> QED
  BY <1>1

(* nor the logs by new tables. *)
LEMMA LogsKept ==
    ASSUME DBInv, NEW t, disk' = [disk EXCEPT !.tables = t]
    PROVE  /\ disk'.logs = disk.logs /\ disk'.current = disk.current
           /\ disk'.manifests = disk.manifests
<1>1. PICK l, s, c, m : disk = [logs |-> l, tables |-> s, current |-> c, manifests |-> m]
  BY DEF DBInv, DiskSound, DiskTyped
<1> QED
  BY <1>1

(* The edits the code makes name the current log or none, *)
LEMMA EditsLogs ==
    ASSUME NEW l, NEW p, NEW d, NEW a
    PROVE  /\ [NoEdit EXCEPT !.log_number = l, !.added = a].log_number = l
           /\ [NoEdit EXCEPT !.deleted = d, !.added = a, !.pointers = p].log_number = 0
BY DEF NoEdit

(* and get the numbers of the version set. *)
LEMMA NumberedLog ==
    ASSUME NEW v, NEW e, IsEdit(e)
    PROVE  WithNumbers(v, e).log_number = IF e.log_number = 0 THEN v.log_number ELSE e.log_number
<1>1. PICK l, n, s, p, d, a :
         e = [log_number |-> l, next_file |-> n, last_sequence |-> s, pointers |-> p,
              deleted |-> d, added |-> a]
  BY DEF IsEdit
<1> DEFINE x == v.next_file_number
           y == v.last_sequence
           z == v.log_number
           q == IF l = 0 THEN z ELSE l
<1>2. WithNumbers(v, e) = [e EXCEPT !.next_file = x, !.last_sequence = y, !.log_number = q]
  <2>1. e.log_number = l
    BY <1>1
  <2> QED
    BY <2>1 DEF WithNumbers
<1> HIDE DEF x, y, q
<1>3. WithNumbers(v, e) = [log_number |-> q, next_file |-> x, last_sequence |-> y,
                           pointers |-> p, deleted |-> d, added |-> a]
  BY <1>1, <1>2
<1>4. WithNumbers(v, e).log_number = q /\ e.log_number = l
  BY <1>1, <1>3
<1> QED
  BY <1>4 DEF q

(* So what the background thread writes is a new edit. *)
LEMMA NewEditMade ==
    ASSUME NEW e, IsEdit(e), e.log_number \in {0, logfile_number}
    PROVE  NewEdit(WithNumbers(vs, e))
BY NumberedLog, Numbered DEF NewEdit

(* A step of the background thread that leaves alone what was written. *)
LEMMA BackgroundStep ==
    ASSUME DBInv, PromiseInv, phase \in {"open", "closing", "dead"}, phase' \in {phase, "dead"},
           UNCHANGED <<logfile_number, writers, writing, history>>,
           disk'.logs = disk.logs, disk'.current = disk.current,
           disk'.manifests = disk.manifests,
           vs'.last_sequence = vs.last_sequence, vs'.log_number = vs.log_number,
           vs'.next_file_number \in Nat, vs.next_file_number <= vs'.next_file_number,
           bg'.pc \in {"logging", "logged"} => NewEdit(The(bg'.edit)),
           todo'.faults \subseteq todo.faults
    PROVE  PromiseInv'
<1>1. SameStore
  BY DEF SameStore
<1>2. RunsOn
  BY DEF RunsOn, PromiseInv, WritersSound
<1> QED
  BY <1>1, <1>2, RunsOnKeeps

(* A call that ends leaves the thread idle. *)
LEMMA CallEnds ==
    ASSUME DBInv, NEW job, NEW ok, EndOfCall(job, ok)
    PROVE  bg'.pc = "idle" /\ phase' \in {phase, "dead"}
<1>1. bg' = Idle /\ phase' \in {phase, "dead"}
  BY CallEnded
<1>2. Idle.pc = "idle"
  BY DEF Idle
<1> QED
  BY <1>1, <1>2

(* A call ends. *)
LEMMA EndPromises ==
    ASSUME DBInv, PromiseInv, ~Quiescent,
           bg'.pc \in {"idle", "merging"}, phase' \in {phase, "dead"},
           UNCHANGED <<disk, vs, logfile_number, writers, writing, history>>,
           todo'.faults \subseteq todo.faults
    PROVE  PromiseInv'
<1>1. phase \in {"open", "closing", "dead"}
  BY Active
<1>2. /\ vs'.last_sequence = vs.last_sequence /\ vs'.log_number = vs.log_number
      /\ vs'.next_file_number \in Nat /\ vs.next_file_number <= vs'.next_file_number
  BY SameNumbers
<1> QED
  BY <1>1, <1>2, BackgroundStep

(* So does the memtable's part of it. *)
LEMMA MemTableEnds ==
    ASSUME DBInv, AfterMemTable
    PROVE  bg'.pc \in {"idle", "merging"} /\ phase' \in {phase, "dead"}
<1>1. CASE bg.job # {}
  <2>1. bg' = [bg EXCEPT !.pc = "merging", !.edit = {}, !.number = 0] /\ phase' = phase
    BY <1>1 DEF AfterMemTable
  <2>2. PICK a, b, c, d : bg = [pc |-> a, number |-> b, job |-> c, edit |-> d]
    BY BackgroundIs
  <2>3. bg' = [pc |-> "merging", number |-> 0, job |-> c, edit |-> {}]
    BY <2>1, <2>2
  <2> QED
    BY <2>1, <2>3
<1>2. CASE bg.job = {}
  <2>1. EndOfCall(NoJob, TRUE)
    BY <1>2 DEF AfterMemTable
  <2> QED
    BY <2>1, CallEnds
<1> QED
  BY <1>1, <1>2

(* The memtable's table is written, and made part of an edit. *)
LEMMA BeginMemTablePromises ==
    ASSUME DBInv, PromiseInv, BeginMemTable
    PROVE  PromiseInv'
<1> DEFINE n == vs.next_file_number
           k == n + 1
           g == With(disk.tables, n, The(imm))
<1>1. /\ imm # {} /\ phase = "open"
      /\ bg' = [bg EXCEPT !.pc = "building", !.number = n]
      /\ vs' = [vs EXCEPT !.next_file_number = k]
      /\ disk' = disk \/ disk' = [disk EXCEPT !.tables = g]
      /\ UNCHANGED <<phase, logfile_number, writers, writing, history, todo>>
  BY DEF BeginMemTable, BgUnchanged
<1>2. n \in Nat /\ k \in Nat /\ n <= k
  BY VersionsAre
<1> HIDE DEF k, g
<1>3. vs'.next_file_number = k /\ vs'.last_sequence = vs.last_sequence
  BY <1>1, <1>2, NumberTaken
<1>4. vs'.log_number = vs.log_number
  BY <1>1, LogNumberKept
<1>5. disk'.logs = disk.logs /\ disk'.current = disk.current /\ disk'.manifests = disk.manifests
  BY <1>1, LogsKept
<1>6. bg'.pc = "building"
  <2>1. PICK a, b, c, d : bg = [pc |-> a, number |-> b, job |-> c, edit |-> d]
    BY BackgroundIs
  <2>2. bg' = [pc |-> "building", number |-> n, job |-> c, edit |-> d]
    BY <1>1, <2>1
  <2> QED
    BY <2>2
<1> QED
  BY <1>1, <1>2, <1>3, <1>4, <1>5, <1>6, BackgroundStep

(* The memtable's table becomes part of an edit, or the call ends here.    *)
LEMMA FinishBuildPromises ==
    ASSUME DBInv, PromiseInv, FinishBuild
    PROVE  PromiseInv'
<1>1. /\ bg.pc = "building" /\ vs' = vs
      /\ UNCHANGED <<disk, logfile_number, writers, writing, todo, history>>
  BY DEF FinishBuild
<1>2. ~Quiescent
  BY <1>1 DEF Quiescent
<1>3. CASE AfterMemTable
  <2>1. bg'.pc \in {"idle", "merging"} /\ phase' \in {phase, "dead"}
    BY <1>3, MemTableEnds
  <2> QED
    BY <1>1, <1>2, <2>1, EndPromises
<1>4. CASE bg' = [bg EXCEPT !.pc = "logging", !.edit = {WithNumbers(vs, MemTableEdit)}]
           /\ phase' = phase
  <2> DEFINE f == FileMetaData(bg.number, The(imm))
             level == PickLevelForMemTableOutput(vs.version, f.smallest.user, f.largest.user)
             files == IF imm = {{}} THEN {} ELSE {<<level, f>>}
             e == [NoEdit EXCEPT !.log_number = logfile_number, !.added = files]
             w == WithNumbers(vs, e)
             W == {w}
  <2>1. MemTableEdit = e
    BY DEF MemTableEdit
  <2> HIDE DEF files
  <2>2. IsEdit(e) /\ e.log_number = logfile_number
    BY EditsMade, EditsLogs
  <2> HIDE DEF e
  <2>3. NewEdit(w)
    BY <2>2, NewEditMade
  <2>4. bg' = [bg EXCEPT !.pc = "logging", !.edit = W]
    BY <1>4, <2>1
  <2>5. The(W) = w
    BY DEF The
  <2> HIDE DEF w, W
  <2>6. PICK a, b, c, d : bg = [pc |-> a, number |-> b, job |-> c, edit |-> d]
    BY BackgroundIs
  <2>7. bg' = [pc |-> "logging", number |-> b, job |-> c, edit |-> W]
    BY <2>4, <2>6
  <2>8. NewEdit(The(bg'.edit))
    BY <2>3, <2>5, <2>7
  <2>9. phase \in {"open", "closing", "dead"} /\ phase' \in {phase, "dead"}
    BY <1>2, <1>4, Active
  <2>10. /\ vs'.last_sequence = vs.last_sequence /\ vs'.log_number = vs.log_number
         /\ vs'.next_file_number \in Nat /\ vs.next_file_number <= vs'.next_file_number
    BY <1>1, SameNumbers
  <2> QED
    BY <1>1, <2>8, <2>9, <2>10, BackgroundStep
<1> QED
  BY <1>3, <1>4 DEF FinishBuild

(* The chosen compaction moves a file, or begins. *)
LEMMA BeginCompactionPromises ==
    ASSUME DBInv, PromiseInv, BeginCompaction
    PROVE  PromiseInv'
<1> DEFINE file(c) == Head(c.inputs[1])
           added(c) == {<<c.level + 1, file(c)>>}
           move(c) == [NoEdit EXCEPT !.deleted = {<<c.level, file(c).number>>},
                                     !.added = added(c), !.pointers = {<<c.level, c.pointer>>}]
           job(c) == [c |-> c, manual |-> Posted # {}, outputs |-> <<>>, opened |-> FALSE,
                      smallest_snapshot |-> IF snapshots = {} THEN vs.last_sequence
                                            ELSE Min(snapshots)]
<1>1. /\ bg.pc = "idle" /\ phase = "open"
      /\ UNCHANGED <<phase, logfile_number, writers, writing, disk, todo, history>>
  BY DEF BeginCompaction, BackgroundCallMayRun, BgUnchanged
<1>2. PICK c \in Chosen :
        /\ vs' = [vs EXCEPT !.compact_pointer[c.level] = {c.pointer}]
        /\ \/ bg' = [Idle EXCEPT !.pc = "logging", !.edit = {WithNumbers(vs, move(c))}]
           \/ bg' = [Idle EXCEPT !.pc = "merging", !.job = {job(c)}]
  BY DEF BeginCompaction
<1> DEFINE e == move(c)
           w == WithNumbers(vs, e)
           W == {w}
           J == {job(c)}
           r == [vs.compact_pointer EXCEPT ![c.level] = {c.pointer}]
<1>3. /\ vs'.next_file_number = vs.next_file_number /\ vs'.last_sequence = vs.last_sequence
  <2> DEFINE p == {c.pointer}
  <2>1. vs' = [vs EXCEPT !.compact_pointer[c.level] = p]
    BY <1>2
  <2> HIDE DEF p
  <2> QED
    BY <2>1, PointerMoved
<1>4. vs' = [vs EXCEPT !.compact_pointer = r]
  BY <1>2
<1>5. bg' = [Idle EXCEPT !.pc = "logging", !.edit = W] \/ bg' = [Idle EXCEPT !.pc = "merging", !.job = J]
  BY <1>2
<1> HIDE DEF r
<1>6. vs'.log_number = vs.log_number
  BY <1>4, LogNumberKept
<1> HIDE DEF J, added, job
<1>7. IsEdit(e) /\ e.log_number = 0
  <2> DEFINE D == {<<c.level, file(c).number>>}
             A == added(c)
             P == {<<c.level, c.pointer>>}
             x == [NoEdit EXCEPT !.deleted = D, !.added = A, !.pointers = P]
  <2>1. e = x
    OBVIOUS
  <2> HIDE DEF D, A, P, e
  <2>2. IsEdit(x)
    BY EditsMade
  <2>3. x.log_number = 0
    BY EditsLogs
  <2> QED
    BY <2>1, <2>2, <2>3
<1>8. The(W) = w
  BY DEF The
<1> HIDE DEF e, move
<1>9. NewEdit(w)
  BY <1>7, NewEditMade
<1> HIDE DEF w, W
<1>10. bg'.pc \in {"logging", "logged"} => NewEdit(The(bg'.edit))
  <2>1. bg'.pc = "merging" \/ (bg'.edit = W)
    <3>1. CASE bg' = [Idle EXCEPT !.pc = "logging", !.edit = W]
      BY <3>1 DEF Idle
    <3>2. CASE bg' = [Idle EXCEPT !.pc = "merging", !.job = J]
      BY <3>2 DEF Idle
    <3> QED
      BY <1>5, <3>1, <3>2
  <2> QED
    BY <1>8, <1>9, <2>1
<1>11. vs.next_file_number \in Nat /\ vs.next_file_number <= vs'.next_file_number
  BY <1>3, VersionsAre
<1> QED
  BY <1>1, <1>3, <1>6, <1>10, <1>11, BackgroundStep

(* There may be nothing to compact. *)
LEMMA IdleCallPromises ==
    ASSUME DBInv, PromiseInv, IdleCall
    PROVE  PromiseInv'
<1>1. /\ background_compaction_scheduled
      /\ UNCHANGED <<disk, vs, logfile_number, writers, writing, todo, history>>
  BY DEF IdleCall
<1>2. bg'.pc = "idle" /\ phase' \in {phase, "dead"}
  BY CallEnds DEF IdleCall
<1>3. ~Quiescent
  BY <1>1 DEF Quiescent
<1> QED
  BY <1>1, <1>2, <1>3, EndPromises

(* A compaction that is given up writes no edit. *)
LEMMA AbortCompactionPromises ==
    ASSUME DBInv, PromiseInv, AbortCompaction
    PROVE  PromiseInv'
<1>1. PICK j \in bg.job :
        /\ bg.pc = "merging" /\ vs' = vs /\ EndOfCall(j, FALSE)
        /\ UNCHANGED <<disk, logfile_number, writers, writing, todo, history>>
  BY DEF AbortCompaction
<1>2. bg'.pc = "idle" /\ phase' \in {phase, "dead"}
  BY <1>1, CallEnds
<1>3. ~Quiescent
  BY <1>1 DEF Quiescent
<1> QED
  BY <1>1, <1>2, <1>3, EndPromises

(* An edit that is not synced is not installed: the call ends. *)
LEMMA FailEditPromises ==
    ASSUME DBInv, PromiseInv, FailEdit
    PROVE  PromiseInv'
<1>1. /\ bg.pc = "logged" /\ vs' = vs
      /\ todo' = [todo EXCEPT !.faults = @ \ {"manifest"}]
      /\ UNCHANGED <<disk, logfile_number, writers, writing, history>>
  BY DEF FailEdit
<1>2. bg'.pc \in {"idle", "merging"} /\ phase' \in {phase, "dead"}
  <2> DEFINE job == IF bg.job = {} THEN NoJob ELSE The(bg.job)
  <2>1. AfterMemTable \/ EndOfCall(job, FALSE)
    BY DEF FailEdit
  <2> HIDE DEF job
  <2> QED
    BY <2>1, MemTableEnds, CallEnds
<1>3. ~Quiescent
  BY <1>1 DEF Quiescent
<1>4. todo'.faults \subseteq todo.faults
  <2> DEFINE F == todo.faults \ {"manifest"}
  <2>1. todo' = [todo EXCEPT !.faults = F]
    BY <1>1
  <2>2. F \subseteq todo.faults
    OBVIOUS
  <2> HIDE DEF F
  <2> QED
    BY <2>1, <2>2, FaultsLeft DEF DBInv, ClientsTyped
<1> QED
  BY <1>1, <1>2, <1>3, <1>4, EndPromises

(* A compaction's outputs are written, and made part of an edit. *)
LEMMA OpenOutputsPromises ==
    ASSUME DBInv, PromiseInv, OpenOutputs
    PROVE  PromiseInv'
<1> DEFINE n == vs.next_file_number
           made(j) == CompactionOutputs(j.c, disk.tables, j.smallest_snapshot)
<1>1. PICK j \in bg.job :
        LET tables == made(j)
            new == [i \in n..(n + Len(tables) - 1) |-> tables[i - n + 1]]
        IN /\ bg.pc = "merging" /\ ~j.opened /\ phase = "open"
           /\ bg' = [bg EXCEPT !.job = {[j EXCEPT !.opened = TRUE,
                                          !.outputs = [i \in DOMAIN tables |-> n + i - 1]]}]
           /\ vs' = [vs EXCEPT !.next_file_number = n + Len(tables)]
           /\ pending_outputs' = pending_outputs \cup DOMAIN new
           /\ disk' = [disk EXCEPT !.tables = Over(new, @)]
           /\ UNCHANGED <<BgUnchanged, imm, bg_error, background_compaction_scheduled, manual, todo>>
  BY DEF OpenOutputs
<1> DEFINE tables == made(j)
           size == Len(tables)
           J == {[j EXCEPT !.opened = TRUE, !.outputs = [i \in DOMAIN tables |-> n + i - 1]]}
           g == Over([i \in n..(n + size - 1) |-> tables[i - n + 1]], disk.tables)
           next == n + size
<1>2. /\ bg.pc = "merging" /\ phase = "open"
      /\ bg' = [bg EXCEPT !.job = J]
      /\ vs' = [vs EXCEPT !.next_file_number = next]
      /\ disk' = [disk EXCEPT !.tables = g]
      /\ UNCHANGED <<phase, logfile_number, writers, writing, history, todo>>
  BY <1>1 DEF BgUnchanged
<1>3. JobSound(j, disk.tables, n, pending_outputs)
  BY DEF DBInv, BackgroundSound
<1>4. tables \in Seq(Contents)
  <2>1. CompactionSound(j.c, disk.tables, n)
    BY <1>3 DEF JobSound
  <2>2. disk.tables \in [DOMAIN disk.tables -> Contents]
    BY DEF DBInv, DiskSound, DiskTyped
  <2> QED
    BY <2>1, <2>2, OutputsTyped
<1> HIDE DEF tables, made, J, g
<1>5. size \in Nat
  BY <1>4, LenProperties
<1>6. n \in Nat
  BY VersionsAre
<1> HIDE DEF n, size
<1>7. next \in Nat /\ n <= next
  BY <1>5, <1>6
<1> HIDE DEF next
<1>8. vs'.next_file_number = next /\ vs'.last_sequence = vs.last_sequence
  BY <1>2, <1>7, NumberTaken DEF n
<1>9. vs'.log_number = vs.log_number
  BY <1>2, LogNumberKept
<1>10. disk'.logs = disk.logs /\ disk'.current = disk.current /\ disk'.manifests = disk.manifests
  BY <1>2, LogsKept
<1>11. bg'.pc = "merging"
  <2>1. PICK a, b, c, d : bg = [pc |-> a, number |-> b, job |-> c, edit |-> d]
    BY BackgroundIs
  <2>2. bg' = [pc |-> a, number |-> b, job |-> J, edit |-> d]
    BY <1>2, <2>1
  <2> QED
    BY <1>2, <2>1, <2>2
<1> QED
  BY <1>2, <1>7, <1>8, <1>9, <1>10, <1>11, BackgroundStep DEF n

(* A compaction that is done makes its outputs an edit, which leaves the   *)
(* logs alone.                                                             *)
LEMMA FinishCompactionWorkPromises ==
    ASSUME DBInv, PromiseInv, FinishCompactionWork
    PROVE  PromiseInv'
<1> DEFINE files(j) == {<<j.c.level + 1, FileMetaData(n, disk.tables[n])>> : n \in ToSet(j.outputs)}
           e(j) == [NoEdit EXCEPT !.deleted = AddInputDeletions(j.c), !.added = files(j),
                                  !.pointers = {<<j.c.level, j.c.pointer>>}]
<1>1. PICK j \in bg.job :
        /\ phase = "open"
        /\ bg' = [bg EXCEPT !.pc = "logging", !.edit = {WithNumbers(vs, e(j))}]
        /\ UNCHANGED <<phase, logfile_number, writers, writing, history, disk, vs, todo>>
  BY DEF FinishCompactionWork, BgUnchanged
<1> DEFINE x == e(j)
           w == WithNumbers(vs, x)
           W == {w}
<1>2. bg' = [bg EXCEPT !.pc = "logging", !.edit = W]
  BY <1>1
<1> HIDE DEF files
<1>3. IsEdit(x) /\ x.log_number = 0
  <2> DEFINE D == AddInputDeletions(j.c)
             A == files(j)
             P == {<<j.c.level, j.c.pointer>>}
             y == [NoEdit EXCEPT !.deleted = D, !.added = A, !.pointers = P]
  <2>1. x = y
    OBVIOUS
  <2> HIDE DEF D, A, P, x
  <2>2. IsEdit(y)
    BY EditsMade
  <2>3. y.log_number = 0
    BY EditsLogs
  <2> QED
    BY <2>1, <2>2, <2>3
<1>4. The(W) = w
  BY DEF The
<1> HIDE DEF e, x
<1>5. NewEdit(w)
  BY <1>3, NewEditMade
<1> HIDE DEF w, W
<1>6. PICK a, b, c, d : bg = [pc |-> a, number |-> b, job |-> c, edit |-> d]
  BY BackgroundIs
<1>7. bg' = [pc |-> "logging", number |-> b, job |-> c, edit |-> W]
  BY <1>2, <1>6
<1>8. NewEdit(The(bg'.edit))
  BY <1>4, <1>5, <1>7
<1>9. /\ vs'.last_sequence = vs.last_sequence /\ vs'.log_number = vs.log_number
      /\ vs'.next_file_number \in Nat /\ vs.next_file_number <= vs'.next_file_number
  BY <1>1, SameNumbers
<1> QED
  BY <1>1, <1>8, <1>9, BackgroundStep

-----------------------------------------------------------------------------
(* Edits in the manifest.                                                  *)

(* Every number of records that a crash may leave of a manifest accounts   *)
(* for the logs and groups, and needs no log after top.                    *)
Says(m, logs, groups, top) ==
    \A k \in m.synced..Len(m.records) :
        ManifestCarries(m, k, logs, groups) /\ FirstLog(m, k) <= top

RecordAdded(m, e, m2) == m2 = [records |-> Append(m.records, e), synced |-> m.synced]

(* A manifest with one more record says what it said, and what the edit    *)
(* says.                                                                   *)
LEMMA AppendedCarries ==
    ASSUME NEW m, ManifestTyped(m), NEW e, NEW m2, RecordAdded(m, e, m2),
           NEW logs, NEW groups, NEW top, Says(m, logs, groups, top),
           e.log_number \in Nat, e.log_number < e.next_file, e.log_number <= top,
           Carries(logs, groups, e.log_number, e.last_sequence)
    PROVE  Says(m2, logs, groups, top)
<1> DEFINE n == Len(m.records)
           r == m.records
           s == m.synced
           q == Append(r, e)
<1>1. n \in Nat /\ s \in 0..n /\ r \in Seq(ToSet(r))
  BY DEF ManifestTyped, IsSeq
<1>2. /\ Len(q) = n + 1
      /\ \A i \in 1..n : q[i] = r[i]
      /\ q[n + 1] = e
  BY <1>1
<1>3. m2.records = q /\ m2.synced = s
  BY DEF RecordAdded
<1> HIDE DEF q
<1>4. SUFFICES ASSUME NEW k \in s..(n + 1)
               PROVE  ManifestCarries(m2, k, logs, groups) /\ FirstLog(m2, k) <= top
  BY <1>2, <1>3 DEF Says
<1>5. CASE k = n + 1
  <2>1. k # 0 /\ m2.records[k] = e
    BY <1>1, <1>2, <1>3, <1>5
  <2>2. FirstLog(m2, k) = e.log_number /\ LastNumber(m2, k) = e.last_sequence
    BY <2>1 DEF FirstLog, LastNumber
  <2>3. ManifestCarries(m2, k, logs, groups)
    BY <2>1, <2>2 DEF ManifestCarries
  <2> QED
    BY <2>2, <2>3
<1>6. CASE k # n + 1
  <2>1. k \in s..n /\ (k = 0 \/ k \in 1..n)
    BY <1>1, <1>6
  <2>2. ManifestCarries(m, k, logs, groups) /\ FirstLog(m, k) <= top
    BY <2>1 DEF Says
  <2>3. k = 0 \/ m2.records[k] = m.records[k]
    BY <1>2, <1>3, <2>1
  <2>4. FirstLog(m2, k) = FirstLog(m, k) /\ LastNumber(m2, k) = LastNumber(m, k)
    BY <2>3 DEF FirstLog, LastNumber
  <2>5. k > 0 => m2.records[k].next_file = m.records[k].next_file
    BY <2>1, <2>3
  <2> QED
    BY <2>2, <2>4, <2>5 DEF ManifestCarries
<1> QED
  BY <1>5, <1>6

(* The edit goes into the manifest. *)
LEMMA WriteEditPromises ==
    ASSUME DBInv, PromiseInv, WriteEdit
    PROVE  PromiseInv'
<1> DEFINE c == disk.current
           m == disk.manifests[c]
           e == The(bg.edit)
           m2 == [records |-> Append(m.records, e), synced |-> m.synced]
<1>1. phase \in {"open", "closing", "dead"} /\ Running
  BY Active DEF WriteEdit, Quiescent
<1>2. /\ bg.pc = "logging" /\ c = vs.manifest_file_number /\ c # 0
      /\ disk' = [disk EXCEPT !.manifests[c].records = Append(@, e)]
      /\ bg' = [bg EXCEPT !.pc = "logged"]
      /\ UNCHANGED <<vs, logfile_number, writers, writing, phase, history, todo>>
  BY <1>1 DEF WriteEdit, Running, BgUnchanged
<1>3. c \in DOMAIN disk.manifests /\ ManifestTyped(m)
  BY <1>2 DEF DBInv, DiskSound, ManifestSound
<1>4. disk' = [disk EXCEPT !.manifests[c] = m2]
  <2> DEFINE p == Append(m.records, e)
             h == [m EXCEPT !.records = p]
  <2>1. disk' = [disk EXCEPT !.manifests[c] = h]
    BY <1>2
  <2>2. h = m2
    <3> HIDE DEF m, p
    <3>2. h = [records |-> p, synced |-> m.synced]
      BY <1>3, ManifestIs
    <3> QED
      BY <3>2 DEF p
  <2> HIDE DEF h, m2
  <2> QED
    BY <2>1, <2>2
<1> DEFINE x == m2
<1>5. RecordAdded(m, e, x)
  BY DEF RecordAdded
<1>6. disk' = [disk EXCEPT !.manifests[c] = x]
  BY <1>4
<1> HIDE DEF x, m2
<1>7. disk'.logs = disk.logs /\ disk'.current = c /\ disk'.manifests[c] = x
  <2> HIDE DEF c
  <2>1. /\ disk'.current = disk.current /\ disk'.logs = disk.logs
        /\ c \in DOMAIN disk.manifests => disk'.manifests[c] = x
    BY <1>6, ManifestReplaced
  <2> QED
    BY <1>3, <2>1 DEF c
<1>8. NumbersGoOn /\ LogsGoOn /\ LogsSafe /\ ManifestSays /\ WritersSound
  BY <1>1 DEF PromiseInv
<1>9. EditCarries(e)
  BY <1>2, <1>8 DEF LogsGoOn
<1>10. Says(m, disk.logs, written, logfile_number)
  BY <1>2, <1>8 DEF ManifestSays, LogsGoOn, Says
<1>11. /\ e.log_number \in Nat /\ e.log_number < e.next_file /\ e.log_number <= logfile_number
       /\ Carries(disk.logs, written, e.log_number, e.last_sequence)
  BY <1>9 DEF EditCarries
<1> HIDE DEF m, e
<1>12. Says(x, disk.logs, written, logfile_number)
  BY <1>3, <1>5, <1>10, <1>11, AppendedCarries
<1>13. bg'.edit = bg.edit
  <2>1. PICK a, b, j, z : bg = [pc |-> a, number |-> b, job |-> j, edit |-> z]
    BY BackgroundIs
  <2>2. bg' = [pc |-> "logged", number |-> b, job |-> j, edit |-> z]
    BY <1>2, <2>1
  <2> QED
    BY <2>1, <2>2
<1>14. written' = written /\ promised' = promised
  BY <1>2 DEF history
<1>15. LogsSafe'
  BY <1>7, <1>8, <1>14 DEF LogsSafe
<1>16. ManifestSays'
  BY <1>2, <1>7, <1>12, <1>14 DEF ManifestSays, Says
<1>17. NumbersGoOn'
  BY <1>2, <1>7, <1>8, <1>14 DEF NumbersGoOn
<1>18. WritersSound'
  BY <1>2, <1>7, <1>8 DEF WritersSound, WriteSound
<1>19. LogsGoOn'
  <2>1. EditCarries(The(bg.edit))'
    <3>1. The(bg'.edit) = e
      BY <1>13 DEF e
    <3> QED
      BY <1>2, <1>7, <1>9, <1>14, <3>1 DEF EditCarries
  <2>2. vs.log_number \in Nat /\ vs.log_number <= logfile_number
    BY <1>8 DEF LogsGoOn
  <2>3. \A k \in x.synced..Len(x.records) : FirstLog(x, k) <= logfile_number
    BY <1>12 DEF Says
  <2> QED
    BY <1>2, <1>7, <2>1, <2>2, <2>3 DEF LogsGoOn
<1> QED
  BY <1>1, <1>2, <1>15, <1>16, <1>17, <1>18, <1>19 DEF PromiseInv

-----------------------------------------------------------------------------
(* Logs that are deleted.                                                  *)

FewerLogs(l, l2, first) ==
    /\ DOMAIN l2 \subseteq DOMAIN l /\ \A n \in DOMAIN l2 : l2[n] = l[n]
    /\ \A n \in DOMAIN l : n >= first => n \in DOMAIN l2

(* DeleteObsoleteFiles leaves the logs from the oldest needed one on. *)
LEMMA LogsDeleted ==
    ASSUME NEW d, DiskTyped(d), NEW v, v.log_number \in Nat, NEW live,
           NEW r, r = DeleteObsoleteFiles(d, v, live)
    PROVE  FewerLogs(d.logs, r.logs, v.log_number)
<1> DEFINE A == {n \in DOMAIN d.logs : n < v.log_number}
           f == Without(d.logs, A)
           g == Without(d.manifests, {n \in DOMAIN d.manifests : n < v.manifest_file_number})
           h == Without(d.tables, DOMAIN d.tables \ live)
<1>1. PICK l, t, c, m : d = [logs |-> l, tables |-> t, current |-> c, manifests |-> m]
  BY DEF DiskTyped
<1>2. r = [d EXCEPT !.logs = f, !.manifests = g, !.tables = h]
  BY DEF DeleteObsoleteFiles
<1>3. DOMAIN f = DOMAIN d.logs \ A /\ \A n \in DOMAIN f : f[n] = d.logs[n]
  BY DEF Without
<1> HIDE DEF f, g, h
<1>4. r = [logs |-> f, tables |-> h, current |-> c, manifests |-> g]
  BY <1>1, <1>2
<1>5. r.logs = f
  BY <1>4
<1>6. \A n \in DOMAIN d.logs : n >= v.log_number => n \notin A
  BY DEF DiskTyped
<1> HIDE DEF A
<1> QED
  BY <1>3, <1>5, <1>6 DEF FewerLogs

(* What they and the manifest account for stays the same. *)
LEMMA FewerCarry ==
    ASSUME NEW l, NEW l2, NEW first, FewerLogs(l, l2, first), NEW groups, NEW last,
           Carries(l, groups, first, last)
    PROVE  Carries(l2, groups, first, last)
<1>1. ASSUME NEW g \in LoggedIn(l, first) PROVE g \in LoggedIn(l2, first)
  <2>1. PICK n \in DOMAIN l : n >= first /\ g \in Groups(l[n].records)
    BY InLogs
  <2>2. n \in DOMAIN l2 /\ l2[n] = l[n]
    BY <2>1 DEF FewerLogs
  <2> QED
    BY <2>1, <2>2, InLogs
<1>2. ASSUME NEW n \in DOMAIN l2, n < first, NEW g \in Groups(l2[n].records) PROVE Below(g, last)
  <2>1. n \in DOMAIN l /\ g \in Groups(l[n].records)
    BY <1>2 DEF FewerLogs
  <2> QED
    BY <1>2, <2>1 DEF Carries
<1> QED
  BY <1>1, <1>2 DEF Carries

(* Fewer groups are apart. *)
LEMMA ApartFewer ==
    ASSUME NEW S, NEW T, T \subseteq S, Apart(S)
    PROVE  Apart(T)
BY DEF Apart

(* The logs stay safe, *)
LEMMA FewerSafe ==
    ASSUME LogsSafe, NEW first, FewerLogs(disk.logs, disk'.logs, first), UNCHANGED history
    PROVE  LogsSafe'
<1>1. \A n \in DOMAIN disk'.logs : LogSafe(disk'.logs[n], promised)
  BY DEF LogsSafe, FewerLogs
<1>2. LoggedIn(disk'.logs, 0) \subseteq LoggedIn(disk.logs, 0)
  BY DEF LoggedIn, FewerLogs
<1>3. Apart(written \cup LoggedIn(disk'.logs, 0))
  <2>1. written \cup LoggedIn(disk'.logs, 0) \subseteq written \cup LoggedIn(disk.logs, 0)
    BY <1>2
  <2> QED
    BY <2>1, ApartFewer DEF LogsSafe
<1>4. written' = written /\ promised' = promised
  BY DEF history
<1> QED
  BY <1>1, <1>3, <1>4 DEF LogsSafe

(* and the current one goes on. *)
LEMMA FewerGoOn ==
    ASSUME NumbersGoOn, NEW first, FewerLogs(disk.logs, disk'.logs, first),
           logfile_number >= first,
           UNCHANGED <<logfile_number, writing, written>>,
           vs'.next_file_number = vs.next_file_number, vs'.last_sequence = vs.last_sequence
    PROVE  NumbersGoOn' /\ disk'.logs[logfile_number] = disk.logs[logfile_number]
<1>1. logfile_number \in DOMAIN disk'.logs
  BY DEF NumbersGoOn, FewerLogs
<1>2. \A n \in DOMAIN disk'.logs : n < vs.next_file_number
  BY DEF NumbersGoOn, FewerLogs
<1>3. Used(disk'.logs, written, Underway(writing), logfile_number, vs.last_sequence)
  <2>1. Used(disk.logs, written, Underway(writing), logfile_number, vs.last_sequence)
    BY DEF NumbersGoOn
  <2> QED
    BY <2>1 DEF Used, FewerLogs
<1> QED
  BY <1>1, <1>2, <1>3 DEF NumbersGoOn, FewerLogs

(* Installing an edit makes its log the oldest. *)
LEMMA InstalledLog ==
    ASSUME NEW v, VersionSetShape(v), NEW e, NEW w, w = Installed(v, e)
    PROVE  w.log_number = e.log_number
<1> DEFINE u == Apply(v, e)
           x == e.log_number
<1>1. w = [u EXCEPT !.log_number = x]
  BY DEF Installed
<1>2. VersionSetShape(u)
  BY ApplyShape
<1> HIDE DEF u, x
<1>3. PICK a, b, c, d, l, p, f :
         u = [version |-> a, next_file_number |-> b, manifest_file_number |-> c,
              last_sequence |-> d, log_number |-> l, compact_pointer |-> p, file_to_compact |-> f]
  BY <1>2 DEF VersionSetShape
<1>4. w.log_number = x
  BY <1>1, <1>3
<1> QED
  BY <1>4 DEF x

(* The last record says all that is said of a manifest that is synced. *)
LEMMA SyncedCarries ==
    ASSUME NEW m, NEW n \in Nat \ {0}, Len(m.records) = n, m.synced = n,
           NEW e, m.records[n] = e,
           NEW logs, NEW groups, NEW top, e.log_number \in Nat, e.log_number < e.next_file,
           e.log_number <= top, Carries(logs, groups, e.log_number, e.last_sequence)
    PROVE  Says(m, logs, groups, top)
<1> SUFFICES ASSUME NEW k \in n..n
             PROVE  ManifestCarries(m, k, logs, groups) /\ FirstLog(m, k) <= top
  BY DEF Says
<1>1. k = n /\ k # 0
  OBVIOUS
<1>2. FirstLog(m, k) = e.log_number /\ LastNumber(m, k) = e.last_sequence
  BY <1>1 DEF FirstLog, LastNumber
<1> QED
  BY <1>1, <1>2 DEF ManifestCarries

(* The edit is synced and installed, and the logs before its are deleted. *)
LEMMA InstallEditPromises ==
    ASSUME DBInv, PromiseInv, InstallEdit
    PROVE  PromiseInv'
<1> DEFINE c == disk.current
           m == disk.manifests[c]
           n == Len(m.records)
           e == The(bg.edit)
           v == Installed(vs, e)
           synced == [disk EXCEPT !.manifests[c].synced = n]
           jobs == IF OfMemTable THEN bg.job ELSE {}
           pending == IF OfMemTable THEN pending_outputs ELSE pending_outputs \ OutputsOf(bg.job)
           live == pending \cup LiveFiles(v, ReaderVersions \cup VersionsOf(jobs))
<1>1. phase \in {"open", "closing", "dead"} /\ Running
  BY Active DEF InstallEdit, Quiescent
<1>2. /\ bg.pc = "logged" /\ c = vs.manifest_file_number /\ c # 0
      /\ vs' = v
      /\ \/ disk' = synced
         \/ disk' = DeleteObsoleteFiles(synced, v, live)
      /\ IF OfMemTable THEN AfterMemTable
         ELSE EndOfCall(IF bg.job = {} THEN NoJob ELSE The(bg.job), TRUE)
      /\ UNCHANGED <<logfile_number, writers, writing, todo, history>>
  BY <1>1 DEF InstallEdit, Running
<1>3. /\ n \in Nat \ {0} /\ DiskTyped(synced) /\ synced.current = c
      /\ c \in DOMAIN synced.manifests
      /\ synced.manifests[c] = [records |-> m.records, synced |-> n]
  BY <1>1, ManifestSynced DEF CurrentSynced
<1>4. synced.logs = disk.logs
  <2> DEFINE h == [m EXCEPT !.synced = n]
             d == synced
  <2>1. d = [disk EXCEPT !.manifests[c] = h]
    OBVIOUS
  <2> HIDE DEF h, d, c
  <2>2. d.logs = disk.logs
    BY <2>1, ManifestReplaced
  <2> QED
    BY <2>2 DEF d
<1>5. /\ v.next_file_number = vs.next_file_number /\ v.manifest_file_number = c
      /\ v.last_sequence = vs.last_sequence /\ v.log_number = e.log_number
  <2> HIDE DEF e, v
  <2>1. v = Installed(vs, e) /\ VersionSetShape(vs)
    BY VersionsAre DEF v
  <2>2. /\ v.next_file_number = vs.next_file_number
        /\ v.manifest_file_number = vs.manifest_file_number
        /\ v.last_sequence = vs.last_sequence
    BY <2>1, InstalledShape
  <2>3. v.log_number = e.log_number
    BY <2>1, InstalledLog
  <2>4. c = vs.manifest_file_number
    BY <1>2
  <2> QED
    BY <2>2, <2>3, <2>4
<1>6. NumbersGoOn /\ LogsGoOn /\ LogsSafe /\ WritersSound
  BY <1>1 DEF PromiseInv
<1>7. EditCarries(e)
  BY <1>2, <1>6 DEF LogsGoOn
<1>8. /\ e.log_number \in Nat /\ e.log_number < e.next_file /\ e.log_number <= logfile_number
      /\ Carries(disk.logs, written, e.log_number, e.last_sequence)
  BY <1>7 DEF EditCarries
<1>9. m.records[n] = e /\ c \in Nat
  BY <1>1, <1>2 DEF Running, DBInv, DiskSound, DiskTyped
<1>10. logfile_number \in Nat /\ DOMAIN disk.logs \subseteq Nat
  BY <1>6 DEF NumbersGoOn, DBInv, DiskSound, DiskTyped
<1>11. bg'.pc \in {"idle", "merging"} /\ phase' \in {phase, "dead"}
  <2> DEFINE job == IF bg.job = {} THEN NoJob ELSE The(bg.job)
  <2>1. AfterMemTable \/ EndOfCall(job, TRUE)
    BY <1>2
  <2> HIDE DEF job
  <2> QED
    BY <2>1, MemTableEnds, CallEnds
<1> HIDE DEF v, synced, live, e, m
<1>12. /\ FewerLogs(disk.logs, disk'.logs, e.log_number)
       /\ disk'.current = c /\ c \in DOMAIN disk'.manifests
       /\ disk'.manifests[c] = [records |-> m.records, synced |-> n]
  <2>1. CASE disk' = synced
    BY <1>3, <1>4, <2>1 DEF FewerLogs
  <2>2. CASE disk' = DeleteObsoleteFiles(synced, v, live)
    <3>1. v.log_number \in Nat
      BY <1>5, <1>8
    <3>2. FewerLogs(synced.logs, disk'.logs, v.log_number)
      BY <1>3, <2>2, <3>1, LogsDeleted
    <3>3. /\ disk'.current = synced.current
          /\ \A k \in DOMAIN synced.manifests : ~(k < v.manifest_file_number) =>
                k \in DOMAIN disk'.manifests /\ disk'.manifests[k] = synced.manifests[k]
      BY <1>3, <2>2, ObsoleteDeleted
    <3>4. ~(c < v.manifest_file_number)
      BY <1>5, <1>9
    <3> QED
      BY <1>3, <1>4, <1>5, <3>2, <3>3, <3>4
  <2> QED
    BY <1>2, <2>1, <2>2
<1>13. written' = written /\ promised' = promised
  BY <1>2 DEF history
<1>14. LogsSafe'
  BY <1>2, <1>6, <1>12, FewerSafe
<1>15. NumbersGoOn' /\ disk'.logs[logfile_number] = disk.logs[logfile_number]
  <2>1. logfile_number >= e.log_number
    BY <1>8, <1>10
  <2>2. UNCHANGED <<logfile_number, writing, written>>
    BY <1>2, <1>13
  <2>3. vs'.next_file_number = vs.next_file_number /\ vs'.last_sequence = vs.last_sequence
    BY <1>2, <1>5
  <2> QED
    BY <1>6, <1>12, <2>1, <2>2, <2>3, FewerGoOn
<1>16. Carries(disk'.logs, written, e.log_number, e.last_sequence)
  BY <1>8, <1>12, FewerCarry
<1> DEFINE x == [records |-> m.records, synced |-> n]
<1>17. Len(x.records) = n /\ x.synced = n /\ x.records[n] = e
  BY <1>9 DEF m
<1> HIDE DEF x
<1>18. Says(x, disk'.logs, written, logfile_number)
  <2> HIDE DEF n
  <2> QED
    BY <1>3, <1>8, <1>16, <1>17, SyncedCarries
<1>19. disk'.manifests[disk'.current] = x /\ disk'.current # 0
  BY <1>2, <1>12 DEF x
<1>20. ManifestSays'
  BY <1>13, <1>18, <1>19 DEF ManifestSays, Says
<1>21. LogsGoOn'
  <2>1. vs'.log_number = e.log_number
    BY <1>2, <1>5
  <2> QED
    BY <1>2, <1>8, <1>11, <1>18, <1>19, <2>1 DEF LogsGoOn, Says
<1>22. WritersSound'
  <2>1. vs'.last_sequence = vs.last_sequence
    BY <1>2, <1>5
  <2>2. \A w \in writing : WriteSound(w, vs.last_sequence) /\ writing = {w}
    BY <1>6 DEF WritersSound
  <2>3. \A w \in writing' : WriteSound(w, vs.last_sequence)' /\ writing' = {w}
    BY <1>2, <1>15, <2>1, <2>2 DEF WriteSound
  <2>4. writers # <<>> => phase' \in {"open", "dead"}
    BY <1>6, <1>11 DEF WritersSound
  <2> QED
    BY <1>2, <1>6, <2>3, <2>4 DEF WritersSound
<1>23. "append" \notin todo'.faults
  BY <1>2 DEF PromiseInv
<1>24. phase' \in {"open", "closing", "dead"}
  BY <1>1, <1>11
<1> QED
  BY <1>14, <1>15, <1>20, <1>21, <1>22, <1>23, <1>24 DEF PromiseInv

-----------------------------------------------------------------------------
(* A new log.                                                              *)

MoreLogs(l, l2, n) ==
    /\ n \notin DOMAIN l /\ DOMAIN l2 = DOMAIN l \cup {n}
    /\ \A k \in DOMAIN l : l2[k] = l[k]
    /\ l2[n] = EmptyFile

(* It is empty and the only new one, *)
LEMMA LogBegun ==
    ASSUME NEW l, NEW n, n \notin DOMAIN l, NEW l2, l2 = With(l, n, EmptyFile)
    PROVE  MoreLogs(l, l2, n)
BY DEF With, MoreLogs

(* holds no group, *)
LEMMA NothingLogged ==
    Groups(EmptyFile.records) = {} /\ EmptyFile.records = <<>> /\ EmptyFile.synced = 0
<1>1. EmptyFile.records = <<>> /\ EmptyFile.synced = 0
  BY DEF EmptyFile
<1>2. ToSet(<<>>) = {}
  BY DEF ToSet
<1>3. Groups(<<>>) = {}
  BY <1>2 DEF Groups
<1> QED
  BY <1>1, <1>3

(* so that what is logged stays the same, *)
LEMMA MoreLogged ==
    ASSUME NEW l, NEW l2, NEW n, MoreLogs(l, l2, n), NEW f
    PROVE  LoggedIn(l2, f) = LoggedIn(l, f)
<1>1. ASSUME NEW g PROVE g \in LoggedIn(l2, f) <=> g \in LoggedIn(l, f)
  <2>1. g \in LoggedIn(l2, f) <=> \E k \in DOMAIN l2 : k >= f /\ g \in Groups(l2[k].records)
    BY InLogs
  <2>2. g \in LoggedIn(l, f) <=> \E k \in DOMAIN l : k >= f /\ g \in Groups(l[k].records)
    BY InLogs
  <2>3. g \notin Groups(l2[n].records)
    BY NothingLogged DEF MoreLogs
  <2> QED
    BY <2>1, <2>2, <2>3 DEF MoreLogs
<1> QED
  BY <1>1

(* and so does what is accounted for. *)
LEMMA MoreCarry ==
    ASSUME NEW l, NEW l2, NEW n, MoreLogs(l, l2, n), NEW groups, NEW first, NEW last,
           Carries(l, groups, first, last)
    PROVE  Carries(l2, groups, first, last)
<1>1. LoggedIn(l2, first) = LoggedIn(l, first)
  BY MoreLogged
<1>2. \A k \in DOMAIN l2 : k < first => \A g \in Groups(l2[k].records) : Below(g, last)
  <2> SUFFICES ASSUME NEW k \in DOMAIN l2, k < first, NEW g \in Groups(l2[k].records)
               PROVE  Below(g, last)
    OBVIOUS
  <2>1. k # n
    BY NothingLogged DEF MoreLogs
  <2>2. k \in DOMAIN l /\ g \in Groups(l[k].records)
    BY <2>1 DEF MoreLogs
  <2> QED
    BY <2>2 DEF Carries
<1> QED
  BY <1>1, <1>2 DEF Carries

(* The groups of the logs have used no number that is not used. *)
LEMMA MoreUsed ==
    ASSUME NEW l, NEW l2, NEW n, MoreLogs(l, l2, n), NEW groups, NEW log, NEW last,
           Used(l, groups, {}, log, last)
    PROVE  Used(l2, groups, {}, n, last)
<1>1. \A k \in DOMAIN l2 : \A g \in Groups(l2[k].records) : Below(g, last)
  <2> SUFFICES ASSUME NEW k \in DOMAIN l2, NEW g \in Groups(l2[k].records)
               PROVE  Below(g, last)
    OBVIOUS
  <2>1. k # n
    BY NothingLogged DEF MoreLogs
  <2>2. k \in DOMAIN l /\ g \in Groups(l[k].records)
    BY <2>1 DEF MoreLogs
  <2> QED
    BY <2>2 DEF Used
<1> QED
  BY <1>1 DEF Used

(* The logs stay safe. *)
LEMMA MoreSafe ==
    ASSUME LogsSafe, NEW n, MoreLogs(disk.logs, disk'.logs, n), UNCHANGED history
    PROVE  LogsSafe'
<1>1. LogSafe(EmptyFile, promised)
  <2>1. Len(EmptyFile.records) = 0
    BY NothingLogged
  <2> QED
    BY <2>1, NothingLogged DEF LogSafe
<1>2. \A k \in DOMAIN disk'.logs : LogSafe(disk'.logs[k], promised)
  BY <1>1 DEF LogsSafe, MoreLogs
<1>3. LoggedIn(disk'.logs, 0) = LoggedIn(disk.logs, 0)
  BY MoreLogged
<1> QED
  BY <1>2, <1>3 DEF LogsSafe, history

-----------------------------------------------------------------------------
(* Beginning to write.                                                     *)

(* A write that fails at once. *)
LEMMA FailWritePromises ==
    ASSUME DBInv, PromiseInv, FailWrite
    PROVE  PromiseInv'
<1>1. phase \in {"open", "closing", "dead"}
  BY Active DEF FailWrite, Quiescent
<1>2. /\ writers # <<>> /\ writing = {}
      /\ UNCHANGED <<disk, vs, logfile_number, writing, bg, phase, todo, history>>
  BY DEF FailWrite, memory
<1>3. phase \in {"open", "dead"}
  BY <1>2 DEF PromiseInv, WritersSound
<1>4. SameStore
  BY <1>2 DEF SameStore
<1>5. RunsOn
  BY <1>1, <1>2, <1>3, SameNumbers DEF RunsOn
<1> QED
  BY <1>4, <1>5, RunsOnKeeps

(* The files' numbers are all used, and no number of a group is after the  *)
(* last one.                                                               *)
RoomForNumbers ==
    /\ logfile_number \in DOMAIN disk.logs
    /\ \A n \in DOMAIN disk.logs : n < vs.next_file_number
    /\ Used(disk.logs, written, {}, logfile_number, vs.last_sequence)

(* Nothing is underway when nobody writes. *)
LEMMA NothingUnderway ==
    ASSUME NEW W, \A w \in W : ~w.logged
    PROVE  Underway(W) = {}
BY DEF Underway

(* MakeRoomForWrite leaves everything accounted for. *)
LEMMA RoomPromises ==
    ASSUME DBInv, PromiseInv, phase \in {"open", "closing", "dead"}, writing = {},
           MakeRoomForWrite, UNCHANGED <<history, bg, phase>>
    PROVE  /\ LogsSafe' /\ ManifestSays' /\ LogsGoOn' /\ RoomForNumbers'
           /\ vs'.last_sequence = vs.last_sequence
<1> DEFINE n == vs.next_file_number
           k == n + 1
           g == With(disk.logs, n, EmptyFile)
<1>1. NumbersGoOn /\ LogsGoOn /\ LogsSafe /\ ManifestSays
  BY DEF PromiseInv
<1>2. RoomForNumbers
  <2>1. Underway(writing) = {}
    BY NothingUnderway
  <2> QED
    BY <1>1, <2>1 DEF NumbersGoOn, RoomForNumbers
<1>3. CASE UNCHANGED <<disk, vs, logfile_number>>
  <2>1. LogsSafe' /\ ManifestSays' /\ RoomForNumbers'
    BY <1>1, <1>2, <1>3 DEF LogsSafe, ManifestSays, RoomForNumbers, history
  <2>2. LogsGoOn'
    BY <1>1, <1>3 DEF LogsGoOn, EditCarries, history
  <2> QED
    BY <1>3, <2>1, <2>2
<1>4. CASE /\ disk' = [disk EXCEPT !.logs = g]
           /\ logfile_number' = n
           /\ vs' = [vs EXCEPT !.next_file_number = k]
  <2>1. n \in Nat /\ k \in Nat /\ n <= k /\ n < k
    BY VersionsAre
  <2>2. DOMAIN disk.logs \subseteq Nat /\ DiskTyped(disk)
    BY DEF DBInv, DiskSound, DiskTyped
  <2>3. n \notin DOMAIN disk.logs
    BY <1>2, <2>1, <2>2 DEF RoomForNumbers
  <2> HIDE DEF k
  <2>4. /\ vs'.next_file_number = k /\ vs'.last_sequence = vs.last_sequence
        /\ vs'.log_number = vs.log_number
    <3>1. vs'.next_file_number = k /\ vs'.last_sequence = vs.last_sequence
      BY <1>4, <2>1, NumberTaken
    <3>2. vs'.log_number = vs.log_number
      BY <1>4, LogNumberKept
    <3> QED
      BY <3>1, <3>2
  <2>5. MoreLogs(disk.logs, g, n)
    BY <2>3, LogBegun
  <2> HIDE DEF g
  <2>6. /\ disk'.logs = g /\ disk'.current = disk.current /\ disk'.manifests = disk.manifests
    <3>1. PICK l, t, c, m : disk = [logs |-> l, tables |-> t, current |-> c, manifests |-> m]
      BY <2>2 DEF DiskTyped
    <3> QED
      BY <1>4, <3>1
  <2>7. MoreLogs(disk.logs, disk'.logs, n)
    BY <2>5, <2>6
  <2>8. LogsSafe'
    BY <1>1, <2>7, MoreSafe
  <2>9. written' = written
    BY DEF history
  <2>10. ManifestSays'
    <3>1. ASSUME NEW m, NEW j, ManifestCarries(m, j, disk.logs, written)
          PROVE  ManifestCarries(m, j, disk'.logs, written)
      BY <2>7, <3>1, MoreCarry DEF ManifestCarries
    <3> QED
      BY <1>1, <2>6, <2>9, <3>1 DEF ManifestSays
  <2>11. logfile_number \in Nat /\ logfile_number < n
    BY <1>2, <2>2 DEF RoomForNumbers
  <2>12. RoomForNumbers'
    <3>1. n \in DOMAIN disk'.logs
      BY <2>7 DEF MoreLogs
    <3>2. \A j \in DOMAIN disk'.logs : j < k
      <4> SUFFICES ASSUME NEW j \in DOMAIN disk'.logs PROVE j < k
        OBVIOUS
      <4>1. j \in DOMAIN disk.logs \/ j = n
        BY <2>7 DEF MoreLogs
      <4>2. j \in DOMAIN disk.logs => j \in Nat /\ j < n
        BY <1>2, <2>2 DEF RoomForNumbers
      <4> HIDE DEF n
      <4> QED
        BY <2>1, <4>1, <4>2
    <3>3. Used(disk'.logs, written, {}, n, vs.last_sequence)
      BY <1>2, <2>7, MoreUsed DEF RoomForNumbers
    <3> QED
      BY <1>4, <2>4, <2>9, <3>1, <3>2, <3>3 DEF RoomForNumbers
  <2>13. LogsGoOn'
    <3>1. ASSUME NEW x \in Nat, x <= logfile_number PROVE x <= n
      BY <2>1, <2>11, <3>1
    <3>2. ASSUME NEW e, EditCarries(e) PROVE EditCarries(e)'
      BY <1>4, <2>7, <2>9, <3>1, <3>2, MoreCarry DEF EditCarries
    <3>3. LET m == disk.manifests[disk.current]
          IN \A j \in m.synced..Len(m.records) : FirstLog(m, j) \in Nat
      <4>1. disk.current # 0
        BY Active DEF DBInv, PhaseSound, Opened, Running
      <4> QED
        BY <1>1, <4>1 DEF ManifestSays, ManifestCarries
    <3>4. bg.pc \in {"logging", "logged"} => EditCarries(The(bg.edit))'
      BY <1>1, <3>2 DEF LogsGoOn
    <3>5. bg' = bg
      OBVIOUS
    <3>6. vs.log_number \in Nat /\ vs.log_number <= n
      BY <1>1, <3>1 DEF LogsGoOn
    <3>7. LET m == disk.manifests[disk.current]
          IN \A j \in m.synced..Len(m.records) : FirstLog(m, j) <= n
      BY <1>1, <3>1, <3>3 DEF LogsGoOn
    <3> QED
      BY <1>4, <2>4, <2>6, <3>4, <3>5, <3>6, <3>7 DEF LogsGoOn
  <2> QED
    BY <2>4, <2>8, <2>10, <2>12, <2>13
<1>5. \/ UNCHANGED <<disk, vs, logfile_number>>
      \/ /\ disk' = [disk EXCEPT !.logs = g]
         /\ logfile_number' = n
         /\ vs' = [vs EXCEPT !.next_file_number = k]
  BY DEF MakeRoomForWrite
<1> QED
  BY <1>3, <1>4, <1>5

-----------------------------------------------------------------------------
(* The entries of a group.                                                 *)

(* Joined sequences are not empty when the first one is not. *)
LEMMA FlattenLonger ==
    ASSUME NEW T, NEW seqs \in Seq(Seq(T)), Len(seqs) # 0, seqs[1] # <<>>
    PROVE  FlattenSeq(seqs) # <<>>
<1> DEFINE n == Len(seqs)
<1>1. n \in Nat \ {0} /\ \A i \in 1..n : seqs[i] \in Seq(T)
  BY LenProperties
<1>2. PICK h \in [1..Len(seqs) -> Seq(T)] : FlattenSeq(seqs) = h[Len(seqs)] /\ Flattens(h, seqs)
  BY FlattenSteps
<1> DEFINE Q == {0} \cup {i \in 1..n : h[i] # <<>>}
<1>3. \A i \in 1..n : i - 1 \in Q => i \in Q
  <2> SUFFICES ASSUME NEW i \in 1..n, i - 1 \in Q PROVE h[i] # <<>>
    OBVIOUS
  <2>1. CASE i = 1
    BY <1>2, <2>1 DEF Flattens
  <2>2. CASE i # 1
    <3> DEFINE a == h[i - 1]
               b == seqs[i]
    <3>1. i - 1 \in 1..n /\ i \in 2..n /\ i - 1 # 0
      BY <1>1, <2>2
    <3>2. h[i] = a \o b /\ a \in Seq(T) /\ a # <<>> /\ b \in Seq(T)
      BY <1>1, <1>2, <3>1 DEF Flattens
    <3> HIDE DEF a, b
    <3>3. a \o b # <<>>
      BY <3>2
    <3> QED
      BY <3>2, <3>3
  <2> QED
    BY <2>1, <2>2
<1>4. 0 \in Q
  OBVIOUS
<1> HIDE DEF Q
<1>5. \A i \in 0..n : i \in Q
  <2> HIDE DEF n
  <2> QED
    BY <1>1, <1>3, <1>4, BoundedInduction
<1>6. n \in Q /\ n # 0
  BY <1>1, <1>5
<1> QED
  BY <1>2, <1>6 DEF Q

(* A group's entries get the numbers after the last one. *)
LEMMA GroupNumbers ==
    ASSUME NEW group \in Queue, Len(group) # 0, group[1].batch # <<>>, vs.last_sequence \in Nat
    PROVE  /\ GroupEntries(group) # <<>>
           /\ \A e \in ToSet(GroupEntries(group)) :
                 vs.last_sequence < e.seq /\ e.seq <= vs.last_sequence + Len(GroupEntries(group))
<1> DEFINE T == Nat \X {kTypeDeletion, kTypeValue}
           batches == [i \in DOMAIN group |-> group[i].batch]
           ops == FlattenSeq(batches)
<1>1. DOMAIN group = 1..Len(group) /\ Len(group) \in Nat /\ \A i \in 1..Len(group) : group[i].batch \in Seq(T)
  <2> DEFINE W == [thread : Threads, batch : Seq(T), sync : BOOLEAN]
  <2>1. group \in Seq(W) /\ \A w \in W : w.batch \in Seq(T)
    BY DEF Queue
  <2> HIDE DEF W, T
  <2>2. DOMAIN group = 1..Len(group) /\ Len(group) \in Nat /\ \A i \in 1..Len(group) : group[i] \in W
    BY <2>1, LenProperties
  <2> QED
    BY <2>1, <2>2
<1>2. batches \in Seq(Seq(T)) /\ Len(batches) = Len(group)
  <2>1. batches \in [1..Len(group) -> Seq(T)]
    BY <1>1
  <2> HIDE DEF batches
  <2> QED
    BY <1>1, <2>1, SeqOfLength
<1>3. batches[1] # <<>>
  BY <1>1
<1>4. ops \in Seq(T) /\ ops # <<>>
  <2> HIDE DEF batches, T
  <2> QED
    BY <1>2, <1>3, FlattenTyped, FlattenLonger
<1>5. GroupEntries(group)
        = [i \in DOMAIN ops |-> InternalKey(ops[i][1], vs.last_sequence + i, ops[i][2])]
  BY DEF GroupEntries
<1> HIDE DEF ops
<1> DEFINE r == GroupEntries(group)
           n == Len(ops)
<1>6. DOMAIN ops = 1..n /\ n \in Nat \ {0}
  <2> HIDE DEF T
  <2> QED
    BY <1>4, LenProperties
<1>7. r \in Seq(Keys)
  BY EntriesTyped
<1>8. DOMAIN r = 1..n /\ \A i \in 1..n : r[i].seq = vs.last_sequence + i
  BY <1>5, <1>6 DEF InternalKey
<1> HIDE DEF r, n
<1>9. Len(r) = n
  <2>1. DOMAIN r = 1..Len(r) /\ Len(r) \in Nat
    BY <1>7, LenProperties
  <2> QED
    BY <1>6, <1>8, <2>1
<1>10. r # <<>>
  BY <1>6, <1>9
<1>11. \A e \in ToSet(r) : \E i \in 1..n : e = r[i]
  BY <1>8 DEF ToSet
<1>12. \A e \in ToSet(r) : vs.last_sequence < e.seq /\ e.seq <= vs.last_sequence + n
  <2> SUFFICES ASSUME NEW i \in 1..n
               PROVE  vs.last_sequence < r[i].seq /\ r[i].seq <= vs.last_sequence + n
    BY <1>11
  <2>1. r[i].seq = vs.last_sequence + i
    BY <1>8
  <2> QED
    BY <1>6, <2>1
<1> QED
  BY <1>9, <1>10, <1>12 DEF r

(* A group begins with the first writer. *)
LEMMA GroupBegins ==
    ASSUME writers \in Queue, writers # <<>>
    PROVE  Len(BuildBatchGroup) # 0 /\ BuildBatchGroup[1] = Head(writers)
<1> DEFINE stops == {i \in DOMAIN writers : writers[i].sync /\ ~writers[1].sync}
           n == Len(writers)
           upto == IF stops = {} THEN n ELSE Min(stops) - 1
           W == [thread : Threads, batch : Seq(Nat \X {kTypeDeletion, kTypeValue}), sync : BOOLEAN]
<1>1. writers \in Seq(W)
  BY DEF Queue
<1> HIDE DEF W
<1>2. DOMAIN writers = 1..n /\ n \in Nat \ {0} /\ Head(writers) = writers[1]
  <2>1. n \in Nat /\ DOMAIN writers = 1..n
    BY <1>1, LenProperties
  <2>2. n # 0
    BY <1>1
  <2> QED
    BY <1>1, <2>1, <2>2
<1>3. stops # {} => Min(stops) \in stops
  <2>1. stops \in SUBSET Nat
    BY <1>2
  <2> HIDE DEF stops
  <2>2. stops # {} => \E i \in stops : \A j \in stops : i <= j
    BY <2>1, LeastOf
  <2> QED
    BY <2>2 DEF Min
<1>4. stops \subseteq 2..n
  BY <1>2
<1>5. BuildBatchGroup = SubSeq(writers, 1, upto)
  BY DEF BuildBatchGroup
<1> HIDE DEF stops, n
<1>6. upto \in 1..n
  <2>1. CASE stops = {}
    BY <1>2, <2>1
  <2>2. CASE stops # {}
    <3> DEFINE k == Min(stops)
    <3>1. k \in 2..n /\ upto = k - 1
      BY <1>3, <1>4, <2>2
    <3> HIDE DEF k, upto
    <3> QED
      BY <1>2, <3>1
  <2> QED
    BY <2>1, <2>2
<1> HIDE DEF upto
<1>7. n = Len(writers)
  BY DEF n
<1>8. Len(SubSeq(writers, 1, upto)) = upto /\ SubSeq(writers, 1, upto)[1] = writers[1]
  BY <1>1, <1>2, <1>6, <1>7, SubSeqProperties
<1> QED
  BY <1>2, <1>5, <1>6, <1>8

(* The first writer begins. *)
LEMMA BeginWritePromises ==
    ASSUME DBInv, PromiseInv, BeginWrite
    PROVE  PromiseInv'
<1>1. /\ phase # "dead" /\ writers # <<>> /\ writing = {} /\ MakeRoomForWrite
      /\ UNCHANGED <<history, bg, phase, todo>>
  BY DEF BeginWrite, Alive
<1>2. phase = "open" /\ writers \in Queue /\ vs.last_sequence \in Nat
  BY <1>1, VersionsAre DEF PromiseInv, WritersSound, DBInv, ClientsTyped, Queue
<1>3. /\ LogsSafe' /\ ManifestSays' /\ LogsGoOn' /\ RoomForNumbers'
      /\ vs'.last_sequence = vs.last_sequence
  BY <1>1, <1>2, RoomPromises
<1> DEFINE r == GroupEntries(BuildBatchGroup)
           c == Len(BuildBatchGroup)
           w == [count |-> c, logged |-> FALSE, record |-> r]
<1>4. CASE Head(writers).batch # <<>>
  <2>1. writing' = {w} /\ writers' = writers
    BY <1>4 DEF BeginWrite
  <2>2. /\ r # <<>>
        /\ \A e \in ToSet(r) : vs.last_sequence < e.seq /\ e.seq <= vs.last_sequence + Len(r)
    <3>1. BuildBatchGroup \in Queue
      BY <1>2, GroupTyped
    <3>2. Len(BuildBatchGroup) # 0 /\ BuildBatchGroup[1].batch # <<>>
      BY <1>1, <1>2, <1>4, GroupBegins
    <3> QED
      BY <1>2, <3>1, <3>2, GroupNumbers
  <2> HIDE DEF r, c
  <2>0. w.record = r /\ w.logged = FALSE
    OBVIOUS
  <2>3. PICK u : writing' = {u} /\ u.record = r /\ u.logged = FALSE
    BY <2>0, <2>1
  <2> HIDE DEF w
  <2>4. Underway(writing') = {}
    <3>1. \A x \in writing' : ~x.logged
      BY <2>3
    <3> DEFINE W == writing'
    <3>2. \A x \in W : ~x.logged
      BY <3>1
    <3> HIDE DEF W
    <3>3. Underway(W) = {}
      BY <3>2, NothingUnderway
    <3> QED
      BY <3>3 DEF W
  <2>5. NumbersGoOn'
    BY <1>3, <2>4 DEF RoomForNumbers, NumbersGoOn
  <2>6. WriteSound(u, vs.last_sequence)'
    BY <1>3, <2>2, <2>3 DEF WriteSound
  <2>7. WritersSound'
    BY <1>1, <1>2, <2>1, <2>3, <2>6 DEF WritersSound
  <2> QED
    BY <1>1, <1>2, <1>3, <2>5, <2>7 DEF PromiseInv
<1>5. CASE Head(writers).batch = <<>>
  <2>1. writing' = {} /\ Underway(writing') = {}
    BY <1>1, <1>5 DEF BeginWrite, Underway
  <2>2. NumbersGoOn'
    BY <1>3, <2>1 DEF RoomForNumbers, NumbersGoOn
  <2>3. WritersSound'
    BY <1>1, <1>2, <2>1 DEF WritersSound
  <2> QED
    BY <1>1, <1>2, <1>3, <2>2, <2>3 DEF PromiseInv
<1> QED
  BY <1>4, <1>5

-----------------------------------------------------------------------------
(* A record goes into a log.                                               *)

Extended(l, l2, n, record) ==
    /\ n \in DOMAIN l /\ DOMAIN l2 = DOMAIN l
    /\ \A k \in DOMAIN l : k # n => l2[k] = l[k]
    /\ l2[n].records = Append(l[n].records, record) /\ l2[n].synced = l[n].synced

(* That is all that changes of the logs. *)
LEMMA RecordLogged ==
    ASSUME DBInv, NEW n \in DOMAIN disk.logs, NEW record,
           disk' = [disk EXCEPT !.logs[n].records = Append(@, record)]
    PROVE  Extended(disk.logs, disk'.logs, n, record)
<1> DEFINE f == disk.logs
           q == Append(f[n].records, record)
           x == [f[n] EXCEPT !.records = q]
           g == [f EXCEPT ![n] = x]
<1>1. DiskTyped(disk)
  BY DEF DBInv, DiskSound
<1>2. disk' = [disk EXCEPT !.logs = g]
  OBVIOUS
<1>3. x.records = q /\ x.synced = f[n].synced
  <2>1. f[n] \in [records : Seq(Seq(Keys)), synced : Nat]
    BY <1>1 DEF DiskTyped, LogFiles
  <2> HIDE DEF q, f
  <2> QED
    BY <2>1
<1> HIDE DEF x
<1>4. DOMAIN g = DOMAIN f /\ g[n] = x /\ \A k \in DOMAIN f : k # n => g[k] = f[k]
  BY <1>1
<1> HIDE DEF g
<1>5. disk'.logs = g
  <2>1. PICK l, t, c, m : disk = [logs |-> l, tables |-> t, current |-> c, manifests |-> m]
    BY <1>1 DEF DiskTyped
  <2> QED
    BY <1>2, <2>1
<1> QED
  BY <1>3, <1>4, <1>5 DEF Extended

(* Its groups are those it had and the new one. *)
LEMMA ExtendedGroups ==
    ASSUME DiskTyped(disk), NEW n, NEW record \in Seq(Keys), record # <<>>, NEW l2,
           Extended(disk.logs, l2, n, record)
    PROVE  /\ ToSet(record) # {}
           /\ Groups(l2[n].records) = Groups(disk.logs[n].records) \cup {ToSet(record)}
           /\ \A k \in DOMAIN disk.logs : Groups(disk.logs[k].records) \subseteq Groups(l2[k].records)
<1>1. ToSet(record) # {}
  <2>1. 1 \in DOMAIN record
    <3>1. DOMAIN record = 1..Len(record) /\ Len(record) \in Nat /\ Len(record) # 0
      BY LenProperties
    <3> QED
      BY <3>1
  <2> QED
    BY <2>1 DEF ToSet
<1>2. n \in DOMAIN disk.logs /\ disk.logs[n].records \in Seq(Seq(Keys))
  BY LogIs DEF Extended
<1>3. l2[n].records = Append(disk.logs[n].records, record)
  BY DEF Extended
<1>4. Groups(l2[n].records) = Groups(disk.logs[n].records) \cup ({ToSet(record)} \ {{}})
  BY <1>2, <1>3, GroupAppended
<1>5. Groups(l2[n].records) = Groups(disk.logs[n].records) \cup {ToSet(record)}
  BY <1>1, <1>4
<1>6. \A k \in DOMAIN disk.logs : k # n => l2[k] = disk.logs[k]
  BY DEF Extended
<1> QED
  BY <1>1, <1>5, <1>6

(* What is accounted for goes on being so, if the log is replayed. *)
LEMMA ExtendedCarries ==
    ASSUME DiskTyped(disk), NEW n, NEW record \in Seq(Keys), record # <<>>, NEW l2,
           Extended(disk.logs, l2, n, record), NEW groups, NEW first \in Nat, first <= n,
           NEW last, Carries(disk.logs, groups, first, last)
    PROVE  Carries(l2, groups, first, last)
<1>0. /\ DOMAIN l2 = DOMAIN disk.logs /\ n \in DOMAIN l2
      /\ \A k \in DOMAIN disk.logs : k # n => l2[k] = disk.logs[k]
  BY DEF Extended
<1>1. /\ \A k \in DOMAIN disk.logs : Groups(disk.logs[k].records) \subseteq Groups(l2[k].records)
      /\ DOMAIN l2 = DOMAIN disk.logs /\ n \in DOMAIN l2
      /\ \A k \in DOMAIN disk.logs : k # n => l2[k] = disk.logs[k]
  BY <1>0, ExtendedGroups
<1>2. n \in Nat
  BY <1>1 DEF DiskTyped
<1>3. \A k \in DOMAIN l2 : k < first => \A g \in Groups(l2[k].records) : Below(g, last)
  <2> SUFFICES ASSUME NEW k \in DOMAIN l2, k < first, NEW g \in Groups(l2[k].records)
               PROVE  Below(g, last)
    OBVIOUS
  <2>1. k # n
    BY <1>2
  <2> QED
    BY <1>1, <2>1 DEF Carries
<1>4. LoggedIn(disk.logs, first) \subseteq LoggedIn(l2, first)
  <2> SUFFICES ASSUME NEW g \in LoggedIn(disk.logs, first) PROVE g \in LoggedIn(l2, first)
    OBVIOUS
  <2>1. PICK k \in DOMAIN disk.logs : k >= first /\ g \in Groups(disk.logs[k].records)
    BY InLogs
  <2> QED
    BY <1>1, <2>1, InLogs
<1> QED
  BY <1>3, <1>4 DEF Carries

(* The extended log is safe: the new group is not promised yet. *)
LEMMA ExtendedSafe ==
    ASSUME NEW f, f.records \in Seq(Seq(Keys)), f.synced \in Nat, NEW kept, LogSafe(f, kept),
           NEW record \in Seq(Keys), record # <<>>, ToSet(record) \notin kept,
           NEW f2, f2.records = Append(f.records, record), f2.synced = f.synced
    PROVE  LogSafe(f2, kept)
<1> DEFINE r == f.records
           n == Len(r)
           s == f.synced
           q == Append(r, record)
<1>1. n \in Nat /\ s \in 0..n /\ (\A i \in 1..n : r[i] # <<>>)
      /\ Groups(r) \cap kept \subseteq Groups(SubSeq(r, 1, s))
  BY LenProperties DEF LogSafe
<1>2. /\ q \in Seq(Seq(Keys)) /\ Len(q) = n + 1
      /\ \A i \in 1..n : q[i] = r[i]
      /\ q[n + 1] = record
  BY AppendProperties, LenProperties
<1>3. Groups(q) = Groups(r) \cup ({ToSet(record)} \ {{}})
  BY GroupAppended
<1>4. SubSeq(q, 1, s) = SubSeq(r, 1, s)
  <2> DEFINE a == SubSeq(q, 1, s)
             b == SubSeq(r, 1, s)
  <2>1. s \in 0..Len(q) /\ s \in 0..Len(r) /\ \A i \in 1..s : i \in 1..n
    BY <1>1, <1>2
  <2>2. b \in Seq(Seq(Keys)) /\ Len(b) = s /\ \A i \in 1..s : b[i] = r[i]
    BY <2>1, GroupsOfPart
  <2> HIDE DEF q
  <2>3. a \in Seq(Seq(Keys)) /\ Len(a) = s /\ \A i \in 1..s : a[i] = q[i]
    BY <1>2, <2>1, GroupsOfPart
  <2> HIDE DEF a, b
  <2>4. a = b
    BY <1>2, <2>1, <2>2, <2>3, SeqEqual
  <2> QED
    BY <2>4 DEF a, b
<1> HIDE DEF q
<1>5. f2.records = q /\ f2.synced = s
  BY DEF q
<1>6. \A i \in 1..(n + 1) : q[i] # <<>>
  <2> SUFFICES ASSUME NEW i \in 1..(n + 1) PROVE q[i] # <<>>
    OBVIOUS
  <2>1. i \in 1..n \/ i = n + 1
    BY <1>1
  <2> QED
    BY <1>1, <1>2, <2>1
<1>7. Groups(q) \cap kept \subseteq Groups(SubSeq(q, 1, s))
  BY <1>1, <1>3, <1>4
<1>8. s <= Len(q)
  BY <1>1, <1>2
<1> QED
  BY <1>2, <1>5, <1>6, <1>7, <1>8 DEF LogSafe

(* The record of the writer's group goes into the log. *)
LEMMA AddRecordPromises ==
    ASSUME DBInv, PromiseInv, AddRecord
    PROVE  PromiseInv'
<1>1. PICK w \in writing :
         /\ ~w.logged /\ phase # "dead"
         /\ disk' = [disk EXCEPT !.logs[logfile_number].records = Append(@, w.record)]
         /\ writing' = {[w EXCEPT !.logged = TRUE]}
         /\ UNCHANGED <<vs, memory, writers, bg, phase, todo, history>>
  BY DEF AddRecord, Alive
<1> DEFINE n == logfile_number
           r == w.record
           last == vs.last_sequence
           l == disk.logs
           l2 == disk'.logs
           g == ToSet(r)
<1>2. phase = "open" /\ writing = {w} /\ WriteSound(w, last) /\ writers # <<>>
  BY <1>1 DEF PromiseInv, WritersSound
<1>3. LogsSafe /\ ManifestSays /\ NumbersGoOn /\ LogsGoOn
  BY <1>2 DEF PromiseInv
<1>4. r \in Seq(Keys) /\ r # <<>> /\ n \in DOMAIN l /\ n \in Nat /\ last \in Nat /\ DiskTyped(disk)
  BY <1>2, <1>3, VersionsAre DEF WriteSound, NumbersGoOn, DBInv, ClientsTyped, DiskSound, DiskTyped
<1>5. Extended(l, l2, n, r)
  BY <1>1, <1>4, RecordLogged
<1>6. /\ disk'.current = disk.current /\ disk'.manifests = disk.manifests
  BY <1>1, <1>4, LogAppended
<1>7. /\ g # {} /\ Groups(l2[n].records) = Groups(l[n].records) \cup {g}
      /\ DOMAIN l2 = DOMAIN l /\ \A k \in DOMAIN l : k # n => l2[k] = l[k]
  BY <1>4, <1>5, ExtendedGroups DEF Extended
<1>8. Underway(writing) = {}
  <2>1. \A x \in writing : ~x.logged
    BY <1>1, <1>2
  <2> QED
    BY <2>1, NothingUnderway
<1>9. /\ \A h \in written : Below(h, last)
      /\ \A k \in DOMAIN l : \A h \in Groups(l[k].records) : Below(h, last)
  BY <1>3, <1>8 DEF NumbersGoOn, Used
<1>10. \A e \in g : e.seq \in Nat /\ last < e.seq
  <2>1. \A e \in g : last < e.seq
    BY <1>2 DEF WriteSound
  <2>2. g \subseteq Keys
    BY <1>4, SeqOfItsSet
  <2> QED
    BY <2>1, <2>2 DEF Keys
<1>11. ~Below(g, last)
  BY <1>4, <1>7, <1>10 DEF Below
<1>12. g \notin promised
  BY <1>3, <1>9, <1>11 DEF LogsSafe
<1>13. written' = written /\ promised' = promised /\ vs' = vs /\ logfile_number' = n
       /\ bg' = bg /\ phase' = phase /\ writers' = writers /\ todo' = todo
  BY <1>1 DEF history, memory
<1>14. LogsSafe'
  <2>1. \A k \in DOMAIN l2 : LogSafe(l2[k], promised)
    <3> SUFFICES ASSUME NEW k \in DOMAIN l2 PROVE LogSafe(l2[k], promised)
      OBVIOUS
    <3>1. CASE k # n
      BY <1>3, <1>7, <3>1 DEF LogsSafe
    <3>2. CASE k = n
      <4>1. l[n].records \in Seq(Seq(Keys)) /\ l[n].synced \in Nat /\ LogSafe(l[n], promised)
        BY <1>3, <1>4, LogIs DEF LogsSafe
      <4>2. l2[n].records = Append(l[n].records, r) /\ l2[n].synced = l[n].synced
        BY <1>5 DEF Extended
      <4> HIDE DEF l, l2, r
      <4> DEFINE a == l[n]
                 b == l2[n]
      <4>3. /\ a.records \in Seq(Seq(Keys)) /\ a.synced \in Nat /\ LogSafe(a, promised)
            /\ b.records = Append(a.records, r) /\ b.synced = a.synced
        BY <4>1, <4>2
      <4> HIDE DEF a, b
      <4>4. LogSafe(b, promised)
        BY <1>4, <1>12, <4>3, ExtendedSafe
      <4> QED
        BY <3>2, <4>4 DEF b
    <3> QED
      BY <3>1, <3>2
  <2>2. Apart(written \cup LoggedIn(l2, 0))
    <3> DEFINE S == written \cup LoggedIn(l, 0)
               T == written \cup LoggedIn(l2, 0)
    <3>1. T \subseteq S \cup {g}
      <4> SUFFICES ASSUME NEW h \in LoggedIn(l2, 0) PROVE h \in S \cup {g}
        OBVIOUS
      <4>1. PICK k \in DOMAIN l2 : k >= 0 /\ h \in Groups(l2[k].records)
        BY InLogs
      <4>2. h \in Groups(l[k].records) \/ h = g
        BY <1>7, <4>1
      <4>3. h \in Groups(l[k].records) => h \in LoggedIn(l, 0)
        BY <1>7, <4>1, InLogs
      <4> QED
        BY <4>2, <4>3
    <3>2. Apart(S)
      BY <1>3 DEF LogsSafe
    <3>3. \A h \in S : Below(h, last)
      <4>1. \A h \in LoggedIn(l, 0) : \E k \in DOMAIN l : h \in Groups(l[k].records)
        BY InLogs
      <4> QED
        BY <1>9, <4>1
    <3>4. Apart(T)
      <4> SUFFICES ASSUME NEW c \in T, NEW d \in T, c # d, NEW x \in c, NEW y \in d
                   PROVE  x.seq # y.seq
        BY DEF Apart
      <4>1. CASE c \in S /\ d \in S
        BY <3>2, <4>1 DEF Apart
      <4>2. CASE c = g /\ d \in S
        <5>1. y.seq <= last /\ last < x.seq
          BY <1>10, <3>3, <4>2 DEF Below
        <5> QED
          BY <1>4, <1>10, <4>2, <5>1
      <4>3. CASE d = g /\ c \in S
        <5>1. x.seq <= last /\ last < y.seq
          BY <1>10, <3>3, <4>3 DEF Below
        <5> QED
          BY <1>4, <1>10, <4>3, <5>1
      <4> QED
        BY <3>1, <4>1, <4>2, <4>3
    <3> QED
      BY <3>4
  <2> QED
    BY <1>3, <1>13, <2>1, <2>2 DEF LogsSafe
<1>15. ASSUME NEW first \in Nat, first <= n, NEW x, Carries(l, written, first, x)
       PROVE  Carries(l2, written, first, x)
  BY <1>4, <1>5, <1>15, ExtendedCarries
<1>16. disk.current # 0
  BY <1>2 DEF DBInv, PhaseSound, Opened, Running
<1>17. ManifestSays'
  <2> DEFINE m == disk.manifests[disk.current]
  <2>1. \A k \in m.synced..Len(m.records) : ManifestCarries(m, k, l2, written)
    <3> SUFFICES ASSUME NEW k \in m.synced..Len(m.records) PROVE ManifestCarries(m, k, l2, written)
      OBVIOUS
    <3>1. ManifestCarries(m, k, l, written) /\ FirstLog(m, k) <= n
      BY <1>3, <1>16 DEF ManifestSays, LogsGoOn
    <3> HIDE DEF m, l, l2, n
    <3> QED
      BY <1>15, <3>1 DEF ManifestCarries
  <2> QED
    BY <1>6, <1>13, <1>16, <2>1 DEF ManifestSays
<1>18. LogsGoOn'
  <2>1. ASSUME NEW e, EditCarries(e) PROVE EditCarries(e)'
    BY <1>13, <1>15, <2>1 DEF EditCarries
  <2>2. bg.pc \in {"logging", "logged"} => EditCarries(The(bg.edit))'
    BY <1>3, <1>13, <2>1 DEF LogsGoOn
  <2> QED
    BY <1>3, <1>6, <1>13, <2>2 DEF LogsGoOn
<1>19. PICK u : writing' = {u} /\ u.record = r /\ u.logged
  <2> DEFINE v == [w EXCEPT !.logged = TRUE]
  <2>1. w \in [count : Nat, logged : BOOLEAN, record : Seq(Keys)]
    BY DEF DBInv, ClientsTyped
  <2>2. v.record = w.record /\ v.logged
    <3> DEFINE Q == Seq(Keys)
    <3> HIDE DEF Q
    <3>1. w \in [count : Nat, logged : BOOLEAN, record : Q]
      BY <2>1 DEF Q
    <3> QED
      BY <3>1
  <2> HIDE DEF v
  <2>3. writing' = {v}
    BY <1>1 DEF v
  <2> QED
    BY <2>2, <2>3
<1>20. NumbersGoOn'
  <2>1. g \in Underway({u})
    BY <1>19 DEF Underway
  <2>2. \A k \in DOMAIN l2 : \A h \in Groups(l2[k].records) : Below(h, last) \/ (k = n /\ h \in Underway({u}))
    <3> SUFFICES ASSUME NEW k \in DOMAIN l2, NEW h \in Groups(l2[k].records)
                 PROVE  Below(h, last) \/ (k = n /\ h \in Underway({u}))
      OBVIOUS
    <3>1. h \in Groups(l[k].records) \/ (k = n /\ h = g)
      BY <1>7
    <3> QED
      BY <1>7, <1>9, <2>1, <3>1
  <2>3. Used(l2, written, Underway({u}), n, last)
    BY <1>9, <2>2 DEF Used
  <2> QED
    BY <1>3, <1>4, <1>7, <1>13, <1>19, <2>3 DEF NumbersGoOn
<1>21. WritersSound'
  <2>1. WriteSound(u, vs.last_sequence)'
    <3>1. ToSet(u.record) \in Groups(l2[n].records)
      BY <1>7, <1>19
    <3> QED
      BY <1>2, <1>13, <1>19, <3>1 DEF WriteSound
  <2> QED
    BY <1>2, <1>13, <1>19, <2>1 DEF WritersSound
<1> QED
  BY <1>2, <1>3, <1>13, <1>14, <1>17, <1>18, <1>20, <1>21 DEF PromiseInv

-----------------------------------------------------------------------------
(* The end of a write.                                                     *)

(* The logs hold what they did; at most the n-th is synced up to its end.  *)
Resynced(l, l2, n, all) ==
    /\ DOMAIN l2 = DOMAIN l
    /\ \A k \in DOMAIN l : l2[k].records = l[k].records /\ (k # n \/ ~all => l2[k] = l[k])
    /\ all => l2[n].synced = Len(l[n].records)

(* A sync of a log changes nothing else. *)
LEMMA LogResynced ==
    ASSUME DBInv, NEW n \in DOMAIN disk.logs,
           disk' = [disk EXCEPT !.logs[n].synced = Len(disk.logs[n].records)]
    PROVE  Resynced(disk.logs, disk'.logs, n, TRUE)
<1> DEFINE f == disk.logs
           s == Len(f[n].records)
           x == [f[n] EXCEPT !.synced = s]
           g == [f EXCEPT ![n] = x]
<1>1. DiskTyped(disk)
  BY DEF DBInv, DiskSound
<1>2. disk' = [disk EXCEPT !.logs = g]
  OBVIOUS
<1>3. x.synced = s /\ x.records = f[n].records
  <2>1. f[n] \in [records : Seq(Seq(Keys)), synced : Nat]
    BY <1>1 DEF DiskTyped, LogFiles
  <2> HIDE DEF s, f
  <2> QED
    BY <2>1
<1> HIDE DEF x
<1>4. DOMAIN g = DOMAIN f /\ g[n] = x /\ \A k \in DOMAIN f : k # n => g[k] = f[k]
  BY <1>1
<1> HIDE DEF g
<1>5. disk'.logs = g
  <2>1. PICK l, t, c, m : disk = [logs |-> l, tables |-> t, current |-> c, manifests |-> m]
    BY <1>1 DEF DiskTyped
  <2> QED
    BY <1>2, <2>1
<1>6. \A k \in DOMAIN f : g[k].records = f[k].records /\ (k # n => g[k] = f[k])
  BY <1>3, <1>4
<1>7. g[n].synced = s
  BY <1>3, <1>4
<1> QED
  BY <1>4, <1>5, <1>6, <1>7 DEF Resynced

(* A log that is synced holds the promised groups in what is synced. *)
LEMMA SyncedSafe ==
    ASSUME NEW f, f.records \in Seq(Seq(Keys)), NEW kept, LogSafe(f, kept),
           NEW f2, f2.records = f.records, f2.synced = Len(f.records), NEW kept2
    PROVE  LogSafe(f2, kept2)
<1> DEFINE r == f.records
<1>1. Len(r) \in Nat /\ SubSeq(r, 1, Len(r)) = r
  BY LenProperties
<1>2. \A i \in 1..Len(r) : r[i] # <<>>
  BY DEF LogSafe
<1> HIDE DEF r
<1>3. f2.records = r /\ f2.synced = Len(r)
  BY DEF r
<1>4. f2.synced <= Len(f2.records) /\ SubSeq(f2.records, 1, f2.synced) = r
  BY <1>1, <1>3
<1> QED
  BY <1>2, <1>3, <1>4 DEF LogSafe

(* What becomes of the history. *)
Credits(group, credited, kept) ==
    /\ written' = IF credited THEN written \cup {group} ELSE written
    /\ promised' = IF kept THEN promised \cup {group} ELSE promised
    /\ kept => credited

(* What is accounted for stays so, and the group counts when it is in the  *)
(* log.                                                                    *)
LEMMA CreditCarries ==
    ASSUME NEW l, NEW l2, NEW n \in DOMAIN l, NEW all, Resynced(l, l2, n, all), DOMAIN l \subseteq Nat,
           NEW group, group \in Groups(l[n].records),
           NEW groups, NEW groups2, groups2 \subseteq groups \cup {group},
           NEW first \in Nat, first <= n, NEW last, Carries(l, groups, first, last)
    PROVE  Carries(l2, groups2, first, last)
<1>1. LoggedIn(l2, first) = LoggedIn(l, first)
  <2>1. ASSUME NEW g PROVE g \in LoggedIn(l2, first) <=> g \in LoggedIn(l, first)
    <3>1. g \in LoggedIn(l2, first) <=> \E k \in DOMAIN l2 : k >= first /\ g \in Groups(l2[k].records)
      BY InLogs
    <3>2. g \in LoggedIn(l, first) <=> \E k \in DOMAIN l : k >= first /\ g \in Groups(l[k].records)
      BY InLogs
    <3> QED
      BY <3>1, <3>2 DEF Resynced
  <2> QED
    BY <2>1
<1>2. group \in LoggedIn(l, first)
  BY InLogs
<1>3. \A k \in DOMAIN l2 : k < first => \A g \in Groups(l2[k].records) : Below(g, last)
  BY DEF Resynced, Carries
<1> QED
  BY <1>1, <1>2, <1>3 DEF Carries

(* The end of a group: its numbers are used, and if it is credited it is   *)
(* in the log, and synced if it is promised.                               *)
LEMMA GroupPromises ==
    ASSUME DBInv, PromiseInv, NEW w \in writing, w.logged, NEW ok \in BOOLEAN, EndGroup(w, ok),
           UNCHANGED <<bg, phase>>, disk'.current = disk.current, disk'.manifests = disk.manifests,
           NEW all \in BOOLEAN, Resynced(disk.logs, disk'.logs, logfile_number, all),
           Credits(ToSet(w.record), ok, all),
           todo'.faults \subseteq todo.faults
    PROVE  PromiseInv'
<1> DEFINE n == logfile_number
           r == w.record
           last == vs.last_sequence
           next == last + Len(r)
           l == disk.logs
           l2 == disk'.logs
           g == ToSet(r)
<1>1. phase = "open" /\ writing = {w} /\ WriteSound(w, last) /\ writers # <<>>
  <2>1. phase # "dead"
    BY DEF EndGroup, Alive
  <2> QED
    BY <2>1 DEF PromiseInv, WritersSound
<1>2. LogsSafe /\ ManifestSays /\ NumbersGoOn /\ LogsGoOn
  BY <1>1 DEF PromiseInv
<1>3. r \in Seq(Keys) /\ r # <<>> /\ n \in DOMAIN l /\ n \in Nat /\ last \in Nat /\ DiskTyped(disk)
      /\ DOMAIN l \subseteq Nat
  BY <1>1, <1>2, VersionsAre DEF WriteSound, NumbersGoOn, DBInv, ClientsTyped, DiskSound, DiskTyped
<1>4. Len(r) \in Nat /\ next \in Nat /\ last <= next
  BY <1>3, LenProperties
<1>5. /\ writing' = {} /\ logfile_number' = n /\ vs' = [vs EXCEPT !.last_sequence = next]
  BY DEF EndGroup
<1>6. /\ vs'.last_sequence = next /\ vs'.next_file_number = vs.next_file_number
      /\ vs'.log_number = vs.log_number
  <2> HIDE DEF next
  <2>1. vs'.last_sequence = next /\ vs'.next_file_number = vs.next_file_number
    BY <1>4, <1>5, SequenceTaken
  <2>2. vs'.log_number = vs.log_number
    BY <1>5, LogNumberKept
  <2> QED
    BY <2>1, <2>2
<1>7. g \in Groups(l[n].records) /\ g # {}
  BY <1>1, <1>3 DEF WriteSound, Groups
<1>8. \A e \in g : e.seq \in Nat /\ last < e.seq /\ e.seq <= next
  <2>1. \A e \in g : last < e.seq /\ e.seq <= next
    BY <1>1 DEF WriteSound
  <2>2. g \subseteq Keys
    BY <1>3, SeqOfItsSet
  <2> QED
    BY <2>1, <2>2 DEF Keys
<1>9. /\ DOMAIN l2 = DOMAIN l
      /\ \A k \in DOMAIN l : l2[k].records = l[k].records /\ (k # n \/ ~all => l2[k] = l[k])
      /\ all => l2[n].synced = Len(l[n].records)
  BY DEF Resynced
<1>10. /\ written' = IF ok THEN written \cup {g} ELSE written
       /\ promised' = IF all THEN promised \cup {g} ELSE promised
       /\ all => ok
  BY DEF Credits
<1>11. /\ \A h \in written : Below(h, last)
       /\ \A k \in DOMAIN l : \A h \in Groups(l[k].records) : Below(h, last) \/ (k = n /\ h = g)
  <2>1. Underway(writing) = {g}
    BY <1>1 DEF Underway
  <2> QED
    BY <1>2, <2>1 DEF NumbersGoOn, Used
<1>12. ~Below(g, last)
  BY <1>3, <1>7, <1>8 DEF Below
<1> HIDE DEF g, next
<1>13. LogsSafe'
  <2>1. \A k \in DOMAIN l2 : LogSafe(l2[k], promised')
    <3> SUFFICES ASSUME NEW k \in DOMAIN l2 PROVE LogSafe(l2[k], promised')
      OBVIOUS
    <3>0. l[k].records \in Seq(Seq(Keys)) /\ LogSafe(l[k], promised) /\ k \in DOMAIN l
      BY <1>2, <1>3, <1>9, LogIs DEF LogsSafe
    <3>1. CASE ~all
      BY <1>9, <1>10, <3>0, <3>1
    <3>2. CASE all /\ k # n
      <4>1. g \notin Groups(l[k].records)
        BY <1>11, <1>12, <3>0, <3>2
      <4>2. l2[k] = l[k] /\ Groups(l[k].records) \cap promised' = Groups(l[k].records) \cap promised
        BY <1>9, <1>10, <3>0, <3>2, <4>1
      <4> QED
        BY <3>0, <4>2 DEF LogSafe
    <3>3. CASE all /\ k = n
      <4> DEFINE a == l[n]
                 b == l2[n]
      <4>1. /\ a.records \in Seq(Seq(Keys)) /\ LogSafe(a, promised)
            /\ b.records = a.records /\ b.synced = Len(a.records)
        BY <1>9, <3>0, <3>3
      <4> HIDE DEF a, b
      <4>2. LogSafe(b, promised')
        BY <4>1, SyncedSafe
      <4> QED
        BY <3>3, <4>2 DEF b
    <3> QED
      BY <3>1, <3>2, <3>3
  <2>2. LoggedIn(l2, 0) \subseteq LoggedIn(l, 0) /\ g \in LoggedIn(l, 0)
    <3>1. g \in LoggedIn(l, 0)
      BY <1>3, <1>7, InLogs
    <3>2. \A h \in LoggedIn(l2, 0) : h \in LoggedIn(l, 0)
      BY <1>9, InLogs
    <3> QED
      BY <3>1, <3>2
  <2>3. Apart(written' \cup LoggedIn(l2, 0))
    <3>1. written' \cup LoggedIn(l2, 0) \subseteq written \cup LoggedIn(l, 0)
      BY <1>10, <2>2
    <3>2. Apart(written \cup LoggedIn(l, 0))
      BY <1>2 DEF LogsSafe
    <3> QED
      BY <3>1, <3>2, ApartFewer
  <2>4. promised' \subseteq written'
    BY <1>2, <1>10 DEF LogsSafe
  <2> QED
    BY <2>1, <2>3, <2>4 DEF LogsSafe
<1>14. ASSUME NEW first \in Nat, first <= n, NEW x, Carries(l, written, first, x)
       PROVE  Carries(l2, written', first, x)
  <2>1. written' \subseteq written \cup {g}
    BY <1>10
  <2> QED
    BY <1>3, <1>7, <1>14, <2>1, CreditCarries
<1>15. disk.current # 0
  BY <1>1 DEF DBInv, PhaseSound, Opened, Running
<1>16. ManifestSays'
  <2> DEFINE m == disk.manifests[disk.current]
  <2>1. \A k \in m.synced..Len(m.records) : ManifestCarries(m, k, l2, written')
    <3> SUFFICES ASSUME NEW k \in m.synced..Len(m.records) PROVE ManifestCarries(m, k, l2, written')
      OBVIOUS
    <3>1. ManifestCarries(m, k, l, written) /\ FirstLog(m, k) <= n
      BY <1>2, <1>15 DEF ManifestSays, LogsGoOn
    <3> HIDE DEF m, l, l2, n
    <3> QED
      BY <1>14, <3>1 DEF ManifestCarries
  <2> QED
    BY <1>15, <2>1 DEF ManifestSays
<1>17. LogsGoOn'
  <2>1. ASSUME NEW e, EditCarries(e) PROVE EditCarries(e)'
    BY <1>5, <1>14, <2>1 DEF EditCarries
  <2>2. bg.pc \in {"logging", "logged"} => EditCarries(The(bg.edit))'
    BY <1>2, <2>1 DEF LogsGoOn
  <2> QED
    BY <1>2, <1>5, <1>6, <2>2 DEF LogsGoOn
<1>18. NumbersGoOn'
  <2>1. ASSUME NEW h, Below(h, last) PROVE Below(h, next)
    BY <1>3, <1>4, <2>1, BelowMore
  <2>2. Below(g, next)
    BY <1>8 DEF Below
  <2>3. \A k \in DOMAIN l : \A h \in Groups(l[k].records) : Below(h, next)
    <3> SUFFICES ASSUME NEW k \in DOMAIN l, NEW h \in Groups(l[k].records) PROVE Below(h, next)
      OBVIOUS
    <3> QED
      BY <1>11, <2>1, <2>2
  <2>4. \A h \in written : Below(h, next)
    BY <1>3, <1>4, <1>11, BelowMore
  <2>5. \A h \in written' : Below(h, next)
    BY <1>10, <2>2, <2>4
  <2>6. Used(l2, written', {}, n, next)
    BY <1>9, <2>3, <2>5 DEF Used
  <2>7. Underway({}) = {}
    BY DEF Underway
  <2> QED
    BY <1>2, <1>5, <1>6, <1>9, <2>6, <2>7 DEF NumbersGoOn
<1>19. WritersSound'
  BY <1>1, <1>5 DEF WritersSound
<1> QED
  BY <1>1, <1>13, <1>16, <1>17, <1>18, <1>19 DEF PromiseInv

(* A write that succeeds. *)
LEMMA FinishWritePromises ==
    ASSUME DBInv, PromiseInv, FinishWrite
    PROVE  PromiseInv'
<1>1. PICK w \in writing :
        /\ w.logged /\ EndGroup(w, TRUE)
        /\ disk' = IF ~writers[1].sync THEN disk
                   ELSE [disk EXCEPT !.logs[logfile_number].synced =
                                         Len(disk.logs[logfile_number].records)]
        /\ UNCHANGED todo
  BY DEF FinishWrite
<1>2. logfile_number \in DOMAIN disk.logs
  <2>1. phase \in {"open", "closing", "dead"}
    BY Active DEF Quiescent
  <2> QED
    BY <2>1 DEF PromiseInv, NumbersGoOn
<1>3. UNCHANGED <<bg, phase>>
  BY <1>1 DEF EndGroup
<1>4. CASE ~writers[1].sync
  <2>1. Resynced(disk.logs, disk'.logs, logfile_number, FALSE)
    BY <1>1, <1>4 DEF Resynced
  <2>2. Credits(ToSet(w.record), TRUE, FALSE)
    BY <1>1, <1>4 DEF EndGroup, Credits
  <2> QED
    BY <1>1, <1>3, <1>4, <2>1, <2>2, GroupPromises
<1>5. CASE writers[1].sync
  <2>1. disk' = [disk EXCEPT !.logs[logfile_number].synced = Len(disk.logs[logfile_number].records)]
    BY <1>1, <1>5
  <2>2. Resynced(disk.logs, disk'.logs, logfile_number, TRUE)
    BY <1>2, <2>1, LogResynced
  <2>3. Credits(ToSet(w.record), TRUE, TRUE)
    BY <1>1, <1>5 DEF EndGroup, Credits
  <2>4. disk'.current = disk.current /\ disk'.manifests = disk.manifests
    BY <2>1, LogSynced
  <2> QED
    BY <1>1, <1>3, <2>2, <2>3, <2>4, GroupPromises
<1> QED
  BY <1>4, <1>5

(* A write that is not synced does not count, but its numbers do. *)
LEMMA FailSyncPromises ==
    ASSUME DBInv, PromiseInv, FailSync
    PROVE  PromiseInv'
<1>1. PICK w \in writing :
        /\ w.logged /\ EndGroup(w, FALSE) /\ UNCHANGED disk
        /\ todo' = [todo EXCEPT !.faults = @ \ {"sync"}]
  BY DEF FailSync
<1>2. UNCHANGED <<bg, phase>>
  BY <1>1 DEF EndGroup
<1>3. Resynced(disk.logs, disk'.logs, logfile_number, FALSE)
  BY <1>1 DEF Resynced
<1>4. Credits(ToSet(w.record), FALSE, FALSE)
  BY <1>1 DEF EndGroup, Credits
<1>5. todo'.faults \subseteq todo.faults
  <2> DEFINE S == todo.faults \ {"sync"}
  <2>1. todo \in ScenarioType
    BY DEF DBInv, ClientsTyped
  <2>2. todo' = [todo EXCEPT !.faults = S] /\ S \subseteq todo.faults
    BY <1>1
  <2> HIDE DEF S
  <2>3. todo'.faults = S
    BY <2>1, <2>2, FaultsLeft
  <2> QED
    BY <2>2, <2>3
<1> QED
  BY <1>1, <1>2, <1>3, <1>4, <1>5, GroupPromises

-----------------------------------------------------------------------------
(* Opening.                                                                *)

(* Before there is a manifest nothing was written. *)
LEMMA NothingCarries ==
    ASSUME NEW l, DOMAIN l \subseteq Nat
    PROVE  Carries(l, {}, 0, 0)
<1>1. \A n \in DOMAIN l : ~(n < 0)
  OBVIOUS
<1> QED
  BY <1>1 DEF Carries

(* The first manifest says so. *)
LEMMA NewDBPromises ==
    ASSUME DBInv, PromiseInv, NewDB
    PROVE  PromiseInv'
<1> DEFINE m == [records |-> <<NewDBEdit>>, synced |-> 0]
           ms == With(<<>>, 1, m)
<1>1. /\ phase = "closed" /\ disk.current = 0
      /\ disk' = [disk EXCEPT !.manifests = ms, !.current = 1]
      /\ UNCHANGED <<vs, logfile_number, writers, writing, bg, phase, todo, history>>
  BY DEF NewDB, memory
<1>2. ms[1] = m
  BY DEF With
<1>3. ASSUME NEW k \in 0..1
      PROVE  FirstLog(m, k) = 0 /\ LastNumber(m, k) = 0 /\ (k > 0 => m.records[k].next_file = 2)
  <2>1. CASE k = 0
    BY <2>1 DEF FirstLog, LastNumber
  <2>2. CASE k = 1
    <3>1. m.records[1] = NewDBEdit
      OBVIOUS
    <3>2. NewDBEdit.log_number = 0 /\ NewDBEdit.last_sequence = 0 /\ NewDBEdit.next_file = 2
      BY DEF NewDBEdit, NoEdit
    <3> QED
      BY <2>2, <3>1, <3>2 DEF FirstLog, LastNumber
  <2> QED
    BY <2>1, <2>2
<1>4. m.synced = 0 /\ Len(m.records) = 1
  OBVIOUS
<1>5. PICK a, t, c, b : disk = [logs |-> a, tables |-> t, current |-> c, manifests |-> b]
  BY DEF DBInv, DiskSound, DiskTyped
<1> HIDE DEF ms, m
<1>6. disk'.logs = disk.logs /\ disk'.current = 1 /\ disk'.manifests = ms
  BY <1>1, <1>5
<1>7. written = {} /\ DOMAIN disk.logs \subseteq Nat
  BY <1>1 DEF PromiseInv, ManifestSays, DBInv, DiskSound, DiskTyped
<1>8. ASSUME NEW k \in 0..1 PROVE ManifestCarries(m, k, disk.logs, {})
  <2>1. FirstLog(m, k) = 0 /\ LastNumber(m, k) = 0 /\ (k > 0 => m.records[k].next_file = 2)
    BY <1>3
  <2>2. Carries(disk.logs, {}, 0, 0)
    BY <1>7, NothingCarries
  <2> QED
    BY <2>1, <2>2 DEF ManifestCarries
<1>9. ManifestSays'
  BY <1>1, <1>2, <1>4, <1>6, <1>7, <1>8 DEF ManifestSays, history
<1>10. LogsSafe'
  BY <1>1, <1>6 DEF PromiseInv, LogsSafe, history
<1>11. writers = <<>> /\ writing = {}
  BY <1>1 DEF DBInv, PhaseSound, Quiescent
<1>12. WritersSound'
  BY <1>1, <1>11 DEF WritersSound
<1> QED
  BY <1>1, <1>9, <1>10, <1>12 DEF PromiseInv

(* Recovering reads every log from the first one on, and so finds no       *)
(* number that it will use again, of a group or of a log.                  *)
LEMMA RecoveryUses ==
    ASSUME DBInv, LogsSafe, NEW first \in Nat, NEW last \in Nat,
           Carries(disk.logs, written, first, last),
           NEW r, r.next \in Nat, first < r.next,
           \A n \in DOMAIN disk.logs : n >= first => Taken(r, n),
           NEW top \in Nat, last <= top, \A x \in Tabled(r) : x.seq <= top,
           NEW log
    PROVE  /\ Used(disk.logs, written, {}, log, top)
           /\ \A n \in DOMAIN disk.logs : n < r.next
<1>1. DOMAIN disk.logs \subseteq Nat /\ DiskTyped(disk)
  BY DEF DBInv, DiskSound, DiskTyped
<1>2. ASSUME NEW n \in DOMAIN disk.logs PROVE n < r.next
  <2>1. n \in Nat
    BY <1>1
  <2>2. CASE n < first
    BY <2>1, <2>2
  <2>3. CASE n >= first
    BY <2>3 DEF Taken
  <2> QED
    BY <2>1, <2>2, <2>3
<1>3. ASSUME NEW n \in DOMAIN disk.logs, NEW g \in Groups(disk.logs[n].records)
      PROVE  Below(g, top)
  <2>1. n \in Nat /\ disk.logs[n].records \in Seq(Seq(Keys))
    BY <1>1, LogIs
  <2>2. \A e \in g : e.seq \in Nat
    BY <1>3, <2>1, GroupsTyped
  <2>3. CASE n < first
    <3>1. Below(g, last)
      BY <1>3, <2>3 DEF Carries
    <3> QED
      BY <3>1, BelowMore
  <2>4. CASE n >= first
    <3>1. Readable(disk.logs[n].records) = disk.logs[n].records
      <4>1. \A i \in 1..Len(disk.logs[n].records) : disk.logs[n].records[i] # <<>>
        BY DEF LogsSafe, LogSafe
      <4> QED
        BY <2>1, <4>1, WholeReadable
    <3>2. g \subseteq Tabled(r)
      BY <1>3, <2>4, <3>1 DEF Taken
    <3> QED
      BY <2>2, <3>2 DEF Below
  <2> QED
    BY <2>1, <2>3, <2>4
<1>4. ASSUME NEW g \in written PROVE Below(g, top)
  <2>1. CASE Below(g, last)
    BY <2>1, BelowMore
  <2>2. CASE g \in LoggedIn(disk.logs, first)
    BY <1>3, <2>2, InLogs
  <2> QED
    BY <2>1, <2>2 DEF Carries
<1> QED
  BY <1>2, <1>3, <1>4 DEF Used

(* The edit Recover leaves begins with the new log. *)
LEMMA RecoveryEdit ==
    ASSUME NEW w, NEW t, NEW n \in Nat, n # 0
    PROVE  LET e == WithNumbers(w, LogsEdit(t, n))
           IN /\ e.log_number = n /\ e.last_sequence = w.last_sequence
              /\ e.next_file = w.next_file_number
<1> DEFINE a == {<<0, FileMetaData(k, t[k])>> : k \in DOMAIN t}
           e == LogsEdit(t, n)
<1>1. e = [NoEdit EXCEPT !.added = a, !.log_number = n]
  BY DEF LogsEdit
<1> HIDE DEF a, e
<1>2. IsEdit(e) /\ e.log_number = n
  BY <1>1 DEF NoEdit, IsEdit
<1>3. WithNumbers(w, e).log_number = n
  BY <1>2, NumberedLog
<1>4. WithNumbers(w, e).last_sequence = w.last_sequence
      /\ WithNumbers(w, e).next_file = w.next_file_number
  BY <1>2, Numbered
<1> QED
  BY <1>3, <1>4 DEF e

(* What the manifest's last record says of the logs. *)
LEMMA LastSays ==
    ASSUME ManifestSays, disk.current # 0, NEW m, m = disk.manifests[disk.current],
           ManifestTyped(m), m.records # <<>>
    PROVE  LET e == m.records[Len(m.records)]
           IN e.log_number \in Nat /\ e.log_number < e.next_file
              /\ Carries(disk.logs, written, e.log_number, e.last_sequence)
<1> DEFINE n == Len(m.records)
<1>1. n \in Nat /\ n # 0 /\ m.synced \in 0..n
  BY LenProperties DEF ManifestTyped, IsSeq
<1> HIDE DEF n
<1>2. n \in m.synced..n
  BY <1>1
<1>3. ManifestCarries(m, n, disk.logs, written)
  BY <1>2 DEF ManifestSays, n
<1>4. FirstLog(m, n) = m.records[n].log_number /\ LastNumber(m, n) = m.records[n].last_sequence
      /\ n > 0
  BY <1>1 DEF FirstLog, LastNumber
<1>5. m.records[n].log_number \in Nat /\ m.records[n].log_number < m.records[n].next_file
      /\ Carries(disk.logs, written, m.records[n].log_number, m.records[n].last_sequence)
  BY <1>3, <1>4 DEF ManifestCarries
<1> QED
  BY <1>5 DEF n

(* Recovering accounts for all that was written. *)
LEMMA SomethingPromised ==
    ASSUME DBInv, PromiseInv, phase = "closed", disk.current # 0, UNCHANGED Untouched,
           disk.manifests[disk.current].records # <<>>,
           NEW v, NEW r, NEW w, RecoverSomething(v, r, w)
    PROVE  PromiseInv'
<1> DEFINE c == disk.current
           m == disk.manifests[c]
           l == disk.logs
           n == r.next
<1>1. /\ DiskTyped(disk) /\ c \in Nat /\ ManifestSound(m, c, disk.tables) /\ m.records # <<>>
      /\ ManifestTyped(m)
  BY DEF DBInv, DiskSound, DiskTyped, ManifestSound
<1>2. /\ v = RecoveredVersions(m.records) /\ r = LogsFrom(v) /\ w = VersionsFrom(v, r)
      /\ phase' = "recovered" /\ DiskRecovered(disk', r.tables, r.next)
      /\ vs' = w /\ logfile_number' = r.next
      /\ bg' = [bg EXCEPT !.edit = {WithNumbers(w, LogsEdit(r.tables, r.next))}]
  BY DEF RecoverSomething
<1>3. LET e == m.records[Len(m.records)]
      IN e.log_number \in Nat /\ e.log_number < e.next_file
         /\ Carries(l, written, e.log_number, e.last_sequence)
  BY <1>1, LastSays DEF PromiseInv
<1> HIDE DEF m, c
<1> DEFINE b == v.manifest_file_number
<1>4. /\ VersionSetShape(v)
      /\ b \in Nat /\ v.next_file_number = b + 1 /\ v.last_sequence \in Nat
      /\ m.records[Len(m.records)].next_file = b
      /\ v.last_sequence = m.records[Len(m.records)].last_sequence
      /\ v.log_number = m.records[Len(m.records)].log_number
  BY <1>1, <1>2, ManifestRecovered
<1>5. /\ v.log_number \in Nat /\ v.log_number < b
      /\ Carries(l, written, v.log_number, v.last_sequence)
  BY <1>3, <1>4
<1> HIDE DEF b
<1> DEFINE k == b + 1
<1>6. k \in Nat /\ v.next_file_number = k /\ v.log_number < k /\ k # 0
  BY <1>4, <1>5 DEF b
<1> HIDE DEF k
<1> DEFINE top == SequenceFrom(v, r.tables)
<1>7. /\ n \in Nat /\ k <= n
      /\ DOMAIN r.tables \subseteq Nat /\ r.tables \in [DOMAIN r.tables -> Contents]
      /\ \A i \in DOMAIN r.tables : k <= i
      /\ top \in Nat /\ v.last_sequence <= top
      /\ \A x \in Tabled(r) : x.seq <= top
      /\ \A i \in DOMAIN disk.logs : i >= v.log_number => Taken(r, i)
  BY <1>1, <1>2, <1>4, <1>6, LogsGiveTables
<1> HIDE DEF n, top
<1>8. w.next_file_number = n + 1 /\ w.last_sequence = top
  <2>1. w = VersionsFrom(v, r) /\ VersionSetShape(v)
    BY <1>2, <1>4
  <2>2. w.next_file_number = r.next + 1 /\ w.last_sequence = SequenceFrom(v, r.tables)
    BY <2>1, VersionsFromShape
  <2> QED
    BY <2>2 DEF n, top
<1>9. v.log_number < n /\ n # 0
  BY <1>5, <1>6, <1>7
<1>10. /\ Used(l, written, {}, n, top)
       /\ \A i \in DOMAIN l : i < n
  <2>1. r.next \in Nat /\ v.log_number < r.next /\ LogsSafe
    BY <1>7, <1>9 DEF n, PromiseInv
  <2>2. /\ Used(disk.logs, written, {}, n, top)
        /\ \A i \in DOMAIN disk.logs : i < r.next
    BY <1>4, <1>5, <1>7, <2>1, RecoveryUses
  <2> QED
    BY <2>2 DEF n
<1>11. n \notin DOMAIN l /\ DOMAIN l \subseteq Nat
  BY <1>1, <1>7, <1>10 DEF DiskTyped
<1>12. /\ disk'.logs = With(l, n, EmptyFile) /\ disk'.current = disk.current
       /\ disk'.manifests = disk.manifests
  <2> DEFINE t == Over(r.tables, disk.tables)
             h == With(l, n, EmptyFile)
  <2>1. disk' = [disk EXCEPT !.tables = t, !.logs = h]
    BY <1>2 DEF DiskRecovered, n
  <2>2. PICK x, y, z, u : disk = [logs |-> x, tables |-> y, current |-> z, manifests |-> u]
    BY <1>1 DEF DiskTyped
  <2> HIDE DEF t, h
  <2>3. disk' = [logs |-> h, tables |-> t, current |-> z, manifests |-> u]
    BY <2>1, <2>2
  <2>4. disk'.logs = h /\ disk'.current = disk.current /\ disk'.manifests = disk.manifests
    BY <2>2, <2>3
  <2> QED
    BY <2>4 DEF h
<1>13. MoreLogs(l, disk'.logs, n)
  BY <1>11, <1>12, LogBegun
<1>14. /\ writers' = <<>> /\ writing' = {} /\ written' = written /\ promised' = promised
       /\ todo' = todo
  BY DEF DBInv, PhaseSound, Quiescent, Untouched, history
<1>15. LogsSafe'
  <2>1. LogsSafe /\ UNCHANGED history
    BY <1>14 DEF PromiseInv, history
  <2> QED
    BY <1>13, <2>1, MoreSafe
<1>16. ManifestSays'
  <2>1. ASSUME NEW x, NEW i, ManifestCarries(x, i, l, written)
        PROVE  ManifestCarries(x, i, disk'.logs, written)
    BY <1>13, <2>1, MoreCarry DEF ManifestCarries
  <2>2. ManifestSays
    BY DEF PromiseInv
  <2> QED
    BY <1>12, <1>14, <2>1, <2>2 DEF ManifestSays
<1>17. NumbersGoOn'
  <2>1. n \in DOMAIN disk'.logs /\ DOMAIN disk'.logs = DOMAIN l \cup {n}
    BY <1>13 DEF MoreLogs
  <2>2. \A i \in DOMAIN disk'.logs : i < n + 1
    BY <1>7, <1>10, <1>11, <2>1
  <2>3. Used(disk'.logs, written, {}, n, top)
    BY <1>10, <1>13, MoreUsed
  <2>4. Underway({}) = {}
    BY DEF Underway
  <2>5. logfile_number' = n /\ vs'.next_file_number = n + 1 /\ vs'.last_sequence = top
    BY <1>2, <1>8 DEF n
  <2> QED
    BY <1>14, <2>1, <2>2, <2>3, <2>4, <2>5 DEF NumbersGoOn
<1>18. EditOpens'
  <2> DEFINE e == WithNumbers(w, LogsEdit(r.tables, n))
  <2>1. e.log_number = n /\ e.last_sequence = w.last_sequence /\ e.next_file = w.next_file_number
    BY <1>7, <1>9, RecoveryEdit
  <2>2. bg = Idle
    BY DEF DBInv, PhaseSound
  <2>3. bg' = [Idle EXCEPT !.edit = {e}]
    BY <1>2, <2>2 DEF n
  <2> HIDE DEF e
  <2>4. The(bg'.edit) = e
    BY <2>3 DEF Idle, The
  <2>5. logfile_number' = n /\ vs'.last_sequence = w.last_sequence
    BY <1>2 DEF n
  <2>6. n < n + 1
    BY <1>7
  <2> QED
    BY <1>8, <2>1, <2>4, <2>5, <2>6 DEF EditOpens
<1>19. WritersSound'
  BY <1>14 DEF WritersSound
<1> QED
  BY <1>2, <1>14, <1>15, <1>16, <1>17, <1>18, <1>19 DEF PromiseInv

(* Recover leaves every group accounted for, or everything as it was. *)
LEMMA RecoverPromises ==
    ASSUME DBInv, PromiseInv, Recover
    PROVE  PromiseInv'
<1>1. /\ phase = "closed" /\ disk.current # 0 /\ UNCHANGED Untouched
      /\ RecoverNothing
           \/ (disk.manifests[disk.current].records # <<>>
               /\ \E v, r, w : RecoverSomething(v, r, w))
  BY RecoverSplits
<1>2. CASE RecoverNothing
  <2>1. phase' = "corrupt" /\ UNCHANGED <<disk, writers, writing, todo, history>>
    BY <1>1, <1>2 DEF RecoverNothing, Untouched
  <2>2. writers = <<>> /\ writing = {}
    BY <1>1 DEF DBInv, PhaseSound, Quiescent
  <2>3. LogsSafe' /\ ManifestSays'
    BY <2>1 DEF PromiseInv, LogsSafe, ManifestSays, history
  <2>4. WritersSound'
    BY <2>1, <2>2 DEF WritersSound
  <2> QED
    BY <2>1, <2>3, <2>4 DEF PromiseInv
<1> QED
  BY <1>1, <1>2, SomethingPromised

(* Beginning the new manifest changes nothing that was promised: CURRENT   *)
(* still names the one before.                                             *)
LEMMA WriteNewManifestPromises ==
    ASSUME DBInv, PromiseInv, WriteNewManifest
    PROVE  PromiseInv'
<1> DEFINE n == vs.manifest_file_number
           ms == With(disk.manifests, n, Described)
<1>1. /\ phase = "recovered" /\ phase' = "described"
      /\ UNCHANGED <<vs, logfile_number, writers, writing, bg, todo, history>>
      /\ disk' = [disk EXCEPT !.manifests = ms]
  BY DEF WriteNewManifest, Described, OpenUnchanged, memory
<1>2. disk.current # n /\ disk.current # 0
  BY <1>1 DEF DBInv, PhaseSound, Opened
<1>3. disk.current \in DOMAIN disk.manifests /\ DiskTyped(disk)
  BY <1>2 DEF DBInv, DiskSound
<1>4. ms[disk.current] = disk.manifests[disk.current]
  BY <1>2, <1>3 DEF With
<1>5. PICK l, t, c, m : disk = [logs |-> l, tables |-> t, current |-> c, manifests |-> m]
  BY <1>3 DEF DiskTyped
<1> HIDE DEF ms
<1>6. disk'.logs = disk.logs /\ disk'.current = disk.current /\ disk'.manifests = ms
  BY <1>1, <1>5
<1>7. LogsSafe' /\ ManifestSays'
  BY <1>1, <1>4, <1>6 DEF PromiseInv, LogsSafe, ManifestSays, history
<1>8. NumbersGoOn' /\ EditOpens' /\ WritersSound'
  <2>1. NumbersGoOn /\ EditOpens /\ WritersSound
    BY <1>1 DEF PromiseInv
  <2>2. writers = <<>> /\ writing = {}
    BY <1>1 DEF DBInv, PhaseSound, Opened, Quiescent
  <2> QED
    BY <1>1, <1>6, <2>1, <2>2 DEF NumbersGoOn, EditOpens, WritersSound, history
<1> QED
  BY <1>1, <1>7, <1>8 DEF PromiseInv

(* The edit Open logs accounts for all that was written. *)
LEMMA OpeningCarries ==
    ASSUME DBInv, PromiseInv, phase \in {"described", "current"}, NEW e, e = The(bg.edit)
    PROVE  /\ e.log_number = logfile_number /\ e.log_number \in Nat
           /\ e.log_number < e.next_file
           /\ Carries(disk.logs, written, e.log_number, e.last_sequence)
<1>1. NumbersGoOn /\ EditOpens
  BY DEF PromiseInv
<1>2. DOMAIN disk.logs \subseteq Nat
  BY DEF DBInv, DiskSound, DiskTyped
<1>3. /\ e.log_number = logfile_number /\ e.last_sequence = vs.last_sequence
      /\ e.log_number < e.next_file
  BY <1>1 DEF EditOpens
<1>4. logfile_number \in Nat /\ logfile_number <= logfile_number
  BY <1>1, <1>2 DEF NumbersGoOn
<1>5. Used(disk.logs, written, Underway(writing), logfile_number, vs.last_sequence)
  BY <1>1 DEF NumbersGoOn
<1>6. Carries(disk.logs, written, logfile_number, vs.last_sequence)
  BY <1>2, <1>4, <1>5, UsedCarries
<1> QED
  BY <1>3, <1>4, <1>6

(* The new manifest is synced, and CURRENT names it. *)
LEMMA SetCurrentFilePromises ==
    ASSUME DBInv, PromiseInv, SetCurrentFile
    PROVE  PromiseInv'
<1> DEFINE n == vs.manifest_file_number
           e == The(bg.edit)
           m == [records |-> Described.records, synced |-> 2]
<1>1. /\ phase = "described" /\ phase' = "current" /\ SyncedAndCurrent(disk')
      /\ UNCHANGED <<vs, logfile_number, writers, writing, bg, todo, history>>
  BY DEF SetCurrentFile, SyncedAndCurrent, OpenUnchanged, memory
<1>2. n \in DOMAIN disk.manifests /\ disk.manifests[n] = Described /\ n \in Nat /\ n # 0
  BY <1>1 DEF DBInv, PhaseSound, Opened, VersionSetSound
<1>3. disk'.current = n /\ disk'.manifests[n] = m
  <2>1. PICK d : d = disk'
    OBVIOUS
  <2>2. SyncedAndCurrent(d)
    BY <1>1, <2>1
  <2>3. d.current = n /\ d.manifests[n] = [records |-> Described.records, synced |-> 2]
    BY <1>2, <2>2, CurrentSet
  <2> QED
    BY <2>1, <2>3
<1>4. disk'.logs = disk.logs
  <2> DEFINE g == [disk.manifests EXCEPT ![n].synced = 2]
  <2>1. disk' = [disk EXCEPT !.manifests = g, !.current = n]
    BY <1>1 DEF SyncedAndCurrent
  <2>2. PICK l, t, c, x : disk = [logs |-> l, tables |-> t, current |-> c, manifests |-> x]
    BY DEF DBInv, DiskSound, DiskTyped
  <2> HIDE DEF g
  <2> QED
    BY <2>1, <2>2
<1>5. Len(m.records) = 2 /\ m.records[2] = e /\ m.synced = 2
  <2>1. LET x == The(bg.edit)
            r == <<SnapshotEdit(vs), x>>
        IN Len(r) = 2 /\ r[2] = x
    BY DescribedRecords
  <2> QED
    BY <2>1 DEF Described
<1>6. /\ e.log_number = logfile_number /\ e.log_number \in Nat
      /\ e.log_number < e.next_file
      /\ Carries(disk.logs, written, e.log_number, e.last_sequence)
  BY <1>1, OpeningCarries
<1> HIDE DEF m, e
<1>7. Says(m, disk.logs, written, e.log_number)
  <2>1. 2 \in Nat \ {0} /\ e.log_number <= e.log_number
    BY <1>6
  <2> QED
    BY <1>5, <1>6, <2>1, SyncedCarries
<1>8. ManifestSays'
  BY <1>1, <1>2, <1>3, <1>4, <1>7 DEF ManifestSays, Says, history
<1>9. LogsSafe'
  BY <1>1, <1>4 DEF PromiseInv, LogsSafe, history
<1>10. NumbersGoOn' /\ EditOpens' /\ WritersSound'
  <2>1. NumbersGoOn /\ EditOpens /\ WritersSound
    BY <1>1 DEF PromiseInv
  <2>2. writers = <<>> /\ writing = {}
    BY <1>1 DEF DBInv, PhaseSound, Opened, Quiescent
  <2> QED
    BY <1>1, <1>4, <2>1, <2>2 DEF NumbersGoOn, EditOpens, WritersSound, history
<1> QED
  BY <1>1, <1>8, <1>9, <1>10 DEF PromiseInv

(* Open deletes logs, but none of those that count. *)
LEMMA FinishOpenPromises ==
    ASSUME DBInv, PromiseInv, FinishOpen
    PROVE  PromiseInv'
<1> DEFINE e == The(bg.edit)
           first == e.log_number
           m == [records |-> Described.records, synced |-> 2]
<1>1. /\ phase = "current" /\ phase' = "open"
      /\ vs' = Installed(vs, e)
      /\ disk' = DeleteObsoleteFiles(disk, vs', LiveFiles(vs', {}))
      /\ bg' = [bg EXCEPT !.edit = {}]
      /\ UNCHANGED <<logfile_number, writers, writing, todo, history>>
  BY DEF FinishOpen, OpenUnchanged, memory
<1>2. /\ Opened /\ disk.current # 0
      /\ disk.manifests[disk.current] = [Described EXCEPT !.synced = 2]
  BY <1>1 DEF DBInv, PhaseSound, Opened
<1>3. disk.manifests[disk.current] = m
  BY <1>2, DescribedSynced
<1>4. Len(m.records) = 2 /\ m.records[2] = e /\ m.synced = 2
  <2>1. LET x == The(bg.edit)
            r == <<SnapshotEdit(vs), x>>
        IN Len(r) = 2 /\ r[2] = x
    BY DescribedRecords
  <2> QED
    BY <2>1 DEF Described
<1>5. /\ first = logfile_number /\ first \in Nat /\ e.log_number < e.next_file
      /\ Carries(disk.logs, written, e.log_number, e.last_sequence)
  BY <1>1, OpeningCarries
<1> HIDE DEF m
<1>6. /\ vs'.next_file_number = vs.next_file_number
      /\ vs'.last_sequence = vs.last_sequence
      /\ disk'.current = disk.current
      /\ disk'.manifests[disk'.current] = disk.manifests[disk.current]
  <2>1. PICK v : v = vs'
    OBVIOUS
  <2>2. PICK d : d = disk'
    OBVIOUS
  <2>3. OpenInstalls(v, d)
    BY <1>1, <2>1, <2>2 DEF OpenInstalls
  <2>4. /\ v.next_file_number = vs.next_file_number
        /\ v.last_sequence = vs.last_sequence
        /\ d.current = disk.current
        /\ d.manifests[d.current] = disk.manifests[disk.current]
    BY <1>1, <2>3, OpenKeepsVersion
  <2> QED
    BY <2>1, <2>2, <2>4
<1>7. vs'.log_number = first
  <2> HIDE DEF e
  <2>1. PICK w : w = Installed(vs, e)
    OBVIOUS
  <2>2. w.log_number = e.log_number
    BY <2>1, InstalledLog, VersionsAre
  <2> QED
    BY <1>1, <2>1, <2>2
<1> HIDE DEF e
<1>8. FewerLogs(disk.logs, disk'.logs, first)
  <2>1. PICK v : v = vs'
    OBVIOUS
  <2>2. PICK d : d = disk'
    OBVIOUS
  <2>3. d = DeleteObsoleteFiles(disk, v, LiveFiles(v, {})) /\ v.log_number = first
    BY <1>1, <1>7, <2>1, <2>2
  <2>4. FewerLogs(disk.logs, d.logs, v.log_number)
    BY <1>5, <2>3, LogsDeleted DEF DBInv, DiskSound
  <2> QED
    BY <2>2, <2>3, <2>4
<1>9. LogsSafe /\ NumbersGoOn /\ WritersSound
  BY <1>1 DEF PromiseInv
<1>10. written' = written /\ logfile_number' = logfile_number /\ writing' = writing
  BY <1>1 DEF history
<1>11. LogsSafe'
  BY <1>1, <1>8, <1>9, FewerSafe
<1>12. NumbersGoOn'
  <2>1. logfile_number >= first
    BY <1>5
  <2> QED
    BY <1>6, <1>8, <1>9, <1>10, <2>1, FewerGoOn
<1>13. Says(m, disk'.logs, written, first)
  <2>1. 2 \in Nat \ {0} /\ first <= first
    BY <1>5
  <2>2. Carries(disk'.logs, written, e.log_number, e.last_sequence)
    BY <1>5, <1>8, FewerCarry
  <2> QED
    BY <1>4, <1>5, <2>1, <2>2, SyncedCarries
<1>14. disk'.current # 0 /\ disk'.manifests[disk'.current] = m
  BY <1>2, <1>3, <1>6
<1>15. ManifestSays'
  BY <1>10, <1>13, <1>14 DEF ManifestSays, Says
<1>16. LogsGoOn'
  <2>1. bg'.pc = "idle"
    <3>1. PICK a, b, c, d : bg = [pc |-> a, number |-> b, job |-> c, edit |-> d]
      BY BackgroundIs
    <3>2. a = "idle"
      BY <1>2, <3>1 DEF Opened, Quiescent
    <3>3. bg' = [pc |-> a, number |-> b, job |-> c, edit |-> {}]
      BY <1>1, <3>1
    <3> QED
      BY <3>2, <3>3
  <2>2. \A k \in m.synced..Len(m.records) : FirstLog(m, k) <= first
    BY <1>13 DEF Says
  <2>3. vs'.log_number \in Nat /\ vs'.log_number <= logfile_number
    BY <1>5, <1>7
  <2> QED
    BY <1>5, <1>10, <1>14, <2>1, <2>2, <2>3 DEF LogsGoOn
<1>17. WritersSound'
  <2>1. writers = <<>> /\ writing = {}
    BY <1>2 DEF Opened, Quiescent
  <2> QED
    BY <1>1, <2>1 DEF WritersSound
<1> QED
  BY <1>1, <1>11, <1>12, <1>15, <1>16, <1>17 DEF PromiseInv

(* So opening keeps the invariant. *)
LEMMA OpeningPromises ==
    ASSUME DBInv, PromiseInv, Opening
    PROVE  PromiseInv'
BY NewDBPromises, RecoverPromises, WriteNewManifestPromises, SetCurrentFilePromises,
   FinishOpenPromises DEF Opening

-----------------------------------------------------------------------------
(* The end.                                                                *)

(* What is left of the groups when l2 is left of the logs. *)
Rest(l, l2, groups, first) ==
    (groups \ (LoggedIn(l, first) \ LoggedIn(l2, first))) \cup LoggedIn(l2, first)

(* Every log keeps its first records, the synced ones among them. *)
LogLeft(f, f2) ==
    \E k \in f.synced..Len(f.records) :
        f2.records = SubSeq(f.records, 1, k) /\ f2.synced \in f.synced..k

LogsLeft(l, l2) == DOMAIN l2 = DOMAIN l /\ \A n \in DOMAIN l : LogLeft(l[n], l2[n])

(* A log that is left is safe, and promised groups are still in it. *)
LEMMA LeftSafe ==
    ASSUME NEW f, f.records \in Seq(Seq(Keys)), f.synced \in Nat, NEW kept, LogSafe(f, kept),
           NEW f2, LogLeft(f, f2)
    PROVE  /\ LogSafe(f2, kept) /\ f2.records \in Seq(Seq(Keys))
           /\ Groups(f2.records) \subseteq Groups(f.records)
           /\ Groups(f.records) \cap kept \subseteq Groups(f2.records)
<1> DEFINE r == f.records
           n == Len(r)
<1>1. PICK k \in f.synced..n : f2.records = SubSeq(r, 1, k) /\ f2.synced \in f.synced..k
  BY DEF LogLeft
<1> DEFINE s == f.synced
           t == f2.synced
           q == f2.records
<1>2. n \in Nat /\ s \in Nat /\ k \in Nat /\ t \in Nat /\ s <= t /\ t <= k /\ k <= n
  BY <1>1, LenProperties
<1>3. k \in 0..n /\ s \in 0..t /\ s \in 0..k /\ t \in 0..k /\ t \in 0..n
  <2> HIDE DEF n, s, t
  <2> QED
    BY <1>2
<1>4. /\ q \in Seq(Seq(Keys)) /\ Len(q) = k /\ \A i \in 1..k : q[i] = r[i]
      /\ Groups(q) \subseteq Groups(r)
      /\ \A j \in 0..k : Groups(SubSeq(r, 1, j)) \subseteq Groups(q) /\ SubSeq(q, 1, j) = SubSeq(r, 1, j)
  BY <1>1, <1>3, GroupsOfPart
<1>5. Groups(SubSeq(r, 1, s)) \subseteq Groups(SubSeq(r, 1, t))
  BY <1>3, GroupsOfPart
<1>6. /\ \A i \in 1..n : r[i] # <<>>
      /\ Groups(r) \cap kept \subseteq Groups(SubSeq(r, 1, s))
  BY DEF LogSafe
<1> HIDE DEF r, n, s, t, q
<1>7. \A i \in 1..k : q[i] # <<>>
  <2>1. \A i \in 1..k : i \in 1..n
    BY <1>2
  <2> QED
    BY <1>4, <1>6, <2>1
<1>8. Groups(q) \cap kept \subseteq Groups(SubSeq(q, 1, t))
  BY <1>3, <1>4, <1>5, <1>6
<1>9. Groups(r) \cap kept \subseteq Groups(q)
  BY <1>3, <1>4, <1>6
<1> QED
  BY <1>2, <1>4, <1>7, <1>8, <1>9 DEF LogSafe, q, r, t

(* Logs hold nothing that they did not, ... *)
LEMMA LeftLogged ==
    ASSUME DiskTyped(disk), LogsSafe, NEW l2, LogsLeft(disk.logs, l2), NEW first
    PROVE  /\ LoggedIn(l2, first) \subseteq LoggedIn(disk.logs, first)
           /\ LoggedIn(disk.logs, first) \cap promised \subseteq LoggedIn(l2, first)
           /\ LoggedIn(disk.logs, first) \subseteq LoggedIn(disk.logs, 0)
<1>1. ASSUME NEW n \in DOMAIN disk.logs
      PROVE  /\ Groups(l2[n].records) \subseteq Groups(disk.logs[n].records)
             /\ Groups(disk.logs[n].records) \cap promised \subseteq Groups(l2[n].records)
             /\ n \in Nat
  <2> DEFINE f == disk.logs[n]
             f2 == l2[n]
  <2>1. f.records \in Seq(Seq(Keys)) /\ f.synced \in Nat /\ n \in Nat
    BY LogIs
  <2>2. LogSafe(f, promised) /\ LogLeft(f, f2)
    BY DEF LogsSafe, LogsLeft
  <2> HIDE DEF f, f2
  <2>3. /\ Groups(f2.records) \subseteq Groups(f.records)
        /\ Groups(f.records) \cap promised \subseteq Groups(f2.records)
    BY <2>1, <2>2, LeftSafe
  <2> QED
    BY <2>1, <2>3 DEF f, f2
<1>2. DOMAIN l2 = DOMAIN disk.logs
  BY DEF LogsLeft
<1>3. ASSUME NEW g, g \in LoggedIn(l2, first) PROVE g \in LoggedIn(disk.logs, first)
  <2>1. PICK n \in DOMAIN l2 : n >= first /\ g \in Groups(l2[n].records)
    BY <1>3, InLogs
  <2>2. n \in DOMAIN disk.logs /\ g \in Groups(disk.logs[n].records)
    BY <1>1, <1>2, <2>1
  <2> QED
    BY <2>1, <2>2, InLogs
<1>4. ASSUME NEW g, g \in LoggedIn(disk.logs, first), g \in promised PROVE g \in LoggedIn(l2, first)
  <2>1. PICK n \in DOMAIN disk.logs : n >= first /\ g \in Groups(disk.logs[n].records)
    BY <1>4, InLogs
  <2>2. n \in DOMAIN l2 /\ g \in Groups(l2[n].records)
    BY <1>1, <1>2, <1>4, <2>1
  <2> QED
    BY <2>1, <2>2, InLogs
<1>5. ASSUME NEW g, g \in LoggedIn(disk.logs, first) PROVE g \in LoggedIn(disk.logs, 0)
  <2>1. PICK n \in DOMAIN disk.logs : n >= first /\ g \in Groups(disk.logs[n].records)
    BY <1>5, InLogs
  <2>2. n >= 0
    BY <1>1
  <2> QED
    BY <2>1, <2>2, InLogs
<1> QED
  BY <1>3, <1>4, <1>5

(* ... so that the rest is safe: apart, and with all that was promised. *)
LEMMA RestSafe ==
    ASSUME DiskTyped(disk), LogsSafe, NEW l2, LogsLeft(disk.logs, l2), NEW first,
           NEW rest, rest = Rest(disk.logs, l2, written, first)
    PROVE  /\ \A n \in DOMAIN l2 : LogSafe(l2[n], promised)
           /\ Apart(rest \cup LoggedIn(l2, 0))
           /\ promised \subseteq rest
<1>1. ASSUME NEW n \in DOMAIN l2 PROVE LogSafe(l2[n], promised)
  <2> DEFINE f == disk.logs[n]
             f2 == l2[n]
  <2>1. n \in DOMAIN disk.logs
    BY DEF LogsLeft
  <2>2. f.records \in Seq(Seq(Keys)) /\ f.synced \in Nat
    BY <2>1, LogIs
  <2>3. LogSafe(f, promised) /\ LogLeft(f, f2)
    BY <2>1 DEF LogsSafe, LogsLeft
  <2> HIDE DEF f, f2
  <2>4. LogSafe(f2, promised)
    BY <2>2, <2>3, LeftSafe
  <2> QED
    BY <2>4 DEF f2
<1>2. /\ LoggedIn(l2, first) \subseteq LoggedIn(disk.logs, first)
      /\ LoggedIn(disk.logs, first) \cap promised \subseteq LoggedIn(l2, first)
      /\ LoggedIn(disk.logs, first) \subseteq LoggedIn(disk.logs, 0)
  BY LeftLogged
<1>3. LoggedIn(l2, 0) \subseteq LoggedIn(disk.logs, 0)
  BY LeftLogged
<1>4. rest \cup LoggedIn(l2, 0) \subseteq written \cup LoggedIn(disk.logs, 0)
  BY <1>2, <1>3 DEF Rest
<1>5. Apart(written \cup LoggedIn(disk.logs, 0)) /\ promised \subseteq written
  BY DEF LogsSafe
<1>6. Apart(rest \cup LoggedIn(l2, 0))
  BY <1>4, <1>5, ApartFewer
<1>7. promised \subseteq rest
  BY <1>2, <1>5 DEF Rest
<1> QED
  BY <1>1, <1>6, <1>7

(* And it is accounted for, as everything was. *)
LEMMA RestCarries ==
    ASSUME DiskTyped(disk), LogsSafe, NEW l2, LogsLeft(disk.logs, l2), NEW first, NEW last,
           Carries(disk.logs, written, first, last)
    PROVE  Carries(l2, Rest(disk.logs, l2, written, first), first, last)
<1>1. ASSUME NEW n \in DOMAIN l2, n < first, NEW g \in Groups(l2[n].records)
      PROVE  Below(g, last)
  <2> DEFINE f == disk.logs[n]
             f2 == l2[n]
  <2>1. n \in DOMAIN disk.logs
    BY DEF LogsLeft
  <2>2. f.records \in Seq(Seq(Keys)) /\ f.synced \in Nat
    BY <2>1, LogIs
  <2>3. LogSafe(f, promised) /\ LogLeft(f, f2)
    BY <2>1 DEF LogsSafe, LogsLeft
  <2>4. g \in Groups(f2.records)
    OBVIOUS
  <2> HIDE DEF f, f2
  <2>5. Groups(f2.records) \subseteq Groups(f.records)
    BY <2>2, <2>3, LeftSafe
  <2>6. g \in Groups(disk.logs[n].records)
    BY <2>4, <2>5 DEF f
  <2> QED
    BY <1>1, <2>1, <2>6 DEF Carries
<1>2. \A g \in Rest(disk.logs, l2, written, first) : Below(g, last) \/ g \in LoggedIn(l2, first)
  BY DEF Rest, Carries
<1> QED
  BY <1>1, <1>2 DEF Carries

(* When nothing is lost, the groups in the logs are accounted for by every *)
(* record that accounts for the others.                                    *)
LEMMA AllCarries ==
    ASSUME DiskTyped(disk), NEW first \in Nat, NEW last,
           Carries(disk.logs, written, first, last),
           NEW rest, rest \subseteq written \cup LoggedIn(disk.logs, 0)
    PROVE  Carries(disk.logs, rest, first, last)
<1>1. ASSUME NEW g \in LoggedIn(disk.logs, 0)
      PROVE  Below(g, last) \/ g \in LoggedIn(disk.logs, first)
  <2>1. PICK n \in DOMAIN disk.logs : g \in Groups(disk.logs[n].records)
    BY InLogs
  <2>2. n \in Nat
    BY LogIs
  <2>3. n < first \/ n >= first
    BY <2>2
  <2> QED
    BY <2>1, <2>3, InLogs DEF Carries
<1> QED
  BY <1>1 DEF Carries

(* What the database stands for after an end is the rest: the next Recover *)
(* reads every log that is left to its end.                                *)
LEMMA RestIsWritten ==
    ASSUME NEW left, NEW m, m = left.manifests[left.current], NEW n, n = Len(m.records),
           n \in Nat, m.records = <<>> <=> n = 0,
           \A i \in DOMAIN left.logs : Readable(left.logs[i].records) = left.logs[i].records
    PROVE  WrittenIn(left) = Rest(disk.logs, left.logs, written, FirstLog(m, n))
<1> DEFINE edits == m.records
           first == IF edits = <<>> THEN 0 ELSE Last(edits).log_number
           all == UNION {Groups(disk.logs[i].records) : i \in {j \in DOMAIN disk.logs : j >= first}}
           found == UNION {Groups(Readable(left.logs[i].records)) :
                              i \in {j \in DOMAIN left.logs : j >= first}}
<1>1. WrittenIn(left) = (written \ (all \ found)) \cup found
  BY DEF WrittenIn
<1>2. first = FirstLog(m, n)
  BY DEF FirstLog, Last
<1> HIDE DEF first
<1>3. all = LoggedIn(disk.logs, first) /\ found = LoggedIn(left.logs, first)
  BY DEF LoggedIn
<1> HIDE DEF all, found
<1> QED
  BY <1>1, <1>2, <1>3 DEF Rest

(* Logs that are left can be read. *)
LEMMA LeftReadable ==
    ASSUME DiskTyped(disk), LogsSafe, NEW l2, LogsLeft(disk.logs, l2), NEW i \in DOMAIN l2
    PROVE  Readable(l2[i].records) = l2[i].records
<1> DEFINE f == disk.logs[i]
           f2 == l2[i]
<1>1. i \in DOMAIN disk.logs
  BY DEF LogsLeft
<1>2. f.records \in Seq(Seq(Keys)) /\ f.synced \in Nat
  BY <1>1, LogIs
<1>3. LogSafe(f, promised) /\ LogLeft(f, f2)
  BY <1>1 DEF LogsSafe, LogsLeft
<1> HIDE DEF f, f2
<1>4. LogSafe(f2, promised) /\ f2.records \in Seq(Seq(Keys))
  BY <1>2, <1>3, LeftSafe
<1>5. \A j \in 1..Len(f2.records) : f2.records[j] # <<>>
  BY <1>4 DEF LogSafe
<1>6. Readable(f2.records) = f2.records
  BY <1>4, <1>5, WholeReadable
<1> QED
  BY <1>6 DEF f2

(* What was in memory is gone. *)
LEMMA PromisesForgotten ==
    ASSUME Forget, LogsSafe', ManifestSays', "append" \notin todo'.faults
    PROVE  PromiseInv'
<1>1. writers' = <<>> /\ writing' = {} /\ phase' = "closed"
  BY DEF Forget
<1>2. WritersSound'
  BY <1>1 DEF WritersSound
<1> QED
  BY <1>1, <1>2 DEF PromiseInv

(* A clean end loses nothing. *)
LEMMA FinishClosePromises ==
    ASSUME DBInv, PromiseInv, FinishClose
    PROVE  PromiseInv'
<1>1. phase = "closing" /\ Forget /\ disk' = disk /\ todo' = todo /\ promised' = promised
      /\ written' = WrittenIn(disk)
  BY DEF FinishClose
<1>2. disk.current # 0 /\ LogsSafe /\ ManifestSays /\ DiskTyped(disk)
  BY <1>1 DEF DBInv, DiskSound, PhaseSound, Running, PromiseInv
<1> DEFINE m == disk.manifests[disk.current]
           n == Len(m.records)
           l == disk.logs
<1>3. ManifestTyped(m)
  BY <1>2 DEF DBInv, DiskSound, ManifestSound
<1>4. n \in Nat /\ m.synced \in 0..n /\ (m.records = <<>> <=> n = 0)
  BY <1>3, EmptySeq DEF ManifestTyped, IsSeq
<1> HIDE DEF m, n
<1>5. LogsLeft(l, l)
  <2> SUFFICES ASSUME NEW i \in DOMAIN l PROVE LogLeft(l[i], l[i])
    BY DEF LogsLeft
  <2> DEFINE f == l[i]
             r == f.records
             k == Len(r)
  <2>1. r \in Seq(Seq(Keys)) /\ f.synced \in Nat /\ k \in Nat
    BY <1>2, LogIs
  <2>2. f.synced <= k
    BY <1>2 DEF LogsSafe, LogSafe
  <2>3. k \in 0..k
    BY <2>1
  <2>4. SubSeq(r, 1, k) = r
    BY <2>1, <2>3, GroupsOfPart
  <2> HIDE DEF k, f
  <2>5. k \in f.synced..k /\ f.synced \in f.synced..k
    BY <2>1, <2>2
  <2>6. LogLeft(f, f)
    BY <2>4, <2>5 DEF LogLeft, k
  <2> QED
    BY <2>6 DEF f
<1>6. \A i \in DOMAIN l : Readable(l[i].records) = l[i].records
  BY <1>2, <1>5, LeftReadable
<1> DEFINE first == FirstLog(m, n)
           rest == Rest(l, l, written, first)
<1>7. WrittenIn(disk) = rest
  BY <1>4, <1>6, RestIsWritten DEF m, n
<1>8. /\ \A i \in DOMAIN l : LogSafe(l[i], promised)
      /\ Apart(rest \cup LoggedIn(l, 0))
      /\ promised \subseteq rest
  BY <1>2, <1>5, RestSafe
<1>9. LogsSafe'
  BY <1>1, <1>7, <1>8 DEF LogsSafe
<1>10. rest \subseteq written \cup LoggedIn(l, 0)
  <2>1. LoggedIn(l, first) \subseteq LoggedIn(l, 0)
    BY <1>2, <1>5, LeftLogged
  <2> QED
    BY <2>1 DEF Rest
<1> HIDE DEF rest, first
<1>11. ASSUME NEW k, ManifestCarries(m, k, l, written) PROVE ManifestCarries(m, k, l, rest)
  BY <1>2, <1>10, <1>11, AllCarries DEF ManifestCarries
<1>12. \A k \in m.synced..n : ManifestCarries(m, k, l, rest)
  BY <1>2, <1>11 DEF ManifestSays, m, n
<1>13. ManifestSays'
  BY <1>1, <1>2, <1>7, <1>12 DEF ManifestSays, m, n
<1>14. "append" \notin todo'.faults
  BY <1>1 DEF PromiseInv
<1> QED
  BY <1>1, <1>9, <1>13, <1>14, PromisesForgotten

(* A crash leaves of every log its first records. *)
LEMMA CrashLeaves ==
    ASSUME DBInv, PromiseInv, NEW kept \in Survivors(disk.logs)
    PROVE  LogsLeft(disk.logs, Survives(disk.logs, kept))
<1> DEFINE l == disk.logs
           l2 == Survives(l, kept)
<1>1. DOMAIN l2 = DOMAIN l
  BY DEF Survives
<1>2. ASSUME NEW i \in DOMAIN l PROVE LogLeft(l[i], l2[i])
  <2> DEFINE k == kept[i]
             f == l[i]
  <2>1. k \in f.synced..Len(f.records)
    BY SurvivorsKept
  <2>2. l2[i].records = SubSeq(f.records, 1, k) /\ l2[i].synced = k
    BY DEF Survives
  <2>3. f.synced \in Nat /\ Len(f.records) \in Nat
    BY LogIs DEF DBInv, DiskSound
  <2> HIDE DEF k, f, l2
  <2>4. k \in f.synced..k
    BY <2>1, <2>3
  <2>5. LogLeft(f, l2[i])
    BY <2>1, <2>2, <2>4 DEF LogLeft
  <2> QED
    BY <2>5 DEF f
<1> QED
  BY <1>1, <1>2 DEF LogsLeft

(* The first records of a manifest say what they said. *)
LEMMA PartSays ==
    ASSUME NEW m, ManifestTyped(m), NEW k \in m.synced..Len(m.records),
           NEW m2, m2 = [records |-> SubSeq(m.records, 1, k), synced |-> k],
           NEW l, NEW groups, ManifestCarries(m, k, l, groups)
    PROVE  /\ Len(m2.records) = k /\ m2.synced = k /\ k \in Nat
           /\ (m2.records = <<>> <=> k = 0)
           /\ FirstLog(m2, k) = FirstLog(m, k) /\ LastNumber(m2, k) = LastNumber(m, k)
           /\ FirstLog(m2, k) \in Nat /\ (k > 0 => FirstLog(m2, k) < m2.records[k].next_file)
<1> DEFINE r == m.records
           q == m2.records
           n == Len(r)
<1>1. IsSeq(r) /\ m.synced \in 0..n /\ n \in Nat
  BY FirstParts DEF ManifestTyped
<1>9. k \in m.synced..n
  OBVIOUS
<1>2. k \in 0..n /\ k \in Nat
  <2> HIDE DEF n
  <2> QED
    BY <1>1, <1>9
<1>3. q = SubSeq(r, 1, k) /\ m2.synced = k
  OBVIOUS
<1>4. IsSeq(q) /\ Len(q) = k
  BY <1>1, <1>2, <1>3, FirstParts
<1>5. q = <<>> <=> k = 0
  BY <1>4, EmptySeq DEF IsSeq
<1>6. k > 0 => q[k] = r[k]
  <2>1. r \in Seq(ToSet(r))
    BY <1>1 DEF IsSeq
  <2> HIDE DEF r, n
  <2> QED
    BY <1>2, <1>3, <2>1, SubSeqProperties DEF n
<1>7. FirstLog(m2, k) = FirstLog(m, k) /\ LastNumber(m2, k) = LastNumber(m, k)
  BY <1>2, <1>6 DEF FirstLog, LastNumber
<1>8. FirstLog(m, k) \in Nat /\ (k > 0 => FirstLog(m, k) < r[k].next_file)
  BY DEF ManifestCarries
<1> QED
  BY <1>2, <1>3, <1>4, <1>5, <1>6, <1>7, <1>8

(* What a crash leaves holds all that was promised, and the prefix of the  *)
(* manifest accounts for the rest.                                         *)
LEMMA CrashPromises ==
    ASSUME DBInv, PromiseInv, Crash
    PROVE  PromiseInv'
<1>0. PICK kl \in Survivors(disk.logs), km \in Survivors(disk.manifests) :
        LET left == [disk EXCEPT !.logs = Survives(disk.logs, kl),
                                 !.manifests = Survives(disk.manifests, km)]
        IN disk' = left /\ written' = WrittenIn(left)
  BY DEF Crash
<1>1. PICK left :
        /\ left = [disk EXCEPT !.logs = Survives(disk.logs, kl),
                               !.manifests = Survives(disk.manifests, km)]
        /\ disk' = left /\ written' = WrittenIn(left)
  BY <1>0
<1>2. /\ Forget /\ todo' = [todo EXCEPT !.crashes = @ - 1] /\ promised' = promised
      /\ (phase \notin {"closed", "corrupt", "dead"} \/ (phase = "closed" /\ disk.current = 1))
  BY DEF Crash
<1>3. /\ LogsSafe /\ ManifestSays /\ DiskTyped(disk)
      /\ phase \in {"closed", "corrupt", "recovered", "described", "current", "open",
                    "closing", "dead"}
  BY DEF PromiseInv, DBInv, DiskSound, PhaseSound
<1>4. disk.current # 0
  BY <1>2, <1>3 DEF DBInv, PhaseSound, Opened, Running
<1> DEFINE c == disk.current
           m == disk.manifests[c]
           k == km[c]
           l == disk.logs
           l2 == Survives(l, kl)
           ms == Survives(disk.manifests, km)
           m2 == ms[c]
<1>5. c \in DOMAIN disk.manifests /\ ManifestTyped(m)
  BY <1>4 DEF DBInv, DiskSound, ManifestSound
<1>6. k \in m.synced..Len(m.records)
  BY <1>5, SurvivorsKept
<1>7. m2 = [records |-> SubSeq(m.records, 1, k), synced |-> k]
  BY <1>5 DEF Survives
<1>8. left.logs = l2 /\ left.current = c /\ left.manifests = ms
  <2>1. PICK a, t, x, b : disk = [logs |-> a, tables |-> t, current |-> x, manifests |-> b]
    BY <1>3 DEF DiskTyped
  <2>2. left = [disk EXCEPT !.logs = l2, !.manifests = ms]
    BY <1>1
  <2> HIDE DEF l2, ms
  <2>3. left = [logs |-> l2, tables |-> t, current |-> x, manifests |-> ms]
    BY <2>1, <2>2
  <2> QED
    BY <2>1, <2>3
<1>9. LogsLeft(l, l2)
  BY CrashLeaves
<1>10. ManifestCarries(m, k, l, written)
  BY <1>3, <1>4, <1>6 DEF ManifestSays
<1> HIDE DEF m, k, l, l2, ms, m2, c
<1>11. /\ Len(m2.records) = k /\ m2.synced = k /\ k \in Nat
       /\ (m2.records = <<>> <=> k = 0)
       /\ FirstLog(m2, k) = FirstLog(m, k) /\ LastNumber(m2, k) = LastNumber(m, k)
       /\ FirstLog(m2, k) \in Nat /\ (k > 0 => FirstLog(m2, k) < m2.records[k].next_file)
  BY <1>5, <1>6, <1>7, <1>10, PartSays
<1> DEFINE first == FirstLog(m2, k)
           last == LastNumber(m2, k)
           rest == Rest(l, l2, written, first)
<1>12. \A i \in DOMAIN l2 : Readable(l2[i].records) = l2[i].records
  BY <1>3, <1>9, LeftReadable DEF l
<1>13. WrittenIn(left) = rest
  <2>1. m2 = left.manifests[left.current]
    BY <1>8 DEF m2
  <2>2. \A i \in DOMAIN left.logs : Readable(left.logs[i].records) = left.logs[i].records
    BY <1>8, <1>12
  <2>3. WrittenIn(left) = Rest(disk.logs, left.logs, written, FirstLog(m2, k))
    BY <1>11, <2>1, <2>2, RestIsWritten
  <2> QED
    BY <1>8, <2>3 DEF l
<1>14. /\ \A i \in DOMAIN l2 : LogSafe(l2[i], promised)
       /\ Apart(rest \cup LoggedIn(l2, 0))
       /\ promised \subseteq rest
  BY <1>3, <1>9, RestSafe DEF l
<1>15. LogsSafe'
  BY <1>1, <1>2, <1>8, <1>13, <1>14 DEF LogsSafe
<1>16. Carries(l2, rest, first, last)
  <2>1. Carries(l, written, first, last)
    BY <1>10, <1>11 DEF ManifestCarries
  <2> HIDE DEF first, last
  <2> QED
    BY <1>3, <1>9, <2>1, RestCarries DEF l, rest
<1>17. ManifestCarries(m2, k, l2, rest)
  BY <1>11, <1>16 DEF ManifestCarries
<1>18. ManifestSays'
  <2>1. \A i \in k..k : i = k
    BY <1>11
  <2>2. disk'.current = c /\ disk'.manifests[c] = m2 /\ disk'.logs = l2 /\ written' = rest
    BY <1>1, <1>8, <1>13 DEF m2
  <2>3. c # 0
    BY <1>4 DEF c
  <2> HIDE DEF rest
  <2> QED
    BY <1>11, <1>17, <2>1, <2>2, <2>3 DEF ManifestSays
<1>19. "append" \notin todo'.faults
  <2>1. todo \in ScenarioType
    BY DEF DBInv, ClientsTyped
  <2>2. todo'.faults = todo.faults
    BY <1>2, <2>1, FaultsLeft
  <2> QED
    BY <2>2 DEF PromiseInv
<1> QED
  BY <1>2, <1>15, <1>18, <1>19, PromisesForgotten

-----------------------------------------------------------------------------
(* The beginning, and every step.                                          *)

(* No append to a log fails half-way. *)
AppendsWhole == \A s \in Scenarios : "append" \notin s.faults

(* Logs that hold nothing keep every promise there is. *)
LEMMA EmptyLogs ==
    ASSUME NEW l, \A n \in DOMAIN l : n \in Nat /\ l[n] = EmptyFile, NEW first, NEW last,
           NEW bound, \A n \in DOMAIN l : ~(n < bound)
    PROVE  /\ \A n \in DOMAIN l : LogSafe(l[n], {})
           /\ LoggedIn(l, first) = {}
           /\ Carries(l, {}, bound, last)
<1>1. LogSafe(EmptyFile, {})
  <2>1. Len(EmptyFile.records) = 0
    BY NothingLogged
  <2> QED
    BY <2>1, NothingLogged DEF LogSafe
<1>2. LoggedIn(l, first) = {}
  BY NothingLogged DEF LoggedIn
<1>3. Carries(l, {}, bound, last)
  BY DEF Carries
<1> QED
  BY <1>1, <1>2, <1>3

(* Nothing is written in the beginning. *)
LEMMA PromisesBegin ==
    ASSUME AppendsWhole, Init
    PROVE  PromiseInv
<1>1. /\ todo \in Scenarios /\ disk = IF todo.created THEN CreatedDisk ELSE NoDisk
      /\ writers = <<>> /\ writing = {} /\ phase = "closed"
      /\ written = {} /\ promised = {}
  BY DEF Init
<1>2. CASE disk = NoDisk
  <2>1. DOMAIN disk.logs = {} /\ disk.current = 0
    BY <1>2 DEF NoDisk
  <2>2. LoggedIn(disk.logs, 0) = {}
    BY <2>1, EmptyLogs
  <2> QED
    BY <1>1, <2>1, <2>2 DEF AppendsWhole, PromiseInv, LogsSafe, ManifestSays, WritersSound, Apart
<1>3. CASE disk = CreatedDisk
  <2> DEFINE e == [NoEdit EXCEPT !.log_number = 3, !.next_file = 4]
             m == [records |-> <<NoEdit, e>>, synced |-> 2]
             l == With(<<>>, 3, EmptyFile)
             ms == With(<<>>, 2, m)
  <2>1. disk = [logs |-> l, tables |-> <<>>, current |-> 2, manifests |-> ms]
    BY <1>3 DEF CreatedDisk
  <2>2. ms[2] = m
    BY DEF With
  <2>3. DOMAIN l = {3} /\ l[3] = EmptyFile
    BY DEF With
  <2>4. e.log_number = 3 /\ e.next_file = 4
    BY DEF NoEdit
  <2> HIDE DEF e
  <2>5. m.synced = 2 /\ Len(m.records) = 2 /\ m.records[2] = e
    OBVIOUS
  <2> HIDE DEF m, l, ms
  <2>6. disk.logs = l /\ disk.current = 2 /\ disk.manifests = ms
    BY <2>1
  <2>7. \A n \in DOMAIN l : n \in Nat /\ l[n] = EmptyFile /\ ~(n < 3)
    BY <2>3
  <2>8. /\ \A n \in DOMAIN l : LogSafe(l[n], {})
        /\ LoggedIn(l, 0) = {}
        /\ Carries(l, {}, 3, e.last_sequence)
    BY <2>7, EmptyLogs
  <2>9. LogsSafe
    BY <1>1, <2>6, <2>8 DEF LogsSafe, Apart
  <2>10. Says(m, l, {}, 3)
    <3>1. 2 \in Nat \ {0} /\ 3 \in Nat /\ 3 < 4 /\ 3 <= 3
      OBVIOUS
    <3> QED
      BY <2>4, <2>5, <2>8, <3>1, SyncedCarries
  <2>11. ManifestSays
    BY <1>1, <2>2, <2>6, <2>10 DEF ManifestSays, Says
  <2> QED
    BY <1>1, <2>9, <2>11 DEF AppendsWhole, PromiseInv, WritersSound
<1> QED
  BY <1>1, <1>2, <1>3

(* Every step keeps the promises. *)
LEMMA PromisesKept ==
    ASSUME DBInv, PromiseInv, [Next]_vars
    PROVE  PromiseInv'
<1>1. CASE Opening
  BY <1>1, OpeningPromises
<1>2. CASE WriteSteps
  BY <1>2, BeginWritePromises, FailWritePromises, AddRecordPromises, FinishWritePromises
     DEF WriteSteps
<1>3. CASE Background
  BY <1>3, BeginMemTablePromises, FinishBuildPromises, BeginCompactionPromises,
     IdleCallPromises, OpenOutputsPromises, FinishCompactionWorkPromises, WriteEditPromises,
     InstallEditPromises, AbortCompactionPromises DEF Background
<1>4. CASE Faults
  <2>1. ~FailAddRecord
    BY DEF FailAddRecord, PromiseInv
  <2> QED
    BY <1>4, <2>1, FailSyncPromises, FailEditPromises, CrashPromises DEF Faults
<1>5. CASE Clients
  BY <1>5, ClientsPromise, FinishClosePromises
<1>6. CASE UNCHANGED vars
  <2>1. UNCHANGED <<disk, vs, logfile_number, writers, writing, bg, phase, todo, history>>
    BY <1>6 DEF vars, memory
  <2> QED
    BY <2>1, NothingPromised
<1> QED
  BY <1>1, <1>2, <1>3, <1>4, <1>5, <1>6 DEF Next

-----------------------------------------------------------------------------
(* The store of batches.                                                   *)

StoreStep == [KV!Open \/ KV!Commit \/ KV!Stop]_(KV!vars)

(* A step that writes nothing and does not open the database is a stop of  *)
(* the store, or none of its steps.                                        *)
Quiet == UNCHANGED history /\ (phase' = "open" => phase = "open")

(* A store that is consistent and keeps what was promised may stop. *)
LEMMA StopsSafely ==
    ASSUME LogsSafe', phase' # "open", promised' = promised
    PROVE  StoreStep
<1>1. promised \subseteq written'
  BY DEF LogsSafe
<1>2. Apart(written')
  <2>1. Apart(written' \cup LoggedIn(disk'.logs, 0))
    BY DEF LogsSafe
  <2>2. written' \subseteq written' \cup LoggedIn(disk'.logs, 0)
    OBVIOUS
  <2> QED
    BY <2>1, <2>2, ApartFewer
<1>3. KV!Consistent(written')
  BY <1>2, ApartConsistent
<1>4. KV!Stop
  BY <1>1, <1>3 DEF KV!Stop
<1> QED
  BY <1>4 DEF StoreStep

(* So a quiet step does as the store may. *)
LEMMA QuietStores ==
    ASSUME LogsSafe', Quiet
    PROVE  StoreStep
<1>1. CASE phase' = "open"
  <2>1. phase = "open" /\ written' = written /\ promised' = promised
    BY <1>1 DEF Quiet, history
  <2>2. KV!vars' = KV!vars
    BY <1>1, <2>1 DEF KV!vars
  <2> QED
    BY <2>2 DEF StoreStep
<1>2. CASE phase' # "open"
  BY <1>2, StopsSafely DEF Quiet, history
<1> QED
  BY <1>1, <1>2

(* Opening opens the store. *)
LEMMA OpeningStores ==
    ASSUME LogsSafe', Opening
    PROVE  StoreStep
<1>1. CASE NewDB
  BY <1>1, QuietStores DEF NewDB, Quiet
<1>2. CASE Recover
  <2>1. UNCHANGED history /\ phase' \in {"corrupt", "recovered"}
    BY <1>2 DEF Recover
  <2> QED
    BY <2>1, QuietStores DEF Quiet
<1>3. CASE WriteNewManifest
  BY <1>3, QuietStores DEF WriteNewManifest, OpenUnchanged, Quiet
<1>4. CASE SetCurrentFile
  BY <1>4, QuietStores DEF SetCurrentFile, OpenUnchanged, Quiet
<1>5. CASE FinishOpen
  <2>1. phase # "open" /\ phase' = "open" /\ written' = written /\ promised' = promised
    BY <1>5 DEF FinishOpen, OpenUnchanged, history
  <2>2. KV!Open
    BY <2>1 DEF KV!Open
  <2> QED
    BY <2>2 DEF StoreStep
<1> QED
  BY <1>1, <1>2, <1>3, <1>4, <1>5 DEF Opening

(* A write that returns ok commits its group as a whole, with numbers      *)
(* greater than all before.                                                *)
LEMMA WriteCommits ==
    ASSUME DBInv, PromiseInv, FinishWrite
    PROVE  StoreStep
<1>1. PICK w \in writing : w.logged /\ EndGroup(w, TRUE)
  BY DEF FinishWrite
<1> DEFINE b == ToSet(w.record)
           last == vs.last_sequence
<1>2. /\ phase = "open" /\ WriteSound(w, last)
  <2>1. WriteSound(w, last) /\ writers # <<>> /\ phase \in {"open", "dead"}
    BY <1>1 DEF PromiseInv, WritersSound
  <2>2. phase # "dead"
    BY <1>1 DEF EndGroup, Alive
  <2> QED
    BY <2>1, <2>2
<1>3. /\ phase' = phase /\ written' = written \cup {b}
      /\ promised' \in {promised, promised \cup {b}}
  BY <1>1 DEF EndGroup
<1>4. w.record \in Seq(Keys) /\ last \in Nat
  BY VersionsAre DEF DBInv, ClientsTyped
<1>5. b # {} /\ \A e \in b : e.seq \in Nat /\ last < e.seq
  <2>1. w.record # <<>> /\ \A e \in b : last < e.seq
    BY <1>2 DEF WriteSound
  <2>2. b \subseteq Keys
    BY <1>4, SeqOfItsSet
  <2>3. \A e \in Keys : e.seq \in Nat
    BY DEF Keys
  <2>4. 1 \in DOMAIN w.record
    BY <1>4, <2>1, EmptySeq, LenProperties
  <2>5. w.record[1] \in b
    BY <2>4 DEF ToSet
  <2> QED
    BY <2>1, <2>2, <2>3, <2>5
<1>6. \A g \in written : \A e \in g : e.seq \in 0..last
  <2>1. NumbersGoOn
    BY <1>2 DEF PromiseInv
  <2> QED
    BY <2>1 DEF NumbersGoOn, Used, Below
<1> HIDE DEF b, last
<1>7. \A n \in KV!Numbers({b}), m \in KV!Numbers(written) : m < n
  <2> SUFFICES ASSUME NEW n \in KV!Numbers({b}), NEW m \in KV!Numbers(written) PROVE m < n
    OBVIOUS
  <2>1. PICK x \in b : n = x.seq
    BY DEF KV!Numbers
  <2>2. PICK g \in written : \E y \in g : m = y.seq
    BY DEF KV!Numbers
  <2>3. m \in 0..last
    BY <1>6, <2>2
  <2>4. n \in Nat /\ last < n
    BY <1>5, <2>1
  <2> QED
    BY <1>4, <2>3, <2>4
<1>8. KV!Commit
  <2>1. b \in written'
    BY <1>3
  <2> QED
    BY <1>2, <1>3, <1>5, <1>7, <2>1 DEF KV!Commit
<1> QED
  BY <1>8 DEF StoreStep

(* Other steps of the threads that write are quiet. *)
LEMMA WritesQuiet ==
    ASSUME BeginWrite \/ FailWrite \/ AddRecord \/ FailSync
    PROVE  Quiet
<1>1. CASE BeginWrite
  BY <1>1 DEF BeginWrite, Quiet
<1>2. CASE FailWrite
  BY <1>2 DEF FailWrite, Quiet
<1>3. CASE AddRecord
  BY <1>3 DEF AddRecord, Quiet
<1>4. CASE FailSync
  BY <1>4 DEF FailSync, EndGroup, Quiet, history
<1> QED
  BY <1>1, <1>2, <1>3, <1>4

(* So are those of the background thread, whatever it fails at. *)
LEMMA BackgroundQuiet ==
    ASSUME Background \/ FailEdit
    PROVE  Quiet
<1>1. ASSUME NEW job, NEW ok, EndOfCall(job, ok) PROVE phase' = "open" => phase = "open"
  BY <1>1 DEF EndOfCall
<1>2. ASSUME AfterMemTable PROVE phase' = "open" => phase = "open"
  BY <1>1, <1>2 DEF AfterMemTable
<1>3. CASE BeginMemTable
  BY <1>3 DEF BeginMemTable, BgUnchanged, Quiet
<1>4. CASE FinishBuild
  BY <1>2, <1>4 DEF FinishBuild, Quiet
<1>5. CASE BeginCompaction
  BY <1>5 DEF BeginCompaction, BgUnchanged, Quiet
<1>6. CASE IdleCall
  BY <1>1, <1>6 DEF IdleCall, Quiet
<1>7. CASE OpenOutputs
  BY <1>7 DEF OpenOutputs, BgUnchanged, Quiet
<1>8. CASE FinishCompactionWork
  BY <1>8 DEF FinishCompactionWork, BgUnchanged, Quiet
<1>9. CASE WriteEdit
  BY <1>9 DEF WriteEdit, BgUnchanged, Quiet
<1>10. CASE InstallEdit
  BY <1>1, <1>2, <1>10 DEF InstallEdit, Quiet
<1>11. CASE AbortCompaction
  BY <1>1, <1>11 DEF AbortCompaction, Quiet
<1>12. CASE FailEdit
  BY <1>1, <1>2, <1>12 DEF FailEdit, Quiet
<1> QED
  BY <1>3, <1>4, <1>5, <1>6, <1>7, <1>8, <1>9, <1>10, <1>11, <1>12 DEF Background

(* And those of the clients, but for the last. *)
LEMMA ClientsQuiet ==
    ASSUME Clients, ~FinishClose
    PROVE  Quiet
<1>1. CASE \E t \in Threads : Write(t)
  BY <1>1 DEF Write, Quiet
<1>2. CASE \E r \in Readers : BeginRead(r) \/ EndRead(r)
  BY <1>2 DEF BeginRead, EndRead, Quiet
<1>3. CASE GetSnapshot \/ \E s \in snapshots : ReleaseSnapshot(s)
  BY <1>3 DEF GetSnapshot, ReleaseSnapshot, Quiet
<1>4. CASE PostManual \/ CancelManual
  BY <1>4 DEF PostManual, CancelManual, Quiet
<1>5. CASE Close
  BY <1>5 DEF Close, Quiet
<1> QED
  BY <1>1, <1>2, <1>3, <1>4, <1>5 DEF Clients

(* Every step of the database is one the store may take, or none of its. *)
LEMMA StepsStore ==
    ASSUME DBInv, PromiseInv, PromiseInv', [Next]_vars
    PROVE  StoreStep
<1>1. LogsSafe'
  BY DEF PromiseInv
<1>2. CASE Opening
  BY <1>1, <1>2, OpeningStores
<1>3. CASE WriteSteps
  <2>1. CASE FinishWrite
    BY <2>1, WriteCommits
  <2>2. CASE BeginWrite \/ FailWrite \/ AddRecord
    BY <1>1, <2>2, WritesQuiet, QuietStores
  <2> QED
    BY <1>3, <2>1, <2>2 DEF WriteSteps
<1>4. CASE Background
  BY <1>1, <1>4, BackgroundQuiet, QuietStores
<1>5. CASE Faults
  <2>1. ~FailAddRecord
    BY DEF FailAddRecord, PromiseInv
  <2>2. CASE FailSync
    BY <1>1, <2>2, WritesQuiet, QuietStores
  <2>3. CASE FailEdit
    BY <1>1, <2>3, BackgroundQuiet, QuietStores
  <2>4. CASE Crash
    <3>1. phase' # "open" /\ promised' = promised
      BY <2>4 DEF Crash, Forget
    <3> QED
      BY <1>1, <3>1, StopsSafely
  <2> QED
    BY <1>5, <2>1, <2>2, <2>3, <2>4 DEF Faults
<1>6. CASE Clients
  <2>1. CASE FinishClose
    <3>1. phase' # "open" /\ promised' = promised
      BY <2>1 DEF FinishClose, Forget
    <3> QED
      BY <1>1, <3>1, StopsSafely
  <2>2. CASE ~FinishClose
    BY <1>1, <1>6, <2>2, ClientsQuiet, QuietStores
  <2> QED
    BY <2>1, <2>2
<1>7. CASE UNCHANGED vars
  <2>1. Quiet
    BY <1>7 DEF vars, Quiet
  <2> QED
    BY <1>1, <2>1, QuietStores
<1> QED
  BY <1>2, <1>3, <1>4, <1>5, <1>6, <1>7 DEF Next

(* The invariant of the promises: no two groups, in a log or among those   *)
(* the database stands for, share a number; whatever part of the manifest  *)
(* a crash may leave accounts for all of them; promised ones are synced.   *)
THEOREM DBPromises ==
    ASSUME AppendsWhole
    PROVE  Spec => [](DBInv /\ PromiseInv)
<1>1. Init => DBInv /\ PromiseInv
  BY DBBegins, PromisesBegin
<1>2. DBInv /\ PromiseInv /\ [Next]_vars => (DBInv /\ PromiseInv)'
  BY DBKept, PromisesKept
<1> QED
  BY <1>1, <1>2, PTL DEF Spec

(* Unless an append fails half-way, the database is a store of batches     *)
(* that take effect whole and in the order of their numbers, that a        *)
(* process never takes back while it is up, and of which those of synced   *)
(* writes survive every crash and every restart.                           *)
THEOREM DBKeepsPromises ==
    ASSUME AppendsWhole
    PROVE  Spec => KeepsPromises
<1>1. Init => KV!Init
  BY DEF Init, KV!Init
<1>2. (DBInv /\ PromiseInv) /\ (DBInv /\ PromiseInv)' /\ [Next]_vars
         => [KV!Open \/ KV!Commit \/ KV!Stop]_(KV!vars)
  BY StepsStore DEF StoreStep
<1> QED
  BY <1>1, <1>2, DBPromises, PTL DEF Spec, KeepsPromises, KV!Spec

(* No crash and no failed write takes back what was promised. *)
THEOREM DBDurable ==
    ASSUME AppendsWhole
    PROVE  Spec => []Durable
<1>1. DBInv /\ PromiseInv => Durable
  BY DEF PromiseInv, LogsSafe, Durable
<1> QED
  BY <1>1, DBPromises, PTL

=============================================================================
