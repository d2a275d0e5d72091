---------------------------- MODULE VersionLemmas ---------------------------
(***************************************************************************)
(* What the operators on keys, versions and compactions return: lemmas for *)
(* the proofs about DB and LSM.                                            *)
(***************************************************************************)
EXTENDS Compactions, DataLemmas

(* Internal keys, and what memtables and tables hold of them. *)
Keys == [user : Nat, seq : Nat, type : {kTypeDeletion, kTypeValue}]

KeySets == {K \in SUBSET Keys : IsFiniteSet(K)}

Contents == KeySets \ {{}}

IsSeq(s) == s \in Seq(ToSet(s))

(* What is said of a file is said of the table on the disk, whose number   *)
(* was given out before.                                                   *)
MetaSound(f, tables, bound) ==
    /\ f.number \in DOMAIN tables /\ f.number < bound
    /\ f = FileMetaData(f.number, tables[f.number])

FilesSound(files, tables, bound) ==
    IsSeq(files) /\ \A f \in ToSet(files) : MetaSound(f, tables, bound)

VersionSound(v, tables, bound) ==
    /\ v = [level \in Levels |-> v[level]]
    /\ \A level \in Levels : FilesSound(v[level], tables, bound)

(* A compaction reads the tables of the version it began with. *)
CompactionSound(c, tables, bound) ==
    /\ VersionSound(c.version, tables, bound)
    /\ \A i \in {1, 2} : IsSeq(c.inputs[i]) /\ ToSet(c.inputs[i]) \subseteq FilesOf(c.version)

-----------------------------------------------------------------------------
(* What is kept in order. *)

(* IKLess, the order of internal keys, is a strict and total one. *)
LEMMA KeyOrder ==
    /\ \A a \in Keys : ~IKLess(a, a)
    /\ \A a \in Keys : \A b \in Keys : a # b => IKLess(a, b) \/ IKLess(b, a)
    /\ \A a \in Keys : \A b \in Keys : \A c \in Keys : IKLess(a, b) /\ IKLess(b, c) => IKLess(a, c)
<1>1. \A a \in Keys : ~IKLess(a, a)
  BY DEF Keys, IKLess, kTypeDeletion, kTypeValue
<1>2. \A a \in Keys : \A b \in Keys : a # b => IKLess(a, b) \/ IKLess(b, a)
  BY DEF Keys, IKLess, kTypeDeletion, kTypeValue
<1>3. \A a \in Keys : \A b \in Keys : \A c \in Keys : IKLess(a, b) /\ IKLess(b, c) => IKLess(a, c)
  BY DEF Keys, IKLess, kTypeDeletion, kTypeValue
<1> QED
  BY <1>1, <1>2, <1>3

(* Each order is a function on the ranks. *)
LEMMA KeysShape ==
    ASSUME NEW S, NEW q,
           q = [i \in 1..Cardinality(S) |->
                  CHOOSE x \in S : Cardinality({y \in S : IKLess(y, x)}) = i - 1]
    PROVE  q = [i \in 1..Cardinality(S) |-> q[i]]
OBVIOUS

(* The same for numbers in ascending order. *)
LEMMA NumbersShape ==
    ASSUME NEW S, NEW q,
           q = [i \in 1..Cardinality(S) |->
                  CHOOSE x \in S : Cardinality({y \in S : y < x}) = i - 1]
    PROVE  q = [i \in 1..Cardinality(S) |-> q[i]]
OBVIOUS

(* And for files, in the order of their smallest keys. *)
LEMMA FilesShape ==
    ASSUME NEW S, NEW q,
           q = [i \in 1..Cardinality(S) |->
                  CHOOSE x \in S : Cardinality({y \in S : BySmallestKey(y, x)}) = i - 1]
    PROVE  q = [i \in 1..Cardinality(S) |-> q[i]]
OBVIOUS

(* Whatever is put in order comes out with as many places as it has        *)
(* elements.                                                               *)
LEMMA OrderShapes ==
    ASSUME NEW S
    PROVE  /\ InKeyOrder(S) = [i \in 1..Cardinality(S) |-> InKeyOrder(S)[i]]
           /\ Ascending(S) = [i \in 1..Cardinality(S) |-> Ascending(S)[i]]
           /\ InFileOrder(S) = [i \in 1..Cardinality(S) |-> InFileOrder(S)[i]]
<1>1. InKeyOrder(S) = [i \in 1..Cardinality(S) |-> InKeyOrder(S)[i]]
  <2>1. InKeyOrder(S) = [i \in 1..Cardinality(S) |->
               CHOOSE x \in S : Cardinality({y \in S : IKLess(y, x)}) = i - 1]
    BY DEF InKeyOrder, Ranked
  <2> QED
    BY <2>1, KeysShape
<1>2. Ascending(S) = [i \in 1..Cardinality(S) |-> Ascending(S)[i]]
  <2>1. Ascending(S) = [i \in 1..Cardinality(S) |->
               CHOOSE x \in S : Cardinality({y \in S : y < x}) = i - 1]
    BY DEF Ascending, Ranked
  <2> QED
    BY <2>1, NumbersShape
<1>3. InFileOrder(S) = [i \in 1..Cardinality(S) |-> InFileOrder(S)[i]]
  <2>1. InFileOrder(S) = [i \in 1..Cardinality(S) |->
               CHOOSE x \in S : Cardinality({y \in S : BySmallestKey(y, x)}) = i - 1]
    BY DEF InFileOrder, Ranked
  <2> QED
    BY <2>1, FilesShape
<1> QED
  BY <1>1, <1>2, <1>3

(* A set of keys in order is a sequence of them, without loss and sorted. *)
LEMMA KeysInOrder ==
    ASSUME NEW S \in KeySets
    PROVE  /\ InKeyOrder(S) \in Seq(S) /\ ToSet(InKeyOrder(S)) = S
           /\ \A i \in 1..Len(InKeyOrder(S)) : \A j \in 1..Len(InKeyOrder(S)) :
                 i < j => IKLess(InKeyOrder(S)[i], InKeyOrder(S)[j])
<1> DEFINE B == [x \in S |-> {y \in S : IKLess(y, x)}]
<1>2. B \in [S -> SUBSET S] /\ \A x \in S : B[x] = {y \in S : IKLess(y, x)}
  OBVIOUS
<1> DEFINE q == InKeyOrder(S)
<1>3. InRanks(q, S, B)
  <2>1. q = [i \in 1..Cardinality(S) |-> q[i]]
    BY OrderShapes
  <2>2. \A i \in 1..Cardinality(S) : q[i] = CHOOSE z \in S : Cardinality({y \in S : IKLess(y, z)}) = i - 1
    BY DEF InKeyOrder, Ranked
  <2> SUFFICES ASSUME NEW i \in 1..Cardinality(S), NEW x \in S, Cardinality(B[x]) = i - 1
               PROVE  q[i] \in S /\ Cardinality(B[q[i]]) = i - 1
    BY <2>1 DEF InRanks
  <2>3. Cardinality({y \in S : IKLess(y, x)}) = i - 1
    BY <1>2
  <2> HIDE DEF B, q
  <2> QED
    BY <1>2, <2>2, <2>3
<1> HIDE DEF B
<1>1. IsFiniteSet(S) /\ S \subseteq Keys
  BY DEF KeySets
<1>4. \A x \in S : x \notin B[x]
  BY <1>1, <1>2, KeyOrder
<1>5. \A x \in S : \A y \in S : x # y => x \in B[y] \/ y \in B[x]
  BY <1>1, <1>2, KeyOrder
<1>6. \A x \in S : \A y \in S : x \in B[y] => B[x] \subseteq B[y]
  BY <1>1, <1>2, KeyOrder
<1> HIDE DEF q
<1> QED
  <2>1. /\ q \in Seq(S) /\ Len(q) = Cardinality(S) /\ ToSet(q) = S
        /\ \A i \in 1..Cardinality(S) : \A j \in 1..Cardinality(S) : i < j => q[i] \in B[q[j]]
    BY <1>1, <1>2, <1>3, <1>4, <1>5, <1>6, RankedSet
  <2>2. ASSUME NEW i \in 1..Len(q), NEW j \in 1..Len(q), i < j PROVE IKLess(q[i], q[j])
    <3>1. q[i] \in S /\ q[j] \in S /\ q[i] \in B[q[j]]
      BY <2>1, <2>2
    <3> QED
      BY <1>2, <3>1
  <2> QED
    BY <2>1, <2>2 DEF q

(* So is a set of file numbers in ascending order. *)
LEMMA NumbersInOrder ==
    ASSUME NEW S \in SUBSET Nat, IsFiniteSet(S)
    PROVE  Ascending(S) \in Seq(S) /\ ToSet(Ascending(S)) = S
<1> DEFINE B == [x \in S |-> {y \in S : y < x}]
<1>2. B \in [S -> SUBSET S] /\ \A x \in S : B[x] = {y \in S : y < x}
  OBVIOUS
<1> DEFINE q == Ascending(S)
<1>3. InRanks(q, S, B)
  <2>1. q = [i \in 1..Cardinality(S) |-> q[i]]
    BY OrderShapes
  <2>2. \A i \in 1..Cardinality(S) : q[i] = CHOOSE z \in S : Cardinality({y \in S : y < z}) = i - 1
    BY DEF Ascending, Ranked
  <2> SUFFICES ASSUME NEW i \in 1..Cardinality(S), NEW x \in S, Cardinality(B[x]) = i - 1
               PROVE  q[i] \in S /\ Cardinality(B[q[i]]) = i - 1
    BY <2>1 DEF InRanks
  <2>3. Cardinality({y \in S : y < x}) = i - 1
    BY <1>2
  <2> HIDE DEF B, q
  <2> QED
    BY <1>2, <2>2, <2>3
<1> HIDE DEF B
<1>4. \A x \in S : x \notin B[x]
  BY <1>2
<1>5. \A x \in S : \A y \in S : x # y => x \in B[y] \/ y \in B[x]
  BY <1>2
<1>6. \A x \in S : \A y \in S : x \in B[y] => B[x] \subseteq B[y]
  <2> SUFFICES ASSUME NEW x \in S, NEW y \in S, x \in B[y], NEW z \in B[x] PROVE z \in B[y]
    OBVIOUS
  <2>1. x < y /\ z < x /\ z \in S
    BY <1>2
  <2>2. z < y
    BY <2>1
  <2> QED
    BY <1>2, <2>1, <2>2
<1> HIDE DEF q
<1> QED
  <2>1. q \in Seq(S) /\ ToSet(q) = S
    BY <1>2, <1>3, <1>4, <1>5, <1>6, RankedSet
  <2> QED
    BY <2>1 DEF q

(* A set of keys that is not empty has a smallest one, *)
LEMMA SmallestInSet ==
    ASSUME NEW S \in Contents
    PROVE  SmallestOf(S) \in S /\ \A k \in S : ~IKLess(k, SmallestOf(S))
<1>1. S \in KeySets /\ S # {} /\ S \subseteq Keys /\ IsFiniteSet(S)
  BY DEF Contents, KeySets
<1>2. PICK k \in S : \A l \in S : ~IKLess(l, k)
  <2> DEFINE Q == {T \in SUBSET S : T # {} => \E k \in T : \A l \in T : ~IKLess(l, k)}
  <2>1. ASSUME NEW T \in SUBSET S, \A U \in SUBSET T : U # T => U \in Q PROVE T \in Q
    <3> SUFFICES ASSUME T # {} PROVE \E k \in T : \A l \in T : ~IKLess(l, k)
      OBVIOUS
    <3>1. PICK a \in T : TRUE
      OBVIOUS
    <3>2. CASE T \ {a} = {}
      BY <1>1, <3>1, <3>2, KeyOrder
    <3>3. CASE T \ {a} # {}
      <4>1. T \ {a} \in Q
        BY <2>1, <3>1
      <4>2. PICK k \in T \ {a} : \A l \in T \ {a} : ~IKLess(l, k)
        BY <3>3, <4>1
      <4>3. CASE ~IKLess(a, k)
        BY <4>2, <4>3
      <4>4. CASE IKLess(a, k)
        <5>1. \A l \in T : ~IKLess(l, a)
          BY <1>1, <3>1, <4>2, <4>4, KeyOrder
        <5> QED
          BY <3>1, <5>1
      <4> QED
        BY <4>3, <4>4
    <3> QED
      BY <3>2, <3>3
  <2> HIDE DEF Q
  <2>2. S \in Q
    BY <1>1, <2>1, SubsetInduction
  <2> QED
    BY <1>1, <2>2 DEF Q
<1> QED
  BY <1>2 DEF SmallestOf, IKLeq

(* and a largest. *)
LEMMA LargestInSet ==
    ASSUME NEW S \in Contents
    PROVE  LargestOf(S) \in S /\ \A k \in S : ~IKLess(LargestOf(S), k)
<1>1. S \in KeySets /\ S # {} /\ S \subseteq Keys /\ IsFiniteSet(S)
  BY DEF Contents, KeySets
<1>2. PICK k \in S : \A l \in S : ~IKLess(k, l)
  <2> DEFINE Q == {T \in SUBSET S : T # {} => \E k \in T : \A l \in T : ~IKLess(k, l)}
  <2>1. ASSUME NEW T \in SUBSET S, \A U \in SUBSET T : U # T => U \in Q PROVE T \in Q
    <3> SUFFICES ASSUME T # {} PROVE \E k \in T : \A l \in T : ~IKLess(k, l)
      OBVIOUS
    <3>1. PICK a \in T : TRUE
      OBVIOUS
    <3>2. CASE T \ {a} = {}
      BY <1>1, <3>1, <3>2, KeyOrder
    <3>3. CASE T \ {a} # {}
      <4>1. T \ {a} \in Q
        BY <2>1, <3>1
      <4>2. PICK k \in T \ {a} : \A l \in T \ {a} : ~IKLess(k, l)
        BY <3>3, <4>1
      <4>3. CASE ~IKLess(k, a)
        BY <4>2, <4>3
      <4>4. CASE IKLess(k, a)
        <5>1. \A l \in T : ~IKLess(a, l)
          BY <1>1, <3>1, <4>2, <4>4, KeyOrder
        <5> QED
          BY <3>1, <5>1
      <4> QED
        BY <4>3, <4>4
    <3> QED
      BY <3>2, <3>3
  <2> HIDE DEF Q
  <2>2. S \in Q
    BY <1>1, <2>1, SubsetInduction
  <2> QED
    BY <1>1, <2>2 DEF Q
<1> QED
  BY <1>2 DEF LargestOf, IKLeq

(* A table, which is not empty, has a smallest key. *)
LEMMA SmallestIsKey ==
    ASSUME NEW S \in Contents
    PROVE  SmallestOf(S) \in Keys
BY SmallestInSet DEF Contents, KeySets

(* A file's number and smallest key are what its table says. *)
LEMMA FileKeys ==
    ASSUME NEW tables, NEW bound, DOMAIN tables \subseteq Nat,
           tables \in [DOMAIN tables -> Contents],
           NEW f, MetaSound(f, tables, bound)
    PROVE  f.number \in Nat /\ f.smallest \in Keys
<1>1. f.number \in DOMAIN tables /\ tables[f.number] \in Contents
  BY DEF MetaSound
<1>2. f.smallest = SmallestOf(tables[f.number])
  BY DEF MetaSound, FileMetaData
<1> QED
  BY <1>1, <1>2, SmallestIsKey

(* The files of a level, as SaveTo sorts them, are those it is given, each *)
(* table being sorted once.                                                *)
LEMMA FilesInOrder ==
    ASSUME NEW all, IsFiniteSet(all), NEW tables, NEW bound,
           DOMAIN tables \subseteq Nat, tables \in [DOMAIN tables -> Contents],
           \A f \in all : MetaSound(f, tables, bound)
    PROVE  /\ InFileOrder(all) \in Seq(all) /\ ToSet(InFileOrder(all)) = all
           /\ \A i \in 1..Len(InFileOrder(all)) : \A j \in 1..Len(InFileOrder(all)) :
                 i < j => BySmallestKey(InFileOrder(all)[i], InFileOrder(all)[j])
<1> DEFINE B == [x \in all |-> {y \in all : BySmallestKey(y, x)}]
<1>2. B \in [all -> SUBSET all] /\ \A x \in all : B[x] = {y \in all : BySmallestKey(y, x)}
  OBVIOUS
<1> DEFINE q == InFileOrder(all)
<1>3. InRanks(q, all, B)
  <2>1. q = [i \in 1..Cardinality(all) |-> q[i]]
    BY OrderShapes
  <2>2. \A i \in 1..Cardinality(all) : q[i] = CHOOSE z \in all : Cardinality({y \in all : BySmallestKey(y, z)}) = i - 1
    BY DEF InFileOrder, Ranked
  <2> SUFFICES ASSUME NEW i \in 1..Cardinality(all), NEW x \in all, Cardinality(B[x]) = i - 1
               PROVE  q[i] \in all /\ Cardinality(B[q[i]]) = i - 1
    BY <2>1 DEF InRanks
  <2>3. Cardinality({y \in all : BySmallestKey(y, x)}) = i - 1
    BY <1>2
  <2> HIDE DEF B, q
  <2> QED
    BY <1>2, <2>2, <2>3
<1> HIDE DEF B
<1>1. \A f \in all : f.number \in Nat /\ f.smallest \in Keys
  BY FileKeys
<1>7. \A f \in all : \A g \in all : f.number = g.number => f = g
  BY DEF MetaSound
<1>4. \A x \in all : x \notin B[x]
  BY <1>1, <1>2, KeyOrder DEF BySmallestKey
<1>5. \A x \in all : \A y \in all : x # y => x \in B[y] \/ y \in B[x]
  <2> SUFFICES ASSUME NEW x \in all, NEW y \in all, x # y
               PROVE  BySmallestKey(x, y) \/ BySmallestKey(y, x)
    BY <1>2
  <2>1. x.number # y.number
    BY <1>7
  <2>2. x.smallest # y.smallest => IKLess(x.smallest, y.smallest) \/ IKLess(y.smallest, x.smallest)
    BY <1>1, KeyOrder
  <2> QED
    BY <1>1, <2>1, <2>2 DEF BySmallestKey
<1>6. \A x \in all : \A y \in all : x \in B[y] => B[x] \subseteq B[y]
  <2> SUFFICES ASSUME NEW x \in all, NEW y \in all, NEW z \in all,
                      BySmallestKey(x, y), BySmallestKey(z, x)
               PROVE  BySmallestKey(z, y)
    BY <1>2
  <2>1. x.smallest \in Keys /\ y.smallest \in Keys /\ z.smallest \in Keys
    BY <1>1
  <2>2. IKLess(z.smallest, x.smallest) /\ IKLess(x.smallest, y.smallest)
            => IKLess(z.smallest, y.smallest)
    BY <2>1, KeyOrder
  <2>3. x.number \in Nat /\ y.number \in Nat /\ z.number \in Nat
    BY <1>1
  <2> QED
    BY <2>2, <2>3 DEF BySmallestKey
<1> HIDE DEF q
<1> QED
  <2>1. /\ q \in Seq(all) /\ Len(q) = Cardinality(all) /\ ToSet(q) = all
        /\ \A i \in 1..Cardinality(all) : \A j \in 1..Cardinality(all) : i < j => q[i] \in B[q[j]]
    BY <1>2, <1>3, <1>4, <1>5, <1>6, RankedSet
  <2>2. ASSUME NEW i \in 1..Len(q), NEW j \in 1..Len(q), i < j PROVE BySmallestKey(q[i], q[j])
    <3>1. q[i] \in all /\ q[j] \in all /\ q[i] \in B[q[j]]
      BY <2>1, <2>2
    <3> QED
      BY <1>2, <3>1
  <2> QED
    BY <2>1, <2>2 DEF q

-----------------------------------------------------------------------------
(* Picking files of a level. *)

(* Picking files of a level by their indices picks files of the level. *)
LEMMA PickedFiles ==
    ASSUME NEW files, IsSeq(files), NEW I \in SUBSET DOMAIN files
    PROVE  FilesAt(files, Ascending(I)) \in Seq(ToSet(files))
<1>1. Len(files) \in Nat /\ DOMAIN files = 1..Len(files) /\ files \in [1..Len(files) -> ToSet(files)]
  BY LenProperties DEF IsSeq
<1>2. IsFiniteSet(1..Len(files))
  BY <1>1, FS_Interval
<1>3. I \in SUBSET Nat /\ IsFiniteSet(I)
  BY <1>1, <1>2, FS_Subset
<1> DEFINE at == Ascending(I)
<1>4. at \in Seq(I)
  BY <1>3, NumbersInOrder
<1>5. Len(at) \in Nat /\ at \in [1..Len(at) -> I] /\ DOMAIN at = 1..Len(at)
  BY <1>4, LenProperties
<1> HIDE DEF at
<1>6. [n \in DOMAIN at |-> files[at[n]]] \in [1..Len(at) -> ToSet(files)]
  BY <1>1, <1>5
<1> QED
  BY <1>5, <1>6 DEF at, FilesAt

(* GetOverlappingInputs picks files of the level it is asked about. *)
LEMMA OverlapsPicked ==
    ASSUME NEW v, NEW level, NEW begin, NEW end, IsSeq(v[level])
    PROVE  GetOverlappingInputs(v, level, begin, end) \in Seq(ToSet(v[level]))
<1>1. \A range : FilesInRange(v[level], range) \in Seq(ToSet(v[level]))
  <2> SUFFICES ASSUME NEW range
               PROVE  FilesInRange(v[level], range) \in Seq(ToSet(v[level]))
    OBVIOUS
  <2> DEFINE I == {i \in DOMAIN v[level] :
                      ~AfterFile(range.begin, v[level][i]) /\ ~BeforeFile(range.end, v[level][i])}
  <2>1. I \in SUBSET DOMAIN v[level]
    OBVIOUS
  <2>2. FilesInRange(v[level], range) = FilesAt(v[level], Ascending(I))
    BY DEF FilesInRange, Where
  <2> HIDE DEF I
  <2> QED
    BY <2>1, <2>2, PickedFiles
<1> QED
  BY <1>1 DEF GetOverlappingInputs

(* And so do the files that overlap a range of keys. *)
LEMMA OverlappingPicked ==
    ASSUME NEW v, NEW level, NEW range, IsSeq(v[level])
    PROVE  OverlappingFiles(v, level, range) \in Seq(ToSet(v[level]))
BY OverlapsPicked DEF OverlappingFiles

(* AddBoundaryInputs adds files of the same level, however long it goes on, *)
(* and takes none away.                                                     *)
LEMMA BoundaryPicked ==
    ASSUME NEW level_files, IsSeq(level_files),
           NEW compaction_files \in Seq(ToSet(level_files))
    PROVE  /\ AddBoundaryInputs(level_files, compaction_files) \in Seq(ToSet(level_files))
           /\ compaction_files # <<>> => AddBoundaryInputs(level_files, compaction_files) # <<>>
<1> DEFINE n == Len(level_files)
           S == ToSet(level_files)
           start == [files |-> compaction_files, next |-> GetRange(compaction_files).largest]
           X == [files : {s \in Seq(S) : compaction_files # <<>> => s # <<>>},
                 next : {start.next} \cup {f.largest : f \in S}]
           G == [p \in (1..n) \X X |-> WithBoundary(level_files, p[2])]
           E(g) == [i \in 0..n |-> IF i = 0 THEN start ELSE WithBoundary(level_files, g[i - 1])]
<1>1. n \in Nat
  BY LenProperties DEF IsSeq
<1>2. start \in X
  OBVIOUS
<1>3. \A g \in X : WithBoundary(level_files, g) \in X
  <2> SUFFICES ASSUME NEW g \in X PROVE WithBoundary(level_files, g) \in X
    OBVIOUS
  <2> DEFINE b == FindSmallestBoundaryFile(level_files, g.next)
             f == CHOOSE x \in b : TRUE
  <2>1. b \subseteq S
    BY DEF FindSmallestBoundaryFile
  <2>2. CASE b = {}
    BY <2>2 DEF WithBoundary
  <2>3. CASE b # {}
    <3>1. f \in S
      BY <2>1, <2>3
    <3>2. WithBoundary(level_files, g) = [files |-> Append(g.files, f), next |-> f.largest]
      BY <2>3 DEF WithBoundary
    <3> HIDE DEF f
    <3>3. Append(g.files, f) \in Seq(S) /\ Len(Append(g.files, f)) # 0
      BY <3>1, AppendProperties, LenProperties
    <3>4. Append(g.files, f) # <<>>
      BY <3>3
    <3> QED
      BY <3>1, <3>2, <3>3, <3>4
  <2> QED
    BY <2>2, <2>3
<1>4. G \in [(1..n) \X X -> X]
  BY <1>3
<1>11. \A i \in 1..n : \A g \in X : G[<<i, g>>] = WithBoundary(level_files, g)
  OBVIOUS
<1>5. AddBoundaryInputs(level_files, compaction_files)
        = IF compaction_files = <<>> THEN <<>> ELSE (CHOOSE g : g = E(g))[n].files
  BY DEF AddBoundaryInputs
<1> HIDE DEF n, start, X, G
<1>6. PICK h \in [0..n -> X] : Counts(h, n, start, G)
  BY <1>1, <1>2, <1>4, CountSteps
<1>7. h = E(h)
  <2>1. \A i \in 1..n : i - 1 \in 0..n
    BY <1>1
  <2>2. \A i \in 1..n : h[i] = WithBoundary(level_files, h[i - 1])
    BY <1>11, <1>6, <2>1 DEF Counts
  <2>3. \A i \in 0..n : h[i] = IF i = 0 THEN start ELSE WithBoundary(level_files, h[i - 1])
    BY <1>1, <1>6, <2>2 DEF Counts
  <2> QED
    BY <1>6, <2>3
<1>8. PICK it : it = E(it) /\ it = (CHOOSE g : g = E(g))
  <2> HIDE DEF E
  <2> QED
    BY <1>7
<1>9. \A i \in 0..n : it[i] \in X
  <2>1. it[0] = start /\ \A i \in 1..n : it[i] = WithBoundary(level_files, it[i - 1])
    BY <1>1, <1>8
  <2>2. \A i \in 1..n : it[i - 1] \in X => it[i] = G[<<i, it[i - 1]>>]
    BY <1>11, <2>1
  <2>3. CountsIn(it, n, X, start, G)
    BY <2>1, <2>2 DEF CountsIn
  <2> QED
    BY <1>1, <1>2, <1>4, <2>3, CountIn
<1>10. it[n].files \in Seq(S) /\ (compaction_files # <<>> => it[n].files # <<>>)
  BY <1>1, <1>9 DEF X
<1> QED
  BY <1>5, <1>8, <1>10

(* SetupOtherInputs picks a level's files and the next level's, whether it *)
(* widens the inputs or not.                                               *)
LEMMA SetupPicked ==
    ASSUME NEW v, NEW level, IsSeq(v[level]), IsSeq(v[level + 1]),
           NEW chosen \in Seq(ToSet(v[level])), NEW c, c = SetupOtherInputs(v, level, chosen)
    PROVE  /\ c.version = v
           /\ c.inputs[1] \in Seq(ToSet(v[level])) /\ c.inputs[2] \in Seq(ToSet(v[level + 1]))
<1> DEFINE inputs0 == AddBoundaryInputs(v[level], chosen)
           least == WithOverlapping(v, level, inputs0)
           all == OverlappingFiles(v, level, GetRange(least[1] \o least[2]))
           more0 == AddBoundaryInputs(v[level], all)
           expanded == Expanded(v, level, least)
           inputs == IF MayExpand(least, expanded) THEN expanded ELSE least
<1>1. inputs0 \in Seq(ToSet(v[level])) /\ more0 \in Seq(ToSet(v[level]))
  <2>1. all \in Seq(ToSet(v[level]))
    BY OverlappingPicked
  <2> HIDE DEF all
  <2> QED
    BY <2>1, BoundaryPicked
<1>2. c.version = v /\ c.inputs = inputs
  BY DEF SetupOtherInputs, WithExpanded, Compaction
<1> HIDE DEF inputs0
<1>3. \A r : OverlappingFiles(v, level + 1, r) \in Seq(ToSet(v[level + 1]))
  BY OverlappingPicked
<1>4. least[1] \in Seq(ToSet(v[level])) /\ least[2] \in Seq(ToSet(v[level + 1]))
  BY <1>1, <1>3 DEF WithOverlapping
<1> HIDE DEF least
<1>5. expanded[1] \in Seq(ToSet(v[level])) /\ expanded[2] \in Seq(ToSet(v[level + 1]))
  <2>1. expanded = WithOverlapping(v, level, more0)
    BY DEF Expanded
  <2> HIDE DEF expanded, more0
  <2>2. expanded = <<more0, OverlappingFiles(v, level + 1, GetRange(more0))>>
    BY <2>1 DEF WithOverlapping
  <2> QED
    BY <1>1, <1>3, <2>2
<1> HIDE DEF expanded
<1> QED
  BY <1>2, <1>4, <1>5

(* So what it sets up is a compaction of files that exist. *)
LEMMA SetupSound ==
    ASSUME NEW v, NEW tables, NEW bound, VersionSound(v, tables, bound),
           NEW level \in 0..(kNumLevels - 2), NEW chosen \in Seq(ToSet(v[level]))
    PROVE  CompactionSound(SetupOtherInputs(v, level, chosen), tables, bound)
<1>1. level \in Levels /\ level + 1 \in Levels
  BY VersionsAssumption DEF Levels
<1>2. IsSeq(v[level]) /\ IsSeq(v[level + 1])
  BY <1>1 DEF VersionSound, FilesSound
<1> DEFINE c == SetupOtherInputs(v, level, chosen)
<1>3. /\ c.version = v
      /\ c.inputs[1] \in Seq(ToSet(v[level])) /\ c.inputs[2] \in Seq(ToSet(v[level + 1]))
  BY <1>2, SetupPicked
<1> HIDE DEF c
<1>4. \A i \in {1, 2} : IsSeq(c.inputs[i]) /\ ToSet(c.inputs[i]) \subseteq FilesOf(v)
  <2>1. IsSeq(c.inputs[1]) /\ ToSet(c.inputs[1]) \subseteq ToSet(v[level])
    BY <1>3, SeqOfItsSet DEF IsSeq
  <2>2. IsSeq(c.inputs[2]) /\ ToSet(c.inputs[2]) \subseteq ToSet(v[level + 1])
    BY <1>3, SeqOfItsSet DEF IsSeq
  <2> QED
    BY <1>1, <2>1, <2>2 DEF FilesOf
<1>5. CompactionSound(c, tables, bound)
  BY <1>3, <1>4 DEF CompactionSound
<1> QED
  BY <1>5 DEF c

(* The beginning of a sequence, up to the first index of some kind. *)
LEMMA FirstPart ==
    ASSUME NEW s, IsSeq(s), NEW I \in SUBSET DOMAIN s, I # {}
    PROVE  SubSeq(s, 1, CHOOSE i \in I : \A j \in I : i <= j) \in Seq(ToSet(s)) \ {<<>>}
<1>1. Len(s) \in Nat /\ DOMAIN s = 1..Len(s) /\ s \in Seq(ToSet(s))
  BY LenProperties DEF IsSeq
<1>2. PICK least \in I : \A j \in I : least <= j
  BY <1>1, LeastOf
<1> DEFINE k == CHOOSE i \in I : \A j \in I : i <= j
<1>3. k \in 1..Len(s)
  BY <1>1, <1>2
<1> HIDE DEF k
<1>4. SubSeq(s, 1, k) \in Seq(ToSet(s)) /\ Len(SubSeq(s, 1, k)) = k
  BY <1>1, <1>3, SubSeqProperties
<1>5. SubSeq(s, 1, k) # <<>>
  BY <1>3, <1>4
<1> QED
  BY <1>4, <1>5 DEF k

(* CompactRange begins with files of the level it is asked about. *)
LEMMA RangeChosen ==
    ASSUME NEW v, NEW tables, NEW bound, VersionSound(v, tables, bound),
           NEW level \in 0..(kNumLevels - 2), NEW begin, NEW end,
           NEW c \in CompactRange(v, level, begin, end)
    PROVE  \E chosen \in Seq(ToSet(v[level])) \ {<<>>} : c = SetupOtherInputs(v, level, chosen)
<1> DEFINE inputs == GetOverlappingInputs(v, level, begin, end)
           full == {i \in DOMAIN inputs : TotalFileSize(SubSeq(inputs, 1, i)) >= MaxFileSize}
           cut == IF level = 0 \/ full = {} THEN inputs
                  ELSE SubSeq(inputs, 1, CHOOSE i \in full : \A j \in full : i <= j)
<1>1. level \in Levels
  BY VersionsAssumption DEF Levels
<1>2. inputs \in Seq(ToSet(v[level]))
  BY <1>1, OverlapsPicked DEF VersionSound, FilesSound
<1>3. c = SetupOtherInputs(v, level, cut) /\ inputs # <<>>
  BY DEF CompactRange
<1> HIDE DEF inputs
<1>4. full \in SUBSET DOMAIN inputs
  OBVIOUS
<1>5. IsSeq(inputs) /\ Seq(ToSet(inputs)) \subseteq Seq(ToSet(v[level]))
  <2>1. inputs \in Seq(ToSet(inputs)) /\ ToSet(inputs) \subseteq ToSet(v[level])
    BY <1>2, SeqOfItsSet
  <2> QED
    BY <2>1 DEF IsSeq
<1> HIDE DEF full
<1>6. cut \in Seq(ToSet(v[level])) \ {<<>>}
  BY <1>2, <1>3, <1>4, <1>5, FirstPart
<1> HIDE DEF cut
<1> QED
  BY <1>3, <1>6

(* So it compacts files of the version. *)
LEMMA RangeSound ==
    ASSUME NEW v, NEW tables, NEW bound, VersionSound(v, tables, bound),
           NEW level \in 0..(kNumLevels - 2), NEW begin, NEW end,
           NEW c \in CompactRange(v, level, begin, end)
    PROVE  CompactionSound(c, tables, bound)
BY RangeChosen, SetupSound

(* A level may have some bytes, and no level none. *)
LEMMA BytesForLevel ==
    ASSUME NEW level \in Nat
    PROVE  MaxBytesForLevel(level) \in Nat \ {0}
<1> DEFINE X == Nat \ {0}
           next(l, x) == IF l <= 1 THEN LevelOneLimit ELSE 10 * x
           G == [p \in (1..level) \X X |-> next(p[1], p[2])]
           E(g) == [l \in 0..level |-> IF l <= 1 THEN LevelOneLimit ELSE 10 * g[l - 1]]
<1>1. LevelOneLimit \in X
  BY VersionsAssumption
<1>2. \A l \in 1..level : \A x \in X : next(l, x) \in X
  BY <1>1
<1>3. G \in [(1..level) \X X -> X]
  BY <1>2
<1>4. \A l \in 1..level : \A x \in X : G[<<l, x>>] = next(l, x)
  OBVIOUS
<1>5. MaxBytesForLevel(level) = (CHOOSE g : g = E(g))[level]
  BY DEF MaxBytesForLevel
<1> HIDE DEF G
<1>6. PICK h \in [0..level -> X] : Counts(h, level, LevelOneLimit, G)
  BY <1>1, <1>3, CountSteps
<1>7. h = E(h)
  <2>1. \A l \in 1..level : l - 1 \in 0..level /\ h[l - 1] \in X
    OBVIOUS
  <2>2. \A l \in 1..level : h[l] = next(l, h[l - 1])
    BY <1>4, <1>6, <2>1 DEF Counts
  <2>3. \A l \in 0..level : h[l] = IF l <= 1 THEN LevelOneLimit ELSE 10 * h[l - 1]
    <3> SUFFICES ASSUME NEW l \in 0..level
                 PROVE  h[l] = IF l <= 1 THEN LevelOneLimit ELSE 10 * h[l - 1]
      OBVIOUS
    <3>1. CASE l = 0
      BY <1>6, <3>1 DEF Counts
    <3>2. CASE l \in 1..level
      BY <2>2, <3>2
    <3> QED
      BY <3>1, <3>2
  <2> QED
    BY <1>6, <2>3
<1>8. PICK it : it = E(it) /\ it = (CHOOSE g : g = E(g))
  <2> HIDE DEF E
  <2> QED
    BY <1>7
<1>9. \A l \in 0..level : it[l] \in X
  <2>1. it[0] = LevelOneLimit /\ \A l \in 1..level : it[l] = next(l, it[l - 1])
    BY <1>8
  <2>2. CountsIn(it, level, X, LevelOneLimit, G)
    <3> HIDE DEF next
    <3> QED
      BY <1>4, <2>1 DEF CountsIn
  <2> HIDE DEF E, X
  <2> QED
    BY <1>1, <1>3, <2>2, CountIn
<1> HIDE DEF E
<1> QED
  BY <1>5, <1>8, <1>9

(* A level without files has no size. *)
LEMMA NoFilesNoSize == TotalFileSize(<<>>) = 0
<1> DEFINE E(g) == [s \in SUBSET {} |-> IF s = {} THEN 0
                       ELSE <<>>[CHOOSE x \in s : TRUE].size + g[s \ {CHOOSE x \in s : TRUE}]]
<1>1. DOMAIN <<>> = {}
  OBVIOUS
<1> QED
  BY <1>1 DEF TotalFileSize, FoldSeq, FoldFunction, FoldFunctionOnSet, MapThenFoldSet

(* The level that is compacted for its size is not the last. *)
LEMMA WorstLevel ==
    ASSUME NEW v
    PROVE  CompactionLevel(v) \in 0..(kNumLevels - 2)
<1> DEFINE n == kNumLevels - 2
           X == 0..n
           G == [p \in (1..n) \X X |-> WorseLevel(v, p[1], p[2])]
           E(g) == [l \in 0..n |-> IF l = 0 THEN 0 ELSE WorseLevel(v, l, g[l - 1])]
<1>1. n \in Nat /\ 0 \in X
  BY VersionsAssumption
<1>2. \A l \in 1..n : \A x \in X : WorseLevel(v, l, x) \in X
  BY <1>1 DEF WorseLevel
<1>3. G \in [(1..n) \X X -> X]
  BY <1>2
<1>4. \A l \in 1..n : \A x \in X : G[<<l, x>>] = WorseLevel(v, l, x)
  OBVIOUS
<1>5. CompactionLevel(v) = (CHOOSE g : g = E(g))[n]
  BY DEF CompactionLevel
<1> HIDE DEF G
<1>6. PICK h \in [0..n -> X] : Counts(h, n, 0, G)
  BY <1>1, <1>3, CountSteps
<1>7. h = E(h)
  <2>1. \A l \in 1..n : l - 1 \in 0..n /\ h[l - 1] \in X
    BY <1>1
  <2>2. \A l \in 1..n : h[l] = WorseLevel(v, l, h[l - 1])
    BY <1>4, <1>6, <2>1 DEF Counts
  <2>3. \A l \in 0..n : h[l] = IF l = 0 THEN 0 ELSE WorseLevel(v, l, h[l - 1])
    BY <1>1, <1>6, <2>2 DEF Counts
  <2> QED
    BY <1>6, <2>3
<1>8. PICK it : it = E(it) /\ it = (CHOOSE g : g = E(g))
  <2> HIDE DEF E
  <2> QED
    BY <1>7
<1>9. \A l \in 0..n : it[l] \in X
  <2>1. it[0] = 0 /\ \A l \in 1..n : it[l] = WorseLevel(v, l, it[l - 1])
    BY <1>1, <1>8
  <2>2. CountsIn(it, n, X, 0, G)
    BY <1>4, <2>1 DEF CountsIn
  <2> HIDE DEF E, X, n
  <2> QED
    BY <1>1, <1>3, <2>2, CountIn
<1> HIDE DEF E
<1> QED
  BY <1>1, <1>5, <1>8, <1>9

(* A level that is to be compacted for its size has a file. *)
LEMMA SizedHasFiles ==
    ASSUME NEW v, SizeCompaction(v), IsSeq(v[CompactionLevel(v)])
    PROVE  v[CompactionLevel(v)] # <<>>
<1> DEFINE level == CompactionLevel(v)
           s == Score(v, level)
<1>1. level \in 0..(kNumLevels - 2) /\ kNumLevels \in Nat
  BY WorstLevel, VersionsAssumption
<1>2. s[1] >= s[2]
  BY DEF SizeCompaction
<1> HIDE DEF level
<1>3. SUFFICES ASSUME v[level] = <<>> PROVE FALSE
  BY DEF level
<1>4. CASE level = 0
  BY <1>2, <1>3, <1>4, VersionsAssumption DEF Score
<1>5. CASE level # 0
  <2>1. s = <<TotalFileSize(v[level]), MaxBytesForLevel(level)>>
    BY <1>5 DEF Score
  <2>2. s[1] = 0 /\ s[2] \in Nat \ {0}
    <3>1. level \in Nat
      BY <1>1
    <3> QED
      BY <1>3, <2>1, <3>1, NoFilesNoSize, BytesForLevel
  <2> QED
    BY <1>2, <2>2
<1> QED
  BY <1>4, <1>5

(* NextFile is a file of a level that has one. *)
LEMMA NextFileOf ==
    ASSUME NEW v, NEW level, IsSeq(v[level]), v[level] # <<>>, NEW pointers
    PROVE  NextFile(v, level, pointers) \in ToSet(v[level])
<1> DEFINE I == {i \in DOMAIN v[level] : \A p \in pointers[level] : IKLess(p, v[level][i].largest)}
           after == FilesAt(v[level], Ascending(I))
<1>1. NextFile(v, level, pointers) = Head(IF after # <<>> THEN after ELSE v[level])
  BY DEF NextFile, Where
<1>2. I \in SUBSET DOMAIN v[level]
  OBVIOUS
<1> HIDE DEF I
<1>3. after \in Seq(ToSet(v[level]))
  BY <1>2, PickedFiles
<1> HIDE DEF after
<1>4. after # <<>> => Head(after) \in ToSet(v[level])
  BY <1>3
<1>5. Head(v[level]) \in ToSet(v[level])
  BY DEF IsSeq
<1> QED
  BY <1>1, <1>4, <1>5

(* A compaction that begins with a file of a level is sound. *)
LEMMA CompactionOfFile ==
    ASSUME NEW v, NEW tables, NEW bound, VersionSound(v, tables, bound),
           NEW level \in 0..(kNumLevels - 2), NEW f \in ToSet(v[level])
    PROVE  CompactionSound(CompactionOf(v, level, f), tables, bound)
<1> DEFINE chosen == IF level = 0 THEN OverlappingFiles(v, 0, GetRange(<<f>>)) ELSE <<f>>
<1>1. IsSeq(v[level])
  BY VersionsAssumption DEF Levels, VersionSound, FilesSound
<1>2. OverlappingFiles(v, level, GetRange(<<f>>)) \in Seq(ToSet(v[level]))
  BY <1>1, OverlappingPicked
<1>3. <<f>> \in Seq(ToSet(v[level]))
  OBVIOUS
<1>4. chosen \in Seq(ToSet(v[level]))
  BY <1>2, <1>3
<1>5. CompactionOf(v, level, f) = SetupOtherInputs(v, level, chosen)
  BY DEF CompactionOf
<1> HIDE DEF chosen
<1> QED
  BY <1>4, <1>5, SetupSound

(* PickCompaction begins with a file of the version, be it for its size or *)
(* for seeks.                                                              *)
LEMMA PickedFile ==
    ASSUME NEW v, NEW tables, NEW bound, VersionSound(v, tables, bound),
           NEW pointers, NEW seek,
           \A s \in seek : s.level \in 0..(kNumLevels - 2) /\ s.file \in ToSet(v[s.level]),
           NEW c \in PickCompaction(v, pointers, seek)
    PROVE  \E level \in 0..(kNumLevels - 2) : \E f \in ToSet(v[level]) : c = CompactionOf(v, level, f)
<1>1. CASE SizeCompaction(v)
  <2> DEFINE level == CompactionLevel(v)
             f == NextFile(v, level, pointers)
  <2>1. c = CompactionOf(v, level, f)
    BY <1>1 DEF PickCompaction
  <2>2. level \in 0..(kNumLevels - 2)
    BY WorstLevel
  <2>3. IsSeq(v[level])
    <3> HIDE DEF level
    <3> QED
      BY <2>2, VersionsAssumption DEF Levels, VersionSound, FilesSound
  <2>4. v[level] # <<>>
    BY <1>1, <2>3, SizedHasFiles
  <2> HIDE DEF level
  <2>5. f \in ToSet(v[level])
    BY <2>3, <2>4, NextFileOf
  <2> HIDE DEF f
  <2> QED
    BY <2>1, <2>2, <2>5
<1>2. CASE ~SizeCompaction(v)
  BY <1>2 DEF PickCompaction
<1> QED
  BY <1>1, <1>2

(* So it compacts files of the version. *)
LEMMA PickSound ==
    ASSUME NEW v, NEW tables, NEW bound, VersionSound(v, tables, bound),
           NEW pointers, NEW seek,
           \A s \in seek : s.level \in 0..(kNumLevels - 2) /\ s.file \in ToSet(v[s.level]),
           NEW c \in PickCompaction(v, pointers, seek)
    PROVE  CompactionSound(c, tables, bound)
BY PickedFile, CompactionOfFile

(* FlattenSeq puts one sequence behind the other. *)
Flattens(h, seqs) ==
    /\ h[1] = seqs[1]
    /\ \A i \in 2..Len(seqs) : h[i] = h[i - 1] \o seqs[i]

(* FlattenSeq goes on sequence by sequence. *)
LEMMA FlattenSteps ==
    ASSUME NEW T, NEW seqs \in Seq(Seq(T)), Len(seqs) # 0
    PROVE  \E h \in [1..Len(seqs) -> Seq(T)] : FlattenSeq(seqs) = h[Len(seqs)] /\ Flattens(h, seqs)
<1> DEFINE n == Len(seqs)
           X == Seq(T)
           G == [p \in (1..n) \X X |-> p[2] \o seqs[p[1]]]
           E(g) == [i \in 1..n |-> IF i = 1 THEN seqs[i] ELSE g[i - 1] \o seqs[i]]
<1>1. n \in Nat \ {0} /\ \A i \in 1..n : seqs[i] \in X
  BY LenProperties
<1>2. <<>> \in X /\ \A x \in X : <<>> \o x = x
  OBVIOUS
<1>3. G \in [(1..n) \X X -> X]
  <2>1. \A x \in X, y \in X : x \o y \in X
    OBVIOUS
  <2> QED
    BY <1>1, <2>1
<1>4. \A i \in 1..n : \A x \in X : G[<<i, x>>] = x \o seqs[i]
  OBVIOUS
<1>5. FlattenSeq(seqs) = (CHOOSE g : g = E(g))[n]
  BY <1>1 DEF FlattenSeq
<1> HIDE DEF n, G, X
<1>6. PICK h \in [0..n -> X] : Counts(h, n, <<>>, G)
  BY <1>1, <1>2, <1>3, CountSteps
<1> DEFINE k == [i \in 1..n |-> h[i]]
<1>7. k \in [1..n -> X]
  BY <1>1
<1>8. \A i \in 1..n : k[i] = IF i = 1 THEN seqs[i] ELSE k[i - 1] \o seqs[i]
  <2> SUFFICES ASSUME NEW i \in 1..n PROVE k[i] = IF i = 1 THEN seqs[i] ELSE k[i - 1] \o seqs[i]
    OBVIOUS
  <2>1. i - 1 \in 0..n /\ h[i - 1] \in X
    BY <1>1
  <2>2. h[i] = h[i - 1] \o seqs[i]
    BY <1>4, <1>6, <2>1 DEF Counts
  <2>3. CASE i = 1
    <3>1. h[i - 1] = <<>>
      BY <1>6, <2>3 DEF Counts
    <3>2. h[i] = seqs[i]
      BY <1>1, <1>2, <2>2, <3>1
    <3> QED
      BY <2>3, <3>2
  <2>4. CASE i # 1
    <3>1. i - 1 \in 1..n
      BY <1>1, <2>4
    <3> QED
      BY <2>2, <2>4, <3>1
  <2> QED
    BY <2>3, <2>4
<1> HIDE DEF k
<1>9. k = E(k)
  BY <1>7, <1>8
<1>10. PICK it : it = E(it) /\ it = (CHOOSE g : g = E(g))
  <2> HIDE DEF E
  <2> QED
    BY <1>9
<1>11. \A i \in 1..n : it[i] = IF i = 1 THEN seqs[i] ELSE it[i - 1] \o seqs[i]
  BY <1>10
<1>12. \A i \in 1..n : it[i] \in X
  <2> DEFINE Q == {0} \cup {i \in 1..n : it[i] \in X}
  <2>1. \A i \in 1..n : i - 1 \in Q => i \in Q
    <3> SUFFICES ASSUME NEW i \in 1..n, i - 1 \in Q PROVE it[i] \in X
      OBVIOUS
    <3>1. CASE i = 1
      BY <1>1, <1>11, <3>1
    <3>2. CASE i # 1
      <4>1. it[i] = it[i - 1] \o seqs[i]
        BY <1>11, <3>2
      <4>2. i - 1 # 0
        BY <3>2
      <4>3. it[i - 1] \in X
        BY <4>2
      <4> QED
        BY <1>1, <4>1, <4>3 DEF X
    <3> QED
      BY <3>1, <3>2
  <2>2. 0 \in Q
    OBVIOUS
  <2> HIDE DEF Q
  <2>3. \A i \in 0..n : i \in Q
    BY <1>1, <2>1, <2>2, BoundedInduction
  <2> QED
    BY <1>1, <2>3 DEF Q
<1>13. it = [i \in 1..n |-> it[i]]
  BY <1>10
<1>14. it \in [1..n -> X]
  BY <1>12, <1>13
<1>15. it[1] = seqs[1] /\ \A i \in 2..n : it[i] = it[i - 1] \o seqs[i]
  <2>1. 1 \in 1..n /\ \A i \in 2..n : i \in 1..n /\ i # 1
    BY <1>1
  <2> HIDE DEF E
  <2> QED
    BY <1>11, <2>1
<1> HIDE DEF E
<1> QED
  BY <1>5, <1>10, <1>14, <1>15 DEF Flattens, n, X

(* What it joins has the elements of what it is given. *)
LEMMA FlattenTyped ==
    ASSUME NEW T, NEW seqs \in Seq(Seq(T))
    PROVE  FlattenSeq(seqs) \in Seq(T)
<1>1. CASE Len(seqs) = 0
  <2>1. seqs = <<>>
    BY <1>1
  <2> QED
    BY <2>1 DEF FlattenSeq
<1>2. CASE Len(seqs) # 0
  <2>1. Len(seqs) \in 1..Len(seqs)
    BY <1>2, LenProperties
  <2>2. PICK h \in [1..Len(seqs) -> Seq(T)] : FlattenSeq(seqs) = h[Len(seqs)]
    BY <1>2, FlattenSteps
  <2> QED
    BY <2>1, <2>2
<1> QED
  BY <1>1, <1>2

-----------------------------------------------------------------------------
(* Searching a version. *)

(* FindFile's index is one of a file, or the one behind the last. *)
LEMMA FindFileIndex ==
    ASSUME NEW files, NEW key, Len(files) \in Nat
    PROVE  FindFile(files, key) \in 0..Len(files)
<1> DEFINE n == Len(files)
           start == [left |-> 0, right |-> n]
           X == [left : 0..n, right : 0..n]
           G == [p \in (1..n) \X X |-> Halved(files, key, p[2])]
           E(g) == [i \in 0..n |-> IF i = 0 THEN start ELSE Halved(files, key, g[i - 1])]
<1>1. start \in X
  OBVIOUS
<1>2. \A s \in X : Halved(files, key, s) \in X
  <2> SUFFICES ASSUME NEW s \in X PROVE Halved(files, key, s) \in X
    OBVIOUS
  <2> DEFINE mid == (s.left + s.right) \div 2
  <2>1. s.left < s.right => mid \in 0..n /\ mid + 1 \in 0..n
    OBVIOUS
  <2> HIDE DEF mid
  <2>2. CASE s.left >= s.right
    BY <2>2 DEF Halved
  <2>3. CASE s.left < s.right
    <3>1. [s EXCEPT !.left = mid + 1] \in X /\ [s EXCEPT !.right = mid] \in X
      BY <2>1, <2>3
    <3>2. Halved(files, key, s) \in {[s EXCEPT !.left = mid + 1], [s EXCEPT !.right = mid]}
      BY <2>3 DEF Halved, mid
    <3> QED
      BY <3>1, <3>2
  <2> QED
    BY <2>2, <2>3
<1>3. G \in [(1..n) \X X -> X]
  BY <1>2
<1>4. \A i \in 1..n : \A s \in X : G[<<i, s>>] = Halved(files, key, s)
  OBVIOUS
<1>5. FindFile(files, key) = (CHOOSE g : g = E(g))[n].right
  BY DEF FindFile
<1> HIDE DEF G, start, X
<1>6. PICK h \in [0..n -> X] : Counts(h, n, start, G)
  BY <1>1, <1>3, CountSteps
<1>7. h = E(h)
  <2>1. \A i \in 1..n : i - 1 \in 0..n /\ h[i - 1] \in X
    OBVIOUS
  <2>2. \A i \in 1..n : h[i] = Halved(files, key, h[i - 1])
    BY <1>4, <1>6, <2>1 DEF Counts
  <2>3. \A i \in 0..n : h[i] = IF i = 0 THEN start ELSE Halved(files, key, h[i - 1])
    BY <1>6, <2>2 DEF Counts
  <2> QED
    BY <1>6, <2>3
<1>8. PICK it : it = E(it) /\ it = (CHOOSE g : g = E(g))
  <2> HIDE DEF E
  <2> QED
    BY <1>7
<1>9. \A i \in 0..n : it[i] \in X
  <2>1. it[0] = start /\ \A i \in 1..n : it[i] = Halved(files, key, it[i - 1])
    BY <1>8
  <2>2. CountsIn(it, n, X, start, G)
    BY <1>4, <2>1 DEF CountsIn
  <2> HIDE DEF E
  <2> QED
    BY <1>1, <1>3, <2>2, CountIn
<1> HIDE DEF E
<1> QED
  BY <1>5, <1>8, <1>9 DEF X

(* Files from new to old have as many places as there are files. *)
LEMMA NewestShape ==
    ASSUME NEW S, NEW q,
           q = [i \in 1..Cardinality(S) |->
                  CHOOSE x \in S : Cardinality({y \in S : y.number > x.number}) = i - 1]
    PROVE  q = [i \in 1..Cardinality(S) |-> q[i]]
OBVIOUS

(* NewestFirst only puts files into an order. *)
LEMMA NewestPicked ==
    ASSUME NEW all, IsFiniteSet(all), \A f \in all : f.number \in Nat,
           \A f \in all : \A g \in all : f.number = g.number => f = g
    PROVE  NewestFirst(all) \in Seq(all)
<1> DEFINE B == [x \in all |-> {y \in all : y.number > x.number}]
<1>2. B \in [all -> SUBSET all] /\ \A x \in all : B[x] = {y \in all : y.number > x.number}
  OBVIOUS
<1> DEFINE q == NewestFirst(all)
<1>3. InRanks(q, all, B)
  <2>1. q = [i \in 1..Cardinality(all) |-> q[i]]
    <3>1. NewestFirst(all) = [i \in 1..Cardinality(all) |->
                CHOOSE x \in all : Cardinality({y \in all : y.number > x.number}) = i - 1]
      BY DEF NewestFirst, Ranked
    <3> QED
      BY <3>1, NewestShape
  <2>2. \A i \in 1..Cardinality(all) : q[i] = CHOOSE z \in all : Cardinality({y \in all : y.number > z.number}) = i - 1
    BY DEF NewestFirst, Ranked
  <2> SUFFICES ASSUME NEW i \in 1..Cardinality(all), NEW x \in all, Cardinality(B[x]) = i - 1
               PROVE  q[i] \in all /\ Cardinality(B[q[i]]) = i - 1
    BY <2>1 DEF InRanks
  <2>3. Cardinality({y \in all : y.number > x.number}) = i - 1
    BY <1>2
  <2> HIDE DEF B, q
  <2> QED
    BY <1>2, <2>2, <2>3
<1> HIDE DEF B
<1>4. \A x \in all : x \notin B[x]
  BY <1>2
<1>5. \A x \in all : \A y \in all : x # y => x \in B[y] \/ y \in B[x]
  <2> SUFFICES ASSUME NEW x \in all, NEW y \in all, x # y PROVE x.number > y.number \/ y.number > x.number
    BY <1>2
  <2>1. x.number # y.number /\ x.number \in Nat /\ y.number \in Nat
    OBVIOUS
  <2> QED
    BY <2>1
<1>6. \A x \in all : \A y \in all : x \in B[y] => B[x] \subseteq B[y]
  <2> SUFFICES ASSUME NEW x \in all, NEW y \in all, NEW z \in all, x.number > y.number, z.number > x.number
               PROVE  z.number > y.number
    BY <1>2
  <2>1. x.number \in Nat /\ y.number \in Nat /\ z.number \in Nat
    OBVIOUS
  <2> QED
    BY <2>1
<1> HIDE DEF q
<1> QED
  <2>1. q \in Seq(all) /\ ToSet(q) = all
    BY <1>2, <1>3, <1>4, <1>5, <1>6, RankedSet
  <2> QED
    BY <2>1 DEF q

(* What a read of a version opens: at most one file of each level but 0.   *)
ReadsOf(v) == {r \in [level : Levels, file : FilesOf(v)] : r.file \in ToSet(v[r.level])}

OnePerLevel(seqs, T) ==
    \A l \in 1..Len(seqs) : seqs[l] = <<>> \/ \E r \in T : r.level = l /\ seqs[l] = <<r>>

FirstBelow(s, i) ==
    /\ Len(s) >= 1 => s[1].level \in 1..i
    /\ Len(s) >= 2 => s[1].level \in 1..(i - 1)

(* A single read is of its level. *)
LEMMA FirstOfOne ==
    ASSUME NEW T, NEW r \in T, NEW i \in Nat \ {0}, r.level = i, NEW s, s = <<r>>
    PROVE  FirstBelow(s, i)
<1>1. Len(s) = 1 /\ s[1] = r
  OBVIOUS
<1>2. i \in 1..i
  OBVIOUS
<1> QED
  BY <1>1, <1>2 DEF FirstBelow

(* If something is read behind the first file, that is not of the last     *)
(* level.                                                                  *)
LEMMA FirstOfMany ==
    ASSUME NEW T, NEW seqs \in Seq(Seq(T)), OnePerLevel(seqs, T), Len(FlattenSeq(seqs)) >= 2
    PROVE  FlattenSeq(seqs)[1].level \in 1..(Len(seqs) - 1)
<1>1. Len(seqs) # 0
  <2> SUFFICES ASSUME Len(seqs) = 0 PROVE FALSE
    OBVIOUS
  <2>1. seqs = <<>>
    OBVIOUS
  <2> QED
    BY <2>1 DEF FlattenSeq
<1>2. PICK h \in [1..Len(seqs) -> Seq(T)] : FlattenSeq(seqs) = h[Len(seqs)] /\ Flattens(h, seqs)
  BY <1>1, FlattenSteps
<1> DEFINE n == Len(seqs)
           Q == {0} \cup {i \in 1..n : FirstBelow(h[i], i)}
<1>3. n \in Nat \ {0}
  BY <1>1, LenProperties
<1>4. \A i \in 1..n : i - 1 \in Q => i \in Q
  <2> SUFFICES ASSUME NEW i \in 1..n, i - 1 \in Q PROVE FirstBelow(h[i], i)
    OBVIOUS
  <2>1. seqs[i] = <<>> \/ \E r \in T : r.level = i /\ seqs[i] = <<r>>
    BY DEF OnePerLevel
  <2>2. CASE i = 1
    <3>1. h[i] = seqs[i]
      BY <1>2, <2>2 DEF Flattens
    <3>2. CASE seqs[i] = <<>>
      <4>1. Len(h[i]) = 0
        BY <3>1, <3>2
      <4> QED
        BY <4>1 DEF FirstBelow
    <3>3. ASSUME NEW r \in T, r.level = i, seqs[i] = <<r>> PROVE FirstBelow(h[i], i)
      BY <3>1, <3>3, FirstOfOne
    <3> QED
      BY <2>1, <3>2, <3>3
  <2>3. CASE i # 1
    <3> DEFINE g == h[i - 1]
    <3>1. i - 1 \in 1..n /\ i \in 2..n
      BY <1>3, <2>3
    <3>2. h[i] = g \o seqs[i] /\ g \in Seq(T)
      BY <1>2, <3>1 DEF Flattens
    <3>3. FirstBelow(g, i - 1)
      <4>1. i - 1 # 0
        BY <3>1
      <4> QED
        BY <4>1
    <3> HIDE DEF g, Q
    <3>4. CASE g = <<>>
      <4>1. CASE seqs[i] = <<>>
        <5>1. Len(h[i]) = 0
          BY <3>2, <3>4, <4>1
        <5> QED
          BY <5>1 DEF FirstBelow
      <4>2. ASSUME NEW r \in T, r.level = i, seqs[i] = <<r>> PROVE FirstBelow(h[i], i)
        <5>1. h[i] = <<r>>
          BY <3>2, <3>4, <4>2
        <5> QED
          BY <4>2, <5>1, FirstOfOne
      <4> QED
        BY <2>1, <4>1, <4>2
    <3>5. CASE g # <<>>
      <4>1. Len(g) >= 1
        BY <3>2, <3>5
      <4>2. CASE seqs[i] = <<>>
        <5>1. h[i] = g
          BY <3>2, <4>2
        <5>2. g[1].level \in 1..(i - 1)
          BY <3>3, <4>1 DEF FirstBelow
        <5>3. g[1].level \in 1..i
          BY <3>1, <5>2
        <5> QED
          BY <5>1, <5>2, <5>3 DEF FirstBelow
      <4>3. ASSUME NEW r \in T, r.level = i, seqs[i] = <<r>> PROVE FirstBelow(h[i], i)
        <5>1. h[i][1] = g[1]
          BY <3>2, <3>5, <4>1, <4>3
        <5>2. g[1].level \in 1..(i - 1)
          BY <3>3, <4>1 DEF FirstBelow
        <5>3. g[1].level \in 1..i
          BY <3>1, <5>2
        <5> QED
          BY <5>1, <5>2, <5>3 DEF FirstBelow
      <4> QED
        BY <2>1, <4>2, <4>3
    <3> QED
      BY <3>4, <3>5
  <2> QED
    BY <2>2, <2>3
<1>5. 0 \in Q
  OBVIOUS
<1> HIDE DEF Q
<1>6. \A i \in 0..n : i \in Q
  BY <1>3, <1>4, <1>5, BoundedInduction
<1>7. FirstBelow(h[n], n)
  BY <1>3, <1>6 DEF Q
<1> QED
  BY <1>2, <1>7 DEF FirstBelow

(* A read opens files of the version it pinned, each at its level, and the *)
(* first of several is not at the last level.                              *)
LEMMA OverlappingReads ==
    ASSUME NEW v, NEW tables, NEW bound, VersionSound(v, tables, bound),
           DOMAIN tables \subseteq Nat, tables \in [DOMAIN tables -> Contents],
           NEW user_key, NEW internal_key
    PROVE  LET files == ForEachOverlapping(v, user_key, internal_key)
           IN /\ files \in Seq(ReadsOf(v))
              /\ Len(files) >= 2 => files[1].level \in 0..(kNumLevels - 2)
<1> DEFINE T == ReadsOf(v)
           near(f) == f.smallest.user <= user_key /\ user_key <= f.largest.user
           At(level, s) == [i \in 1..Len(s) |-> [level |-> level, file |-> s[i]]]
           search(level) ==
               LET index == FindFile(v[level], internal_key)
               IN IF index < Len(v[level]) /\ v[level][index + 1].smallest.user <= user_key
                  THEN <<v[level][index + 1]>> ELSE <<>>
           level0 == NewestFirst({f \in ToSet(v[0]) : near(f)})
           seqs == [level \in 1..(kNumLevels - 1) |-> At(level, search(level))]
<1>1. ForEachOverlapping(v, user_key, internal_key) = At(0, level0) \o FlattenSeq(seqs)
  BY DEF ForEachOverlapping
<1>2. kNumLevels - 1 \in Nat \ {0} /\ 0 \in Levels /\ \A l \in 1..(kNumLevels - 1) : l \in Levels
  BY VersionsAssumption DEF Levels
<1>3. \A l \in Levels : v[l] \in Seq(ToSet(v[l])) /\ ToSet(v[l]) \subseteq FilesOf(v)
  BY DEF VersionSound, FilesSound, IsSeq, FilesOf
<1>4. At(0, level0) \in Seq(T) /\ \A i \in 1..Len(At(0, level0)) : At(0, level0)[i].level = 0
  <2> DEFINE all == {f \in ToSet(v[0]) : near(f)}
  <2>1. \A f \in all : MetaSound(f, tables, bound)
    BY <1>2 DEF VersionSound, FilesSound
  <2>2. IsFiniteSet(all)
    <3>1. IsFiniteSet(ToSet(v[0]))
      BY <1>2, <1>3, SeqOfItsSet
    <3>2. all \subseteq ToSet(v[0])
      OBVIOUS
    <3> QED
      BY <3>1, <3>2, FS_Subset
  <2>3. \A f \in all : f.number \in Nat
    BY <2>1 DEF MetaSound
  <2>4. \A f \in all : \A g \in all : f.number = g.number => f = g
    BY <2>1 DEF MetaSound
  <2>7. all \subseteq ToSet(v[0])
    OBVIOUS
  <2> HIDE DEF all
  <2>5. NewestFirst(all) \in Seq(all)
    BY <2>2, <2>3, <2>4, NewestPicked
  <2> DEFINE s == NewestFirst(all)
  <2>6. Len(s) \in Nat /\ \A i \in 1..Len(s) : s[i] \in ToSet(v[0]) /\ s[i] \in FilesOf(v)
    BY <1>2, <1>3, <2>5, <2>7
  <2>8. At(0, level0) = At(0, s)
    BY DEF all
  <2> HIDE DEF s
  <2>9. \A i \in 1..Len(s) : [level |-> 0, file |-> s[i]] \in T
    BY <1>2, <2>6 DEF ReadsOf
  <2>10. At(0, s) \in [1..Len(s) -> T] /\ \A i \in 1..Len(s) : At(0, s)[i].level = 0
    BY <2>9
  <2>11. At(0, s) \in Seq(T) /\ Len(At(0, s)) = Len(s)
    BY <2>6, <2>10, SeqOfLength
  <2> QED
    BY <2>8, <2>10, <2>11
<1>5. \A l \in 1..(kNumLevels - 1) : seqs[l] = <<>> \/ \E r \in T : r.level = l /\ seqs[l] = <<r>>
  <2> SUFFICES ASSUME NEW l \in 1..(kNumLevels - 1)
               PROVE  seqs[l] = <<>> \/ \E r \in T : r.level = l /\ seqs[l] = <<r>>
    OBVIOUS
  <2> DEFINE index == FindFile(v[l], internal_key)
  <2>1. Len(v[l]) \in Nat /\ index \in 0..Len(v[l])
    BY <1>2, <1>3, LenProperties, FindFileIndex
  <2> HIDE DEF index
  <2>2. seqs[l] = At(l, search(l))
    OBVIOUS
  <2>3. CASE search(l) = <<>>
    BY <2>2, <2>3
  <2>4. CASE search(l) = <<v[l][index + 1]>> /\ index < Len(v[l])
    <3>1. index + 1 \in 1..Len(v[l])
      BY <2>1, <2>4
    <3>2. v[l][index + 1] \in ToSet(v[l]) /\ l \in Levels
      BY <1>2, <1>3, <3>1
    <3> DEFINE r == [level |-> l, file |-> v[l][index + 1]]
    <3>3. r \in T
      BY <1>3, <3>2 DEF ReadsOf
    <3>4. seqs[l] = <<r>>
      BY <2>2, <2>4
    <3> QED
      BY <3>3, <3>4
  <2>5. search(l) = <<>> \/ (search(l) = <<v[l][index + 1]>> /\ index < Len(v[l]))
    BY DEF index
  <2> QED
    BY <2>3, <2>4, <2>5
<1>6. seqs = [l \in 1..(kNumLevels - 1) |-> seqs[l]]
  OBVIOUS
<1> DEFINE first == At(0, level0)
<1> HIDE DEF seqs, first
<1> HIDE DEF T
<1>7. \A l \in 1..(kNumLevels - 1) : seqs[l] \in Seq(T)
  <2>1. \A r \in T : <<r>> \in Seq(T)
    OBVIOUS
  <2>2. <<>> \in Seq(T)
    OBVIOUS
  <2> QED
    BY <1>5, <2>1, <2>2
<1>8. seqs \in [1..(kNumLevels - 1) -> Seq(T)]
  BY <1>6, <1>7
<1>9. seqs \in Seq(Seq(T)) /\ Len(seqs) = kNumLevels - 1
  <2>1. kNumLevels - 1 \in Nat
    BY <1>2
  <2> QED
    BY <1>8, <2>1, SeqOfLength
<1>10. OnePerLevel(seqs, T)
  BY <1>5, <1>9 DEF OnePerLevel
<1> DEFINE rest == FlattenSeq(seqs)
<1>11. rest \in Seq(T) /\ (Len(rest) >= 2 => rest[1].level \in 1..(Len(seqs) - 1))
  BY <1>9, <1>10, FlattenTyped, FirstOfMany
<1> HIDE DEF rest
<1>12. first \in Seq(T) /\ \A i \in 1..Len(first) : first[i].level = 0
  BY <1>4 DEF first
<1>13. ForEachOverlapping(v, user_key, internal_key) = first \o rest
  BY <1>1 DEF first, rest
<1>14. first \o rest \in Seq(T)
  BY <1>11, <1>12
<1>16. kNumLevels \in Nat \ {0, 1}
  BY VersionsAssumption
<1>15. ASSUME Len(first \o rest) >= 2 PROVE (first \o rest)[1].level \in 0..(kNumLevels - 2)
  <2>1. CASE first = <<>>
    <3>1. first \o rest = rest
      BY <1>11, <2>1
    <3>2. rest[1].level \in 1..(Len(seqs) - 1)
      BY <1>11, <1>15, <3>1
    <3>3. 1..(Len(seqs) - 1) \subseteq 0..(kNumLevels - 2)
      BY <1>9, <1>16
    <3> QED
      BY <3>1, <3>2, <3>3
  <2>2. CASE first # <<>>
    <3>1. Len(first) >= 1 /\ (first \o rest)[1] = first[1]
      BY <1>11, <1>12, <2>2
    <3>2. first[1].level = 0
      BY <1>12, <3>1
    <3>3. (first \o rest)[1].level = 0 /\ 0 \in 0..(kNumLevels - 2)
      BY <1>16, <3>1, <3>2
    <3> QED
      BY <3>3
  <2> QED
    BY <2>1, <2>2
<1> QED
  BY <1>13, <1>14, <1>15 DEF T

(* The file whose seeks a read uses up is one of the version it pinned, at *)
(* a level that can be compacted.                                          *)
LEMMA ChargedFile ==
    ASSUME NEW v, NEW tables, NEW bound, VersionSound(v, tables, bound),
           DOMAIN tables \subseteq Nat, tables \in [DOMAIN tables -> Contents],
           NEW key, NEW s \in SeekCharge(GetFrom(v, tables, key))
    PROVE  s.level \in 0..(kNumLevels - 2) /\ s.file \in ToSet(v[s.level])
<1> DEFINE files == ForEachOverlapping(v, key.user, key)
           hits == {i \in DOMAIN files : Lookup(tables[files[i].file.number], key) # {}}
           reads == IF hits = {} THEN Len(files) ELSE CHOOSE i \in hits : \A j \in hits : i <= j
           seeks == SubSeq(files, 1, reads)
<1>1. files \in Seq(ReadsOf(v)) /\ (Len(files) >= 2 => files[1].level \in 0..(kNumLevels - 2))
  BY OverlappingReads
<1>2. GetFrom(v, tables, key).seeks = seeks
  BY DEF GetFrom
<1>3. s = seeks[1] /\ Len(seeks) >= 2
  <2> HIDE DEF seeks
  <2>1. SeekCharge(GetFrom(v, tables, key)) = IF Len(seeks) < 2 THEN {} ELSE {seeks[1]}
    BY <1>2 DEF SeekCharge
  <2>2. ~(Len(seeks) < 2) /\ s = seeks[1]
    BY <2>1
  <2>3. Len(seeks) \in Nat
    <3>1. reads \in Int
      <4>1. hits \subseteq Nat
        BY <1>1
      <4>2. hits # {} => \E i \in hits : \A j \in hits : i <= j
        BY <4>1, LeastOf
      <4>3. Len(files) \in Int
        BY <1>1
      <4> HIDE DEF hits, files
      <4> QED
        BY <4>1, <4>2, <4>3
    <3> HIDE DEF files, reads
    <3> QED
      BY <1>1, <3>1, SubSeqProperties DEF seeks
  <2> QED
    BY <2>2, <2>3
<1>4. reads \in 0..Len(files)
  <2>1. DOMAIN files = 1..Len(files) /\ Len(files) \in Nat
    BY <1>1
  <2>2. hits \subseteq 1..Len(files)
    BY <2>1
  <2>3. hits # {} => \E i \in hits : \A j \in hits : i <= j
    <3>1. hits \in SUBSET Nat
      BY <2>1, <2>2
    <3> HIDE DEF hits
    <3> QED
      BY <3>1, LeastOf
  <2> HIDE DEF hits, files
  <2> QED
    BY <2>1, <2>2, <2>3
<1> HIDE DEF files, reads
<1>5. Len(seeks) = reads /\ reads >= 2
  BY <1>1, <1>3, <1>4, SubSeqProperties
<1>6. Len(files) >= 2 /\ Len(files) \in Nat
  BY <1>1, <1>4, <1>5
<1>7. seeks[1] = files[1]
  BY <1>1, <1>4, <1>5, <1>6, SubSeqProperties
<1>8. files[1] \in ReadsOf(v)
  BY <1>1, <1>6
<1> QED
  BY <1>1, <1>3, <1>6, <1>7, <1>8 DEF ReadsOf

-----------------------------------------------------------------------------
(* Versions that follow each other. *)

(* A version stays sound as long as the tables it names stay what they are. *)
LEMMA VersionKept ==
    ASSUME NEW v, NEW t1, NEW b1 \in Nat, VersionSound(v, t1, b1),
           NEW t2, NEW b2 \in Nat, b1 <= b2,
           \A f \in FilesOf(v) :
              f.number \in DOMAIN t1 /\ f.number < b1
                  => f.number \in DOMAIN t2 /\ t2[f.number] = t1[f.number],
           DOMAIN t1 \subseteq Nat
    PROVE  VersionSound(v, t2, b2)
<1>1. ASSUME NEW level \in Levels, NEW f \in ToSet(v[level]) PROVE MetaSound(f, t2, b2)
  <2>1. MetaSound(f, t1, b1)
    BY DEF VersionSound, FilesSound
  <2>2. f \in FilesOf(v)
    BY DEF FilesOf
  <2>3. f.number \in DOMAIN t1 /\ f.number \in Nat /\ f.number < b1 /\ f = FileMetaData(f.number, t1[f.number])
    BY <2>1 DEF MetaSound
  <2>4. f.number \in DOMAIN t2 /\ t2[f.number] = t1[f.number]
    BY <2>2, <2>3
  <2>5. f.number < b2
    BY <2>3
  <2>6. f = FileMetaData(f.number, t2[f.number])
    BY <2>3, <2>4
  <2> QED
    BY <2>4, <2>5, <2>6 DEF MetaSound
<1> QED
  BY <1>1 DEF VersionSound, FilesSound

(* What is sound of a version is sound of each of its files. *)
LEMMA VersionFiles ==
    ASSUME NEW v, NEW tables, NEW bound, VersionSound(v, tables, bound),
           NEW f \in FilesOf(v)
    PROVE  MetaSound(f, tables, bound)
BY DEF VersionSound, FilesSound, FilesOf

(* The empty version names no table. *)
LEMMA EmptySound ==
    ASSUME NEW tables, NEW bound
    PROVE  VersionSound(EmptyVersion, tables, bound) /\ FilesOf(EmptyVersion) = {}
<1>1. ToSet(<<>>) = {} /\ <<>> \in Seq({})
  BY DEF ToSet
<1>2. \A level \in Levels : EmptyVersion[level] = <<>>
  BY DEF EmptyVersion
<1>3. EmptyVersion = [level \in Levels |-> EmptyVersion[level]]
  BY DEF EmptyVersion
<1>4. \A level \in Levels : FilesSound(EmptyVersion[level], tables, bound)
  BY <1>1, <1>2 DEF FilesSound, IsSeq
<1> HIDE DEF EmptyVersion
<1> QED
  BY <1>1, <1>2, <1>3, <1>4 DEF VersionSound, FilesOf

(* What SaveTo keeps of a level, and what it adds. *)
NewIn(added, level) == {a[2] : a \in {x \in added : x[1] = level}}

GoneFrom(deleted, added, level) ==
    {d[2] : d \in {x \in deleted : x[1] = level}} \ {f.number : f \in NewIn(added, level)}

KeptOf(files, deleted, added, level) ==
    {f \in files : f.number \notin GoneFrom(deleted, added, level)} \cup NewIn(added, level)

(* Builder::SaveTo makes a version of the old files and the added ones, and*)
(* of no others.                                                           *)
LEMMA SaveToSound ==
    ASSUME NEW v, NEW tables, NEW bound, VersionSound(v, tables, bound),
           DOMAIN tables \subseteq Nat, tables \in [DOMAIN tables -> Contents],
           NEW deleted, NEW added, IsFiniteSet(added),
           \A a \in added : MetaSound(a[2], tables, bound)
    PROVE  /\ VersionSound(SaveTo(v, deleted, added), tables, bound)
           /\ \A level \in Levels :
                 ToSet(SaveTo(v, deleted, added)[level])
                     = KeptOf(ToSet(v[level]), deleted, added, level)
<1> DEFINE w == SaveTo(v, deleted, added)
<1>1. w = [level \in Levels |-> InFileOrder(KeptOf(ToSet(v[level]), deleted, added, level))]
  BY DEF SaveTo, KeptOf, GoneFrom, NewIn
<1>2. ASSUME NEW level \in Levels
      PROVE  ToSet(w[level]) = KeptOf(ToSet(v[level]), deleted, added, level)
             /\ FilesSound(w[level], tables, bound)
  <2> DEFINE all == KeptOf(ToSet(v[level]), deleted, added, level)
             new == NewIn(added, level)
  <2>1. IsFiniteSet(ToSet(v[level])) /\ \A f \in ToSet(v[level]) : MetaSound(f, tables, bound)
    BY SeqOfItsSet DEF VersionSound, FilesSound, IsSeq
  <2>2. IsFiniteSet(new)
    <3> DEFINE some == {x \in added : x[1] = level}
    <3>1. IsFiniteSet(some)
      BY FS_Subset
    <3>2. new = {a[2] : a \in some}
      BY DEF NewIn
    <3> HIDE DEF some, new
    <3>3. [a \in some |-> a[2]] \in Surjection(some, new)
      BY <3>2 DEF Surjection
    <3> QED
      BY <3>1, <3>3, FS_Surjection
  <2>3. \A f \in new : MetaSound(f, tables, bound)
    BY DEF NewIn
  <2>4. all = {f \in ToSet(v[level]) : f.number \notin GoneFrom(deleted, added, level)} \cup new
    BY DEF KeptOf
  <2> DEFINE kept == {f \in ToSet(v[level]) : f.number \notin GoneFrom(deleted, added, level)}
  <2>5. IsFiniteSet(kept) /\ \A f \in kept : MetaSound(f, tables, bound)
    <3>1. kept \subseteq ToSet(v[level])
      OBVIOUS
    <3> HIDE DEF kept
    <3> QED
      BY <2>1, <3>1, FS_Subset
  <2>6. all = kept \cup new
    BY <2>4
  <2> HIDE DEF all, kept, new
  <2>7. IsFiniteSet(all) /\ \A f \in all : MetaSound(f, tables, bound)
    BY <2>2, <2>3, <2>5, <2>6, FS_Union
  <2>8. InFileOrder(all) \in Seq(all) /\ ToSet(InFileOrder(all)) = all
    BY <2>7, FilesInOrder
  <2>9. w[level] = InFileOrder(all)
    BY <1>1 DEF all
  <2> HIDE DEF w
  <2> QED
    BY <2>7, <2>8, <2>9 DEF FilesSound, IsSeq, all
<1>3. w = [level \in Levels |-> w[level]]
  BY <1>1
<1> HIDE DEF w
<1>4. VersionSound(w, tables, bound)
  BY <1>2, <1>3 DEF VersionSound
<1> QED
  BY <1>2, <1>4 DEF w

(* The entries of a record are a finite set of keys. *)
LEMMA KeySetOfSeq ==
    ASSUME NEW s \in Seq(Keys)
    PROVE  ToSet(s) \in KeySets
BY SeqOfItsSet DEF KeySets

(* And so are two such sets together. *)
LEMMA KeySetsJoin ==
    ASSUME NEW K \in KeySets, NEW L \in KeySets
    PROVE  K \cup L \in KeySets
BY FS_Union DEF KeySets

-----------------------------------------------------------------------------
(* What a compaction writes. *)

WorkSound(st) ==
    /\ st = [user |-> st.user, last |-> st.last, grandparent |-> st.grandparent,
             overlapped |-> st.overlapped, seen |-> st.seen, output |-> st.output,
             outputs |-> st.outputs]
    /\ st.output \in KeySets /\ st.outputs \in Seq(Contents)

(* A state of the compaction's loop, from its parts. *)
LEMMA WorkMade ==
    ASSUME NEW user, NEW last, NEW grandparent, NEW overlapped, NEW seen,
           NEW output \in KeySets, NEW outputs \in Seq(Contents), NEW st,
           st = [user |-> user, last |-> last, grandparent |-> grandparent,
                 overlapped |-> overlapped, seen |-> seen, output |-> output,
                 outputs |-> outputs]
    PROVE  WorkSound(st) /\ st.output = output /\ st.outputs = outputs
BY DEF WorkSound

(* And its parts, from the state. *)
LEMMA WorkFields ==
    ASSUME NEW st, WorkSound(st)
    PROVE  \E user, last, grandparent, overlapped, seen :
              /\ st = [user |-> user, last |-> last, grandparent |-> grandparent,
                       overlapped |-> overlapped, seen |-> seen, output |-> st.output,
                       outputs |-> st.outputs]
BY DEF WorkSound

(* What the loop does with the output it writes: it stays, or it is        *)
(* finished and the next one begins.                                       *)
SameOutput(st, next) == next.output = st.output /\ next.outputs = st.outputs

NextOutput(st, next) == next.output = {} /\ next.outputs = Append(st.outputs, st.output)

(* Finishing an output keeps the outputs tables that are not empty. *)
LEMMA OutputFinished ==
    ASSUME NEW st, WorkSound(st)
    PROVE  /\ WorkSound(FinishOutput(st)) /\ FinishOutput(st).output = {}
           /\ SameOutput(st, FinishOutput(st)) \/ NextOutput(st, FinishOutput(st))
<1>1. CASE st.output = {}
  BY <1>1 DEF FinishOutput, SameOutput
<1>2. CASE st.output # {}
  <2>1. PICK a, b, c, d, e :
           st = [user |-> a, last |-> b, grandparent |-> c, overlapped |-> d, seen |-> e,
                 output |-> st.output, outputs |-> st.outputs]
    BY WorkFields
  <2> DEFINE more == Append(st.outputs, st.output)
             x == st.output
             y == st.outputs
  <2>2. FinishOutput(st) = [st EXCEPT !.outputs = more, !.output = {}]
    BY <1>2 DEF FinishOutput
  <2>3. more \in Seq(Contents)
    BY <1>2, AppendProperties DEF WorkSound, Contents
  <2>4. {} \in KeySets
    BY FS_EmptySet DEF KeySets
  <2>5. st = [user |-> a, last |-> b, grandparent |-> c, overlapped |-> d, seen |-> e,
              output |-> x, outputs |-> y]
    BY <2>1
  <2> HIDE DEF more, x, y
  <2>6. FinishOutput(st) = [user |-> a, last |-> b, grandparent |-> c, overlapped |-> d,
                            seen |-> e, output |-> {}, outputs |-> more]
    <3>1. [st EXCEPT !.outputs = more]
            = [user |-> a, last |-> b, grandparent |-> c, overlapped |-> d,
               seen |-> e, output |-> x, outputs |-> more]
      BY <2>5
    <3> DEFINE mid == [st EXCEPT !.outputs = more]
    <3>2. FinishOutput(st) = [mid EXCEPT !.output = {}]
      BY <2>2
    <3>3. mid = [user |-> a, last |-> b, grandparent |-> c, overlapped |-> d,
               seen |-> e, output |-> x, outputs |-> more]
      BY <3>1
    <3> HIDE DEF mid
    <3> QED
      BY <3>2, <3>3
  <2>7. WorkSound(FinishOutput(st)) /\ FinishOutput(st).output = {} /\ FinishOutput(st).outputs = more
    <3> DEFINE r == FinishOutput(st)
    <3>1. r = [user |-> a, last |-> b, grandparent |-> c, overlapped |-> d, seen |-> e,
               output |-> {}, outputs |-> more]
      BY <2>6
    <3> HIDE DEF r
    <3>2. WorkSound(r) /\ r.output = {} /\ r.outputs = more
      BY <2>3, <2>4, <3>1 DEF WorkSound
    <3> QED
      BY <3>2 DEF r
  <2> QED
    BY <2>7 DEF NextOutput, more, x, y
<1> QED
  BY <1>1, <1>2

(* ShouldStopBefore changes nothing of the outputs but that it may finish  *)
(* one.                                                                    *)
LEMMA StopSound ==
    ASSUME NEW st, WorkSound(st), NEW c, NEW key
    PROVE  LET s == ShouldStopBefore(c, st, key)
           IN WorkSound(s) /\ (SameOutput(st, s) \/ NextOutput(st, s))
<1> DEFINE s == PassGrandparents(c, st, key)
<1>1. PICK g, o : s = [st EXCEPT !.grandparent = g, !.overlapped = o, !.seen = TRUE]
  BY DEF PassGrandparents
<1>2. ASSUME NEW x, WorkSound(x), NEW g1, NEW o1
      PROVE  /\ WorkSound([x EXCEPT !.grandparent = g1, !.overlapped = o1, !.seen = TRUE])
             /\ SameOutput(x, [x EXCEPT !.grandparent = g1, !.overlapped = o1, !.seen = TRUE])
             /\ WorkSound([x EXCEPT !.overlapped = o1])
             /\ SameOutput(x, [x EXCEPT !.overlapped = o1])
  <2>1. PICK a, b, d, f, h :
           x = [user |-> a, last |-> b, grandparent |-> d, overlapped |-> f, seen |-> h,
                output |-> x.output, outputs |-> x.outputs]
    BY <1>2, WorkFields
  <2> DEFINE u == x.output
             w == x.outputs
  <2>2. u \in KeySets /\ w \in Seq(Contents)
    BY <1>2 DEF WorkSound
  <2>3. x = [user |-> a, last |-> b, grandparent |-> d, overlapped |-> f, seen |-> h,
             output |-> u, outputs |-> w]
    BY <2>1
  <2> HIDE DEF u, w
  <2> DEFINE t == TRUE
  <2> HIDE DEF t
  <2>4. [x EXCEPT !.grandparent = g1, !.overlapped = o1, !.seen = TRUE]
          = [user |-> a, last |-> b, grandparent |-> g1, overlapped |-> o1, seen |-> t,
             output |-> u, outputs |-> w]
    <3> DEFINE m1 == [x EXCEPT !.grandparent = g1]
               m2 == [m1 EXCEPT !.overlapped = o1]
    <3>1. m1 = [user |-> a, last |-> b, grandparent |-> g1, overlapped |-> f, seen |-> h,
                output |-> u, outputs |-> w]
      BY <2>3
    <3>2. [x EXCEPT !.grandparent = g1, !.overlapped = o1, !.seen = TRUE]
            = [m2 EXCEPT !.seen = t]
      BY DEF t
    <3> HIDE DEF m1
    <3>3. m2 = [user |-> a, last |-> b, grandparent |-> g1, overlapped |-> o1, seen |-> h,
                output |-> u, outputs |-> w]
      BY <3>1
    <3> HIDE DEF m2
    <3> QED
      BY <3>2, <3>3
  <2>5. [x EXCEPT !.overlapped = o1]
          = [user |-> a, last |-> b, grandparent |-> d, overlapped |-> o1, seen |-> h,
             output |-> u, outputs |-> w]
    BY <2>3
  <2>6. /\ WorkSound([x EXCEPT !.grandparent = g1, !.overlapped = o1, !.seen = TRUE])
        /\ SameOutput(x, [x EXCEPT !.grandparent = g1, !.overlapped = o1, !.seen = TRUE])
    <3> DEFINE r == [x EXCEPT !.grandparent = g1, !.overlapped = o1, !.seen = TRUE]
    <3>1. r = [user |-> a, last |-> b, grandparent |-> g1, overlapped |-> o1, seen |-> t,
               output |-> u, outputs |-> w]
      BY <2>4
    <3> HIDE DEF r
    <3>2. WorkSound(r) /\ r.output = u /\ r.outputs = w
      BY <2>2, <3>1 DEF WorkSound
    <3> QED
      BY <3>2 DEF r, SameOutput, u, w
  <2>7. WorkSound([x EXCEPT !.overlapped = o1]) /\ SameOutput(x, [x EXCEPT !.overlapped = o1])
    <3> DEFINE r == [x EXCEPT !.overlapped = o1]
    <3>1. r = [user |-> a, last |-> b, grandparent |-> d, overlapped |-> o1, seen |-> h,
               output |-> u, outputs |-> w]
      BY <2>5
    <3> HIDE DEF r
    <3>2. WorkSound(r) /\ r.output = u /\ r.outputs = w
      BY <2>2, <3>1 DEF WorkSound
    <3> QED
      BY <3>2 DEF r, SameOutput, u, w
  <2> QED
    BY <2>6, <2>7
<1>3. WorkSound(s) /\ SameOutput(st, s)
  <2> HIDE DEF s
  <2> QED
    BY <1>1, <1>2
<1>4. ShouldStopBefore(c, st, key)
        = IF s.overlapped > MaxGrandParentOverlapBytes
          THEN FinishOutput([s EXCEPT !.overlapped = 0]) ELSE s
  BY DEF ShouldStopBefore
<1> HIDE DEF s
<1> DEFINE r == [s EXCEPT !.overlapped = 0]
<1>5. WorkSound(r) /\ SameOutput(s, r)
  BY <1>2, <1>3
<1>6. ShouldStopBefore(c, st, key) \in {FinishOutput(r), s}
  BY <1>4
<1> HIDE DEF r
<1>7. WorkSound(FinishOutput(r)) /\ (SameOutput(r, FinishOutput(r)) \/ NextOutput(r, FinishOutput(r)))
  BY <1>5, OutputFinished
<1> QED
  BY <1>3, <1>5, <1>6, <1>7 DEF SameOutput, NextOutput

(* What an entry does to the outputs: the last may be finished before it,  *)
(* it may be added, and then the last may be finished behind it.           *)
EntryMoves(st, key, next) ==
    \E s, m : /\ SameOutput(st, s) \/ NextOutput(st, s)
              /\ m.outputs = s.outputs /\ m.output \in {s.output, s.output \cup {key}}
              /\ SameOutput(m, next) \/ NextOutput(m, next)

(* An entry, dropped or not, leaves the outputs what they should be. *)
LEMMA EntryCompacted ==
    ASSUME NEW st, WorkSound(st), NEW c, NEW key \in Keys, NEW smallest_snapshot
    PROVE  LET r == CompactEntry(c, smallest_snapshot, st, key)
           IN WorkSound(r) /\ EntryMoves(st, key, r)
<1> DEFINE s == ShouldStopBefore(c, st, key)
           last == IF st.user = {key.user} THEN st.last ELSE kMaxSequenceNumber
           next == [s EXCEPT !.user = {key.user}, !.last = key.seq]
           added == [next EXCEPT !.output = s.output \cup {key}]
<1>1. WorkSound(s) /\ (SameOutput(st, s) \/ NextOutput(st, s))
  BY StopSound
<1>2. CompactEntry(c, smallest_snapshot, st, key)
        \in {next, FinishOutput(added), added}
  BY DEF CompactEntry
<1> HIDE DEF s
<1>3. PICK a, b, d, f, h :
         s = [user |-> a, last |-> b, grandparent |-> d, overlapped |-> f, seen |-> h,
              output |-> s.output, outputs |-> s.outputs]
  BY <1>1, WorkFields
<1> DEFINE u == s.output
           w == s.outputs
           k == {key.user}
           q == key.seq
           more == u \cup {key}
<1>4. u \in KeySets /\ w \in Seq(Contents) /\ more \in KeySets
  <2>1. {key} \in KeySets
    BY FS_Singleton DEF KeySets
  <2> QED
    BY <1>1, <2>1, KeySetsJoin DEF WorkSound
<1>5. s = [user |-> a, last |-> b, grandparent |-> d, overlapped |-> f, seen |-> h,
           output |-> u, outputs |-> w]
  BY <1>3
<1>6. next = [s EXCEPT !.user = k, !.last = q] /\ added = [next EXCEPT !.output = more]
  OBVIOUS
<1> HIDE DEF u, w, k, q, more, next, added
<1>7. next = [user |-> k, last |-> q, grandparent |-> d, overlapped |-> f, seen |-> h,
              output |-> u, outputs |-> w]
  BY <1>5, <1>6
<1>8. added = [user |-> k, last |-> q, grandparent |-> d, overlapped |-> f, seen |-> h,
               output |-> more, outputs |-> w]
  <2>1. added = [next EXCEPT !.output = more]
    BY <1>6
  <2> QED
    BY <1>7, <2>1
<1>9. WorkSound(next) /\ next.output = u /\ next.outputs = w
  BY <1>4, <1>7, WorkMade
<1>10. WorkSound(added) /\ added.output = more /\ added.outputs = w
  BY <1>4, <1>8, WorkMade
<1> DEFINE r == CompactEntry(c, smallest_snapshot, st, key)
<1>11. /\ WorkSound(FinishOutput(added))
       /\ SameOutput(added, FinishOutput(added)) \/ NextOutput(added, FinishOutput(added))
  BY <1>10, OutputFinished
<1>12. \E m : /\ m.outputs = s.outputs /\ m.output \in {s.output, s.output \cup {key}}
              /\ SameOutput(m, r) \/ NextOutput(m, r)
  <2>1. next.output = s.output /\ next.outputs = s.outputs
        /\ added.output = s.output \cup {key} /\ added.outputs = s.outputs
    BY <1>9, <1>10 DEF u, w, more
  <2>2. SameOutput(next, next) /\ SameOutput(added, added)
    BY DEF SameOutput
  <2> HIDE DEF r
  <2>3. r \in {next, FinishOutput(added), added}
    BY <1>2 DEF r
  <2>4. CASE r = next
    BY <2>1, <2>2, <2>4
  <2>5. CASE r # next
    <3>1. SameOutput(added, r) \/ NextOutput(added, r)
      BY <1>11, <2>2, <2>3, <2>5
    <3> QED
      BY <2>1, <3>1
  <2> QED
    BY <2>4, <2>5
<1>13. EntryMoves(st, key, r)
  <2> HIDE DEF r
  <2> QED
    BY <1>1, <1>12 DEF EntryMoves
<1> QED
  BY <1>2, <1>9, <1>10, <1>11, <1>13

-----------------------------------------------------------------------------
(* The fold over the entries of a compaction, whose states are in no set.  *)

WorkStart == [user |-> {}, last |-> kMaxSequenceNumber, grandparent |-> 0,
              overlapped |-> 0, seen |-> FALSE, output |-> {}, outputs |-> <<>>]

WorkDone(c, oldest, keys) ==
    FoldLeft(LAMBDA st, key : CompactEntry(c, oldest, st, key), WorkStart, keys)

Compacts(f, n, keys, c, oldest) ==
    f = [s \in SUBSET (1..n) |->
            IF s = {} THEN WorkStart ELSE CompactEntry(c, oldest, f[s \ {Max(s)}], keys[Max(s)])]

(* There is a function that compacts the first entries, whichever they are. *)
LEMMA SomethingCompacts ==
    ASSUME NEW keys, NEW c, NEW oldest, NEW n \in Nat
    PROVE  \E f : Compacts(f, n, keys, c, oldest)
<1> DEFINE Q == {k \in Nat : \E f : Compacts(f, k, keys, c, oldest)}
<1>1. 0 \in Q
  <2> DEFINE f == [s \in SUBSET (1..0) |-> WorkStart]
  <2>1. \A s \in SUBSET (1..0) : s = {}
    OBVIOUS
  <2>2. Compacts(f, 0, keys, c, oldest)
    BY <2>1 DEF Compacts
  <2> QED
    BY <2>2
<1>2. \A k \in Nat : k \in Q => k + 1 \in Q
  <2> SUFFICES ASSUME NEW k \in Nat, NEW f, Compacts(f, k, keys, c, oldest)
               PROVE  \E g : Compacts(g, k + 1, keys, c, oldest)
    OBVIOUS
  <2> DEFINE m == k + 1
             g == [s \in SUBSET (1..m) |->
                     IF m \in s THEN CompactEntry(c, oldest, f[s \ {m}], keys[m]) ELSE f[s]]
  <2>1. \A s \in SUBSET (1..m) : m \in s => Max(s) = m /\ s \ {m} \in SUBSET (1..k)
    <3> SUFFICES ASSUME NEW s \in SUBSET (1..m), m \in s PROVE Max(s) = m /\ s \ {m} \in SUBSET (1..k)
      OBVIOUS
    <3>1. Max(s) \in s /\ \A x \in s : x <= m
      <4>1. m \in Nat /\ s # {} /\ s \in SUBSET (1..m)
        OBVIOUS
      <4> HIDE DEF m
      <4> QED
        BY <4>1, MaxIsElement
    <3>2. m >= Max(s) /\ \A y \in s : Max(s) >= y
      <4>1. \E x \in s : \A y \in s : x >= y
        BY <3>1
      <4> QED
        BY <3>1, <4>1 DEF Max
    <3>3. \A x \in s \ {m} : x \in 1..k
      OBVIOUS
    <3>4. Max(s) = m
      <4>1. Max(s) \in Nat /\ m \in Nat /\ Max(s) >= m /\ m >= Max(s)
        <5>3. m \in Nat
          OBVIOUS
        <5>4. s \subseteq 1..m
          OBVIOUS
        <5> HIDE DEF m
        <5>1. Max(s) \in 1..m /\ m \in Nat
          BY <3>1, <5>3, <5>4
        <5>2. Max(s) \in Nat
          BY <5>1
        <5> QED
          BY <3>2, <5>1, <5>2
      <4> HIDE DEF m
      <4> QED
        BY <4>1
    <3> QED
      BY <3>3, <3>4
  <2>2. \A s \in SUBSET (1..m) : m \notin s => s \in SUBSET (1..k)
    OBVIOUS
  <2>3. \A s \in SUBSET (1..k) : s # {} => Max(s) \in s /\ s \ {Max(s)} \in SUBSET (1..k)
    BY MaxIsElement
  <2>4. \A s \in SUBSET (1..k) : f[s] = IF s = {} THEN WorkStart ELSE CompactEntry(c, oldest, f[s \ {Max(s)}], keys[Max(s)])
    BY DEF Compacts
  <2>5. \A s \in SUBSET (1..k) : s \in SUBSET (1..m) /\ m \notin s
    OBVIOUS
  <2>6. \A s \in SUBSET (1..m) : g[s] = IF m \in s THEN CompactEntry(c, oldest, f[s \ {m}], keys[m]) ELSE f[s]
    OBVIOUS
  <2>7. g = [s \in SUBSET (1..m) |-> g[s]]
    OBVIOUS
  <2> HIDE DEF g, m
  <2>8. \A s \in SUBSET (1..m) : g[s] = IF s = {} THEN WorkStart ELSE CompactEntry(c, oldest, g[s \ {Max(s)}], keys[Max(s)])
    <3> SUFFICES ASSUME NEW s \in SUBSET (1..m)
                 PROVE  g[s] = IF s = {} THEN WorkStart ELSE CompactEntry(c, oldest, g[s \ {Max(s)}], keys[Max(s)])
      OBVIOUS
    <3>1. CASE m \in s
      <4>1. g[s \ {m}] = f[s \ {m}]
        BY <2>1, <2>5, <2>6, <3>1
      <4> QED
        BY <2>1, <2>6, <3>1, <4>1
    <3>2. CASE m \notin s
      <4>1. s \in SUBSET (1..k) /\ g[s] = f[s]
        BY <2>2, <2>6, <3>2
      <4>2. CASE s = {}
        BY <2>4, <4>1, <4>2
      <4>3. CASE s # {}
        <5>1. g[s \ {Max(s)}] = f[s \ {Max(s)}]
          BY <2>3, <2>5, <2>6, <4>1, <4>3
        <5> QED
          BY <2>4, <4>1, <4>3, <5>1
      <4> QED
        BY <4>2, <4>3
    <3> QED
      BY <3>1, <3>2
  <2>9. Compacts(g, m, keys, c, oldest)
    BY <2>7, <2>8 DEF Compacts
  <2> QED
    BY <2>9 DEF m
<1> HIDE DEF Q
<1>3. \A k \in Nat : k \in Q
  BY <1>1, <1>2, NumberInduction
<1> QED
  BY <1>3 DEF Q

CompactsTo(h, n, keys, c, oldest) ==
    /\ h[0] = WorkStart
    /\ \A i \in 1..n : h[i] = CompactEntry(c, oldest, h[i - 1], keys[i])

(* And so the entries can be compacted one after the other. *)
LEMMA CompactSteps ==
    ASSUME NEW keys, NEW c, NEW oldest, IsSeq(keys)
    PROVE  \E h : CompactsTo(h, Len(keys), keys, c, oldest) /\ h[Len(keys)] = WorkDone(c, oldest, keys)
<1> DEFINE n == Len(keys)
           E(g) == [s \in SUBSET (1..n) |->
                      IF s = {} THEN WorkStart ELSE CompactEntry(c, oldest, g[s \ {Max(s)}], keys[Max(s)])]
<1>1. n \in Nat /\ DOMAIN keys = 1..n
  BY LenProperties DEF IsSeq
<1>2. \A g : Compacts(g, n, keys, c, oldest) <=> g = E(g)
  BY DEF Compacts
<1>3. WorkDone(c, oldest, keys) = (CHOOSE g : g = E(g))[1..n]
  BY <1>1 DEF WorkDone, FoldLeft, MapThenFoldSet
<1>4. PICK it : it = E(it) /\ WorkDone(c, oldest, keys) = it[1..n]
  <2>1. \E g : g = E(g)
    <3> HIDE DEF E
    <3> QED
      BY <1>1, <1>2, SomethingCompacts
  <2> HIDE DEF E
  <2> QED
    BY <1>3, <2>1
<1>5. Compacts(it, n, keys, c, oldest)
  BY <1>2, <1>4
<1> HIDE DEF E, n
<1> DEFINE h == [i \in 0..n |-> it[1..i]]
<1>6. h[0] = WorkStart
  <2>1. 1..0 = {} /\ 1..0 \in SUBSET (1..n) /\ 0 \in 0..n
    BY <1>1
  <2>2. it[{}] = WorkStart
    BY <1>5 DEF Compacts
  <2> QED
    BY <2>1, <2>2
<1>7. ASSUME NEW i \in 1..n PROVE h[i] = CompactEntry(c, oldest, h[i - 1], keys[i])
  <2>1. i \in 0..n /\ i - 1 \in 0..n /\ 1..i \in SUBSET (1..n) /\ 1..i # {}
    BY <1>1
  <2>2. Max(1..i) = i /\ (1..i) \ {i} = 1..(i - 1)
    BY <1>1, MaxOfPrefix
  <2>3. it[1..i] = CompactEntry(c, oldest, it[(1..i) \ {Max(1..i)}], keys[Max(1..i)])
    BY <1>5, <2>1 DEF Compacts
  <2> QED
    BY <2>1, <2>2, <2>3
<1>8. h[n] = WorkDone(c, oldest, keys)
  BY <1>1, <1>4
<1> HIDE DEF h
<1> QED
  BY <1>6, <1>7, <1>8 DEF CompactsTo, n

(* The state after all entries is a sound one. *)
LEMMA WorkDoneSound ==
    ASSUME NEW keys \in Seq(Keys), NEW c, NEW oldest
    PROVE  WorkSound(WorkDone(c, oldest, keys))
<1> DEFINE n == Len(keys)
<1>1. n \in Nat /\ \A i \in 1..n : keys[i] \in Keys
  BY LenProperties
<1>2. IsSeq(keys)
  BY SeqOfItsSet DEF IsSeq
<1>3. PICK h : CompactsTo(h, n, keys, c, oldest) /\ h[n] = WorkDone(c, oldest, keys)
  BY <1>2, CompactSteps
<1> HIDE DEF n
<1> DEFINE Q == {i \in 0..n : WorkSound(h[i])}
<1>4. 0 \in Q
  <2>1. WorkSound(WorkStart)
    BY FS_EmptySet DEF WorkSound, WorkStart, KeySets
  <2> QED
    BY <1>1, <1>3, <2>1 DEF CompactsTo
<1>5. \A i \in 1..n : i - 1 \in Q => i \in Q
  <2> SUFFICES ASSUME NEW i \in 1..n, WorkSound(h[i - 1]) PROVE WorkSound(h[i])
    BY <1>1
  <2>1. h[i] = CompactEntry(c, oldest, h[i - 1], keys[i])
    BY <1>3 DEF CompactsTo
  <2> QED
    BY <1>1, <2>1, EntryCompacted
<1> HIDE DEF Q
<1>6. \A i \in 0..n : i \in Q
  BY <1>1, <1>4, <1>5, BoundedInduction
<1> QED
  BY <1>1, <1>3, <1>6 DEF Q

(* The files of a compaction are those of both levels. *)
LEMMA InputFilesSet ==
    ASSUME NEW c, IsSeq(c.inputs[1]), IsSeq(c.inputs[2])
    PROVE  ToSet(InputFiles(c)) = ToSet(c.inputs[1]) \cup ToSet(c.inputs[2])
<1> DEFINE s1 == c.inputs[1]
           s2 == c.inputs[2]
           S == ToSet(s1) \cup ToSet(s2)
<1>1. s1 \in Seq(S) /\ s2 \in Seq(S)
  BY DEF IsSeq
<1>2. InputFiles(c) = s1 \o s2
  BY DEF InputFiles
<1> HIDE DEF s1, s2
<1>3. s1 \o s2 \in Seq(S) /\ Len(s1 \o s2) = Len(s1) + Len(s2) /\ Len(s1) \in Nat /\ Len(s2) \in Nat
  BY <1>1
<1>4. /\ ToSet(s1) = {s1[i] : i \in 1..Len(s1)} /\ ToSet(s2) = {s2[i] : i \in 1..Len(s2)}
      /\ ToSet(s1 \o s2) = {(s1 \o s2)[i] : i \in 1..(Len(s1) + Len(s2))}
  BY <1>1, <1>3, SeqOfItsSet
<1>5. \A i \in 1..(Len(s1) + Len(s2)) :
         (s1 \o s2)[i] = IF i <= Len(s1) THEN s1[i] ELSE s2[i - Len(s1)]
  BY <1>1
<1> DEFINE n1 == Len(s1)
           n2 == Len(s2)
           q == s1 \o s2
<1>6. /\ ToSet(s1) = {s1[i] : i \in 1..n1} /\ ToSet(s2) = {s2[i] : i \in 1..n2}
      /\ ToSet(q) = {q[i] : i \in 1..(n1 + n2)}
      /\ \A i \in 1..(n1 + n2) : q[i] = IF i <= n1 THEN s1[i] ELSE s2[i - n1]
      /\ n1 \in Nat /\ n2 \in Nat
  BY <1>3, <1>4, <1>5
<1> HIDE DEF n1, n2, q
<1>7. ASSUME NEW x \in ToSet(s1) PROVE x \in ToSet(q)
  <2>1. PICK i \in 1..n1 : x = s1[i]
    BY <1>6
  <2>2. i \in 1..(n1 + n2) /\ q[i] = s1[i]
    BY <1>6
  <2> QED
    BY <1>6, <2>1, <2>2
<1>8. ASSUME NEW x \in ToSet(s2) PROVE x \in ToSet(q)
  <2>1. PICK i \in 1..n2 : x = s2[i]
    BY <1>6
  <2>2. i + n1 \in 1..(n1 + n2) /\ ~(i + n1 <= n1) /\ (i + n1) - n1 = i
    BY <1>6
  <2>3. q[i + n1] = s2[i]
    BY <1>6, <2>2
  <2> QED
    BY <1>6, <2>1, <2>2, <2>3
<1>9. ASSUME NEW x \in ToSet(q) PROVE x \in ToSet(s1) \cup ToSet(s2)
  <2>1. PICK i \in 1..(n1 + n2) : x = q[i]
    BY <1>6
  <2>2. CASE i <= n1
    BY <1>6, <2>1, <2>2
  <2>3. CASE ~(i <= n1)
    <3>1. i - n1 \in 1..n2 /\ q[i] = s2[i - n1]
      BY <1>6, <2>3
    <3> QED
      BY <1>6, <2>1, <3>1
  <2> QED
    BY <2>2, <2>3
<1> QED
  BY <1>2, <1>7, <1>8, <1>9 DEF q, s1, s2

(* Its entries are those of the tables of these files. *)
LEMMA InputEntriesSet ==
    ASSUME NEW c, NEW tables, NEW bound, CompactionSound(c, tables, bound),
           tables \in [DOMAIN tables -> Contents]
    PROVE  /\ InputEntries(c, tables) \in KeySets
           /\ \A k \in InputEntries(c, tables) :
                 \E f \in ToSet(c.inputs[1]) \cup ToSet(c.inputs[2]) : k \in tables[f.number]
<1> DEFINE files == ToSet(c.inputs[1]) \cup ToSet(c.inputs[2])
           T == {tables[n] : n \in Numbers(InputFiles(c))}
           all == InputEntries(c, tables)
<1>1. IsFiniteSet(files) /\ \A f \in files : f.number \in DOMAIN tables
  <2>1. IsFiniteSet(ToSet(c.inputs[1])) /\ IsFiniteSet(ToSet(c.inputs[2]))
    BY SeqOfItsSet DEF CompactionSound, IsSeq
  <2>2. files \subseteq FilesOf(c.version)
    BY DEF CompactionSound
  <2>3. \A f \in FilesOf(c.version) : f.number \in DOMAIN tables
    BY VersionFiles DEF CompactionSound, MetaSound
  <2> QED
    BY <2>1, <2>2, <2>3, FS_Union
<1>2. ToSet(InputFiles(c)) = files
  BY InputFilesSet DEF CompactionSound
<1> HIDE DEF files
<1>3. T = {tables[f.number] : f \in files}
  BY <1>2 DEF Numbers
<1>4. IsFiniteSet(T)
  <2>1. [f \in files |-> tables[f.number]] \in Surjection(files, T)
    BY <1>3 DEF Surjection
  <2> HIDE DEF T
  <2> QED
    BY <1>1, <2>1, FS_Surjection
<1>5. \A K \in T : K \in KeySets
  BY <1>1, <1>3 DEF Contents
<1>6. all = UNION T
  BY DEF InputEntries
<1> HIDE DEF T, all
<1>7. all \in KeySets
  BY <1>4, <1>5, <1>6, FS_UNION DEF KeySets
<1>8. \A k \in UNION T : \E f \in files : k \in tables[f.number]
  BY <1>3
<1> QED
  BY <1>6, <1>7, <1>8 DEF all, files

(* A compaction writes tables that are not empty. *)
LEMMA OutputsTyped ==
    ASSUME NEW c, NEW tables, NEW bound, CompactionSound(c, tables, bound),
           tables \in [DOMAIN tables -> Contents], NEW oldest
    PROVE  CompactionOutputs(c, tables, oldest) \in Seq(Contents)
<1> DEFINE all == InputEntries(c, tables)
<1>1. all \in KeySets
  BY InputEntriesSet
<1>2. InKeyOrder(all) \in Seq(Keys)
  <2>1. InKeyOrder(all) \in Seq(all) /\ all \subseteq Keys
    BY <1>1, KeysInOrder DEF KeySets
  <2> HIDE DEF all
  <2> QED
    BY <2>1
<1>3. CompactionOutputs(c, tables, oldest)
        = FinishOutput(WorkDone(c, oldest, InKeyOrder(all))).outputs
  BY DEF CompactionOutputs, WorkDone, WorkStart, all
<1>4. WorkSound(FinishOutput(WorkDone(c, oldest, InKeyOrder(all))))
  BY <1>2, WorkDoneSound, OutputFinished
<1> QED
  BY <1>3, <1>4 DEF WorkSound

-----------------------------------------------------------------------------
(* The order of the files of a level. *)

SortedFiles(files) ==
    \A i \in 1..Len(files) : \A j \in 1..Len(files) :
        i < j => IKLess(files[i].largest, files[j].smallest)

LieApart(f, g) == IKLess(f.largest, g.smallest) \/ IKLess(g.largest, f.smallest)

(* A file's keys lie between its smallest and its largest, which are keys  *)
(* of its table.                                                           *)
LEMMA FileBounds ==
    ASSUME NEW tables, NEW bound, DOMAIN tables \subseteq Nat,
           tables \in [DOMAIN tables -> Contents],
           NEW f, MetaSound(f, tables, bound)
    PROVE  /\ f.number \in DOMAIN tables /\ f.number \in Nat /\ f.number < bound
           /\ f.smallest \in tables[f.number] /\ f.largest \in tables[f.number]
           /\ f.smallest \in Keys /\ f.largest \in Keys
           /\ \A k \in tables[f.number] :
                 k \in Keys /\ ~IKLess(k, f.smallest) /\ ~IKLess(f.largest, k)
<1> DEFINE S == tables[f.number]
<1>1. f.number \in DOMAIN tables /\ f.number < bound /\ S \in Contents
  BY DEF MetaSound
<1>2. f.smallest = SmallestOf(S) /\ f.largest = LargestOf(S)
  BY DEF MetaSound, FileMetaData
<1> HIDE DEF S
<1>3. S \subseteq Keys
  BY <1>1 DEF Contents, KeySets
<1>4. /\ f.smallest \in S /\ \A k \in S : ~IKLess(k, f.smallest)
      /\ f.largest \in S /\ \A k \in S : ~IKLess(f.largest, k)
  BY <1>1, <1>2, SmallestInSet, LargestInSet
<1> QED
  BY <1>1, <1>3, <1>4 DEF S

(* If a does not come after b, and b comes before c, so does a; and the    *)
(* other way round.                                                        *)
LEMMA KeyChain ==
    /\ \A a \in Keys : \A b \in Keys : \A c \in Keys : ~IKLess(b, a) /\ IKLess(b, c) => IKLess(a, c)
    /\ \A a \in Keys : \A b \in Keys : \A c \in Keys : IKLess(a, b) /\ ~IKLess(c, b) => IKLess(a, c)
    /\ \A a \in Keys : \A b \in Keys : IKLess(a, b) => ~IKLess(b, a)
<1>1. ASSUME NEW a \in Keys, NEW b \in Keys, NEW c \in Keys, ~IKLess(b, a), IKLess(b, c)
      PROVE  IKLess(a, c)
  BY <1>1, KeyOrder
<1>2. ASSUME NEW a \in Keys, NEW b \in Keys, NEW c \in Keys, IKLess(a, b), ~IKLess(c, b)
      PROVE  IKLess(a, c)
  BY <1>2, KeyOrder
<1>3. ASSUME NEW a \in Keys, NEW b \in Keys, IKLess(a, b), IKLess(b, a) PROVE FALSE
  BY <1>3, KeyOrder
<1> QED
  BY <1>1, <1>2, <1>3

(* What the order of keys says of the user keys. *)
LEMMA UserOrder ==
    /\ \A k \in Keys : k.user \in Nat /\ k.seq \in Nat
    /\ \A a \in Keys : \A b \in Keys : a.user < b.user => IKLess(a, b)
    /\ \A a \in Keys : \A b \in Keys : ~IKLess(b, a) => a.user <= b.user
    /\ \A a \in Keys : \A b \in Keys : IKLess(a, b) => a.user <= b.user
BY DEF Keys, IKLess

(* The files of a sorted level lie apart. *)
LEMMA SortedApart ==
    ASSUME NEW files, IsSeq(files), SortedFiles(files),
           NEW f \in ToSet(files), NEW g \in ToSet(files), f # g
    PROVE  LieApart(f, g)
<1>1. Len(files) \in Nat /\ ToSet(files) = {files[i] : i \in 1..Len(files)}
  BY SeqOfItsSet, LenProperties DEF IsSeq
<1>2. PICK i \in 1..Len(files) : f = files[i]
  BY <1>1
<1>3. PICK j \in 1..Len(files) : g = files[j]
  BY <1>1
<1>4. i < j \/ j < i
  BY <1>1, <1>2, <1>3
<1> QED
  BY <1>2, <1>3, <1>4 DEF SortedFiles, LieApart

(* Files that lie apart are sorted by SaveTo. *)
LEMMA ApartSorted ==
    ASSUME NEW all, IsFiniteSet(all), NEW tables, NEW bound,
           DOMAIN tables \subseteq Nat, tables \in [DOMAIN tables -> Contents],
           \A f \in all : MetaSound(f, tables, bound),
           \A f \in all : \A g \in all : f # g => LieApart(f, g)
    PROVE  SortedFiles(InFileOrder(all))
<1> DEFINE q == InFileOrder(all)
<1>1. /\ q \in Seq(all)
      /\ \A i \in 1..Len(q) : \A j \in 1..Len(q) : i < j => BySmallestKey(q[i], q[j])
  BY FilesInOrder
<1> HIDE DEF q
<1>2. SUFFICES ASSUME NEW i \in 1..Len(q), NEW j \in 1..Len(q), i < j
               PROVE  IKLess(q[i].largest, q[j].smallest)
  BY DEF SortedFiles, q
<1> DEFINE f == q[i]
           g == q[j]
<1>3. f \in all /\ g \in all /\ BySmallestKey(f, g)
  BY <1>1, <1>2
<1> HIDE DEF f, g
<1>4. /\ f.number \in Nat /\ f.smallest \in Keys /\ f.largest \in Keys /\ ~IKLess(f.largest, f.smallest)
      /\ g.number \in Nat /\ g.smallest \in Keys /\ g.largest \in Keys /\ ~IKLess(g.largest, g.smallest)
  BY <1>3, FileBounds
<1>5. f # g
  BY <1>3, <1>4, KeyOrder DEF BySmallestKey
<1>6. ~IKLess(g.largest, f.smallest)
  <2> SUFFICES ASSUME IKLess(g.largest, f.smallest) PROVE FALSE
    OBVIOUS
  <2>1. IKLess(g.smallest, f.smallest)
    BY <1>4, KeyChain
  <2> QED
    BY <1>3, <1>4, <2>1, KeyChain, KeyOrder DEF BySmallestKey
<1> QED
  BY <1>3, <1>5, <1>6 DEF LieApart, f, g

-----------------------------------------------------------------------------
(* The files of a range. *)

(* Picking files by their indices picks all of them. *)
LEMMA PickedSet ==
    ASSUME NEW files, IsSeq(files), NEW I \in SUBSET DOMAIN files
    PROVE  ToSet(FilesAt(files, Ascending(I))) = {files[i] : i \in I}
<1>1. Len(files) \in Nat /\ DOMAIN files = 1..Len(files)
  BY LenProperties DEF IsSeq
<1>2. IsFiniteSet(1..Len(files))
  BY <1>1, FS_Interval
<1>3. I \in SUBSET Nat /\ IsFiniteSet(I)
  BY <1>1, <1>2, FS_Subset
<1> DEFINE at == Ascending(I)
<1>4. at \in Seq(I) /\ ToSet(at) = I
  BY <1>3, NumbersInOrder
<1> HIDE DEF at
<1>5. Len(at) \in Nat /\ DOMAIN at = 1..Len(at) /\ I = {at[n] : n \in DOMAIN at}
  BY <1>4, LenProperties DEF ToSet
<1> DEFINE s == [n \in DOMAIN at |-> files[at[n]]]
<1>6. FilesAt(files, at) = s
  BY DEF FilesAt
<1>7. ToSet(s) = {s[n] : n \in DOMAIN at}
  BY DEF ToSet
<1> QED
  BY <1>5, <1>6, <1>7 DEF at

InRange(f, range) == ~AfterFile(range.begin, f) /\ ~BeforeFile(range.end, f)

(* FilesInRange finds exactly the files in the range. *)
LEMMA RangeFiles ==
    ASSUME NEW files, IsSeq(files), NEW range
    PROVE  ToSet(FilesInRange(files, range)) = {f \in ToSet(files) : InRange(f, range)}
<1> DEFINE I == {i \in DOMAIN files : ~AfterFile(range.begin, files[i]) /\ ~BeforeFile(range.end, files[i])}
<1>1. I \in SUBSET DOMAIN files
  OBVIOUS
<1>2. FilesInRange(files, range) = FilesAt(files, Ascending(I))
  BY DEF FilesInRange, Where
<1>3. \A i \in DOMAIN files : i \in I <=> InRange(files[i], range)
  BY DEF InRange
<1> HIDE DEF I
<1>4. ToSet(FilesInRange(files, range)) = {files[i] : i \in I}
  BY <1>1, <1>2, PickedSet
<1>5. ToSet(files) = {files[i] : i \in DOMAIN files}
  BY DEF ToSet
<1> QED
  BY <1>1, <1>3, <1>4, <1>5

RangesOfUsers == [begin : SUBSET Nat, end : SUBSET Nat]

(* What GetOverlappingInputs finds are the files in a range: the one that  *)
(* was asked for, or in level 0 one widened from it.                       *)
LEMMA OverlapRange ==
    ASSUME NEW v, NEW level, IsSeq(v[level]), NEW begin, NEW end, NEW X,
           [begin |-> begin, end |-> end] \in X,
           \A r \in X : Widened(v[level], r) \in X
    PROVE  \E r \in X : /\ GetOverlappingInputs(v, level, begin, end) = FilesInRange(v[level], r)
                        /\ level # 0 => r = [begin |-> begin, end |-> end]
<1> DEFINE n == Len(v[level])
           start == [begin |-> begin, end |-> end]
           last == IF level = 0 THEN Len(v[0]) ELSE 0
           G == [p \in (1..n) \X X |-> Widened(v[level], p[2])]
           E(g) == [i \in 0..n |-> IF i = 0 THEN start ELSE Widened(v[level], g[i - 1])]
<1>1. n \in Nat /\ last \in 0..n
  BY LenProperties DEF IsSeq
<1>2. G \in [(1..n) \X X -> X] /\ \A i \in 1..n : \A r \in X : G[<<i, r>>] = Widened(v[level], r)
  OBVIOUS
<1>3. GetOverlappingInputs(v, level, begin, end)
        = FilesInRange(v[level], (CHOOSE g : g = E(g))[last])
  BY DEF GetOverlappingInputs
<1>12. start \in X
  OBVIOUS
<1> HIDE DEF n, start, G
<1>4. PICK h \in [0..n -> X] : Counts(h, n, start, G)
  BY <1>1, <1>2, <1>12, CountSteps
<1>5. h = E(h)
  <2>1. \A i \in 1..n : i - 1 \in 0..n /\ h[i - 1] \in X
    BY <1>1
  <2>2. \A i \in 1..n : h[i] = Widened(v[level], h[i - 1])
    BY <1>2, <1>4, <2>1 DEF Counts
  <2>3. \A i \in 0..n : h[i] = IF i = 0 THEN start ELSE Widened(v[level], h[i - 1])
    BY <1>1, <1>4, <2>2 DEF Counts
  <2> QED
    BY <1>4, <2>3
<1>6. PICK it : it = E(it) /\ it = (CHOOSE g : g = E(g))
  <2> HIDE DEF E
  <2> QED
    BY <1>5
<1>7. it[0] = start /\ \A i \in 1..n : it[i] = Widened(v[level], it[i - 1])
  BY <1>1, <1>6
<1> HIDE DEF E, last
<1>8. \A i \in 0..n : it[i] \in X
  <2>1. CountsIn(it, n, X, start, G)
    BY <1>2, <1>7 DEF CountsIn
  <2> QED
    BY <1>1, <1>2, <1>12, <2>1, CountIn
<1>9. it[last] \in X /\ (level # 0 => it[last] = start)
  BY <1>1, <1>7, <1>8 DEF last
<1> QED
  BY <1>3, <1>6, <1>9 DEF start

(* What Reaching takes from the files found. *)
BeginOf(range, found) ==
    LET begins == range.begin \cup {f.smallest.user : f \in found}
    IN IF range.begin = {} THEN {} ELSE {k \in begins : \A l \in begins : k <= l}

EndOf(range, found) ==
    LET ends == range.end \cup {f.largest.user : f \in found}
    IN IF range.end = {} THEN {} ELSE {k \in ends : \A l \in ends : k >= l}

(* A range of user keys is widened to one. *)
LEMMA WidenedTyped ==
    ASSUME NEW files, IsSeq(files),
           \A f \in ToSet(files) : f.smallest.user \in Nat /\ f.largest.user \in Nat,
           NEW range \in RangesOfUsers
    PROVE  LET w == Widened(files, range)
           IN /\ w \in RangesOfUsers
              /\ \A k \in w.begin : \E b \in range.begin : k <= b
              /\ \A k \in w.end : \E b \in range.end : k >= b
<1> DEFINE found == ToSet(FilesInRange(files, range))
           begins == range.begin \cup {f.smallest.user : f \in found}
           ends == range.end \cup {f.largest.user : f \in found}
           first == BeginOf(range, found)
           last == EndOf(range, found)
<1>1. found \subseteq ToSet(files)
  BY RangeFiles
<1>2. Widened(files, range) = [begin |-> first, end |-> last]
  BY DEF Widened, Reaching, BeginOf, EndOf
<1>3. range.begin \in SUBSET Nat /\ range.end \in SUBSET Nat
  BY DEF RangesOfUsers
<1>9. /\ first = IF range.begin = {} THEN {} ELSE {k \in begins : \A l \in begins : k <= l}
      /\ last = IF range.end = {} THEN {} ELSE {k \in ends : \A l \in ends : k >= l}
  BY DEF BeginOf, EndOf
<1> HIDE DEF found, first, last
<1>4. begins \in SUBSET Nat /\ ends \in SUBSET Nat
  BY <1>1, <1>3
<1>5. range.begin \subseteq begins /\ range.end \subseteq ends
  OBVIOUS
<1> HIDE DEF begins, ends
<1>6. first \in SUBSET Nat /\ last \in SUBSET Nat
  BY <1>4, <1>9
<1>7. \A k \in first : \E b \in range.begin : k <= b
  BY <1>5, <1>9
<1>8. \A k \in last : \E b \in range.end : k >= b
  BY <1>5, <1>9
<1>10. [begin |-> first, end |-> last] \in RangesOfUsers
  BY <1>6 DEF RangesOfUsers
<1> QED
  BY <1>2, <1>7, <1>8, <1>10

(* A range that is widened keeps the files it has. *)
LEMMA WidenedKeeps ==
    ASSUME NEW files, IsSeq(files),
           \A f \in ToSet(files) : f.smallest.user \in Nat /\ f.largest.user \in Nat,
           NEW g, g.smallest.user \in Nat, g.largest.user \in Nat,
           NEW range \in RangesOfUsers, InRange(g, range)
    PROVE  InRange(g, Widened(files, range))
<1> DEFINE w == Widened(files, range)
<1>1. /\ w \in RangesOfUsers
      /\ \A k \in w.begin : \E b \in range.begin : k <= b
      /\ \A k \in w.end : \E b \in range.end : k >= b
  BY WidenedTyped
<1> HIDE DEF w
<1>2. /\ w.begin \subseteq Nat /\ w.end \subseteq Nat
      /\ range.begin \subseteq Nat /\ range.end \subseteq Nat
  BY <1>1 DEF RangesOfUsers
<1>3. \A k \in w.begin : ~(k > g.largest.user)
  BY <1>1, <1>2 DEF InRange, AfterFile
<1>4. \A k \in w.end : ~(k < g.smallest.user)
  BY <1>1, <1>2 DEF InRange, BeforeFile
<1> QED
  BY <1>3, <1>4 DEF InRange, AfterFile, BeforeFile, w

(* Below level 0 the files that overlap a range of user keys are those in  *)
(* it.                                                                     *)
LEMMA OverlapsBelow ==
    ASSUME NEW v, NEW level, level # 0, IsSeq(v[level]),
           \A f \in ToSet(v[level]) : f.smallest.user \in Nat /\ f.largest.user \in Nat,
           NEW begin \in SUBSET Nat, NEW end \in SUBSET Nat
    PROVE  ToSet(GetOverlappingInputs(v, level, begin, end))
             = {f \in ToSet(v[level]) : InRange(f, [begin |-> begin, end |-> end])}
<1> DEFINE start == [begin |-> begin, end |-> end]
<1>1. start \in RangesOfUsers
  BY DEF RangesOfUsers
<1>2. \A r \in RangesOfUsers : Widened(v[level], r) \in RangesOfUsers
  BY WidenedTyped
<1> HIDE DEF start
<1>3. PICK r \in RangesOfUsers : /\ GetOverlappingInputs(v, level, begin, end) = FilesInRange(v[level], r)
                                 /\ level # 0 => r = start
  BY <1>1, <1>2, OverlapRange DEF start
<1> QED
  BY <1>3, RangeFiles DEF start

-----------------------------------------------------------------------------
(* The files that a compaction takes. *)

(* The range of files begins with the smallest key of any and ends with    *)
(* the largest.                                                            *)
LEMMA RangeBounds ==
    ASSUME NEW tables, NEW bound, DOMAIN tables \subseteq Nat,
           tables \in [DOMAIN tables -> Contents],
           NEW files, IsSeq(files), files # <<>>,
           \A f \in ToSet(files) : MetaSound(f, tables, bound)
    PROVE  LET range == GetRange(files)
           IN /\ range.smallest \in Keys /\ range.largest \in Keys
              /\ \A f \in ToSet(files) :
                    ~IKLess(f.smallest, range.smallest) /\ ~IKLess(range.largest, f.largest)
<1> DEFINE F == ToSet(files)
           S == {f.smallest : f \in F}
           L == {f.largest : f \in F}
<1>1. GetRange(files).smallest = SmallestOf(S) /\ GetRange(files).largest = LargestOf(L)
  BY DEF GetRange
<1>2. IsFiniteSet(F) /\ F # {}
  <2>1. IsFiniteSet(F) /\ F = {files[i] : i \in 1..Len(files)}
    BY SeqOfItsSet DEF IsSeq
  <2>2. Len(files) # 0 /\ Len(files) \in Nat
    BY EmptySeq, LenProperties DEF IsSeq
  <2> QED
    BY <2>1, <2>2
<1>3. \A f \in F : f.smallest \in Keys /\ f.largest \in Keys
  BY FileBounds
<1> HIDE DEF F
<1>4. S \subseteq Keys /\ L \subseteq Keys /\ S # {} /\ L # {}
  BY <1>2, <1>3
<1>5. IsFiniteSet(S) /\ IsFiniteSet(L)
  <2>1. [f \in F |-> f.smallest] \in Surjection(F, S) /\ [f \in F |-> f.largest] \in Surjection(F, L)
    BY DEF Surjection
  <2> HIDE DEF S, L
  <2> QED
    BY <1>2, <2>1, FS_Surjection
<1>6. S \in Contents /\ L \in Contents
  <2> HIDE DEF S, L
  <2> QED
    BY <1>4, <1>5 DEF Contents, KeySets
<1>7. \A f \in F : f.smallest \in S /\ f.largest \in L
  OBVIOUS
<1> HIDE DEF S, L
<1>8. SmallestOf(S) \in S /\ \A k \in S : ~IKLess(k, SmallestOf(S))
  BY <1>6, SmallestInSet
<1>9. LargestOf(L) \in L /\ \A k \in L : ~IKLess(LargestOf(L), k)
  BY <1>6, LargestInSet
<1> QED
  BY <1>1, <1>4, <1>7, <1>8, <1>9 DEF F

(* A file overlaps its own range, which level 0 only widens. *)
LEMMA OverlapsItself ==
    ASSUME NEW tables, NEW bound, DOMAIN tables \subseteq Nat,
           tables \in [DOMAIN tables -> Contents],
           NEW v, NEW level, IsSeq(v[level]),
           \A f \in ToSet(v[level]) : MetaSound(f, tables, bound),
           NEW f \in ToSet(v[level])
    PROVE  f \in ToSet(OverlappingFiles(v, level, GetRange(<<f>>)))
<1> DEFINE range == GetRange(<<f>>)
           start == [begin |-> {range.smallest.user}, end |-> {range.largest.user}]
           X == {r \in RangesOfUsers : InRange(f, r)}
<1>1. ToSet(<<f>>) = {f} /\ IsSeq(<<f>>) /\ <<f>> # <<>>
  BY DEF ToSet, IsSeq
<1>2. /\ range.smallest \in Keys /\ range.largest \in Keys
      /\ ~IKLess(f.smallest, range.smallest) /\ ~IKLess(range.largest, f.largest)
  BY <1>1, RangeBounds
<1> HIDE DEF range
<1>3. /\ f.smallest \in Keys /\ f.largest \in Keys /\ ~IKLess(f.largest, f.smallest)
  BY FileBounds
<1>4. /\ f.smallest.user \in Nat /\ f.largest.user \in Nat
      /\ range.smallest.user \in Nat /\ range.largest.user \in Nat
      /\ range.smallest.user <= f.largest.user /\ f.smallest.user <= range.largest.user
  <2>1. /\ range.smallest.user <= f.smallest.user /\ f.smallest.user <= f.largest.user
        /\ f.largest.user <= range.largest.user
    BY <1>2, <1>3, UserOrder
  <2>2. /\ f.smallest.user \in Nat /\ f.largest.user \in Nat
        /\ range.smallest.user \in Nat /\ range.largest.user \in Nat
    BY <1>2, <1>3, UserOrder
  <2> QED
    BY <2>1, <2>2
<1>5. start \in X
  <2>1. start \in RangesOfUsers
    BY <1>4 DEF RangesOfUsers
  <2>2. InRange(f, start)
    BY <1>4 DEF InRange, AfterFile, BeforeFile
  <2> QED
    BY <2>1, <2>2
<1>6. \A g \in ToSet(v[level]) : g.smallest.user \in Nat /\ g.largest.user \in Nat
  BY FileBounds, UserOrder
<1>7. \A r \in X : Widened(v[level], r) \in X
  BY <1>4, <1>6, WidenedTyped, WidenedKeeps
<1> HIDE DEF X
<1>8. PICK r \in X : GetOverlappingInputs(v, level, {range.smallest.user}, {range.largest.user})
                        = FilesInRange(v[level], r)
  <2> DEFINE b == {range.smallest.user}
             e == {range.largest.user}
  <2>1. [begin |-> b, end |-> e] \in X
    BY <1>5
  <2> HIDE DEF b, e
  <2>2. \E r \in X : /\ GetOverlappingInputs(v, level, b, e) = FilesInRange(v[level], r)
                     /\ level # 0 => r = [begin |-> b, end |-> e]
    BY <1>7, <2>1, OverlapRange
  <2> QED
    BY <2>2 DEF b, e
<1>9. OverlappingFiles(v, level, range) = FilesInRange(v[level], r)
  BY <1>8 DEF OverlappingFiles
<1> QED
  BY <1>9, RangeFiles DEF X, range

(* Below level 0, the files that overlap a range of keys are those whose   *)
(* user keys meet its.                                                     *)
LEMMA OverlappingBelow ==
    ASSUME NEW tables, NEW bound, DOMAIN tables \subseteq Nat,
           tables \in [DOMAIN tables -> Contents],
           NEW v, NEW level, level # 0, IsSeq(v[level]),
           \A f \in ToSet(v[level]) : MetaSound(f, tables, bound),
           NEW range, range.smallest \in Keys, range.largest \in Keys
    PROVE  \A f \in ToSet(v[level]) :
              f \in ToSet(OverlappingFiles(v, level, range))
                <=> /\ range.smallest.user <= f.largest.user
                    /\ f.smallest.user <= range.largest.user
<1> DEFINE begin == {range.smallest.user}
           end == {range.largest.user}
<1>1. begin \in SUBSET Nat /\ end \in SUBSET Nat
  BY UserOrder
<1>2. \A f \in ToSet(v[level]) : f.smallest.user \in Nat /\ f.largest.user \in Nat
  BY FileBounds, UserOrder
<1>3. ToSet(OverlappingFiles(v, level, range))
        = {f \in ToSet(v[level]) : InRange(f, [begin |-> begin, end |-> end])}
  <2> HIDE DEF begin, end
  <2>1. ToSet(GetOverlappingInputs(v, level, begin, end))
          = {f \in ToSet(v[level]) : InRange(f, [begin |-> begin, end |-> end])}
    BY <1>1, <1>2, OverlapsBelow
  <2> QED
    BY <2>1 DEF OverlappingFiles, begin, end
<1>4. \A f \in ToSet(v[level]) :
         InRange(f, [begin |-> begin, end |-> end])
           <=> /\ range.smallest.user <= f.largest.user
               /\ f.smallest.user <= range.largest.user
  BY <1>1, <1>2 DEF InRange, AfterFile, BeforeFile
<1> HIDE DEF begin, end
<1> QED
  BY <1>3, <1>4


(* A compaction takes files of a level and, of the next, all that overlap  *)
(* them.                                                                   *)
ReachesDown(v, c) ==
    /\ c.version = v
    /\ c.level \in 0..(kNumLevels - 2)
    /\ c.inputs[1] \in Seq(ToSet(v[c.level])) \ {<<>>}
    /\ c.inputs[2] = OverlappingFiles(v, c.level + 1, GetRange(c.inputs[1]))

(* Whether SetupOtherInputs widens the inputs or not, the next level's are *)
(* those that overlap them.                                                *)
LEMMA SetupReaches ==
    ASSUME NEW v, NEW tables, NEW bound, VersionSound(v, tables, bound),
           NEW level \in 0..(kNumLevels - 2), NEW chosen \in Seq(ToSet(v[level])) \ {<<>>}
    PROVE  ReachesDown(v, SetupOtherInputs(v, level, chosen))
<1> DEFINE c == SetupOtherInputs(v, level, chosen)
           inputs0 == AddBoundaryInputs(v[level], chosen)
           least == WithOverlapping(v, level, inputs0)
           all == OverlappingFiles(v, level, GetRange(least[1] \o least[2]))
           more0 == AddBoundaryInputs(v[level], all)
           expanded == Expanded(v, level, least)
           inputs == IF MayExpand(least, expanded) THEN expanded ELSE least
<1>1. IsSeq(v[level])
  BY VersionsAssumption DEF Levels, VersionSound, FilesSound
<1>2. inputs0 \in Seq(ToSet(v[level])) \ {<<>>} /\ more0 \in Seq(ToSet(v[level]))
  <2>1. all \in Seq(ToSet(v[level]))
    BY <1>1, OverlappingPicked
  <2> HIDE DEF all
  <2> QED
    BY <1>1, <2>1, BoundaryPicked
<1>3. c.version = v /\ c.level = level /\ c.inputs = inputs
  BY DEF SetupOtherInputs, WithExpanded, Compaction
<1> HIDE DEF c, inputs0
<1>4. least[1] = inputs0 /\ least[2] = OverlappingFiles(v, level + 1, GetRange(inputs0))
  BY DEF WithOverlapping
<1>5. expanded[1] = more0 /\ expanded[2] = OverlappingFiles(v, level + 1, GetRange(more0))
  <2>1. expanded = WithOverlapping(v, level, more0)
    BY DEF Expanded
  <2> HIDE DEF expanded, more0
  <2> QED
    BY <2>1 DEF WithOverlapping
<1> HIDE DEF least, expanded, more0
<1>6. MayExpand(least, expanded) => more0 # <<>>
  <2> SUFFICES ASSUME MayExpand(least, expanded), more0 = <<>> PROVE FALSE
    OBVIOUS
  <2>1. Len(more0) > Len(inputs0)
    BY <1>4, <1>5 DEF MayExpand
  <2>2. Len(more0) = 0 /\ Len(inputs0) \in Nat
    BY <1>2
  <2> QED
    BY <2>1, <2>2
<1>7. /\ inputs[1] \in Seq(ToSet(v[level])) \ {<<>>}
      /\ inputs[2] = OverlappingFiles(v, level + 1, GetRange(inputs[1]))
  BY <1>2, <1>4, <1>5, <1>6
<1> HIDE DEF inputs
<1> QED
  BY <1>3, <1>7 DEF ReachesDown, c

(* The compactions that PickCompaction picks, *)
LEMMA PickReaches ==
    ASSUME NEW v, NEW tables, NEW bound, VersionSound(v, tables, bound),
           DOMAIN tables \subseteq Nat, tables \in [DOMAIN tables -> Contents],
           NEW pointers, NEW seek,
           \A s \in seek : s.level \in 0..(kNumLevels - 2) /\ s.file \in ToSet(v[s.level]),
           NEW c \in PickCompaction(v, pointers, seek)
    PROVE  ReachesDown(v, c)
<1>1. PICK level \in 0..(kNumLevels - 2) : \E f \in ToSet(v[level]) : c = CompactionOf(v, level, f)
  BY PickedFile
<1>2. PICK f \in ToSet(v[level]) : c = CompactionOf(v, level, f)
  BY <1>1
<1> DEFINE near == OverlappingFiles(v, level, GetRange(<<f>>))
           chosen == IF level = 0 THEN near ELSE <<f>>
<1>3. IsSeq(v[level]) /\ \A g \in ToSet(v[level]) : MetaSound(g, tables, bound)
  BY VersionsAssumption DEF Levels, VersionSound, FilesSound
<1>4. near \in Seq(ToSet(v[level])) /\ f \in ToSet(near)
  BY <1>3, OverlappingPicked, OverlapsItself
<1>5. near # <<>>
  <2> HIDE DEF near
  <2> QED
    BY <1>4 DEF ToSet
<1>6. c = SetupOtherInputs(v, level, chosen)
  BY <1>2 DEF CompactionOf
<1>7. chosen \in Seq(ToSet(v[level])) \ {<<>>}
  <2>1. <<f>> \in Seq(ToSet(v[level])) \ {<<>>}
    OBVIOUS
  <2> HIDE DEF near
  <2> QED
    BY <1>4, <1>5, <2>1
<1> HIDE DEF chosen
<1> QED
  BY <1>6, <1>7, SetupReaches

(* and those of CompactRange do so. *)
LEMMA RangeReaches ==
    ASSUME NEW v, NEW tables, NEW bound, VersionSound(v, tables, bound),
           NEW level \in 0..(kNumLevels - 2), NEW begin, NEW end,
           NEW c \in CompactRange(v, level, begin, end)
    PROVE  ReachesDown(v, c)
BY RangeChosen, SetupReaches

-----------------------------------------------------------------------------
(* What a compaction writes. *)

Before(A, B) == \A k \in A : \A l \in B : IKLess(k, l)

WorkInOrder(st, K) ==
    /\ st.output \in SUBSET K /\ st.outputs \in Seq(SUBSET K)
    /\ \A a \in 1..Len(st.outputs) : Before(st.outputs[a], st.output)
    /\ \A a \in 1..Len(st.outputs) : \A b \in 1..Len(st.outputs) :
          a < b => Before(st.outputs[a], st.outputs[b])

(* Finishing an output leaves the outputs in order. *)
LEMMA FinishInOrder ==
    ASSUME NEW K, NEW st, WorkInOrder(st, K), NEW next,
           SameOutput(st, next) \/ NextOutput(st, next)
    PROVE  WorkInOrder(next, K)
<1>1. CASE SameOutput(st, next)
  BY <1>1 DEF SameOutput, WorkInOrder
<1>2. CASE NextOutput(st, next)
  <2> DEFINE s == st.outputs
             e == st.output
             t == Append(s, e)
             n == Len(s)
  <2>1. next.output = {} /\ next.outputs = t
    BY <1>2 DEF NextOutput
  <2>2. s \in Seq(SUBSET K) /\ e \in SUBSET K
    BY DEF WorkInOrder
  <2>3. /\ \A a \in 1..n : Before(s[a], e)
        /\ \A a \in 1..n : \A b \in 1..n : a < b => Before(s[a], s[b])
    BY DEF WorkInOrder
  <2> HIDE DEF s, e
  <2>4. /\ t \in Seq(SUBSET K) /\ n \in Nat /\ Len(t) = n + 1
        /\ \A a \in 1..n : t[a] = s[a]
        /\ t[n + 1] = e
    BY <2>2
  <2> HIDE DEF t, n
  <2>5. \A a \in 1..(n + 1) : \A b \in 1..(n + 1) : a < b => Before(t[a], t[b])
    <3> SUFFICES ASSUME NEW a \in 1..(n + 1), NEW b \in 1..(n + 1), a < b PROVE Before(t[a], t[b])
      OBVIOUS
    <3>1. a \in 1..n /\ (b \in 1..n \/ b = n + 1)
      BY <2>4
    <3> QED
      BY <2>3, <2>4, <3>1
  <2> QED
    BY <2>1, <2>4, <2>5 DEF WorkInOrder, Before
<1> QED
  BY <1>1, <1>2

(* So does an entry behind all before it. *)
LEMMA EntryInOrder ==
    ASSUME NEW K, NEW st, WorkInOrder(st, K), NEW key, \A k \in K : IKLess(k, key),
           NEW next, EntryMoves(st, key, next)
    PROVE  WorkInOrder(next, K \cup {key})
<1>1. PICK s, m : /\ SameOutput(st, s) \/ NextOutput(st, s)
                  /\ m.outputs = s.outputs /\ m.output \in {s.output, s.output \cup {key}}
                  /\ SameOutput(m, next) \/ NextOutput(m, next)
  BY DEF EntryMoves
<1>2. WorkInOrder(s, K)
  BY <1>1, FinishInOrder
<1> DEFINE L == K \cup {key}
<1>3. WorkInOrder(m, L)
  <2> DEFINE q == s.outputs
             e == s.output
             n == Len(q)
  <2>1. /\ q \in Seq(SUBSET K) /\ e \in SUBSET K
        /\ \A a \in 1..n : Before(q[a], e)
        /\ \A a \in 1..n : \A b \in 1..n : a < b => Before(q[a], q[b])
    BY <1>2 DEF WorkInOrder
  <2>2. m.outputs = q /\ m.output \in {e, e \cup {key}}
    BY <1>1
  <2> HIDE DEF q, e
  <2>3. n \in Nat /\ (\A a \in 1..n : q[a] \in SUBSET K) /\ q \in Seq(SUBSET L)
    <3>1. n \in Nat /\ \A a \in 1..n : q[a] \in SUBSET K
      BY <2>1
    <3>2. q \in [1..n -> SUBSET L]
      BY <2>1, <3>1
    <3> HIDE DEF L
    <3> QED
      BY <3>1, <3>2, SeqOfLength
  <2>4. \A a \in 1..n : Before(q[a], e \cup {key})
    BY <2>1, <2>3 DEF Before
  <2>5. m.output \in SUBSET L
    BY <2>1, <2>2
  <2>6. \A a \in 1..n : Before(q[a], m.output)
    BY <2>1, <2>2, <2>4
  <2> HIDE DEF L
  <2> QED
    BY <2>1, <2>2, <2>3, <2>5, <2>6 DEF WorkInOrder
<1> HIDE DEF L
<1>4. WorkInOrder(next, L)
  BY <1>1, <1>3, FinishInOrder
<1> QED
  BY <1>4 DEF L

(* The entries of keys in order are compacted into outputs in order. *)
LEMMA WorkDoneInOrder ==
    ASSUME NEW keys \in Seq(Keys), NEW c, NEW oldest,
           \A i \in 1..Len(keys) : \A j \in 1..Len(keys) : i < j => IKLess(keys[i], keys[j])
    PROVE  WorkInOrder(WorkDone(c, oldest, keys), ToSet(keys))
<1> DEFINE n == Len(keys)
           upto(i) == {keys[j] : j \in 1..i}
<1>1. n \in Nat /\ \A i \in 1..n : keys[i] \in Keys
  BY LenProperties
<1>2. IsSeq(keys) /\ ToSet(keys) = upto(n)
  BY SeqOfItsSet DEF IsSeq
<1>3. PICK h : CompactsTo(h, n, keys, c, oldest) /\ h[n] = WorkDone(c, oldest, keys)
  BY <1>2, CompactSteps
<1>8. \A i \in 1..n : \A j \in 1..n : i < j => IKLess(keys[i], keys[j])
  OBVIOUS
<1> HIDE DEF n, upto
<1> DEFINE Q == {i \in 0..n : WorkSound(h[i]) /\ WorkInOrder(h[i], upto(i))}
<1>4. 0 \in Q
  <2>1. WorkSound(WorkStart)
    BY FS_EmptySet DEF WorkSound, WorkStart, KeySets
  <2>2. WorkInOrder(WorkStart, upto(0))
    <3>1. WorkStart.output = {} /\ WorkStart.outputs = <<>>
      BY DEF WorkStart
    <3>2. <<>> \in Seq(SUBSET upto(0)) /\ Len(<<>>) = 0
      OBVIOUS
    <3> QED
      BY <3>1, <3>2 DEF WorkInOrder
  <2> QED
    BY <1>1, <1>3, <2>1, <2>2 DEF CompactsTo
<1>5. \A i \in 1..n : i - 1 \in Q => i \in Q
  <2> SUFFICES ASSUME NEW i \in 1..n, i - 1 \in Q
               PROVE  WorkSound(h[i]) /\ WorkInOrder(h[i], upto(i))
    BY <1>1
  <2>1. h[i] = CompactEntry(c, oldest, h[i - 1], keys[i]) /\ keys[i] \in Keys
    BY <1>1, <1>3 DEF CompactsTo
  <2>2. WorkSound(h[i - 1]) /\ WorkInOrder(h[i - 1], upto(i - 1))
    OBVIOUS
  <2>3. WorkSound(h[i]) /\ EntryMoves(h[i - 1], keys[i], h[i])
    BY <2>1, <2>2, EntryCompacted
  <2>4. \A k \in upto(i - 1) : IKLess(k, keys[i])
    BY <1>1, <1>8 DEF upto
  <2>5. upto(i - 1) \cup {keys[i]} = upto(i)
    <3>1. 1..i = 1..(i - 1) \cup {i}
      BY <1>1
    <3> QED
      BY <3>1 DEF upto
  <2> QED
    BY <2>2, <2>3, <2>4, <2>5, EntryInOrder
<1> HIDE DEF Q
<1>6. \A i \in 0..n : i \in Q
  BY <1>1, <1>4, <1>5, BoundedInduction
<1> QED
  BY <1>1, <1>2, <1>3, <1>6 DEF Q

(* The tables a compaction writes hold entries of its inputs, and each is  *)
(* behind the one written before it.                                       *)
LEMMA OutputsInOrder ==
    ASSUME NEW c, NEW tables, NEW bound, CompactionSound(c, tables, bound),
           tables \in [DOMAIN tables -> Contents], NEW oldest
    PROVE  LET outputs == CompactionOutputs(c, tables, oldest)
           IN /\ outputs \in Seq(SUBSET InputEntries(c, tables))
              /\ \A a \in 1..Len(outputs) : \A b \in 1..Len(outputs) :
                    a < b => Before(outputs[a], outputs[b])
<1> DEFINE all == InputEntries(c, tables)
           keys == InKeyOrder(all)
           done == WorkDone(c, oldest, keys)
<1>1. all \in KeySets
  BY InputEntriesSet
<1>2. /\ keys \in Seq(Keys) /\ ToSet(keys) = all
      /\ \A i \in 1..Len(keys) : \A j \in 1..Len(keys) : i < j => IKLess(keys[i], keys[j])
  <2>1. /\ keys \in Seq(all) /\ ToSet(keys) = all /\ all \subseteq Keys
        /\ \A i \in 1..Len(keys) : \A j \in 1..Len(keys) : i < j => IKLess(keys[i], keys[j])
    BY <1>1, KeysInOrder DEF KeySets
  <2> HIDE DEF all, keys
  <2> QED
    BY <2>1
<1>3. CompactionOutputs(c, tables, oldest) = FinishOutput(done).outputs
  BY DEF CompactionOutputs, WorkDone, WorkStart
<1> HIDE DEF all, keys
<1>4. WorkSound(done) /\ WorkInOrder(done, all)
  BY <1>2, WorkDoneSound, WorkDoneInOrder
<1> HIDE DEF done
<1>5. WorkInOrder(FinishOutput(done), all)
  BY <1>4, OutputFinished, FinishInOrder
<1> QED
  BY <1>3, <1>5 DEF WorkInOrder, all

(* A table of the next level that a compaction leaves lies wholly before   *)
(* or wholly behind the entries it reads: no user key of its own can stand *)
(* between those of two tables that overlap the inputs.                    *)
LEMMA OutsideInputs ==
    ASSUME NEW tables, NEW bound, DOMAIN tables \subseteq Nat,
           tables \in [DOMAIN tables -> Contents],
           NEW c, CompactionSound(c, tables, bound), ReachesDown(c.version, c),
           SortedFiles(c.version[c.level + 1]),
           NEW g \in ToSet(c.version[c.level + 1]), g \notin ToSet(c.inputs[2])
    PROVE  \/ \A k \in InputEntries(c, tables) : IKLess(g.largest, k)
           \/ \A k \in InputEntries(c, tables) : IKLess(k, g.smallest)
<1> DEFINE v == c.version
           low == c.level + 1
           range == GetRange(c.inputs[1])
<1>1. /\ c.level \in Levels /\ low \in Levels /\ low # 0
      /\ VersionSound(v, tables, bound)
  BY VersionsAssumption DEF ReachesDown, CompactionSound, Levels
<1>2. /\ IsSeq(v[low]) /\ \A f \in ToSet(v[low]) : MetaSound(f, tables, bound)
      /\ \A f \in ToSet(v[c.level]) : MetaSound(f, tables, bound)
  BY <1>1 DEF VersionSound, FilesSound
<1>3. /\ IsSeq(c.inputs[1]) /\ c.inputs[1] # <<>> /\ ToSet(c.inputs[1]) \subseteq ToSet(v[c.level])
  BY SeqOfItsSet DEF ReachesDown, CompactionSound
<1>4. /\ range.smallest \in Keys /\ range.largest \in Keys
      /\ \A f \in ToSet(c.inputs[1]) :
            ~IKLess(f.smallest, range.smallest) /\ ~IKLess(range.largest, f.largest)
  BY <1>2, <1>3, RangeBounds
<1>5. c.inputs[2] = OverlappingFiles(v, low, range)
  BY DEF ReachesDown
<1>11. SortedFiles(v[low]) /\ g \in ToSet(v[low])
  OBVIOUS
<1> HIDE DEF range, low
<1>6. /\ ToSet(c.inputs[2]) \subseteq ToSet(v[low])
      /\ \A f \in ToSet(v[low]) :
              f \in ToSet(c.inputs[2])
                <=> /\ range.smallest.user <= f.largest.user
                    /\ f.smallest.user <= range.largest.user
  <2>1. ToSet(c.inputs[2]) \subseteq ToSet(v[low])
    BY <1>2, <1>5, OverlappingPicked, SeqOfItsSet
  <2>2. \A f \in ToSet(v[low]) :
              f \in ToSet(OverlappingFiles(v, low, range))
                <=> /\ range.smallest.user <= f.largest.user
                    /\ f.smallest.user <= range.largest.user
    BY <1>1, <1>2, <1>4, OverlappingBelow
  <2> QED
    BY <1>5, <2>1, <2>2
<1> HIDE DEF v
<1>7. /\ g.smallest \in Keys /\ g.largest \in Keys /\ ~IKLess(g.largest, g.smallest)
  BY <1>2, <1>11, FileBounds
<1>8. \A k \in InputEntries(c, tables) :
         \E f \in ToSet(c.inputs[1]) \cup ToSet(c.inputs[2]) : k \in tables[f.number]
  BY InputEntriesSet
<1>9. CASE g.largest.user < range.smallest.user
  <2>1. ASSUME NEW f \in ToSet(c.inputs[1]) PROVE IKLess(g.largest, f.smallest)
    <3>1. IKLess(g.largest, range.smallest)
      BY <1>4, <1>7, <1>9, UserOrder
    <3>2. f.smallest \in Keys /\ ~IKLess(f.smallest, range.smallest)
      BY <1>2, <1>3, <1>4, FileBounds
    <3> QED
      BY <1>4, <1>7, <3>1, <3>2, KeyChain
  <2>2. ASSUME NEW f \in ToSet(c.inputs[2]) PROVE IKLess(g.largest, f.smallest)
    <3>1. f \in ToSet(v[low]) /\ range.smallest.user <= f.largest.user
      BY <1>6
    <3>2. f # g
      OBVIOUS
    <3>3. f.smallest \in Keys /\ f.largest \in Keys
      BY <1>2, <3>1, FileBounds
    <3>4. ~IKLess(f.largest, g.smallest)
      <4> SUFFICES ASSUME IKLess(f.largest, g.smallest) PROVE FALSE
        OBVIOUS
      <4>1. f.largest.user <= g.smallest.user /\ g.smallest.user <= g.largest.user
        BY <1>7, <3>3, UserOrder
      <4>2. /\ f.largest.user \in Nat /\ g.smallest.user \in Nat /\ g.largest.user \in Nat
            /\ range.smallest.user \in Nat
        BY <1>4, <1>7, <3>3, UserOrder
      <4> QED
        BY <1>9, <3>1, <4>1, <4>2
    <3> QED
      BY <1>2, <1>11, <3>1, <3>2, <3>4, SortedApart DEF LieApart
  <2>3. ASSUME NEW k \in InputEntries(c, tables) PROVE IKLess(g.largest, k)
    <3>1. PICK f \in ToSet(c.inputs[1]) \cup ToSet(c.inputs[2]) : k \in tables[f.number]
      BY <1>8
    <3>2. MetaSound(f, tables, bound)
      BY <1>2, <1>3, <1>6
    <3>3. f.smallest \in Keys /\ k \in Keys /\ ~IKLess(k, f.smallest)
      BY <3>1, <3>2, FileBounds
    <3> QED
      BY <1>7, <2>1, <2>2, <3>3, KeyChain
  <2> QED
    BY <2>3
<1>10. CASE range.largest.user < g.smallest.user
  <2>1. ASSUME NEW f \in ToSet(c.inputs[1]) PROVE IKLess(f.largest, g.smallest)
    <3>1. IKLess(range.largest, g.smallest)
      BY <1>4, <1>7, <1>10, UserOrder
    <3>2. f.largest \in Keys /\ ~IKLess(range.largest, f.largest)
      BY <1>2, <1>3, <1>4, FileBounds
    <3> QED
      BY <1>4, <1>7, <3>1, <3>2, KeyChain
  <2>2. ASSUME NEW f \in ToSet(c.inputs[2]) PROVE IKLess(f.largest, g.smallest)
    <3>1. f \in ToSet(v[low]) /\ f.smallest.user <= range.largest.user
      BY <1>6
    <3>2. f # g
      OBVIOUS
    <3>3. f.smallest \in Keys /\ f.largest \in Keys
      BY <1>2, <3>1, FileBounds
    <3>4. ~IKLess(g.largest, f.smallest)
      <4> SUFFICES ASSUME IKLess(g.largest, f.smallest) PROVE FALSE
        OBVIOUS
      <4>1. g.largest.user <= f.smallest.user /\ g.smallest.user <= g.largest.user
        BY <1>7, <3>3, UserOrder
      <4>2. /\ f.smallest.user \in Nat /\ g.smallest.user \in Nat /\ g.largest.user \in Nat
            /\ range.largest.user \in Nat
        BY <1>4, <1>7, <3>3, UserOrder
      <4> QED
        BY <1>10, <3>1, <4>1, <4>2
    <3> QED
      BY <1>2, <1>11, <3>1, <3>2, <3>4, SortedApart DEF LieApart
  <2>3. ASSUME NEW k \in InputEntries(c, tables) PROVE IKLess(k, g.smallest)
    <3>1. PICK f \in ToSet(c.inputs[1]) \cup ToSet(c.inputs[2]) : k \in tables[f.number]
      BY <1>8
    <3>2. MetaSound(f, tables, bound)
      BY <1>2, <1>3, <1>6
    <3>3. f.largest \in Keys /\ k \in Keys /\ ~IKLess(f.largest, k)
      BY <3>1, <3>2, FileBounds
    <3> QED
      BY <1>7, <2>1, <2>2, <3>3, KeyChain
  <2> QED
    BY <2>3
<1> QED
  <2>1. ~(range.smallest.user <= g.largest.user) \/ ~(g.smallest.user <= range.largest.user)
    BY <1>6, <1>11
  <2>2. /\ g.smallest.user \in Nat /\ g.largest.user \in Nat
        /\ range.smallest.user \in Nat /\ range.largest.user \in Nat
    BY <1>4, <1>7, UserOrder
  <2> QED
    BY <1>9, <1>10, <2>1, <2>2

-----------------------------------------------------------------------------
(* Where a memtable's table goes. *)

(* In a sorted level all files before the one FindFile finds end before    *)
(* the key it looks for.                                                   *)
LEMMA FindFileBefore ==
    ASSUME NEW files, Len(files) \in Nat, SortedFiles(files), NEW key \in Keys,
           \A i \in 1..Len(files) :
              /\ files[i].smallest \in Keys /\ files[i].largest \in Keys
              /\ ~IKLess(files[i].largest, files[i].smallest)
    PROVE  /\ FindFile(files, key) \in 0..Len(files)
           /\ \A i \in 1..FindFile(files, key) : IKLess(files[i].largest, key)
<1> DEFINE n == Len(files)
           start == [left |-> 0, right |-> n]
           ended(m) == \A i \in 1..m : IKLess(files[i].largest, key)
           X == [left : 0..n, right : 0..n]
           G == [p \in (1..n) \X X |-> Halved(files, key, p[2])]
           E(g) == [i \in 0..n |-> IF i = 0 THEN start ELSE Halved(files, key, g[i - 1])]
<1>1. start \in X
  OBVIOUS
<1>2. ASSUME NEW s \in X, ended(s.left), s.left <= s.right
      PROVE  LET t == Halved(files, key, s)
             IN /\ t \in X /\ ended(t.left) /\ t.left <= t.right
                /\ s.left < s.right => t.right - t.left < s.right - s.left
                /\ s.left = s.right => t = s
  <2> DEFINE mid == (s.left + s.right) \div 2
             t == Halved(files, key, s)
  <2>1. s.left < s.right => mid \in 0..n /\ mid + 1 \in 1..n /\ s.left <= mid /\ mid < s.right
    OBVIOUS
  <2>2. s.left \in 0..n /\ s.right \in 0..n
    OBVIOUS
  <2> HIDE DEF mid
  <2>3. CASE s.left >= s.right
    <3>1. t = s
      BY <2>3 DEF Halved
    <3> QED
      BY <1>2, <2>2, <2>3, <3>1
  <2>4. CASE s.left < s.right /\ IKLess(files[mid + 1].largest, key)
    <3>1. t = [s EXCEPT !.left = mid + 1]
      BY <2>4 DEF Halved, mid
    <3> HIDE DEF t
    <3>2. t \in X /\ t.left = mid + 1 /\ t.right = s.right
      BY <2>1, <2>4, <3>1
    <3>3. ended(mid + 1)
      <4> SUFFICES ASSUME NEW i \in 1..(mid + 1) PROVE IKLess(files[i].largest, key)
        OBVIOUS
      <4>1. CASE i = mid + 1
        BY <2>4, <4>1
      <4>2. CASE i # mid + 1
        <5> DEFINE j == mid + 1
        <5>1. i \in 1..n /\ j \in 1..n /\ i < j
          BY <2>1, <2>4, <4>2
        <5>2. IKLess(files[j].largest, key)
          BY <2>4
        <5> HIDE DEF j
        <5>3. IKLess(files[i].largest, files[j].smallest)
          BY <5>1 DEF SortedFiles
        <5>4. IKLess(files[i].largest, files[j].largest)
          BY <5>1, <5>3, KeyChain
        <5> QED
          BY <5>1, <5>2, <5>4, KeyOrder
      <4> QED
        BY <4>1, <4>2
    <3> HIDE DEF ended, X
    <3> QED
      BY <2>1, <2>2, <2>4, <3>2, <3>3 DEF t
  <2>5. CASE s.left < s.right /\ ~IKLess(files[mid + 1].largest, key)
    <3>1. t = [s EXCEPT !.right = mid]
      BY <2>5 DEF Halved, mid
    <3> HIDE DEF t
    <3>2. t \in X /\ t.left = s.left /\ t.right = mid
      BY <2>1, <2>5, <3>1
    <3> HIDE DEF ended, X
    <3> QED
      BY <1>2, <2>1, <2>2, <2>5, <3>2 DEF t
  <2> QED
    BY <2>2, <2>3, <2>4, <2>5
<1>3. \A s \in X : Halved(files, key, s) \in X
  <2> SUFFICES ASSUME NEW s \in X PROVE Halved(files, key, s) \in X
    OBVIOUS
  <2> DEFINE mid == (s.left + s.right) \div 2
  <2>1. s.left < s.right => mid \in 0..n /\ mid + 1 \in 0..n
    OBVIOUS
  <2> HIDE DEF mid
  <2>2. CASE s.left >= s.right
    BY <2>2 DEF Halved
  <2>3. CASE s.left < s.right
    <3>1. [s EXCEPT !.left = mid + 1] \in X /\ [s EXCEPT !.right = mid] \in X
      BY <2>1, <2>3
    <3>2. Halved(files, key, s) \in {[s EXCEPT !.left = mid + 1], [s EXCEPT !.right = mid]}
      BY <2>3 DEF Halved, mid
    <3> QED
      BY <3>1, <3>2
  <2> QED
    BY <2>2, <2>3
<1>4. G \in [(1..n) \X X -> X] /\ \A i \in 1..n : \A s \in X : G[<<i, s>>] = Halved(files, key, s)
  BY <1>3
<1>5. FindFile(files, key) = (CHOOSE g : g = E(g))[n].right
  BY DEF FindFile
<1> HIDE DEF G, start
<1>6. PICK h \in [0..n -> X] : Counts(h, n, start, G)
  <2> HIDE DEF X
  <2> QED
    BY <1>1, <1>4, CountSteps
<1>7. h = E(h)
  <2> HIDE DEF X
  <2>1. \A i \in 1..n : i - 1 \in 0..n /\ h[i - 1] \in X
    OBVIOUS
  <2>2. \A i \in 1..n : h[i] = Halved(files, key, h[i - 1])
    BY <1>4, <1>6, <2>1 DEF Counts
  <2>3. \A i \in 0..n : h[i] = IF i = 0 THEN start ELSE Halved(files, key, h[i - 1])
    BY <1>6, <2>2 DEF Counts
  <2> QED
    BY <1>6, <2>3
<1>8. PICK it : it = E(it) /\ it = (CHOOSE g : g = E(g))
  <2> HIDE DEF E
  <2> QED
    BY <1>7
<1>9. it[0] = start /\ \A i \in 1..n : it[i] = Halved(files, key, it[i - 1])
  BY <1>8
<1> HIDE DEF E
<1> DEFINE Q == {i \in 0..n : /\ it[i] \in X /\ ended(it[i].left) /\ it[i].left <= it[i].right
                              /\ it[i].right - it[i].left <= n - i}
<1>10. 0 \in Q
  <2>1. it[0] \in X /\ it[0].left = 0 /\ it[0].right = n
    BY <1>1, <1>9 DEF start
  <2> QED
    BY <2>1
<1>11. \A i \in 1..n : i - 1 \in Q => i \in Q
  <2> SUFFICES ASSUME NEW i \in 1..n, i - 1 \in Q PROVE i \in Q
    OBVIOUS
  <2> DEFINE s == it[i - 1]
             t == it[i]
  <2>1. s \in X /\ ended(s.left) /\ s.left <= s.right /\ s.right - s.left <= n - (i - 1)
    OBVIOUS
  <2>2. t = Halved(files, key, s)
    BY <1>9
  <2> HIDE DEF s, t, Q, ended
  <2>3. /\ t \in X /\ ended(t.left) /\ t.left <= t.right
        /\ s.left < s.right => t.right - t.left < s.right - s.left
        /\ s.left = s.right => t = s
    BY <1>2, <2>1, <2>2
  <2>4. t.right - t.left <= n - i
    <3>1. s.left \in 0..n /\ s.right \in 0..n /\ t.left \in 0..n /\ t.right \in 0..n
      BY <2>1, <2>3
    <3> QED
      BY <2>1, <2>3, <3>1
  <2> QED
    BY <2>3, <2>4 DEF Q, t
<1> HIDE DEF Q
<1>12. \A i \in 0..n : i \in Q
  BY <1>10, <1>11, BoundedInduction
<1>13. it[n] \in X /\ ended(it[n].left) /\ it[n].left <= it[n].right /\ it[n].right - it[n].left <= n - n
  BY <1>12 DEF Q
<1>14. it[n].left = it[n].right /\ it[n].right \in 0..n
  BY <1>13
<1> QED
  BY <1>5, <1>8, <1>13, <1>14

SortedLevels(v) == \A level \in Levels \ {0} : SortedFiles(v[level])

(* No sequence number is behind the one a search begins with. *)
SeqsBounded(S) == \A k \in S : k.seq <= kMaxSequenceNumber

(* A sorted level that OverlapInLevel finds free of a range is. *)
LEMMA NoOverlap ==
    ASSUME NEW tables, NEW bound, DOMAIN tables \subseteq Nat,
           tables \in [DOMAIN tables -> Contents],
           \A n \in DOMAIN tables : SeqsBounded(tables[n]),
           NEW v, VersionSound(v, tables, bound), SortedLevels(v),
           NEW level \in Levels \ {0}, NEW smallest \in Nat, NEW largest \in Nat,
           ~OverlapInLevel(v, level, {smallest}, {largest})
    PROVE  \A f \in ToSet(v[level]) : f.largest.user < smallest \/ largest < f.smallest.user
<1> DEFINE files == v[level]
           key == LookupKey(smallest, kMaxSequenceNumber)
           index == FindFile(files, key)
<1>1. level > 0 /\ level \in Nat
  BY VersionsAssumption DEF Levels
<1>2. ~(index < Len(files) /\ ~BeforeFile({largest}, files[index + 1]))
  <2>1. (CHOOSE k \in {smallest} : TRUE) = smallest /\ {smallest} # {}
    OBVIOUS
  <2> QED
    BY <1>1, <2>1 DEF OverlapInLevel, SomeFileOverlapsRange
<1>3. key \in Keys /\ key.user = smallest /\ key.seq = kMaxSequenceNumber /\ key.type = 1
  BY MaxSequenceAssumption DEF LookupKey, InternalKey, Keys, kValueTypeForSeek, kTypeValue
<1> HIDE DEF key
<1>4. /\ IsSeq(files) /\ SortedFiles(files) /\ Len(files) \in Nat
      /\ ToSet(files) = {files[i] : i \in 1..Len(files)}
      /\ \A f \in ToSet(files) : MetaSound(f, tables, bound)
  BY SeqOfItsSet, LenProperties DEF VersionSound, FilesSound, SortedLevels, IsSeq
<1> HIDE DEF files
<1>5. \A i \in 1..Len(files) :
         /\ files[i].smallest \in Keys /\ files[i].largest \in Keys
         /\ ~IKLess(files[i].largest, files[i].smallest)
         /\ files[i].largest.seq <= kMaxSequenceNumber
  <2> SUFFICES ASSUME NEW i \in 1..Len(files)
               PROVE  /\ files[i].smallest \in Keys /\ files[i].largest \in Keys
                      /\ ~IKLess(files[i].largest, files[i].smallest)
                      /\ files[i].largest.seq <= kMaxSequenceNumber
    OBVIOUS
  <2> DEFINE f == files[i]
  <2>1. MetaSound(f, tables, bound)
    BY <1>4
  <2> HIDE DEF f
  <2>2. /\ f.smallest \in Keys /\ f.largest \in Keys /\ f.largest \in tables[f.number]
        /\ ~IKLess(f.largest, f.smallest) /\ f.number \in DOMAIN tables
    BY <2>1, FileBounds
  <2> QED
    BY <2>2 DEF SeqsBounded, f
<1>6. index \in 0..Len(files) /\ \A i \in 1..index : IKLess(files[i].largest, key)
  BY <1>3, <1>4, <1>5, FindFileBefore
<1> HIDE DEF index
<1>7. ASSUME NEW i \in 1..Len(files)
      PROVE  files[i].largest.user < smallest \/ largest < files[i].smallest.user
  <2>1. CASE i <= index
    <3>1. i \in 1..index
      BY <2>1
    <3>2. IKLess(files[i].largest, key) /\ files[i].largest \in Keys
          /\ files[i].largest.seq <= kMaxSequenceNumber
      BY <1>5, <1>6, <3>1
    <3>3. files[i].largest.user < smallest
      BY <1>3, <3>2, MaxSequenceAssumption DEF IKLess, Keys, kTypeDeletion, kTypeValue
    <3> QED
      BY <3>3
  <2>2. CASE i > index
    <3> DEFINE j == index + 1
    <3>1. j \in 1..Len(files) /\ index < Len(files) /\ (i = j \/ j < i)
      BY <1>4, <1>6, <2>2
    <3>2. largest < files[j].smallest.user
      BY <1>2, <3>1 DEF BeforeFile
    <3> HIDE DEF j
    <3>3. files[j].smallest.user <= files[i].smallest.user
      <4>1. CASE i = j
        <5>1. files[i].smallest.user \in Nat
          BY <1>5, UserOrder
        <5> QED
          BY <4>1, <5>1
      <4>2. CASE j < i
        <5>1. IKLess(files[j].largest, files[i].smallest)
          BY <1>4, <3>1, <4>2 DEF SortedFiles
        <5>2. IKLess(files[j].smallest, files[i].smallest)
          BY <1>5, <3>1, <5>1, KeyChain
        <5> QED
          BY <1>5, <3>1, <5>2, UserOrder
      <4> QED
        BY <3>1, <4>1, <4>2
    <3>4. files[j].smallest.user \in Nat /\ files[i].smallest.user \in Nat
      BY <1>5, <3>1, UserOrder
    <3> QED
      BY <3>2, <3>3, <3>4
  <2> QED
    BY <1>6, <2>1, <2>2
<1> QED
  BY <1>4, <1>7 DEF files

(* A memtable's table goes to level 0 or to a level where nothing overlaps *)
(* it.                                                                     *)
LEMMA LevelPicked ==
    ASSUME NEW v, NEW smallest, NEW largest,
           NEW level, level = PickLevelForMemTableOutput(v, smallest, largest)
    PROVE  /\ level \in Levels
           /\ level # 0 => ~OverlapInLevel(v, level, {smallest}, {largest})
<1> DEFINE b == {smallest}
           e == {largest}
           mayPass(l) ==
               /\ ~OverlapInLevel(v, l + 1, b, e)
               /\ l + 2 < kNumLevels =>
                     TotalFileSize(GetOverlappingInputs(v, l + 2, b, e))
                         <= MaxGrandParentOverlapBytes
           M == kMaxMemCompactLevel
           Ends == {l \in 0..M : l < M => ~mayPass(l)}
           Fits(l) == /\ \A below \in 0..(l - 1) : mayPass(below)
                      /\ l < M => ~mayPass(l)
<1>1. level = IF OverlapInLevel(v, 0, b, e) THEN 0 ELSE CHOOSE l \in 0..M : Fits(l)
  BY DEF PickLevelForMemTableOutput
<1>2. M \in Nat /\ 0..M \subseteq Levels /\ 0 \in Levels
  BY VersionsAssumption DEF Levels
<1>7. \A l : mayPass(l) => ~OverlapInLevel(v, l + 1, b, e)
  OBVIOUS
<1> HIDE DEF mayPass, b, e
<1>3. PICK l \in Ends : \A m \in Ends : l <= m
  <2>1. Ends \in SUBSET Nat /\ M \in Ends
    BY <1>2
  <2> HIDE DEF Ends
  <2> QED
    BY <2>1, LeastOf
<1>4. l \in 0..M /\ Fits(l)
  <2>1. l \in 0..M /\ (l < M => ~mayPass(l))
    OBVIOUS
  <2>2. ASSUME NEW below \in 0..(l - 1), ~mayPass(below) PROVE FALSE
    <3>1. below \in Ends
      BY <1>2, <2>1, <2>2
    <3>2. l <= below
      BY <1>3, <3>1
    <3> QED
      BY <2>1, <3>2
  <2> QED
    BY <2>1, <2>2
<1> HIDE DEF Ends
<1>5. CASE OverlapInLevel(v, 0, b, e)
  BY <1>1, <1>2, <1>5
<1>6. CASE ~OverlapInLevel(v, 0, b, e)
  <2>1. level \in 0..M /\ Fits(level)
    <3> HIDE DEF Fits
    <3> QED
      BY <1>1, <1>4, <1>6
  <2>2. level # 0 => mayPass(level - 1)
    <3>1. level # 0 => level - 1 \in 0..(level - 1)
      BY <1>2, <2>1
    <3> QED
      BY <2>1, <3>1
  <2>3. level # 0 => ~OverlapInLevel(v, (level - 1) + 1, b, e)
    BY <1>7, <2>2
  <2>4. (level - 1) + 1 = level
    BY <1>2, <2>1
  <2> QED
    BY <1>2, <2>1, <2>3, <2>4 DEF b, e
<1> QED
  BY <1>5, <1>6

-----------------------------------------------------------------------------
(* What a tree becomes. *)

(* The levels below 0 are sorted, and the tables are there and not empty.  *)
TreeSound(v, tables, bound) ==
    /\ bound \in Nat /\ DOMAIN tables \subseteq {n \in Nat : n < bound}
    /\ tables \in [DOMAIN tables -> Contents]
    /\ \A n \in DOMAIN tables : SeqsBounded(tables[n])
    /\ VersionSound(v, tables, bound) /\ SortedLevels(v)

(* The tables that a version still names. *)
TablesOf(v, contents) == [n \in {f.number : f \in FilesOf(v)} |-> contents[n]]

(* The files of a sorted level that SaveTo keeps lie apart from each other,*)
(* so what it saves is sorted when the files it adds lie apart from them   *)
(* and from each other.                                                    *)
LEMMA SavedSorted ==
    ASSUME NEW v, NEW tables, NEW bound, VersionSound(v, tables, bound), SortedLevels(v),
           DOMAIN tables \subseteq Nat, tables \in [DOMAIN tables -> Contents],
           NEW deleted, NEW added, IsFiniteSet(added),
           \A a \in added : MetaSound(a[2], tables, bound),
           \A level \in Levels \ {0} : \A f \in NewIn(added, level) :
              /\ \A g \in NewIn(added, level) : f # g => LieApart(f, g)
              /\ \A g \in ToSet(v[level]) :
                    g.number \notin GoneFrom(deleted, added, level) => f = g \/ LieApart(f, g)
    PROVE  SortedLevels(SaveTo(v, deleted, added))
<1> DEFINE w == SaveTo(v, deleted, added)
<1>1. /\ VersionSound(w, tables, bound)
      /\ \A level \in Levels : ToSet(w[level]) = KeptOf(ToSet(v[level]), deleted, added, level)
  BY SaveToSound
<1>2. w = [level \in Levels |-> InFileOrder(KeptOf(ToSet(v[level]), deleted, added, level))]
  BY DEF SaveTo, KeptOf, GoneFrom, NewIn
<1> HIDE DEF w
<1> SUFFICES ASSUME NEW level \in Levels \ {0} PROVE SortedFiles(w[level])
  BY DEF SortedLevels, w
<1> DEFINE all == KeptOf(ToSet(v[level]), deleted, added, level)
<1>3. w[level] = InFileOrder(all) /\ ToSet(w[level]) = all
  BY <1>1, <1>2
<1>4. ASSUME NEW f \in all, NEW g \in all, f # g PROVE LieApart(f, g)
  <2>1. IsSeq(v[level]) /\ SortedFiles(v[level])
    BY DEF VersionSound, FilesSound, SortedLevels
  <2>2. \A h \in all : \/ h \in NewIn(added, level)
                       \/ h \in ToSet(v[level]) /\ h.number \notin GoneFrom(deleted, added, level)
    BY DEF KeptOf
  <2>3. CASE f \in NewIn(added, level)
    BY <1>4, <2>2, <2>3
  <2>4. CASE g \in NewIn(added, level)
    <3>1. LieApart(g, f)
      BY <1>4, <2>2, <2>4
    <3> QED
      BY <3>1 DEF LieApart
  <2>5. CASE f \in ToSet(v[level]) /\ g \in ToSet(v[level])
    BY <1>4, <2>1, <2>5, SortedApart
  <2> QED
    BY <2>2, <2>3, <2>4, <2>5
<1> HIDE DEF all
<1>5. IsFiniteSet(all) /\ \A f \in all : MetaSound(f, tables, bound)
  BY <1>1, <1>3, SeqOfItsSet DEF VersionSound, FilesSound, IsSeq
<1>6. SortedFiles(InFileOrder(all))
  BY <1>4, <1>5, ApartSorted
<1> QED
  BY <1>3, <1>6

(* So an edit makes a sound tree of a sound one, with the tables that it   *)
(* finds on the disk.                                                      *)
LEMMA SavedTree ==
    ASSUME NEW v, NEW tables, NEW next, TreeSound(v, tables, next),
           NEW contents, NEW bound \in Nat, next <= bound,
           DOMAIN contents \subseteq {n \in Nat : n < bound},
           contents \in [DOMAIN contents -> Contents],
           \A n \in DOMAIN contents : SeqsBounded(contents[n]),
           \A n \in DOMAIN tables : n \in DOMAIN contents /\ contents[n] = tables[n],
           NEW deleted, NEW added, IsFiniteSet(added),
           \A a \in added : MetaSound(a[2], contents, bound),
           \A level \in Levels \ {0} : \A f \in NewIn(added, level) :
              /\ \A g \in NewIn(added, level) : f # g => LieApart(f, g)
              /\ \A g \in ToSet(v[level]) :
                    g.number \notin GoneFrom(deleted, added, level) => f = g \/ LieApart(f, g)
    PROVE  LET w == SaveTo(v, deleted, added) IN TreeSound(w, TablesOf(w, contents), bound)
<1> DEFINE w == SaveTo(v, deleted, added)
           kept == TablesOf(w, contents)
<1>1. /\ VersionSound(v, tables, next) /\ SortedLevels(v) /\ next \in Nat
      /\ DOMAIN tables \subseteq Nat /\ DOMAIN contents \subseteq Nat
  BY DEF TreeSound
<1>2. VersionSound(v, contents, bound)
  BY <1>1, VersionKept
<1>3. VersionSound(w, contents, bound) /\ SortedLevels(w)
  BY <1>1, <1>2, SaveToSound, SavedSorted
<1> HIDE DEF w
<1>4. \A f \in FilesOf(w) : f.number \in DOMAIN contents
  BY <1>3, VersionFiles DEF MetaSound
<1>5. /\ DOMAIN kept \subseteq DOMAIN contents
      /\ \A n \in DOMAIN kept : kept[n] = contents[n]
      /\ \A f \in FilesOf(w) : f.number \in DOMAIN kept
      /\ kept = [n \in DOMAIN kept |-> kept[n]]
  BY <1>4 DEF TablesOf
<1> HIDE DEF kept
<1>6. VersionSound(w, kept, bound)
  BY <1>1, <1>3, <1>5, VersionKept
<1>7. kept \in [DOMAIN kept -> Contents]
  BY <1>5
<1> QED
  BY <1>3, <1>5, <1>6, <1>7 DEF TreeSound, w, kept

(* The first of some files is one of them. *)
LEMMA HeadIn ==
    ASSUME NEW S, NEW s \in Seq(S) \ {<<>>}
    PROVE  Head(s) \in S /\ Head(s) \in ToSet(s)
<1>1. Len(s) \in Nat /\ Len(s) # 0 /\ DOMAIN s = 1..Len(s) /\ Head(s) = s[1]
  BY EmptySeq
<1> QED
  BY <1>1 DEF ToSet

(* A compaction reads every entry of the files it takes. *)
LEMMA EntriesRead ==
    ASSUME NEW c, NEW tables, NEW bound, CompactionSound(c, tables, bound),
           NEW f \in ToSet(c.inputs[1]) \cup ToSet(c.inputs[2])
    PROVE  tables[f.number] \subseteq InputEntries(c, tables)
<1>1. f \in ToSet(InputFiles(c))
  BY InputFilesSet DEF CompactionSound
<1> QED
  BY <1>1 DEF InputEntries, Numbers

(* What CompactMemTable installs: the table of a memtable goes to a level  *)
(* where no file overlaps it.                                              *)
LEMMA MemTree ==
    ASSUME NEW v, NEW tables, NEW next, TreeSound(v, tables, next),
           NEW keys \in Contents, SeqsBounded(keys)
    PROVE  LET file == FileMetaData(next, keys)
               level == PickLevelForMemTableOutput(v, file.smallest.user, file.largest.user)
               w == SaveTo(v, {}, {<<level, file>>})
           IN TreeSound(w, TablesOf(w, With(tables, next, keys)), next + 1)
<1> DEFINE file == FileMetaData(next, keys)
           level == PickLevelForMemTableOutput(v, file.smallest.user, file.largest.user)
           added == {<<level, file>>}
           contents == With(tables, next, keys)
           bound == next + 1
           w == SaveTo(v, {}, added)
<1>1. /\ next \in Nat /\ DOMAIN tables \subseteq {n \in Nat : n < next}
      /\ tables \in [DOMAIN tables -> Contents]
      /\ \A n \in DOMAIN tables : SeqsBounded(tables[n])
      /\ VersionSound(v, tables, next) /\ SortedLevels(v)
  BY DEF TreeSound
<1>2. /\ DOMAIN contents = DOMAIN tables \cup {next} /\ contents[next] = keys
      /\ \A n \in DOMAIN tables : contents[n] = tables[n]
      /\ contents = [n \in DOMAIN contents |-> contents[n]]
  BY <1>1 DEF With
<1>3. file.smallest = SmallestOf(keys) /\ file.largest = LargestOf(keys) /\ file.number = next
  BY DEF FileMetaData
<1> HIDE DEF contents
<1>4. /\ bound \in Nat /\ next <= bound /\ DOMAIN contents \subseteq {n \in Nat : n < bound}
      /\ contents \in [DOMAIN contents -> Contents]
      /\ \A n \in DOMAIN contents : SeqsBounded(contents[n])
  <2>1. \A n \in DOMAIN contents : contents[n] \in Contents /\ SeqsBounded(contents[n])
    BY <1>1, <1>2
  <2>2. \A n \in DOMAIN contents : n \in Nat /\ n < bound
    BY <1>1, <1>2
  <2> QED
    BY <1>1, <1>2, <2>1, <2>2
<1>5. MetaSound(file, contents, bound)
  BY <1>1, <1>2, <1>3 DEF MetaSound
<1> HIDE DEF bound
<1>6. /\ file.smallest \in Keys /\ file.largest \in Keys
      /\ file.smallest.user \in Nat /\ file.largest.user \in Nat
  BY <1>3, SmallestInSet, LargestInSet, UserOrder DEF Contents, KeySets
<1> HIDE DEF file
<1>7. level \in Levels /\ (level # 0 => ~OverlapInLevel(v, level, {file.smallest.user}, {file.largest.user}))
  BY LevelPicked
<1> HIDE DEF level
<1>8. IsFiniteSet(added) /\ \A a \in added : MetaSound(a[2], contents, bound)
  <2>1. IsFiniteSet(added)
    BY FS_Singleton
  <2> QED
    BY <1>5, <2>1
<1>9. ASSUME NEW at \in Levels \ {0}, NEW f \in NewIn(added, at)
      PROVE  /\ \A g \in NewIn(added, at) : f # g => LieApart(f, g)
             /\ \A g \in ToSet(v[at]) :
                   g.number \notin GoneFrom({}, added, at) => f = g \/ LieApart(f, g)
  <2>1. /\ \A g \in NewIn(added, at) : g = file
        /\ f = file /\ at = level
    BY <1>9 DEF NewIn
  <2>2. \A g \in ToSet(v[level]) : g.largest.user < file.smallest.user \/ file.largest.user < g.smallest.user
    <3>1. level \in Levels \ {0} /\ DOMAIN tables \subseteq Nat
      BY <1>1, <2>1
    <3> QED
      BY <1>1, <1>6, <1>7, <2>1, <3>1, NoOverlap
  <2>3. \A g \in ToSet(v[level]) : g.smallest \in Keys /\ g.largest \in Keys
    BY <1>1, <1>7, FileBounds DEF VersionSound, FilesSound
  <2>4. ASSUME NEW g \in ToSet(v[level]) PROVE LieApart(file, g)
    <3>1. IKLess(g.largest, file.smallest) \/ IKLess(file.largest, g.smallest)
      BY <1>6, <2>2, <2>3, UserOrder
    <3> QED
      BY <3>1 DEF LieApart
  <2> QED
    BY <2>1, <2>4
<1> HIDE DEF added
<1>10. LET x == SaveTo(v, {}, added) IN TreeSound(x, TablesOf(x, contents), bound)
  BY <1>2, <1>4, <1>8, <1>9, SavedTree
<1> QED
  BY <1>10 DEF added, level, file, contents, bound

(* What a trivial move installs: the file it moves lies apart from those   *)
(* of the next level, none of which overlaps it.                           *)
LEMMA MoveTree ==
    ASSUME NEW v, NEW tables, NEW next, TreeSound(v, tables, next),
           NEW c, CompactionSound(c, tables, next), ReachesDown(v, c), IsTrivialMove(c)
    PROVE  LET f == Head(c.inputs[1])
               w == SaveTo(v, {<<c.level, f.number>>}, {<<c.level + 1, f>>})
           IN TreeSound(w, TablesOf(w, tables), next)
<1> DEFINE f == Head(c.inputs[1])
           added == {<<c.level + 1, f>>}
           deleted == {<<c.level, f.number>>}
<1>1. /\ next \in Nat /\ DOMAIN tables \subseteq {n \in Nat : n < next} /\ DOMAIN tables \subseteq Nat
      /\ tables \in [DOMAIN tables -> Contents]
      /\ \A n \in DOMAIN tables : SeqsBounded(tables[n])
      /\ VersionSound(v, tables, next) /\ SortedLevels(v)
  BY DEF TreeSound
<1>2. /\ c.version = v /\ c.level \in 0..(kNumLevels - 2)
      /\ c.inputs[1] \in Seq(ToSet(v[c.level])) \ {<<>>}
  BY DEF ReachesDown
<1>3. c.level \in Levels /\ c.level + 1 \in Levels \ {0}
  BY <1>2, VersionsAssumption DEF Levels
<1>4. f \in ToSet(v[c.level]) /\ f \in ToSet(c.inputs[1])
  BY <1>2, HeadIn
<1>5. ToSet(c.inputs[2]) = {}
  BY EmptySeq DEF IsTrivialMove, CompactionSound, IsSeq, ToSet
<1>6. MetaSound(f, tables, next)
  BY <1>1, <1>3, <1>4 DEF VersionSound, FilesSound
<1> HIDE DEF f
<1>7. IsFiniteSet(added) /\ \A a \in added : MetaSound(a[2], tables, next)
  <2>1. IsFiniteSet(added)
    BY FS_Singleton
  <2> QED
    BY <1>6, <2>1
<1>8. ASSUME NEW g \in ToSet(v[c.level + 1]) PROVE LieApart(f, g)
  <2>1. \/ \A k \in InputEntries(c, tables) : IKLess(g.largest, k)
        \/ \A k \in InputEntries(c, tables) : IKLess(k, g.smallest)
    BY <1>1, <1>2, <1>3, <1>5, OutsideInputs DEF SortedLevels
  <2>2. f.smallest \in InputEntries(c, tables) /\ f.largest \in InputEntries(c, tables)
    BY <1>1, <1>4, <1>6, FileBounds, EntriesRead
  <2> QED
    BY <2>1, <2>2 DEF LieApart
<1>9. ASSUME NEW at \in Levels \ {0}, NEW h \in NewIn(added, at)
      PROVE  /\ \A g \in NewIn(added, at) : h # g => LieApart(h, g)
             /\ \A g \in ToSet(v[at]) :
                   g.number \notin GoneFrom(deleted, added, at) => h = g \/ LieApart(h, g)
  <2>1. /\ \A g \in NewIn(added, at) : g = f
        /\ h = f /\ at = c.level + 1
    BY <1>9 DEF NewIn
  <2> QED
    BY <1>8, <2>1
<1> HIDE DEF added, deleted
<1>10. LET w == SaveTo(v, deleted, added) IN TreeSound(w, TablesOf(w, tables), next)
  BY <1>1, <1>7, <1>9, SavedTree
<1> QED
  BY <1>10 DEF added, deleted, f

(* What DoCompactionWork installs: the tables it writes are in order, and  *)
(* they lie apart from the files of the next level that were no inputs.    *)
LEMMA WorkTree ==
    ASSUME NEW v, NEW tables, NEW next, TreeSound(v, tables, next),
           NEW c, CompactionSound(c, tables, next), ReachesDown(v, c), NEW oldest
    PROVE  LET outputs == CompactionOutputs(c, tables, oldest)
               number(i) == next + i - 1
               new == [n \in next..number(Len(outputs)) |-> outputs[n - next + 1]]
               w == SaveTo(v, AddInputDeletions(c),
                           {<<c.level + 1, FileMetaData(number(i), outputs[i])>> : i \in DOMAIN outputs})
           IN /\ next + Len(outputs) \in Nat
              /\ TreeSound(w, TablesOf(w, Over(new, tables)), next + Len(outputs))
<1> DEFINE outputs == CompactionOutputs(c, tables, oldest)
           m == Len(outputs)
           number(i) == next + i - 1
           new == [n \in next..number(m) |-> outputs[n - next + 1]]
           meta(i) == FileMetaData(number(i), outputs[i])
           added == {<<c.level + 1, meta(i)>> : i \in DOMAIN outputs}
           deleted == AddInputDeletions(c)
           contents == Over(new, tables)
           bound == next + m
           low == c.level + 1
           all == InputEntries(c, tables)
<1>1. /\ next \in Nat /\ DOMAIN tables \subseteq {n \in Nat : n < next} /\ DOMAIN tables \subseteq Nat
      /\ tables \in [DOMAIN tables -> Contents]
      /\ \A n \in DOMAIN tables : SeqsBounded(tables[n])
      /\ VersionSound(v, tables, next) /\ SortedLevels(v)
  BY DEF TreeSound
<1>2. c.version = v /\ c.level \in 0..(kNumLevels - 2)
  BY DEF ReachesDown
<1>3. c.level \in Levels /\ low \in Levels \ {0} /\ c.level # low
  BY <1>2, VersionsAssumption DEF Levels
<1>4. /\ outputs \in Seq(Contents) /\ outputs \in Seq(SUBSET all)
      /\ \A a \in 1..m : \A b \in 1..m : a < b => Before(outputs[a], outputs[b])
  BY <1>1, OutputsTyped, OutputsInOrder
<1> HIDE DEF outputs, all
<1>5. m \in Nat /\ DOMAIN outputs = 1..m /\ \A i \in 1..m : outputs[i] \in Contents /\ outputs[i] \subseteq all
  BY <1>4
<1> HIDE DEF m
<1>6. /\ \A i \in 1..m : number(i) \in Nat /\ number(i) >= next /\ number(i) < bound
                         /\ number(i) \in DOMAIN new /\ new[number(i)] = outputs[i]
      /\ \A n \in DOMAIN new : \E i \in 1..m : n = number(i)
      /\ bound \in Nat /\ next <= bound
  <2>1. bound \in Nat /\ next <= bound /\ DOMAIN new = next..(next + m - 1)
    BY <1>1, <1>5
  <2>2. ASSUME NEW i \in 1..m
        PROVE  /\ number(i) \in Nat /\ number(i) >= next /\ number(i) < bound
               /\ number(i) \in DOMAIN new /\ new[number(i)] = outputs[i]
    <3>1. /\ number(i) \in Nat /\ number(i) >= next /\ number(i) < bound
          /\ number(i) \in next..number(m) /\ number(i) - next + 1 = i
      BY <1>1, <1>5
    <3>2. \A n \in next..number(m) : n \in DOMAIN new /\ new[n] = outputs[n - next + 1]
      OBVIOUS
    <3> HIDE DEF new, bound, number
    <3> QED
      BY <3>1, <3>2
  <2>3. ASSUME NEW n \in DOMAIN new PROVE \E i \in 1..m : n = number(i)
    <3>1. n \in next..(next + m - 1)
      BY <2>1
    <3>2. n - next + 1 \in 1..m /\ n = number(n - next + 1)
      BY <1>1, <1>5, <3>1
    <3> QED
      BY <3>2
  <2> HIDE DEF new, number, bound
  <2> QED
    BY <2>1, <2>2, <2>3
<1> HIDE DEF new, number
<1>7. /\ DOMAIN contents = DOMAIN new \cup DOMAIN tables
      /\ \A n \in DOMAIN contents : contents[n] = IF n \in DOMAIN new THEN new[n] ELSE tables[n]
      /\ contents = [n \in DOMAIN contents |-> contents[n]]
  BY DEF Over
<1> HIDE DEF contents, bound
<1>8. \A n \in DOMAIN tables : n \in DOMAIN contents /\ contents[n] = tables[n]
  <2>1. \A n \in DOMAIN tables : n \notin DOMAIN new
    BY <1>1, <1>5, <1>6
  <2> QED
    BY <1>7, <2>1
<1>9. \A i \in 1..m : number(i) \in DOMAIN contents /\ contents[number(i)] = outputs[i]
  BY <1>6, <1>7
<1>10. all \in KeySets /\ SeqsBounded(all)
  <2>1. all \in KeySets /\ \A k \in all : \E f \in ToSet(c.inputs[1]) \cup ToSet(c.inputs[2]) : k \in tables[f.number]
    BY <1>1, InputEntriesSet DEF all
  <2>2. \A f \in ToSet(c.inputs[1]) \cup ToSet(c.inputs[2]) : f.number \in DOMAIN tables
    BY VersionFiles DEF CompactionSound, MetaSound
  <2> QED
    BY <1>1, <2>1, <2>2 DEF SeqsBounded
<1>11. \A i \in 1..m : SeqsBounded(outputs[i])
  BY <1>5, <1>10 DEF SeqsBounded
<1>12. /\ DOMAIN contents \subseteq {n \in Nat : n < bound}
       /\ contents \in [DOMAIN contents -> Contents]
       /\ \A n \in DOMAIN contents : SeqsBounded(contents[n])
  <2>1. \A n \in DOMAIN contents : \/ n \in DOMAIN tables /\ contents[n] = tables[n]
                                   \/ \E i \in 1..m : n = number(i) /\ contents[n] = outputs[i]
    BY <1>6, <1>7, <1>8, <1>9
  <2>2. \A n \in DOMAIN contents : n \in Nat /\ n < bound
    BY <1>1, <1>6, <2>1
  <2>3. \A n \in DOMAIN contents : contents[n] \in Contents /\ SeqsBounded(contents[n])
    BY <1>1, <1>5, <1>11, <2>1
  <2> QED
    BY <1>7, <2>2, <2>3
<1>13. /\ \A i \in 1..m : meta(i).number = number(i) /\ MetaSound(meta(i), contents, bound)
       /\ \A i \in 1..m : meta(i).smallest = SmallestOf(outputs[i]) /\ meta(i).largest = LargestOf(outputs[i])
  BY <1>6, <1>9 DEF MetaSound, FileMetaData
<1>14. \A i \in 1..m : meta(i).smallest \in outputs[i] /\ meta(i).largest \in outputs[i]
  BY <1>5, <1>13, SmallestInSet, LargestInSet
<1> HIDE DEF meta
<1>15. IsFiniteSet(added) /\ \A a \in added : MetaSound(a[2], contents, bound)
  <2>1. added = {<<low, meta(i)>> : i \in 1..m}
    BY <1>5
  <2>2. IsFiniteSet(1..m)
    BY <1>5, FS_Interval
  <2>3. [i \in 1..m |-> <<low, meta(i)>>] \in Surjection(1..m, added)
    BY <2>1 DEF Surjection
  <2>4. IsFiniteSet(added)
    <3> HIDE DEF added, low
    <3> QED
      BY <2>2, <2>3, FS_Surjection
  <2> QED
    BY <1>13, <2>1, <2>4
<1>16. ASSUME NEW i \in 1..m, NEW j \in 1..m, i # j PROVE LieApart(meta(i), meta(j))
  <2>1. i < j \/ j < i
    BY <1>16
  <2>2. CASE i < j
    BY <1>4, <1>14, <2>2 DEF Before, LieApart, m
  <2>3. CASE j < i
    BY <1>4, <1>14, <2>3 DEF Before, LieApart, m
  <2> QED
    BY <2>1, <2>2, <2>3
<1>17. ASSUME NEW i \in 1..m, NEW g \in ToSet(v[low]), g \notin ToSet(c.inputs[2])
       PROVE  LieApart(meta(i), g)
  <2>1. \/ \A k \in all : IKLess(g.largest, k)
        \/ \A k \in all : IKLess(k, g.smallest)
    BY <1>1, <1>2, <1>3, <1>17, OutsideInputs DEF SortedLevels, all
  <2>2. meta(i).smallest \in all /\ meta(i).largest \in all
    BY <1>5, <1>14
  <2> QED
    BY <2>1, <2>2 DEF LieApart
<1>18. ASSUME NEW g \in ToSet(v[low]), g.number \notin GoneFrom(deleted, added, low)
       PROVE  g \notin ToSet(c.inputs[2])
  <2> SUFFICES ASSUME g \in ToSet(c.inputs[2]) PROVE FALSE
    OBVIOUS
  <2>1. <<low, g.number>> \in deleted
    BY DEF AddInputDeletions, Numbers
  <2>2. \A f \in NewIn(added, low) : f.number \in Nat /\ f.number >= next
    BY <1>5, <1>6, <1>13 DEF NewIn
  <2>3. g.number < next /\ g.number \in Nat
    <3>1. MetaSound(g, tables, next)
      BY <1>1, <1>3 DEF VersionSound, FilesSound
    <3> QED
      BY <1>1, <3>1 DEF MetaSound
  <2>4. g.number \notin {f.number : f \in NewIn(added, low)}
    <3> DEFINE added0 == NewIn(added, low)
    <3>1. \A f \in added0 : f.number # g.number
      BY <1>1, <2>2, <2>3
    <3> HIDE DEF added0
    <3>2. g.number \notin {f.number : f \in added0}
      BY <3>1
    <3> QED
      BY <3>2 DEF added0
  <2> QED
    BY <1>18, <2>1, <2>4 DEF GoneFrom
<1>19. ASSUME NEW at \in Levels \ {0}, NEW f \in NewIn(added, at)
       PROVE  /\ \A g \in NewIn(added, at) : f # g => LieApart(f, g)
              /\ \A g \in ToSet(v[at]) :
                    g.number \notin GoneFrom(deleted, added, at) => f = g \/ LieApart(f, g)
  <2>1. at = low /\ \A g \in NewIn(added, at) : \E j \in 1..m : g = meta(j)
    BY <1>5, <1>19 DEF NewIn
  <2>2. PICK i \in 1..m : f = meta(i)
    BY <2>1
  <2>3. ASSUME NEW g \in NewIn(added, at), f # g PROVE LieApart(f, g)
    <3>1. PICK j \in 1..m : g = meta(j)
      BY <2>1
    <3> QED
      BY <1>16, <2>2, <2>3, <3>1
  <2>4. ASSUME NEW g \in ToSet(v[at]), g.number \notin GoneFrom(deleted, added, at) PROVE LieApart(f, g)
    <3> HIDE DEF added, deleted, low
    <3> QED
      BY <1>17, <1>18, <2>1, <2>2, <2>4
  <2> QED
    BY <2>3, <2>4
<1> HIDE DEF added, deleted
<1>20. LET w == SaveTo(v, deleted, added) IN TreeSound(w, TablesOf(w, contents), bound)
  BY <1>1, <1>6, <1>8, <1>12, <1>15, <1>19, SavedTree
<1> QED
  BY <1>6, <1>20 DEF added, deleted, contents, new, number, meta, bound, m, outputs, low
=============================================================================
