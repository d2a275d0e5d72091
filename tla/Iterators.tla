------------------------------ MODULE Iterators ------------------------------
(***************************************************************************)
(* Reading leveldb: the iterator NewIterator returns merges the memtable,  *)
(* the tables of level 0 and the levels below, and shows of every user key *)
(* the newest entry its sequence number lets it see, in both directions.   *)
(* The state is one such iterator over fixed contents, and the place a     *)
(* reader believes it to be at.                                            *)
(***************************************************************************)
EXTENDS FileIterators

VARIABLES
    contents,   \* what is stored, as tables
    it,         \* the DBIter
    at          \* the entry the reader expects, counted from 1; 0 for none
ivars == <<contents, it, at>>

(* A child of the merging iterator, whatever it is, stands at a place in a *)
(* sorted array: MemTableIterator does; that the iterators over files do,  *)
(* FileIterators shows.  The place of one that is not valid does not count. *)
NewCursor(keys) == [keys |-> keys, index |-> Len(keys) + 1]
Valid(c) == c.index <= Len(c.keys)
Key(c) == c.keys[c.index]
Seek(c, target) ==
    [c EXCEPT !.index = CHOOSE i \in 1..Len(c.keys) + 1 :
                            /\ \A j \in 1..i - 1 : KeyLess(c.keys[j], target)
                            /\ i <= Len(c.keys) => ~KeyLess(c.keys[i], target)]
SeekToFirst(c) == [c EXCEPT !.index = 1]
SeekToLast(c) == [c EXCEPT !.index = IF c.keys = <<>> THEN 1 ELSE Len(c.keys)]
Next(c) == [c EXCEPT !.index = @ + 1]
Prev(c) == [c EXCEPT !.index = IF @ = 1 THEN Len(c.keys) + 1 ELSE @ - 1]

(* MergingIterator: current is the child it stands on, 0 if none is valid. *)
NewMergingIterator(children) == [children |-> children, current |-> 0, forward |-> TRUE]

Current(m) == m.children[m.current]
MKey(m) == Key(Current(m))
MValid(m) == m.current # 0

FindSmallest(m) ==
    LET valid == {i \in DOMAIN m.children : Valid(m.children[i])}
    IN [m EXCEPT !.current =
            IF valid = {} THEN 0
            ELSE CHOOSE i \in valid : \A j \in valid : ~KeyLess(Key(m.children[j]), Key(m.children[i]))]
FindLargest(m) ==
    LET valid == {i \in DOMAIN m.children : Valid(m.children[i])}
    IN [m EXCEPT !.current =
            IF valid = {} THEN 0
            ELSE CHOOSE i \in valid : \A j \in valid : ~KeyLess(Key(m.children[i]), Key(m.children[j]))]

All(m, Op(_)) == [m EXCEPT !.children = [i \in DOMAIN @ |-> Op(@[i])]]
Others(m, Op(_)) == [m EXCEPT !.children = [i \in DOMAIN @ |-> IF i = m.current THEN @[i] ELSE Op(@[i])]]
Advance(m, Op(_)) == [m EXCEPT !.children[m.current] = Op(@)]

MSeekToFirst(m) == [FindSmallest(All(m, SeekToFirst)) EXCEPT !.forward = TRUE]
MSeekToLast(m) == [FindLargest(All(m, SeekToLast)) EXCEPT !.forward = FALSE]
MSeek(m, target) == [FindSmallest(All(m, LAMBDA c : Seek(c, target))) EXCEPT !.forward = TRUE]

After(c, key) ==
    LET past(s) == IF Valid(s) /\ Key(s) = key THEN Next(s) ELSE s IN past(Seek(c, key))
Before(c, key) ==
    LET short(s) == IF Valid(s) THEN Prev(s) ELSE SeekToLast(s) IN short(Seek(c, key))

\* Mutant: after a Prev the other children are left where they are
MNextUnturned(m) == FindSmallest(Advance([m EXCEPT !.forward = TRUE], Next))

MNext(m) ==
    LET turned == IF m.forward THEN m
                  ELSE [Others(m, LAMBDA c : After(c, MKey(m))) EXCEPT !.forward = TRUE]
    IN FindSmallest(Advance(turned, Next))
MPrev(m) ==
    LET turned == IF ~m.forward THEN m
                  ELSE [Others(m, LAMBDA c : Before(c, MKey(m))) EXCEPT !.forward = FALSE]
    IN FindLargest(Advance(turned, Prev))

(* NewInternalIterator and AddIterators. *)
NewInternalIterator(c) ==
    NewMergingIterator(<<NewCursor(c.mem)>> \o [n \in DOMAIN c.level0 |-> NewCursor(c.level0[n])]
        \o IF c.level = <<>> THEN <<>> ELSE <<NewCursor(FlattenSeq(c.level))>>)

-----------------------------------------------------------------------------
(* DBIter.  Going backwards the iterator below stands before the entries   *)
(* of the current key, which is kept in saved_key with its value.          *)
NewDBIterator(iter, sequence) ==
    [iter |-> iter, sequence |-> sequence, forward |-> TRUE, valid |-> FALSE,
     saved_key |-> <<>>, saved_value |-> <<>>]

Visible(d) == Sequence(MKey(d.iter)) <= d.sequence
User(d) == ExtractUserKey(MKey(d.iter))
IsDeletion(d) == Type(MKey(d.iter)) = 0

Invalid(d) == [d EXCEPT !.valid = FALSE, !.saved_key = <<>>]
Below(d, Op(_)) == [d EXCEPT !.iter = Op(@)]

RECURSIVE FindNextUserEntry(_, _)
FindNextUserEntry(d, skip) ==
    LET hidden == \E key \in skip : Compare(User(d), key) <= 0
        skips == IF Visible(d) /\ IsDeletion(d) THEN {User(d)} ELSE skip
        on(step) == IF MValid(step.iter) THEN FindNextUserEntry(step, skips) ELSE Invalid(step)
    IN IF Visible(d) /\ ~IsDeletion(d) /\ ~hidden
       THEN [d EXCEPT !.valid = TRUE, !.saved_key = <<>>]
       ELSE on(Below(d, MNext))

Turned(d) == [Below(d, LAMBDA m : IF MValid(m) THEN MNext(m) ELSE MSeekToFirst(m)) EXCEPT !.forward = TRUE]
DNext(d) ==
    LET from(t, skip) == IF MValid(t.iter) THEN FindNextUserEntry(t, skip) ELSE Invalid(t)
    IN from(IF d.forward THEN d ELSE Turned(d), {IF d.forward THEN User(d) ELSE d.saved_key})

RECURSIVE FindPrevUserEntry(_, _), BeforeKey(_)
FindPrevUserEntry(d, deletion) ==
    IF ~MValid(d.iter) \/ (Visible(d) /\ ~deletion /\ Compare(User(d), d.saved_key) < 0)
    THEN IF deletion THEN [Invalid(d) EXCEPT !.forward = TRUE] ELSE [d EXCEPT !.valid = TRUE]
    ELSE LET key == IF ~Visible(d) THEN d.saved_key ELSE IF IsDeletion(d) THEN <<>> ELSE User(d)
             value == IF Visible(d) /\ ~IsDeletion(d) THEN MKey(d.iter) ELSE d.saved_value
         IN FindPrevUserEntry([Below(d, MPrev) EXCEPT !.saved_key = key, !.saved_value = value],
                              IF Visible(d) THEN IsDeletion(d) ELSE deletion)

BeforeKey(d) ==
    LET on(step) == IF ~MValid(step.iter) THEN Invalid(step)
                    ELSE IF Compare(User(step), d.saved_key) < 0
                         THEN FindPrevUserEntry([step EXCEPT !.forward = FALSE], TRUE)
                         ELSE BeforeKey(step)
    IN on(Below(d, MPrev))

DPrev(d) == IF d.forward THEN BeforeKey([d EXCEPT !.saved_key = User(d)]) ELSE FindPrevUserEntry(d, TRUE)

Found(d) == IF MValid(d.iter) THEN FindNextUserEntry(d, {}) ELSE [d EXCEPT !.valid = FALSE]
DSeek(d, user) ==
    Found([Below(d, LAMBDA m : MSeek(m, Internal(user, d.sequence))) EXCEPT !.forward = TRUE])
DSeekToFirst(d) == Found([Below(d, MSeekToFirst) EXCEPT !.forward = TRUE])
DSeekToLast(d) == FindPrevUserEntry([Below(d, MSeekToLast) EXCEPT !.forward = FALSE], TRUE)

DValue(d) == IF d.forward THEN MKey(d.iter) ELSE d.saved_value
DKey(d) == IF d.forward THEN ExtractUserKey(MKey(d.iter)) ELSE d.saved_key

-----------------------------------------------------------------------------
(* What a reader may see: the newest entry of every user key that is no    *)
(* newer than the snapshot, unless it is a deletion, in the keys' order.   *)
Elements(s) == {s[i] : i \in DOMAIN s}
Entries(store) ==
    Elements(store.mem) \cup UNION {Elements(t) : t \in Elements(store.level0) \cup Elements(store.level)}

Newest(keys, user, sequence) ==
    {k \in keys : /\ ExtractUserKey(k) = user /\ Sequence(k) <= sequence
                  /\ \A o \in keys : ExtractUserKey(o) = user /\ Sequence(o) <= sequence
                                        => Sequence(o) <= Sequence(k)}
Users(keys) == {ExtractUserKey(k) : k \in keys}
Shown(keys, sequence) ==
    SetToSortSeq({k \in keys : k \in Newest(keys, ExtractUserKey(k), sequence) /\ Type(k) = 1}, KeyLess)

shown == Shown(contents.keys, it.sequence)

IteratorInit ==
    \E store \in Stores, sequence \in 1..MaxSequence :
        /\ contents = [keys |-> Entries(store), mem |-> store.mem,
                       level0 |-> store.level0, level |-> store.level]
        /\ it = NewDBIterator(NewInternalIterator(contents), sequence)
        /\ at = 0

IterSeekToFirst == it' = DSeekToFirst(it) /\ at' = (IF shown = <<>> THEN 0 ELSE 1)
IterSeekToLast == it' = DSeekToLast(it) /\ at' = Len(shown)
IterSeek ==
    \E user \in Users(contents.keys) \cup {<<>>} :
        /\ it' = DSeek(it, user)
        /\ LET behind == {i \in DOMAIN shown : Compare(ExtractUserKey(shown[i]), user) >= 0}
           IN at' = IF behind = {} THEN 0 ELSE CHOOSE i \in behind : \A j \in behind : i <= j
IterNext == it.valid /\ it' = DNext(it) /\ at' = (IF at = Len(shown) THEN 0 ELSE at + 1)
IterPrev == it.valid /\ it' = DPrev(it) /\ at' = at - 1

IteratorNext ==
    /\ IterSeekToFirst \/ IterSeekToLast \/ IterSeek \/ IterNext \/ IterPrev
    /\ UNCHANGED contents

(* However a reader moves about, and wherever an entry is stored, an       *)
(* iterator shows the newest visible entries, every one once, in order.    *)
IteratorAgrees ==
    /\ it.valid = (at # 0)
    /\ it.valid => DValue(it) = shown[at] /\ DKey(it) = ExtractUserKey(shown[at])
=============================================================================
