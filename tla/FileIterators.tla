--------------------------- MODULE FileIterators ---------------------------
(***************************************************************************)
(* Reading leveldb's files: the iterator over a table, through its index   *)
(* block, and the one over the files of a level, through its tables.  The  *)
(* state is one of them, and the place in the sorted keys it stands at.    *)
(***************************************************************************)
EXTENDS Tables

CONSTANT
    Stores      \* the contents: [mem, level0, level] of sorted sequences of internal keys

VARIABLES
    files,      \* the tables of the level, and what they hold
    fileIter    \* the iterator
filesVars == <<files, fileIter>>

(* Table::NewIterator: the index block over the data blocks. *)
TableIt == INSTANCE TwoLevelIterator WITH
    IValid <- BValid, ISeek <- BSeek, ISeekToFirst <- BSeekToFirst, ISeekToLast <- BSeekToLast,
    INext <- BNext, IPrev <- BPrev, IValue <- BValue,
    DValid <- BValid, DSeek <- BSeek, DSeekToFirst <- BSeekToFirst, DSeekToLast <- BSeekToLast,
    DNext <- BNext, DPrev <- BPrev, DKey <- BKey, BlockFunction <- BlockReader
NewTableIterator(table) == TableIt!New(table, NewBlockIter(table.index))

TSeek(i, target) == TableIt!Seek(i, target)
TSeekToFirst(i) == TableIt!SeekToFirst(i)
TSeekToLast(i) == TableIt!SeekToLast(i)
TNext(i) == TableIt!Next(i)
TPrev(i) == TableIt!Prev(i)
TValid(i) == TableIt!Valid(i)
TKey(i) == TableIt!Key(i)
GetFileIterator(tables, n) == NewTableIterator(tables[n])

(* LevelFileNumIterator: a place in the files, each known by its largest key. *)
FValid(c) == c.index <= Len(c.keys)
FValue(c) == c.index
FSeek(c, target) ==
    [c EXCEPT !.index = CHOOSE i \in 1..Len(c.keys) + 1 :
                            /\ \A j \in 1..i - 1 : KeyLess(c.keys[j], target)
                            /\ i <= Len(c.keys) => ~KeyLess(c.keys[i], target)]
FSeekToFirst(c) == [c EXCEPT !.index = 1]
FSeekToLast(c) == [c EXCEPT !.index = Len(c.keys)]
FNext(c) == [c EXCEPT !.index = @ + 1]
FPrev(c) == [c EXCEPT !.index = IF @ = 1 THEN Len(c.keys) + 1 ELSE @ - 1]

(* NewConcatenatingIterator: the files of a level over their tables. *)
LevelIt == INSTANCE TwoLevelIterator WITH
    IValid <- FValid, ISeek <- FSeek, ISeekToFirst <- FSeekToFirst, ISeekToLast <- FSeekToLast,
    INext <- FNext, IPrev <- FPrev, IValue <- FValue,
    DValid <- TValid, DSeek <- TSeek, DSeekToFirst <- TSeekToFirst, DSeekToLast <- TSeekToLast,
    DNext <- TNext, DPrev <- TPrev, DKey <- TKey, BlockFunction <- GetFileIterator
NewConcatenatingIterator(tables) ==
    LevelIt!New(tables, [keys |-> [n \in DOMAIN tables |-> tables[n].last_key],
                         index |-> Len(tables) + 1])

-----------------------------------------------------------------------------
(* Whoever reads: the iterator moves, and so does the place, 0 for none.   *)
UserKeys(keys) == {ExtractUserKey(keys[i]) : i \in DOMAIN keys}
FilesInit ==
    \E store \in Stores, kind \in {"table", "level"} :
        LET runs == IF kind = "table" THEN SelectSeq(store.level0, LAMBDA t : t = store.level0[1]) ELSE store.level
        IN /\ runs # <<>>
           /\ files = [runs |-> runs, tables |-> [n \in DOMAIN runs |-> Table(runs[n])],
                       keys |-> FlattenSeq(runs)]
           /\ fileIter = [kind |-> kind, at |-> 0,
                        it |-> IF kind = "table" THEN NewTableIterator(files.tables[1])
                               ELSE NewConcatenatingIterator(files.tables)]

Moves(TableOp(_), LevelOp(_), place) ==
    /\ fileIter' = [fileIter EXCEPT !.it = IF fileIter.kind = "table" THEN TableOp(@) ELSE LevelOp(@),
                                !.at = place]
    /\ UNCHANGED files
FileSeekToFirst == Moves(TSeekToFirst, LevelIt!SeekToFirst, 1)
FileSeekToLast == Moves(TSeekToLast, LevelIt!SeekToLast, Len(files.keys))
FileSeek ==
    \E user \in UserKeys(files.keys) \cup {<<>>, <<4>>}, sequence \in 1..MaxSequence :
        LET target == Internal(user, sequence)
            reached == {i \in DOMAIN files.keys : ~KeyLess(files.keys[i], target)}
        IN Moves(LAMBDA i : TSeek(i, target), LAMBDA i : LevelIt!Seek(i, target),
                 IF reached = {} THEN 0 ELSE CHOOSE i \in reached : \A j \in reached : i <= j)
FileNext ==
    fileIter.at # 0 /\ Moves(TNext, LevelIt!Next, IF fileIter.at = Len(files.keys) THEN 0 ELSE fileIter.at + 1)
FilePrev == fileIter.at # 0 /\ Moves(TPrev, LevelIt!Prev, fileIter.at - 1)

FilesNext == FileSeekToFirst \/ FileSeekToLast \/ FileSeek \/ FileNext \/ FilePrev

(* However it was moved there, an iterator over files stands at a place in *)
(* the sorted keys of the files: of empty blocks, of the edges between     *)
(* blocks and files and of the compression of keys nothing shows.          *)
FilesAgree ==
    IF fileIter.kind = "table"
    THEN /\ TValid(fileIter.it) = (fileIter.at # 0)
         /\ TValid(fileIter.it) => TKey(fileIter.it) = files.keys[fileIter.at]
    ELSE /\ LevelIt!Valid(fileIter.it) = (fileIter.at # 0)
         /\ LevelIt!Valid(fileIter.it) => LevelIt!Key(fileIter.it) = files.keys[fileIter.at]

(* A read of one table finds the entry of the key that is newest under the *)
(* sequence number it asks for: neither the shortened keys of the index    *)
(* nor the filter nor the shared prefixes hide it.                         *)
TableGets ==
    \A n \in DOMAIN files.runs, user \in UserKeys(files.keys), sequence \in 1..MaxSequence :
        LET held == {k \in ToSet(files.runs[n]) : ExtractUserKey(k) = user /\ Sequence(k) <= sequence}
        IN {k \in InternalGet(files.tables[n], Internal(user, sequence)) : ExtractUserKey(k) = user}
               = {k \in held : \A o \in held : Sequence(o) <= Sequence(k)}

(* The two together: what tables hold is what is read from them.           *)
TablesSound == FilesAgree /\ TableGets
=============================================================================
