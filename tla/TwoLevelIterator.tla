--------------------------- MODULE TwoLevelIterator ---------------------------
(***************************************************************************)
(* leveldb's two-level iterator: an iterator over an index whose values    *)
(* name blocks, and one over the block it stands at, if any.  Which        *)
(* iterators these are, the module that instantiates it says.              *)
(***************************************************************************)
CONSTANTS
    IValid(_), ISeek(_, _), ISeekToFirst(_), ISeekToLast(_), INext(_), IPrev(_), IValue(_),
    DValid(_), DSeek(_, _), DSeekToFirst(_), DSeekToLast(_), DNext(_), DPrev(_), DKey(_),
    BlockFunction(_, _)     \* makes the data iterator of an index value

New(arg, index) == [arg |-> arg, index |-> index, data |-> {}, handle |-> {}]

Data(it) == CHOOSE d \in it.data : TRUE
OnData(it, Op(_)) == [it EXCEPT !.data = {Op(d) : d \in it.data}]

Valid(it) == \E d \in it.data : DValid(d)
Key(it) == DKey(Data(it))

InitDataBlock(it) ==
    IF ~IValid(it.index) THEN [it EXCEPT !.data = {}]
    ELSE LET handle == IValue(it.index)
         IN IF it.data # {} /\ it.handle = {handle} THEN it
            ELSE [it EXCEPT !.data = {BlockFunction(it.arg, handle)}, !.handle = {handle}]

RECURSIVE SkipEmptyDataBlocksForward(_), SkipEmptyDataBlocksBackward(_)
SkipEmptyDataBlocksForward(it) ==
    IF Valid(it) THEN it
    ELSE IF ~IValid(it.index) THEN [it EXCEPT !.data = {}]
    ELSE SkipEmptyDataBlocksForward(
             OnData(InitDataBlock([it EXCEPT !.index = INext(@)]), DSeekToFirst))

SkipEmptyDataBlocksBackward(it) ==
    IF Valid(it) THEN it
    ELSE IF ~IValid(it.index) THEN [it EXCEPT !.data = {}]
    ELSE SkipEmptyDataBlocksBackward(
             OnData(InitDataBlock([it EXCEPT !.index = IPrev(@)]), DSeekToLast))

Seek(it, target) ==
    SkipEmptyDataBlocksForward(
        OnData(InitDataBlock([it EXCEPT !.index = ISeek(@, target)]),
               LAMBDA d : DSeek(d, target)))
SeekToFirst(it) ==
    SkipEmptyDataBlocksForward(
        OnData(InitDataBlock([it EXCEPT !.index = ISeekToFirst(@)]), DSeekToFirst))
SeekToLast(it) ==
    SkipEmptyDataBlocksBackward(
        OnData(InitDataBlock([it EXCEPT !.index = ISeekToLast(@)]), DSeekToLast))
Next(it) == SkipEmptyDataBlocksForward(OnData(it, DNext))
Prev(it) == SkipEmptyDataBlocksBackward(OnData(it, DPrev))
=============================================================================
