------------------------------- MODULE Tables -------------------------------
(***************************************************************************)
(* leveldb's table files: sorted keys in prefix-compressed blocks, an      *)
(* index of separators over the blocks, and a filter that spares reads.    *)
(* An internal key is a sequence of bytes, the last two being its sequence *)
(* number and type; it stands for the value it is stored with, too.        *)
(***************************************************************************)
EXTENDS Integers, Sequences, SequencesExt

CONSTANTS
    MaxByte,            \* 255 in the code
    MaxSequence,        \* kMaxSequenceNumber
    block_size,         \* options.block_size, in bytes
    restart_interval,   \* options.block_restart_interval
    kFilterBase         \* 2048: a filter covers the blocks that begin in as many bytes

ASSUME TablesAssumption ==
    {MaxByte, MaxSequence, block_size, restart_interval, kFilterBase} \subseteq Nat \ {0}

(* The byte order of user keys. *)
RECURSIVE Compare(_, _)
Compare(a, b) ==
    CASE a = <<>> \/ b = <<>> -> Len(a) - Len(b)
      [] OTHER -> IF Head(a) # Head(b) THEN Head(a) - Head(b) ELSE Compare(Tail(a), Tail(b))

ExtractUserKey(key) == SubSeq(key, 1, Len(key) - 2)
Sequence(key) == key[Len(key) - 1]
Type(key) == key[Len(key)]
Internal(user_key, sequence) == user_key \o <<sequence, 1>>

KeyLess(a, b) ==
    LET r == Compare(ExtractUserKey(a), ExtractUserKey(b))
    IN \/ r < 0
       \/ r = 0 /\ Sequence(a) > Sequence(b)
       \/ r = 0 /\ Sequence(a) = Sequence(b) /\ Type(a) > Type(b)

Shared(a, b) == CHOOSE n \in 0..Len(a) :
                    /\ n <= Len(b) /\ SubSeq(a, 1, n) = SubSeq(b, 1, n)
                    /\ n < Len(a) /\ n < Len(b) => a[n + 1] # b[n + 1]

(* FindShortestSeparator and FindShortSuccessor: a short user key between  *)
(* two, or behind one, which the internal comparator only takes if it is   *)
(* shorter than the one it replaces.                                       *)
ShortestSeparator(start, limit) ==
    LET n == Shared(start, limit)
    IN IF n < Len(start) /\ n < Len(limit) /\ start[n + 1] < MaxByte /\ start[n + 1] + 1 < limit[n + 1]
       THEN Append(SubSeq(start, 1, n), start[n + 1] + 1) ELSE start

ShortSuccessor(key) ==
    LET may == {i \in DOMAIN key : key[i] # MaxByte}
        i == CHOOSE n \in may : \A m \in may : n <= m
    IN IF may = {} THEN key ELSE Append(SubSeq(key, 1, i - 1), key[i] + 1)

Shortened(key, user_key) ==
    IF Len(user_key) < Len(key) - 2 /\ Compare(ExtractUserKey(key), user_key) < 0
    THEN Internal(user_key, MaxSequence) ELSE key

FindShortestSeparator(start, limit) ==
    Shortened(start, ShortestSeparator(ExtractUserKey(start), ExtractUserKey(limit)))
FindShortSuccessor(key) == Shortened(key, ShortSuccessor(ExtractUserKey(key)))

-----------------------------------------------------------------------------
(* BlockBuilder.  An entry keeps what its key does not share with the key  *)
(* before it; entries are counted where the code uses offsets.             *)
NewBlock == [entries |-> <<>>, restarts |-> <<1>>, counter |-> 0, last_key |-> <<>>]

AddToBlock(b, interval, key, value) ==
    LET restart == b.counter >= interval
        shared == IF restart THEN 0 ELSE Shared(b.last_key, key)
        entry == [shared |-> shared, delta |-> SubSeq(key, shared + 1, Len(key)), value |-> value]
    IN [entries |-> Append(b.entries, entry),
        restarts |-> IF restart THEN Append(b.restarts, Len(b.entries) + 1) ELSE b.restarts,
        counter |-> (IF restart THEN 0 ELSE b.counter) + 1,
        last_key |-> key]

CurrentSizeEstimate(b) ==
    FoldSeq(LAMBDA e, sum : sum + 3 + Len(e.delta), Len(b.restarts) + 1, b.entries)

(* FilterBlockBuilder: filters[i] holds the user keys of the blocks that   *)
(* begin in the i-th kFilterBase bytes.                                    *)
GenerateFilter(f) == [filters |-> Append(f.filters, f.keys), keys |-> {}]

\* Mutant: at most one filter a block
StartBlockOnce(f, block_offset) ==
    IF block_offset \div kFilterBase > Len(f.filters) THEN GenerateFilter(f) ELSE f

RECURSIVE StartBlock(_, _)
StartBlock(f, block_offset) ==
    IF block_offset \div kFilterBase > Len(f.filters)
    THEN StartBlock(GenerateFilter(f), block_offset) ELSE f

KeyMayMatch(filters, block_offset, key) ==
    LET index == block_offset \div kFilterBase + 1
    IN index \in DOMAIN filters => ExtractUserKey(key) \in filters[index]

(* TableBuilder: Add and Flush; an index entry waits for the next key. *)
NewTable == [blocks |-> <<>>, offsets |-> <<>>, offset |-> 0, data |-> NewBlock,
             index |-> NewBlock, pending |-> FALSE, last_key |-> <<>>,
             filter |-> [filters |-> <<>>, keys |-> {}]]

AddIndexEntry(t, separator) ==
    IF ~t.pending THEN t
    ELSE [t EXCEPT !.index = AddToBlock(@, 1, separator, Len(t.blocks)), !.pending = FALSE]

Flush(t) ==
    IF t.data = NewBlock THEN t
    ELSE LET next == t.offset + CurrentSizeEstimate(t.data)
         IN [t EXCEPT !.blocks = Append(@, t.data), !.offsets = Append(@, t.offset),
                      !.offset = next, !.data = NewBlock, !.pending = TRUE,
                      !.filter = StartBlock(@, next)]

AddToTable(t, key) ==
    LET s == AddIndexEntry(t, FindShortestSeparator(t.last_key, key))
        added == [s EXCEPT !.data = AddToBlock(@, restart_interval, key, 0), !.last_key = key,
                           !.filter.keys = @ \cup {ExtractUserKey(key)}]
    IN IF CurrentSizeEstimate(added.data) >= block_size THEN Flush(added) ELSE added

Finish(t) ==
    LET f == Flush(t)
    IN [AddIndexEntry(f, FindShortSuccessor(f.last_key)) EXCEPT
            !.filter = IF f.filter.keys = {} THEN @ ELSE GenerateFilter(@)]

Table(keys) == Finish(FoldLeft(AddToTable, NewTable, keys))

-----------------------------------------------------------------------------
(* Block::Iter: next is the entry ParseNextKey reads, current the one it   *)
(* read last, behind the last entry when the iterator is not valid.        *)
NewBlockIter(b) == [block |-> b, current |-> Len(b.entries) + 1,
                    restart_index |-> Len(b.restarts) + 1, key |-> <<>>, next |-> 1]

BValid(it) == it.current <= Len(it.block.entries)
BKey(it) == it.key
BValue(it) == it.block.entries[it.current].value

Ended(it) == [it EXCEPT !.current = Len(it.block.entries) + 1,
                        !.restart_index = Len(it.block.restarts) + 1]

SeekToRestartPoint(it, index) ==
    [it EXCEPT !.key = <<>>, !.restart_index = index, !.next = it.block.restarts[index]]

ParseNextKey(it) ==
    LET e == it.block.entries[it.next]
        restarts == it.block.restarts
        passed == {i \in DOMAIN restarts : i >= it.restart_index
                                           /\ (i = it.restart_index \/ restarts[i] < it.next)}
    IN IF it.next > Len(it.block.entries) THEN Ended(it)
       ELSE [it EXCEPT !.current = it.next, !.next = it.next + 1,
                       !.key = SubSeq(it.key, 1, e.shared) \o e.delta,
                       !.restart_index = CHOOSE i \in passed : \A j \in passed : j <= i]

BNext(it) == ParseNextKey(it)
BSeekToFirst(it) == ParseNextKey(SeekToRestartPoint(it, 1))

RECURSIVE ParseUntil(_, _)
ParseUntil(it, limit) ==
    LET on(p) == IF BValid(p) /\ p.next < limit THEN ParseUntil(p, limit) ELSE p
    IN on(ParseNextKey(it))

BSeekToLast(it) ==
    ParseUntil(SeekToRestartPoint(it, Len(it.block.restarts)), Len(it.block.entries) + 1)

BPrev(it) ==
    LET before == {i \in 1..it.restart_index : it.block.restarts[i] < it.current}
        last == CHOOSE i \in before : \A j \in before : j <= i
    IN IF before = {} THEN Ended(it)
       ELSE ParseUntil(SeekToRestartPoint(it, last), it.current)

RECURSIVE RestartBefore(_, _, _, _), ParseTo(_, _)
RestartBefore(b, target, left, right) ==
    IF left >= right THEN left
    ELSE LET mid == (left + right + 1) \div 2
         IN IF KeyLess(b.entries[b.restarts[mid]].delta, target)
            THEN RestartBefore(b, target, mid, right)
            ELSE RestartBefore(b, target, left, mid - 1)

ParseTo(it, target) ==
    LET on(p) == IF BValid(p) /\ KeyLess(p.key, target) THEN ParseTo(p, target) ELSE p
    IN on(ParseNextKey(it))

BSeek(it, target) ==
    ParseTo(SeekToRestartPoint(it, RestartBefore(it.block, target, 1, Len(it.block.restarts))), target)

(* Table::BlockReader and InternalGet. *)
BlockReader(table, handle) == NewBlockIter(table.blocks[handle])

InternalGet(table, key) ==
    LET iiter == BSeek(NewBlockIter(table.index), key)
        block_iter == BSeek(BlockReader(table, BValue(iiter)), key)
    IN IF ~BValid(iiter) THEN {}
       ELSE IF ~KeyMayMatch(table.filter.filters, table.offsets[BValue(iiter)], key) THEN {}
       ELSE IF ~BValid(block_iter) THEN {} ELSE {BKey(block_iter)}
=============================================================================
