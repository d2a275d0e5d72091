------------------------------ MODULE LogFormat ------------------------------
(***************************************************************************)
(* The format of leveldb's logs and manifests (log_writer and log_reader): *)
(* a record is cut into fragments that fit into blocks, and a reader finds *)
(* the records again in a file that was cut off or damaged.  A file is a   *)
(* sequence of cells, of which a header takes kHeaderSize; sizes count     *)
(* cells, and the checksum of a fragment is the fragment.                  *)
(***************************************************************************)
EXTENDS Naturals, Sequences, SequencesExt

CONSTANTS
    kBlockSize,     \* 32768 in the code
    kHeaderSize,    \* 7
    Sizes,          \* bound: the sizes of records
    MaxRecords      \* bound: how many are written

ASSUME LogAssumption ==
    /\ kHeaderSize \in Nat \ {0} /\ kBlockSize \in Nat /\ kBlockSize > kHeaderSize
    /\ Sizes \subseteq Nat /\ MaxRecords \in Nat

VARIABLES
    file,       \* the cells written, and then what is left of them
    starts,     \* history: where each record begins and ends in file
    damage,     \* kind: "none" while it is written, then what happened to it
    reader,     \* the Reader's fields
    records,    \* what ReadRecord has returned
    reported    \* the reporter has heard of a corruption

logVars == <<file, starts, damage, reader, records, reported>>

kZeroType == 0
kFullType == 1
kFirstType == 2
kMiddleType == 3
kLastType == 4
kEof == 5
kBadRecord == 6

Cell(type, length, sum, data) ==
    [type |-> type, length |-> length, sum |-> sum, data |-> data]
Zero == Cell(kZeroType, 0, <<>>, <<>>)
Data(record, i) == Cell(9, 1, <<>>, <<record, i>>)
Fragment(cells) == [i \in DOMAIN cells |-> cells[i].data]

(* The payload of the n-th record. *)
Record(n, size) == [i \in 1..size |-> Data(n, i)]

-----------------------------------------------------------------------------
(* Writer::EmitPhysicalRecord. *)
PhysicalRecord(type, cells) ==
    <<Cell(type, Len(cells), <<type, Fragment(cells)>>, <<>>)>>
        \o [i \in 1..(kHeaderSize - 1) |-> Zero] \o cells

(* Writer::AddRecord: the cells it appends for a record at an offset in    *)
(* the file.  A block never keeps less than a header's room: its trailer   *)
(* is filled.                                                              *)
AddRecord(offset, cells) ==
    LET emit[left \in 0..Len(cells), at \in 0..(offset + (kHeaderSize + 1) * (Len(cells) + kBlockSize))] ==
            LET leftover == kBlockSize - (at % kBlockSize)
                trailer == IF leftover < kHeaderSize THEN leftover ELSE 0
                avail == IF leftover < kHeaderSize THEN kBlockSize - kHeaderSize
                         ELSE leftover - kHeaderSize
                length == IF left < avail THEN left ELSE avail
                done == Len(cells) - left
                begin == at = offset
                end == left = length
                type == CASE begin /\ end -> kFullType
                          [] begin /\ ~end -> kFirstType
                          [] ~begin /\ end -> kLastType
                          [] OTHER -> kMiddleType
                here == [i \in 1..trailer |-> Zero]
                            \o PhysicalRecord(type, SubSeq(cells, done + 1, done + length))
            IN IF end THEN here ELSE here \o emit[left - length, at + Len(here)]
    IN emit[Len(cells), offset]

Write(size) ==
    LET cells == AddRecord(Len(file), Record(Len(starts) + 1, size))
        leftover == kBlockSize - (Len(file) % kBlockSize)
        first == IF leftover < kHeaderSize THEN Len(file) + leftover ELSE Len(file)
    IN /\ damage.kind = "none" /\ Len(starts) < MaxRecords
       /\ file' = file \o cells
       /\ starts' = Append(starts, [first |-> first, size |-> size, end |-> Len(file')])
       /\ UNCHANGED <<damage, reader, records, reported>>

-----------------------------------------------------------------------------
(* What may happen to a file before it is read: it is whole and read from  *)
(* an offset on, it is cut off anywhere, or one cell is not what it was.   *)
NewReader(initial_offset) ==
    LET inBlock == initial_offset % kBlockSize
        skip == initial_offset - inBlock
                    + IF inBlock > kBlockSize - (kHeaderSize - 1) THEN kBlockSize ELSE 0
    IN [initial_offset |-> initial_offset, end_of_buffer_offset |-> skip, buffer |-> <<>>,
        eof |-> FALSE, resyncing |-> initial_offset > 0,
        in_fragmented_record |-> FALSE, scratch |-> <<>>, done |-> FALSE]

Open(kind, at, cells, initial_offset) ==
    /\ damage.kind = "none" /\ damage' = [kind |-> kind, at |-> at]
    /\ file' = cells
    /\ reader' = NewReader(initial_offset)
    /\ UNCHANGED <<starts, records, reported>>

OpenWhole == \E offset \in 0..Len(file) : Open("whole", 0, file, offset)
OpenCut == \E n \in 0..(Len(file) - 1) : Open("cut", n, SubSeq(file, 1, n), 0)

Damaged(cell) ==
    {Zero, [cell EXCEPT !.length = @ + 1], [cell EXCEPT !.length = 0],
     [cell EXCEPT !.type = (@ % kLastType) + 1], [cell EXCEPT !.data = <<0, 0>>]} \ {cell}

OpenDamaged ==
    \E i \in DOMAIN file : \E cell \in Damaged(file[i]) :
        Open("bad", i, [file EXCEPT ![i] = cell], 0)

-----------------------------------------------------------------------------
\* Mutant: only a block that is empty is the end of the file
FilledShort(r) ==
    IF Len(r.buffer) >= kHeaderSize \/ r.eof THEN r
    ELSE LET from == r.end_of_buffer_offset
             end == IF from + kBlockSize <= Len(file) THEN from + kBlockSize ELSE Len(file)
         IN [r EXCEPT !.buffer = SubSeq(file, from + 1, end), !.end_of_buffer_offset = end,
                      !.eof = end = from]

(* Reader::ReadPhysicalRecord: first another block, if what is buffered is *)
(* no header.  Less than a block is the end of the file.                   *)
Filled(r) ==
    IF Len(r.buffer) >= kHeaderSize \/ r.eof THEN r
    ELSE LET from == r.end_of_buffer_offset
             end == IF from + kBlockSize <= Len(file) THEN from + kBlockSize ELSE Len(file)
             block == SubSeq(file, from + 1, end)
         IN [r EXCEPT !.buffer = block, !.end_of_buffer_offset = from + Len(block),
                      !.eof = Len(block) < kBlockSize]

Offset(r) == r.end_of_buffer_offset - Len(r.buffer)
Cleared(r) == [r EXCEPT !.buffer = <<>>]

Returns(r, type, fragment, drop) ==
    [reader |-> r, type |-> type, fragment |-> fragment, drop |-> drop]

ReadPhysicalRecord(r) ==
    LET head == Head(r.buffer)
        size == kHeaderSize + head.length
        fragment == SubSeq(r.buffer, kHeaderSize + 1, size)
        next == [r EXCEPT !.buffer = SubSeq(@, size + 1, Len(@))]
    IN CASE Len(r.buffer) < kHeaderSize -> Returns(Cleared(r), kEof, <<>>, FALSE)
         [] Len(r.buffer) >= kHeaderSize /\ size > Len(r.buffer) ->
                IF r.eof THEN Returns(Cleared(r), kEof, <<>>, FALSE)
                ELSE Returns(Cleared(r), kBadRecord, <<>>, TRUE)
         [] OTHER ->
                CASE head.type = kZeroType /\ head.length = 0 ->
                        Returns(Cleared(r), kBadRecord, <<>>, FALSE)
                  [] head.sum # <<head.type, Fragment(fragment)>>
                        /\ ~(head.type = kZeroType /\ head.length = 0) ->
                        Returns(Cleared(r), kBadRecord, <<>>, TRUE)
                  [] OTHER ->
                        IF Offset(r) < r.initial_offset
                        THEN Returns(next, kBadRecord, <<>>, FALSE)
                        ELSE Returns(next, head.type, Fragment(fragment), FALSE)

(* One turn of ReadRecord's loop: full and last fragments end a record,    *)
(* and a record that lost its beginning or its end is not returned.        *)
ReadFragment ==
    LET p == ReadPhysicalRecord(Filled(reader))
        r == p.reader
        skip == r.resyncing /\ p.type \in {kMiddleType, kLastType}
        s == [r EXCEPT !.resyncing = r.resyncing /\ p.type = kMiddleType]
        whole(payload, bad) ==
            /\ records' = Append(records, payload)
            /\ reader' = [s EXCEPT !.in_fragmented_record = FALSE, !.scratch = <<>>]
            /\ reported' = (reported \/ p.drop \/ bad)
        goOn(in, scratch, bad) ==
            /\ reader' = [s EXCEPT !.in_fragmented_record = in, !.scratch = scratch]
            /\ reported' = (reported \/ p.drop \/ bad)
            /\ UNCHANGED records
        in == r.in_fragmented_record
    IN /\ damage.kind # "none" /\ ~reader.done
       /\ \/ skip /\ goOn(in, r.scratch, FALSE)
          \/ ~skip /\ p.type = kFullType /\ whole(p.fragment, in /\ r.scratch # <<>>)
          \/ ~skip /\ p.type = kFirstType /\ goOn(TRUE, p.fragment, in /\ r.scratch # <<>>)
          \/ ~skip /\ p.type = kMiddleType /\ goOn(in, IF in THEN r.scratch \o p.fragment ELSE <<>>, ~in)
          \/ ~skip /\ p.type = kLastType /\ in /\ whole(r.scratch \o p.fragment, FALSE)
          \/ ~skip /\ p.type = kLastType /\ ~in /\ goOn(FALSE, <<>>, TRUE)
          \/ p.type = kBadRecord /\ goOn(FALSE, <<>>, in)
          \/ /\ p.type = kEof /\ reader' = [s EXCEPT !.done = TRUE]
             /\ reported' = (reported \/ p.drop) /\ UNCHANGED records
       /\ UNCHANGED <<file, starts, damage>>

LogInit ==
    /\ file = <<>> /\ starts = <<>> /\ damage = [kind |-> "none", at |-> 0]
    /\ reader = NewReader(0) /\ records = <<>> /\ reported = FALSE

LogNext ==
    \/ \E size \in Sizes : Write(size)
    \/ OpenWhole \/ OpenCut \/ OpenDamaged
    \/ ReadFragment

-----------------------------------------------------------------------------
Payload(n) == Fragment(Record(n, starts[n].size))
Payloads(Chosen(_)) ==
    LET ns == SelectSeq([n \in DOMAIN starts |-> n], Chosen)
    IN [i \in DOMAIN ns |-> Payload(ns[i])]

(* A file that was not touched gives back the records that begin at the    *)
(* offset asked for or behind it, each as it was; read from the start it   *)
(* is not called corrupt.                                                  *)
WholeReadsBack ==
    damage.kind = "whole" =>
        /\ records = Payloads(LAMBDA n : starts[n].first >= reader.initial_offset)
        /\ reported => reader.initial_offset > 0

(* A file cut off anywhere, as a crash leaves a log, gives back the        *)
(* records it holds in full, and the cut does not count as a corruption.   *)
CutReadsPrefix ==
    damage.kind = "cut" => records = Payloads(LAMBDA n : starts[n].end <= Len(file)) /\ ~reported

(* Whatever cell went bad, no record is made up or out of order, and only  *)
(* those that reach into its block are lost.                               *)
DamageStaysInBlock ==
    damage.kind = "bad" =>
        LET block == ((damage.at - 1) \div kBlockSize) * kBlockSize
            spared == {n \in DOMAIN starts : \/ starts[n].end <= block
                                             \/ starts[n].first >= block + kBlockSize}
        IN \E lost \in SUBSET (DOMAIN starts \ spared) :
               records = Payloads(LAMBDA n : n \notin lost)

LogReadsBack ==
    damage.kind # "none" /\ reader.done => WholeReadsBack /\ CutReadsPrefix /\ DamageStaysInBlock
=============================================================================
