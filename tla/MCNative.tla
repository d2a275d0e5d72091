------------------------------ MODULE MCNative ------------------------------
(***************************************************************************)
(* The parts of the native libraries that stand on their own, one of them  *)
(* at a time: the log format, a reading iterator, the skip list, the cache *)
(* of tables, the four machines of the environment, and nanopb.            *)
(***************************************************************************)
EXTENDS LogFormat, Iterators, SkipList, TableCache, PosixEnv, Protobuf, TLC

VARIABLE machine    \* which one runs; the others keep a state of no interest

OffLog == LogInit
OffIterators ==
    /\ contents = [keys |-> {}] /\ it = [valid |-> FALSE] /\ at = 0
OffFiles ==
    /\ files = [runs |-> <<>>, tables |-> <<>>, keys |-> <<>>]
    /\ fileIter = [kind |-> "table", it |-> TableIt!New(<<>>, NewBlockIter(NewBlock)), at |-> 0]
OffTableCache == TableCacheInit /\ tables.capacity = 0
OffProtobuf == pb = [phase |-> "off", out |-> OutBuffer(0), heap |-> EmptyHeap]
OffEnv == WorkInit /\ ReadableInit /\ (WritableInit /\ ~manifest) /\ LockInit

MCInit ==
    \/ machine = "log" /\ LogInit /\ OffIterators /\ OffFiles /\ SkipInit /\ OffTableCache /\ OffEnv /\ OffProtobuf
    \/ machine = "iterators" /\ IteratorInit /\ OffFiles /\ OffLog /\ SkipInit /\ OffTableCache /\ OffEnv /\ OffProtobuf
    \/ machine = "files" /\ FilesInit /\ OffLog /\ OffIterators /\ SkipInit /\ OffTableCache /\ OffEnv /\ OffProtobuf
    \/ machine = "skiplist" /\ SkipInit /\ OffLog /\ OffIterators /\ OffFiles /\ OffTableCache /\ OffEnv /\ OffProtobuf
    \/ machine = "tablecache" /\ TableCacheInit /\ OffLog /\ OffIterators /\ OffFiles /\ SkipInit /\ OffEnv /\ OffProtobuf
    \/ machine = "protobuf" /\ ProtobufInit /\ OffLog /\ OffIterators /\ OffFiles /\ SkipInit /\ OffTableCache /\ OffEnv
    \/ /\ \/ machine = "writable" /\ WritableInit
          \/ machine \in {"work", "readable", "lock"} /\ WritableInit /\ ~manifest
       /\ WorkInit /\ ReadableInit /\ LockInit
       /\ OffLog /\ OffIterators /\ OffFiles /\ SkipInit /\ OffTableCache /\ OffProtobuf

AllBut(name) ==
    /\ name # "log" => UNCHANGED logVars
    /\ name # "iterators" => UNCHANGED ivars
    /\ name # "files" => UNCHANGED filesVars
    /\ name # "skiplist" => UNCHANGED skipVars
    /\ name # "tablecache" => UNCHANGED tableVars
    /\ name # "protobuf" => UNCHANGED protobufVars
    /\ name # "work" => UNCHANGED workVars
    /\ name # "readable" => UNCHANGED readableVars
    /\ name # "writable" => UNCHANGED writableVars
    /\ name # "lock" => UNCHANGED lockVars
    /\ machine = name /\ UNCHANGED machine

MCNext ==
    \/ AllBut("log") /\ LogNext
    \/ AllBut("iterators") /\ IteratorNext
    \/ AllBut("files") /\ FilesNext
    \/ AllBut("skiplist") /\ SkipStep
    \/ AllBut("tablecache") /\ TableCacheNext
    \/ AllBut("protobuf") /\ ProtobufNext
    \/ AllBut("work") /\ WorkNext
    \/ AllBut("readable") /\ ReadableNext
    \/ AllBut("writable") /\ WritableNext
    \/ AllBut("lock") /\ LockNext

MCLimits == [mmap |-> 1, fd |-> 1]

-----------------------------------------------------------------------------
(* Contents for the iterators: keys that are prefixes of one another,      *)
(* deletions, two tables below level 0, any of the layers missing.         *)
Sorted(s) == [i \in 1..Cardinality(s) |-> CHOOSE k \in s : Cardinality({o \in s : KeyLess(o, k)}) = i - 1]
K(u, s, t) == u \o <<s, t>>
Old == {K(<<1>>, 1, 1), K(<<1, 1>>, 1, 1), K(<<1, 1>>, 2, 0), K(<<1, 3>>, 2, 0), K(<<3>>, 2, 1)}
Mid == {K(<<1>>, 3, 1), K(<<1, 1>>, 3, 0), K(<<3>>, 3, 0), K(<<3>>, 4, 1)}
Recent == {K(<<1>>, 5, 0), K(<<1, 1>>, 5, 1)}
SplitAt(s, u) == <<SelectSeq(s, LAMBDA k : Compare(ExtractUserKey(k), u) < 0),
                   SelectSeq(s, LAMBDA k : Compare(ExtractUserKey(k), u) >= 0)>>
NonEmpty(ts) == SelectSeq(ts, LAMBDA t : t # <<>>)
Layers == {<<m, t, o>> \in {{}, Recent} \X {{}, Mid, Mid \ {K(<<3>>, 4, 1)}, Recent \cup Mid} \X {{}, Old, Old \cup Mid} :
              m \cap t = {} /\ t \cap o = {}}
MCStores ==
    {[mem |-> Sorted(l[1]), level0 |-> NonEmpty(<<Sorted(l[2])>>), level |-> NonEmpty(SplitAt(Sorted(l[3]), u))] :
        l \in Layers, u \in {<<>>, <<1, 1>>, <<1, 3>>}}

-----------------------------------------------------------------------------
(* Schemas: fields in the struct; one with less room; allocated fields; a  *)
(* reader that knows less; a fixed-count array; and a oneof with members   *)
(* of both kinds.  In plain framing a second message sets a oneof again,   *)
(* to another member or to another value of the same one.                  *)
F(tag, htype, ltype, atype) ==
    [tag |-> tag, group |-> tag, htype |-> htype, ltype |-> ltype, atype |-> atype, sized |-> TRUE,
     array_size |-> 2, data_size |-> 4, fields |-> <<>>]
Sub(f, fields) == [f EXCEPT !.fields = fields]
OneOf(f, group) == [f EXCEPT !.group = group]
Unsized(f) == [f EXCEPT !.sized = FALSE]

Inner == <<F(1, "required", "uvarint", "static"), F(2, "optional", "string", "pointer")>>
InnerOld == <<F(2, "optional", "string", "pointer")>>
Small == (1 :> <<1>>) @@ (2 :> <<<<5>>>>)
Large == (1 :> <<200>>) @@ (2 :> <<>>)

InStruct ==
    <<F(1, "required", "varint", "static"), F(2, "repeated", "uvarint", "static"),
      F(3, "optional", "string", "static"), Sub(F(4, "optional", "submessage", "static"), Inner),
      Unsized(F(5, "optional", "svarint", "static")),
      OneOf(F(6, "oneof", "fixed32", "static"), 6), OneOf(F(7, "oneof", "string", "static"), 6),
      OneOf(Sub(F(8, "oneof", "submessage", "static"), Inner), 6)>>
Narrow == [[InStruct EXCEPT ![1].data_size = 1] EXCEPT ![3].data_size = 2]
Least == [g \in 1..6 |-> IF g = 1 THEN <<-1>> ELSE <<>>]
Most == [g \in 1..6 |-> CASE g = 1 -> <<300>> [] g = 2 -> <<7>> [] g = 3 -> <<<<1, 2>>>>
                          [] g = 4 -> <<Small>> [] g = 5 -> <<-3>> [] g = 6 -> <<<<7, <<9>>>>>>]
InStructMessages ==
    {Least, Most, [Most EXCEPT ![2] = <<7, 130>>], [Most EXCEPT ![6] = <<<<6, 300>>>>, ![3] = <<>>],
     [Least EXCEPT ![4] = <<Large>>]}
    \cup {[Least EXCEPT ![6] = <<v>>] : v \in {<<6, 5>>, <<7, <<8, 8>>>>, <<8, Small>>, <<8, Large>>}}

Allocated ==
    <<Sub(F(1, "repeated", "submessage", "pointer"), Inner), F(2, "repeated", "string", "pointer"),
      Sub(F(3, "optional", "submessage", "pointer"), Inner), F(4, "repeated", "uvarint", "pointer"),
      OneOf(F(5, "oneof", "string", "pointer"), 5), OneOf(Sub(F(6, "oneof", "submessage", "pointer"), Inner), 5)>>
Knowing == <<Sub(F(1, "repeated", "submessage", "pointer"), InnerOld),
             F(4, "repeated", "uvarint", "static"), Unsized(F(9, "repeated", "uvarint", "static"))>>
NoFields == [g \in 1..5 |-> <<>>]
AllFields == [g \in 1..5 |-> CASE g = 1 -> <<Small, Large>> [] g = 2 -> <<<<1>>, <<>>>> [] g = 3 -> <<Small>>
                               [] g = 4 -> <<1, 130>> [] g = 5 -> <<<<6, Small>>>>]
AllocatedMessages ==
    {[NoFields EXCEPT ![1] = <<Small>>], [NoFields EXCEPT ![4] = <<9>>], AllFields, [NoFields EXCEPT ![3] = <<Large>>]}
    \cup {[NoFields EXCEPT ![5] = <<v>>] : v \in {<<5, <<3>>>>, <<5, <<4, 4>>>>, <<6, Large>>}}

Fixed == <<Unsized(F(1, "repeated", "varint", "static")),
           Sub(F(2, "repeated", "submessage", "static"), Inner), F(3, "optional", "fixed64", "static"),
           F(4, "optional", "bool", "static")>>
FixedMessages ==
    {[g \in 1..4 |-> CASE g = 1 -> <<1, 2>> [] g = 2 -> i [] g = 3 -> <<4>> [] g = 4 -> <<1>>] :
        i \in {<<>>, <<Small>>}}

Mixed == <<OneOf(F(1, "oneof", "uvarint", "static"), 1), OneOf(F(2, "oneof", "string", "pointer"), 1),
           OneOf(Sub(F(3, "oneof", "submessage", "pointer"), Inner), 1)>>
MixedMessages == {(1 :> <<v>>) : v \in {<<1, 0>>, <<1, 5>>, <<2, <<3>>>>, <<3, Small>>, <<3, Large>>}}

MCSchemas ==
    <<[writer |-> InStruct, reader |-> InStruct, messages |-> InStructMessages],
      [writer |-> InStruct, reader |-> Narrow, messages |-> InStructMessages],
      [writer |-> Allocated, reader |-> Allocated, messages |-> AllocatedMessages],
      [writer |-> Allocated, reader |-> Knowing, messages |-> AllocatedMessages],
      [writer |-> Fixed, reader |-> Fixed, messages |-> FixedMessages],
      [writer |-> Mixed, reader |-> Mixed, messages |-> MixedMessages]>>
=============================================================================
