------------------------------ MODULE Protobuf ------------------------------
(***************************************************************************)
(* nanopb, the protocol-buffer library of the app's pods: pb_encode and    *)
(* pb_decode with fields in the struct or allocated (PB_ENABLE_MALLOC).    *)
(* A writer sends messages over a byte stream that may be cut off; the     *)
(* reader may know fewer fields than the writer.  Not modelled: callback   *)
(* fields and extensions (no schema here has them).                        *)
(*                                                                         *)
(* A field descriptor: tag; group (its own tag, or for the members of a    *)
(* oneof the first one's); htype; ltype; atype; sized (the struct has a    *)
(* has_, count or which_); array_size; data_size; fields of a submessage.  *)
(* A struct maps each group to its slot: has (has_, count or which_), the  *)
(* block allocated for it and the items stored.                            *)
(***************************************************************************)
EXTENDS Integers, Sequences, SequencesExt, FiniteSets

CONSTANTS
    Schemas,        \* bound: a sequence of records: descriptors of writer and reader, messages
    MaxMessages     \* bound: messages sent over one stream

ASSUME ProtobufAssumption == MaxMessages \in Nat

VARIABLE pb
protobufVars == <<pb>>

Submessage(f) == f.ltype = "submessage"
Pointer(f) == f.atype = "pointer"
Packable(f) == f.ltype \notin {"string", "submessage"}
FixedSize(f) == IF f.ltype = "fixed32" THEN 4 ELSE 8
Groups(fields) == {fields[i].group : i \in DOMAIN fields}

-----------------------------------------------------------------------------
(* Output streams: pb_ostream_t.  A sizing stream only counts.             *)
Sizing == [sizing |-> TRUE, bytes |-> <<>>, written |-> 0, max |-> 0, ok |-> TRUE]
OutBuffer(size) == [Sizing EXCEPT !.sizing = FALSE, !.max = size]

pb_write_size(out, n) == [out EXCEPT !.written = @ + n]
pb_write(out, bytes) ==
    IF Len(bytes) > 0 /\ ~out.sizing /\ out.written + Len(bytes) > out.max
    THEN [out EXCEPT !.ok = FALSE]
    ELSE [pb_write_size(out, Len(bytes)) EXCEPT !.bytes = IF out.sizing THEN @ ELSE @ \o bytes]

(* Groups of seven bits, the lowest first; a negative number takes all the *)
(* ten groups of its 64 bits.                                              *)
RECURSIVE VarintFrom(_, _)
VarintFrom(value, n) ==
    IF value \in 0..127 THEN <<value>>
    ELSE IF n = 10 THEN <<1>>
    ELSE <<128 + (value % 128)>> \o VarintFrom(value \div 128, n + 1)
pb_encode_varint(out, value) == pb_write(out, VarintFrom(value, 1))
ZigZag(value) == IF value < 0 THEN -(2 * value) - 1 ELSE 2 * value

WireType(f) ==
    CASE f.ltype \in {"bool", "varint", "uvarint", "svarint"} -> 0
      [] f.ltype = "fixed64" -> 1
      [] f.ltype = "fixed32" -> 5
      [] OTHER -> 2
pb_encode_tag(out, wire, tag) == pb_encode_varint(out, (8 * tag) + wire)
pb_encode_tag_for_field(out, f) == pb_encode_tag(out, WireType(f), f.tag)

EncodeFixed(out, f, value) ==
    pb_write(out, [i \in 1..FixedSize(f) |-> IF i > 4 THEN 0 ELSE (value \div (256 ^ (i - 1))) % 256])
pb_encode_string(out, text) ==
    LET sized == pb_encode_varint(out, Len(text))
    IN IF sized.ok THEN pb_write(sized, text) ELSE sized

RECURSIVE pb_encode(_, _, _), EncodeField(_, _, _), EncodeItems(_, _, _), pb_encode_submessage(_, _, _)

EncodeValue(out, f, value) ==
    CASE f.ltype = "bool" -> pb_encode_varint(out, IF value = 0 THEN 0 ELSE 1)
      [] f.ltype \in {"varint", "uvarint"} -> pb_encode_varint(out, value)
      [] f.ltype = "svarint" -> pb_encode_varint(out, ZigZag(value))
      [] f.ltype \in {"fixed32", "fixed64"} -> EncodeFixed(out, f, value)
      [] f.ltype = "string" -> pb_encode_string(out, value.text)
      [] OTHER -> pb_encode_submessage(out, f.fields, value)

(* The size first; then a substream that has room for that size only.      *)
pb_encode_submessage(out, fields, struct) ==
    LET closed(o, size, sub) == [o EXCEPT !.bytes = sub.bytes, !.written = @ + sub.written,
                                          !.ok = sub.ok /\ sub.written = size]
        sized(o, size) ==
            IF ~o.ok THEN o
            ELSE IF o.sizing THEN pb_write_size(o, size)
            ELSE IF o.written + size > o.max THEN [o EXCEPT !.ok = FALSE]
            ELSE closed(o, size, pb_encode([OutBuffer(size) EXCEPT !.bytes = o.bytes], fields, struct))
        framed(size) == sized(pb_encode_varint(out, size), size)
    IN framed(pb_encode(Sizing, fields, struct).written)

Encodable(out, f, value) == IF out.ok THEN EncodeValue(out, f, value) ELSE out
EncodeItems(out, f, items) == FoldLeft(LAMBDA o, v : Encodable(o, f, v), out, items)
Tagged(out, f, items) ==
    FoldLeft(LAMBDA o, v : IF o.ok THEN Encodable(pb_encode_tag_for_field(o, f), f, v) ELSE o, out, items)

encode_array(out, f, items) ==
    LET size == IF f.ltype \in {"fixed32", "fixed64"} THEN FixedSize(f) * Len(items)
                ELSE EncodeItems(Sizing, f, items).written
        packed(o, n) == IF o.ok /\ o.sizing THEN pb_write_size(o, n) ELSE EncodeItems(o, f, items)
        sized(o, n) == IF o.ok THEN packed(pb_encode_varint(o, n), n) ELSE o
    IN IF items = <<>> THEN out
       ELSE IF ~Pointer(f) /\ Len(items) > f.array_size THEN [out EXCEPT !.ok = FALSE]
       ELSE IF ~Packable(f) THEN Tagged(out, f, items)
       ELSE sized(pb_encode_tag(out, 2, f.tag), size)

(* pb_check_proto3_default_value, for the fields that are used without a   *)
(* has_: numbers and strings.                                              *)
DefaultValue(f, value) == IF f.ltype = "string" THEN value.text = <<>> ELSE value = 0

EncodeField(out, f, slot) ==
    LET has == IF Pointer(f) THEN slot.items # <<>>
               ELSE IF f.sized THEN slot.has # 0
               ELSE ~DefaultValue(f, slot.items[1])
        basic == CASE f.htype = "optional" -> has [] f.htype = "oneof" -> slot.has = f.tag [] OTHER -> TRUE
    IN IF f.htype = "repeated"
       THEN encode_array(out, f, SubSeq(slot.items, 1, IF f.sized THEN slot.has ELSE f.array_size))
       ELSE IF f.htype = "required" /\ slot.items = <<>> THEN [out EXCEPT !.ok = FALSE]
       ELSE IF basic THEN Tagged(out, f, slot.items) ELSE out

pb_encode(out, fields, struct) ==
    FoldLeft(LAMBDA o, f : IF o.ok THEN EncodeField(o, f, struct[f.group]) ELSE o, out, fields)

-----------------------------------------------------------------------------
(* The heap: blocks are numbered, live ones can be freed, once.  Freeing   *)
(* or reallocating anything else is undefined: bad.  The members of a      *)
(* oneof share their memory: NoBlock is what a pointer member finds there  *)
(* when a member kept in the struct has left its bytes.                    *)
NoBlock == -1
EmptyHeap == [made |-> 0, live |-> {}, bad |-> FALSE]
Allocate(heap, block) ==
    IF block = 0 THEN [made |-> heap.made + 1, live |-> heap.live \cup {heap.made + 1}, bad |-> heap.bad]
    ELSE [heap EXCEPT !.bad = @ \/ block \notin heap.live]
Block(heap, block) == IF block = 0 THEN heap.made + 1 ELSE block
pb_free(heap, block) ==
    IF block = 0 THEN heap
    ELSE [heap EXCEPT !.live = @ \ {block}, !.bad = @ \/ block \notin heap.live]

Null == [block |-> 0, text |-> <<>>]
RECURSIVE pb_message_set_to_defaults(_)
DefaultItem(f) ==
    CASE f.ltype = "submessage" -> pb_message_set_to_defaults(f.fields)
      [] f.ltype = "string" -> Null
      [] OTHER -> 0
pb_field_set_to_default(f) ==
    [has |-> 0, block |-> 0,
     items |-> IF Pointer(f) \/ f.htype \in {"repeated", "oneof"} THEN <<>> ELSE <<DefaultItem(f)>>]
pb_message_set_to_defaults(fields) ==
    [g \in Groups(fields) |-> pb_field_set_to_default(CHOOSE f \in {fields[i] : i \in DOMAIN fields} : f.tag = g)]

(* What a release returns: the struct and the heap.                        *)
RECURSIVE pb_release(_, _, _)
pb_release_single_field(f, struct, heap) ==
    LET slot == struct[f.group]
        count == IF Pointer(f) /\ f.htype # "repeated" THEN Len(slot.items)
                 ELSE IF f.htype # "repeated" THEN 1
                 ELSE IF f.sized THEN slot.has ELSE f.array_size
        items == SubSeq(slot.items, 1, IF count < Len(slot.items) THEN count ELSE Len(slot.items))
        added(x, r) == [heap |-> r.heap, items |-> Append(x.items, r.struct)]
        none == [heap |-> heap, items |-> <<>>]
        inner == CASE Submessage(f) ->
                        FoldLeft(LAMBDA x, v : added(x, pb_release(f.fields, v, x.heap)), none, items)
                   [] Pointer(f) /\ f.ltype = "string" ->
                        FoldLeft(LAMBDA x, v : [x EXCEPT !.heap = pb_free(@, v.block)], none, items)
                   [] OTHER -> none
        released(x) ==
            IF Pointer(f)
            THEN [struct |-> [struct EXCEPT ![f.group] =
                                [has |-> IF f.htype = "repeated" THEN 0 ELSE slot.has, block |-> 0, items |-> <<>>]],
                  heap |-> pb_free(x.heap, slot.block)]
            ELSE [struct |-> IF Submessage(f) THEN [struct EXCEPT ![f.group].items = x.items] ELSE struct,
                  heap |-> x.heap]
    IN IF f.htype = "oneof" /\ slot.has # f.tag THEN [struct |-> struct, heap |-> heap] ELSE released(inner)
pb_release(fields, struct, heap) ==
    FoldLeft(LAMBDA x, f : pb_release_single_field(f, x.struct, x.heap),
             [struct |-> struct, heap |-> heap], fields)

-----------------------------------------------------------------------------
(* Input streams: pb_istream_t, and what is read from one.                 *)
InStream(bytes) == [src |-> bytes, pos |-> 0, left |-> Len(bytes), ok |-> TRUE]
InError(in) == [in EXCEPT !.ok = FALSE]
pb_read(in, n) ==
    IF n < 0 \/ in.left < n THEN InError(in) ELSE [in EXCEPT !.pos = @ + n, !.left = @ - n]
Taken(in, n) == SubSeq(in.src, in.pos + 1, in.pos + n)

pb_decode_varint(in) ==
    LET ends == {n \in 1..in.left : in.src[in.pos + n] < 128}
        length == CHOOSE n \in ends : \A m \in ends : n <= m
        bytes == Taken(in, length)
        value[i \in 1..length] ==
            IF i = 10 THEN -(bytes[i] % 2)
            ELSE (bytes[i] % 128) + (IF i = length THEN 0 ELSE 128 * value[i + 1])
    IN IF ends = {} \/ length > 10 THEN [in |-> InError(in), value |-> 0]
       ELSE [in |-> pb_read(in, length), value |-> value[1]]

pb_skip_field(in, wire) ==
    LET varint == pb_decode_varint(in)
    IN CASE wire = 0 -> varint.in
         [] wire = 1 -> pb_read(in, 8)
         [] wire = 2 -> IF varint.in.ok THEN pb_read(varint.in, varint.value) ELSE varint.in
         [] wire = 5 -> pb_read(in, 4)
         [] OTHER -> InError(in)

(* The parent of a substream skips it whole, however much was read of it.  *)
pb_make_string_substream(in) ==
    LET size == pb_decode_varint(in)
    IN IF ~size.in.ok \/ size.value \notin 0..size.in.left THEN InError(in)
       ELSE [size.in EXCEPT !.left = size.value]
pb_close_string_substream(in, sub) ==
    LET size == pb_decode_varint(in)
    IN [in EXCEPT !.pos = sub.pos + sub.left, !.left = size.in.left - size.value, !.ok = sub.ok]

-----------------------------------------------------------------------------
(* Decoding.  d: the stream, the struct and the heap.                      *)
Failed(d) == [d EXCEPT !.in = InError(@)]
Released(d, r) == [d EXCEPT !.m = r.struct, !.heap = r.heap]
InRange(f, value) ==
    CASE f.data_size >= 4 -> f.ltype # "uvarint" \/ value >= 0
      [] f.ltype = "uvarint" -> value \in 0..((256 ^ f.data_size) - 1)
      [] OTHER -> value \in (-((256 ^ f.data_size) \div 2))..(((256 ^ f.data_size) \div 2) - 1)

pb_dec_string(in, f, old, heap) ==
    LET size == pb_decode_varint(in)
        read == pb_read(size.in, size.value)
        text == IF read.ok THEN Taken(size.in, size.value) ELSE <<>>
    IN IF ~size.in.ok THEN [in |-> size.in, value |-> old, heap |-> heap]
       ELSE IF Pointer(f)
       THEN [in |-> read, value |-> [block |-> Block(heap, old.block), text |-> text],
             heap |-> Allocate(heap, old.block)]
       ELSE IF size.value + 1 > f.data_size THEN [in |-> InError(in), value |-> old, heap |-> heap]
       ELSE [in |-> read, value |-> [block |-> 0, text |-> text], heap |-> heap]

RECURSIVE DecodeFields(_, _, _, _), PackedItems(_, _), DecodeItem(_, _, _), pb_decode_noinit(_, _, _, _)
pb_decode_noinit(in, fields, struct, heap) ==
    DecodeFields([in |-> in, m |-> struct, heap |-> heap], fields, {}, 0)
pb_decode(in, fields, heap) ==
    LET decoded(d) == IF d.in.ok THEN d ELSE Released(d, pb_release(fields, d.m, d.heap))
    IN decoded(pb_decode_noinit(in, fields, pb_message_set_to_defaults(fields), heap))

DecodeWithin(sub, f, old, heap) ==
    IF ~sub.ok THEN [in |-> sub, m |-> old, heap |-> heap]
    ELSE IF f.htype = "repeated" THEN pb_decode(sub, f.fields, heap)
    ELSE pb_decode_noinit(sub, f.fields, old, heap)
pb_dec_submessage(in, f, old, heap) ==
    LET closed(sub, d) == [in |-> IF sub.ok THEN pb_close_string_substream(in, d.in) ELSE sub,
                           value |-> d.m, heap |-> d.heap]
        sub == pb_make_string_substream(in)
    IN closed(sub, DecodeWithin(sub, f, old, heap))

DecodeValue(in, f, old, heap) ==
    LET varint == pb_decode_varint(in)
        number == IF f.ltype = "svarint"
                  THEN IF varint.value % 2 = 1 THEN -(varint.value \div 2) - 1 ELSE varint.value \div 2
                  ELSE varint.value
        fixed == pb_read(in, FixedSize(f))
        bytes == Taken(in, 4)
    IN CASE Submessage(f) -> pb_dec_submessage(in, f, old, heap)
         [] f.ltype = "string" -> pb_dec_string(in, f, old, heap)
         [] f.ltype \in {"fixed32", "fixed64"} ->
              [in |-> fixed, heap |-> heap,
               value |-> IF ~fixed.ok THEN old
                         ELSE bytes[1] + (256 * bytes[2]) + (65536 * bytes[3]) + (16777216 * bytes[4])]
         [] f.ltype = "bool" ->
              [in |-> varint.in, value |-> IF varint.value = 0 THEN 0 ELSE 1, heap |-> heap]
         [] OTHER -> [in |-> IF InRange(f, number) THEN varint.in ELSE InError(varint.in),
                      value |-> number, heap |-> heap]

DecodeItem(d, f, i) ==
    LET items == d.m[f.group].items
        stored(r) == [in |-> r.in, heap |-> r.heap,
                      m |-> [d.m EXCEPT ![f.group].items =
                                IF i <= Len(@) THEN [@ EXCEPT ![i] = r.value] ELSE Append(@, r.value)]]
    IN stored(DecodeValue(d.in, f, IF i <= Len(items) THEN items[i] ELSE DefaultItem(f), d.heap))

(* allocate_field for the field itself: room for one item more.            *)
allocate_field(d, f) ==
    LET block == d.m[f.group].block
    IN [d EXCEPT !.m[f.group].block = Block(d.heap, block), !.heap = Allocate(@, block)]

SetHas(d, f, has) == [d EXCEPT !.m[f.group].has = has]
PackedItems(d, f) ==
    LET has == d.m[f.group].has
        on(item) == IF item.in.ok THEN PackedItems(SetHas(item, f, has + 1), f) ELSE item
    IN IF d.in.left = 0 \/ (~Pointer(f) /\ has >= f.array_size) THEN d
       ELSE on(DecodeItem(IF Pointer(f) THEN allocate_field(d, f) ELSE d, f, has + 1))

DecodeRepeated(d, wire, f) ==
    LET has == d.m[f.group].has
        sub == pb_make_string_substream(d.in)
        closed(packed) == IF ~Pointer(f) /\ packed.in.left # 0 THEN Failed(packed)
                          ELSE [packed EXCEPT !.in = pb_close_string_substream(d.in, @)]
    IN IF wire = 2 /\ Packable(f)
       THEN IF ~sub.ok THEN Failed(d) ELSE closed(PackedItems([d EXCEPT !.in = sub], f))
       ELSE IF ~Pointer(f) /\ has >= f.array_size THEN Failed(SetHas(d, f, has + 1))
       ELSE DecodeItem(SetHas(IF Pointer(f) THEN allocate_field(d, f) ELSE d, f, has + 1), f, has + 1)

decode_static_field(d, wire, f) ==
    LET chosen == [has |-> f.tag, block |-> 0, items |-> <<DefaultItem(f)>>]
        ready == CASE f.htype = "optional" /\ f.sized -> SetHas(d, f, 1)
                   [] f.htype = "oneof" -> [d EXCEPT !.m[f.group] = chosen]
                   [] OTHER -> d
        kept(x) == IF f.htype # "oneof" \/ x.m[f.group].items = chosen.items THEN x
                   ELSE [x EXCEPT !.m[f.group].block = NoBlock]
    IN IF f.htype = "repeated" THEN DecodeRepeated(d, wire, f) ELSE kept(DecodeItem(ready, f, 1))

decode_pointer_field(d, wire, f) ==
    LET fresh == IF Submessage(f) /\ d.m[f.group].items # <<>>
                 THEN Released(d, pb_release_single_field(f, d.m, d.heap)) ELSE d
        found == [Null EXCEPT !.block = d.m[f.group].block]
        chosen(x) == IF f.htype = "oneof" THEN SetHas(x, f, f.tag) ELSE x
        room(x) == IF f.ltype # "string"
                   THEN [allocate_field(x, f) EXCEPT !.m[f.group].items = <<DefaultItem(f)>>]
                   ELSE IF f.htype = "oneof" /\ d.m[f.group].has # f.tag
                   THEN [x EXCEPT !.m[f.group].block = 0, !.m[f.group].items = <<found>>]
                   ELSE x
    IN IF f.htype = "repeated" THEN DecodeRepeated(d, wire, f) ELSE DecodeItem(room(chosen(fresh)), f, 1)

\* Mutant: another member's allocations are forgotten
pb_forget_union_field(d, fields, f) == d

pb_release_union_field(d, fields, f) ==
    LET others == {fields[i] : i \in {j \in DOMAIN fields : fields[j].group = f.group
                                                            /\ fields[j].tag = d.m[f.group].has}} \ {f}
    IN IF f.htype # "oneof" \/ others = {} THEN d
       ELSE Released(d, pb_release_single_field(CHOOSE o \in others : TRUE, d.m, d.heap))

decode_field(d, fields, wire, f) ==
    IF Pointer(f) THEN decode_pointer_field(pb_release_union_field(d, fields, f), wire, f)
    ELSE decode_static_field(pb_release_union_field(d, fields, f), wire, f)

(* The loop of pb_decode_noinit: a zero tag ends the message; seen is the  *)
(* required fields met, fixed the fixed-count field whose items come in.   *)
Field(fields, tag) == {fields[i] : i \in {j \in DOMAIN fields : fields[j].tag = tag}}
WrongSize(d, fields, fixed) == \E f \in Field(fields, fixed) : d.m[f.group].has # f.array_size
Ending(d, fields, seen, fixed) ==
    IF \/ WrongSize(d, fields, fixed)
       \/ \E i \in DOMAIN fields : fields[i].htype = "required" /\ fields[i].tag \notin seen
    THEN Failed(d) ELSE d

Counts(f) == f.htype = "repeated" /\ ~f.sized
DecodeOne(d, fields, fixed, f, wire) ==
    LET begins == Counts(f) /\ fixed # f.tag
    IN IF begins /\ WrongSize(d, fields, fixed) THEN Failed(d)
       ELSE decode_field(IF begins THEN SetHas(d, f, 0) ELSE d, fields, wire, f)

DecodeFields(d, fields, seen, fixed) ==
    LET key == pb_decode_varint(d.in)
        read == [d EXCEPT !.in = key.in]
        wire == key.value % 8
        known == Field(fields, key.value \div 8)
        on(x) == IF ~x.in.ok THEN x
                 ELSE DecodeFields(x, fields, seen \cup {f.tag : f \in known},
                                   IF \E f \in known : Counts(f) THEN key.value \div 8 ELSE fixed)
    IN IF d.in.left = 0 THEN Ending(d, fields, seen, fixed)
       ELSE IF ~key.in.ok THEN Failed(d)
       ELSE IF key.value = 0 THEN Ending(read, fields, seen, fixed)
       ELSE IF known = {} THEN on([d EXCEPT !.in = pb_skip_field(key.in, wire)])
       ELSE on(DecodeOne(read, fields, fixed, CHOOSE f \in known : TRUE, wire))

-----------------------------------------------------------------------------
(* What a struct says: a view maps a group to the sequence of its values,  *)
(* of a oneof to the tag and the value of the member that is set.          *)
Member(fields, g) == CHOOSE f \in {fields[i] : i \in DOMAIN fields} : f.group = g /\ f.tag = g
RECURSIVE View(_, _), Struct(_, _), Project(_, _), MergeViews(_, _, _)
ValueView(f, v) ==
    CASE Submessage(f) -> View(f.fields, v)
      [] f.ltype = "string" -> v.text
      [] OTHER -> v
ValuesView(f, items) == [i \in DOMAIN items |-> ValueView(f, items[i])]
View(fields, struct) ==
    [g \in Groups(fields) |->
        LET slot == struct[g]
            f == Member(fields, g)
        IN CASE f.htype = "oneof" ->
                  IF slot.has = 0 THEN <<>>
                  ELSE <<<<slot.has, ValueView(CHOOSE o \in Field(fields, slot.has) : TRUE, slot.items[1])>>>>
             [] f.htype = "repeated" -> ValuesView(f, SubSeq(slot.items, 1, slot.has))
             [] f.htype = "optional" /\ ~Pointer(f) /\ f.sized /\ slot.has = 0 -> <<>>
             [] f.htype = "optional" /\ ~Pointer(f) /\ ~f.sized ->
                  IF DefaultValue(f, slot.items[1]) THEN <<>> ELSE ValuesView(f, slot.items)
             [] OTHER -> ValuesView(f, slot.items)]

(* The struct an application fills in. *)
Item(f, v) ==
    CASE Submessage(f) -> Struct(f.fields, v)
      [] f.ltype = "string" -> [block |-> 0, text |-> v]
      [] OTHER -> v
Struct(fields, view) ==
    [g \in Groups(fields) |->
        LET f == Member(fields, g)
            values == view[g]
        IN IF values = <<>> THEN pb_field_set_to_default(f)
           ELSE IF f.htype = "oneof"
           THEN [has |-> values[1][1], block |-> 0,
                 items |-> <<Item(CHOOSE o \in Field(fields, values[1][1]) : TRUE, values[1][2])>>]
           ELSE [has |-> Len(values), block |-> 0,
                 items |-> [i \in DOMAIN values |-> Item(f, values[i])]]]

(* The part of a view a reader's schema has, and two messages in one: a    *)
(* second submessage replaces the first when it is allocated or in a oneof *)
(* (the comment on pb_release_union_field's second return has it merged).  *)
Project(fields, view) ==
    [g \in Groups(fields) |->
        LET f == Member(fields, g)
            values == IF g \in DOMAIN view THEN view[g] ELSE <<>>
        IN IF f.htype = "oneof" \/ ~Submessage(f) THEN values
           ELSE [i \in DOMAIN values |-> Project(f.fields, values[i])]]
MergeViews(fields, a, b) ==
    [g \in DOMAIN a |->
        LET f == Member(fields, g)
        IN CASE f.htype = "repeated" -> a[g] \o b[g]
             [] b[g] = <<>> -> a[g]
             [] Submessage(f) /\ ~Pointer(f) /\ f.htype # "oneof" /\ a[g] # <<>> ->
                  <<MergeViews(f.fields, a[g][1], b[g][1])>>
             [] OTHER -> b[g]]

(* What the struct has room for: a static array, string or number; and the *)
(* items of a fixed-count array come once.                                 *)
HasRoom(f, value) ==
    CASE Submessage(f) -> TRUE
      [] f.ltype = "string" -> Pointer(f) \/ Len(value) < f.data_size
      [] f.ltype \in {"varint", "uvarint", "svarint"} -> InRange(f, value)
      [] OTHER -> TRUE
Fits(fields, view, messages) ==
    \A g \in Groups(fields) :
        LET f == Member(fields, g)
        IN /\ f.htype # "oneof" => \A i \in DOMAIN view[g] : HasRoom(f, view[g][i])
           /\ CASE f.htype = "repeated" /\ ~f.sized ->
                      view[g] = <<>> \/ (messages = 1 /\ Len(view[g]) = f.array_size)
                [] f.htype = "repeated" /\ ~Pointer(f) -> Len(view[g]) <= f.array_size
                [] f.htype = "required" -> view[g] # <<>>
                [] OTHER -> TRUE

-----------------------------------------------------------------------------
(* A writer and a reader.  Messages follow one another as they are, with   *)
(* their size before them, or with a zero byte behind them.                *)
Framings == {"plain", "delimited", "nullterminated"}
ProtobufInit ==
    \E schema \in DOMAIN Schemas, framing \in Framings :
        pb = [phase |-> "writing", schema |-> schema, framing |-> framing, sent |-> <<>>,
              size |-> 0, out |-> OutBuffer(0), wire |-> <<>>, in |-> InStream(<<>>),
              cut |-> FALSE, got |-> <<>>,
              struct |-> pb_message_set_to_defaults(Schemas[schema].reader), heap |-> EmptyHeap]

pb_encode_framed(out, framing, fields, struct) ==
    LET ended(plain) == IF plain.ok /\ framing = "nullterminated" THEN pb_write(plain, <<0>>) ELSE plain
    IN IF framing = "delimited" THEN pb_encode_submessage(out, fields, struct)
       ELSE ended(pb_encode(out, fields, struct))

SendMessage ==
    /\ pb.phase = "writing" /\ Len(pb.sent) < MaxMessages
    /\ \E view \in Schemas[pb.schema].messages :
        LET struct == Struct(Schemas[pb.schema].writer, view)
            written(out) == pb_encode_framed(out, pb.framing, Schemas[pb.schema].writer, struct)
        IN \E size \in {written(Sizing).written} :
           \E room \in {size} \cup (IF pb.sent = <<>> THEN 0..size ELSE {}) :
           \E out \in {written(OutBuffer(room))} :
                pb' = IF out.ok
                      THEN [pb EXCEPT !.sent = Append(@, view), !.wire = @ \o out.bytes,
                                      !.out = out, !.size = size]
                      ELSE [pb EXCEPT !.phase = "full", !.out = out, !.size = size]

Deliver ==
    /\ pb.phase = "writing" /\ pb.sent # <<>>
    /\ \E n \in 1..Len(pb.wire) :
        pb' = [pb EXCEPT !.phase = "reading", !.cut = n < Len(pb.wire), !.out = OutBuffer(0),
                         !.in = InStream(SubSeq(pb.wire, 1, n))]

pb_decode_framed(in, framing, fields, heap) ==
    LET sub == pb_make_string_substream(in)
        delimited == framing = "delimited"
    IN IF delimited /\ ~sub.ok
       THEN [in |-> sub, m |-> pb_message_set_to_defaults(fields), heap |-> heap]
       ELSE [pb_decode(IF delimited THEN sub ELSE in, fields, heap)
                EXCEPT !.in = IF delimited THEN pb_close_string_substream(in, @) ELSE @]

ReadMessage ==
    /\ pb.phase = "reading"
    /\ \E d \in {pb_decode_framed(pb.in, pb.framing, Schemas[pb.schema].reader, pb.heap)} :
           pb' = [pb EXCEPT !.phase = IF d.heap.bad THEN "undefined"
                                      ELSE IF d.in.ok THEN "read" ELSE "failed", !.in = d.in,
                           !.struct = d.m, !.heap = d.heap,
                           !.got = IF d.in.ok THEN Append(@, View(Schemas[pb.schema].reader, d.m)) ELSE @]

ReleaseMessage ==
    /\ pb.phase = "read"
    /\ \E released \in {pb_release(Schemas[pb.schema].reader, pb.struct, pb.heap)} :
           pb' = [pb EXCEPT !.phase = IF pb.in.left = 0 THEN "done" ELSE "reading",
                           !.struct = released.struct, !.heap = released.heap]

ProtobufNext == SendMessage \/ Deliver \/ ReadMessage \/ ReleaseMessage

-----------------------------------------------------------------------------
(* What the reader should get: of messages without a frame, all in one.    *)
Projected == [i \in DOMAIN pb.sent |-> Project(Schemas[pb.schema].reader, pb.sent[i])]
MergedUpTo(n) == FoldLeft(LAMBDA a, b : MergeViews(Schemas[pb.schema].reader, a, b),
                          Head(Projected), SubSeq(Projected, 2, n))
Expected == IF pb.framing # "plain" THEN Projected ELSE <<MergedUpTo(Len(pb.sent))>>
Readable(i) ==
    LET fits(view) == Fits(Schemas[pb.schema].reader, view,
                           IF pb.framing = "plain" THEN Len(pb.sent) ELSE 1)
    IN fits(Expected[i]) /\ (pb.framing = "plain" => \A j \in DOMAIN Projected : fits(Projected[j]))

(* A reader gets the messages that were sent, as far as it knows their     *)
(* fields, and fails at the first that does not fit into its struct.       *)
MessagesArrive ==
    pb.phase \in {"read", "failed", "done"} /\ ~pb.cut =>
        /\ IsPrefix(pb.got, Expected)
        /\ \A i \in DOMAIN pb.got : Readable(i)
        /\ pb.phase = "failed" => ~Readable(Len(pb.got) + 1)
        /\ pb.phase = "done" => pb.got = Expected

(* Of a stream that was cut off a reader takes only whole values, and with *)
(* sizes before the messages only whole messages.                          *)
CutMessagesArePrefixes ==
    pb.phase \in {"read", "failed", "done"} /\ pb.cut =>
        \A n \in DOMAIN pb.got :
            \/ pb.got[n] = Expected[n]
            \/ /\ pb.framing # "delimited"
               /\ n = Len(pb.got)
               /\ \A g \in DOMAIN pb.got[n] :
                     LET values == pb.got[n][g]
                     IN \/ IsPrefix(values, Expected[n][g])
                        \/ pb.framing = "plain"
                           /\ \E i \in DOMAIN pb.sent : values = MergedUpTo(i)[g]

(* Two members that set the same oneof of a struct, one after the other.   *)
Chosen(g) ==
    LET values == [i \in DOMAIN Projected |-> Projected[i][g]]
    IN IF pb.framing = "plain" THEN SelectSeq(values, LAMBDA v : v # <<>>) ELSE <<>>
Replaced(Bad(_, _, _)) ==
    \E g \in Groups(Schemas[pb.schema].reader) :
        /\ Member(Schemas[pb.schema].reader, g).htype = "oneof"
        /\ \E n \in 1..(Len(Chosen(g)) - 1) :
              LET member(i) == CHOOSE f \in Field(Schemas[pb.schema].reader, Chosen(g)[i][1][1]) : TRUE
              IN Bad(member(n), Chosen(g)[n][1][2], member(n + 1))

(* The same submessage, kept in the struct, with a field of its own        *)
(* allocated: decode_static_field zeroes it (pb_decode.c:466-473), and     *)
(* pb_release_union_field has left it alone (1136-1137).                   *)
Forgotten(f, value, next) ==
    /\ ~Pointer(f) /\ Submessage(f) /\ next = f
    /\ \E g \in Groups(f.fields) : Pointer(Member(f.fields, g)) /\ value[g] # <<>>

(* A member kept in the struct and then an allocated one: its bytes are    *)
(* still there and are taken for a pointer to reallocate (pb_decode.c:489). *)
TakenForPointer(f, value, next) == ~Pointer(f) /\ Pointer(next) /\ Item(f, value) # DefaultItem(f)

(* What a decoder allocates is released once, whether the message was read *)
(* and released or decoding failed half-way, in every schema and message   *)
(* but two kinds in which the code fails: a oneof's submessage in the      *)
(* struct that is forgotten with what it allocated, and a oneof's member   *)
(* in the struct whose bytes are taken for a pointer.  Those do fail: read *)
(* to the end, the first leaks, and the second is never read to the end.   *)
EverythingReleased ==
    /\ pb.phase # "undefined" => ~pb.heap.bad
    /\ pb.phase = "undefined" => Replaced(TakenForPointer)
    /\ pb.phase \in {"failed", "done"} /\ pb.heap.live # {} => Replaced(Forgotten)
    /\ pb.phase = "done" /\ ~pb.cut => /\ Replaced(Forgotten) => pb.heap.live # {}
                                       /\ ~Replaced(TakenForPointer)

(* The size computed beforehand is the size written; a buffer with less    *)
(* room fails, without a byte behind its end.                              *)
WritesFit ==
    /\ Len(pb.out.bytes) <= pb.out.max
    /\ pb.phase = "writing" /\ pb.sent # <<>> => Len(pb.out.bytes) = pb.size
    /\ pb.phase = "full" => pb.out.max < pb.size

(* The four together: what is encoded is what is decoded, and nothing is   *)
(* left behind but what a oneof forgets.                                   *)
MessagesSound == MessagesArrive /\ CutMessagesArePrefixes /\ EverythingReleased /\ WritesFit
=============================================================================
