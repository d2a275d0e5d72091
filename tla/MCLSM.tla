------------------------------- MODULE MCLSM -------------------------------
(* A tree small enough to explore: sizes count entries. *)
EXTENDS LSM

P(k) == <<k, kTypeValue>>
D(k) == <<k, kTypeDeletion>>

Writes(n, ops) == [writes |-> ops, snapshots |-> n]

(* Overwrites and deletions: of one key while somebody holds a snapshot, of *)
(* two that share tables, and of three.                                    *)
Mixed == {Writes(1, <<P(1), P(1), D(1), P(1)>>),
          Writes(1, <<P(2), D(2), P(1)>>),
          Writes(0, <<P(1), P(2), D(2), D(1)>>),
          Writes(0, <<P(1), P(4), P(2), D(4)>>)}

(* A key is deleted while a snapshot still sees its value, and then another. *)
Deleting == {Writes(1, <<P(1), P(2), D(2), D(1)>>)}
=============================================================================
