---------------------------- MODULE InternalKeys ----------------------------
(***************************************************************************)
(* leveldb's dbformat: every write of a user key gets a sequence number of *)
(* its own, and the internal key <user key, sequence number, type> is what *)
(* memtables, tables and the version set are ordered by.  The sequence     *)
(* number names the write, so it also stands for the value written.        *)
(***************************************************************************)
EXTENDS Naturals, Sequences, FiniteSets

CONSTANT kMaxSequenceNumber     \* 2^56 - 1 in the code

ASSUME MaxSequenceAssumption == kMaxSequenceNumber \in Nat

kTypeDeletion == 0
kTypeValue == 1
kValueTypeForSeek == kTypeValue

InternalKey(user_key, sequence, type) ==
    [user |-> user_key, seq |-> sequence, type |-> type]

(* Increasing user key, then decreasing sequence number, then decreasing type. *)
IKLess(a, b) ==
    \/ a.user < b.user
    \/ a.user = b.user /\ a.seq > b.seq
    \/ a.user = b.user /\ a.seq = b.seq /\ a.type > b.type

IKLeq(a, b) == ~IKLess(b, a)

(* What DBImpl::Get looks for: the newest entry of a user key at a sequence number. *)
LookupKey(user_key, sequence) == InternalKey(user_key, sequence, kValueTypeForSeek)

-----------------------------------------------------------------------------
SmallestOf(S) == CHOOSE k \in S : \A l \in S : IKLeq(k, l)
LargestOf(S) == CHOOSE k \in S : \A l \in S : IKLeq(l, k)

(* The elements of a set in order, each at its rank. *)
Ranked(S, Less(_, _)) ==
    [i \in 1..Cardinality(S) |->
        CHOOSE x \in S : Cardinality({y \in S : Less(y, x)}) = i - 1]

(* A set of internal keys in the order an iterator over it visits them. *)
InKeyOrder(S) == Ranked(S, IKLess)

(* The first entry at or after target, if it is one of the same user key:  *)
(* what a Seek in a memtable or a table finds for a LookupKey.             *)
Lookup(S, target) ==
    LET after == {k \in S : IKLeq(target, k)}
    IN IF after = {} THEN {} ELSE {k \in {SmallestOf(after)} : k.user = target.user}
=============================================================================
