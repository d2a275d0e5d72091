------------------------------ MODULE LRUCache ------------------------------
(***************************************************************************)
(* One shard of leveldb's cache: entries counted by reference, of which    *)
(* the cache itself holds one while the entry is in its hash table.  Every *)
(* operation runs under the shard's mutex and is one function on the       *)
(* cache.  Memory is reused: a handle that is free may be the next entry.  *)
(***************************************************************************)
EXTENDS Naturals, Sequences, SequencesExt, FiniteSetsExt

CONSTANT CacheHandles       \* bound: the entries that exist at once

Free == [key |-> 0, charge |-> 0, refs |-> 0, in_cache |-> FALSE]

NewCache(capacity) ==
    [capacity |-> capacity, usage |-> 0, lru |-> <<>>, in_use |-> {}, table |-> <<>>,
     entry |-> [h \in CacheHandles |-> Free]]

(* HandleTable: one entry a key. *)
TInsert(t, key, h) == [k \in DOMAIN t \cup {key} |-> IF k = key THEN h ELSE t[k]]
TRemove(t, key) == [k \in DOMAIN t \ {key} |-> t[k]]

(* LRU_Remove and LRU_Append on the two lists. *)
Off(c, h) == [c EXCEPT !.lru = RemoveFirst(@, h), !.in_use = @ \ {h}]
OnLRU(c, h) == [Off(c, h) EXCEPT !.lru = Append(@, h)]
InUse(c, h) == [Off(c, h) EXCEPT !.in_use = @ \cup {h}]

Ref(c, h) ==
    LET e == c.entry[h]
        moved == IF e.refs = 1 /\ e.in_cache THEN InUse(c, h) ELSE c
    IN [moved EXCEPT !.entry[h].refs = @ + 1]

Unref(c, h) ==
    LET left == c.entry[h].refs - 1
    IN CASE left = 0 -> [c EXCEPT !.entry[h] = Free]
         [] left = 1 /\ c.entry[h].in_cache -> [OnLRU(c, h) EXCEPT !.entry[h].refs = left]
         [] OTHER -> [c EXCEPT !.entry[h].refs = left]

(* h has been removed from the hash table. *)
FinishErase(c, h) ==
    Unref([Off(c, h) EXCEPT !.entry[h].in_cache = FALSE, !.usage = @ - c.entry[h].charge], h)

EraseKey(c, key) ==
    IF key \notin DOMAIN c.table THEN c
    ELSE FinishErase([c EXCEPT !.table = TRemove(@, key)], c.table[key])

LookupRef(c, key) == IF key \in DOMAIN c.table THEN Ref(c, c.table[key]) ELSE c

EvictOver(c) ==
    FoldLeft(LAMBDA d, h : IF d.usage > d.capacity THEN EraseKey(d, d.entry[h].key) ELSE d, c, c.lru)

Prune(c) == FoldLeft(LAMBDA d, h : EraseKey(d, d.entry[h].key), c, c.lru)

\* Mutant: an entry that another thread inserted meanwhile is not given up
CInsertTwice(c, key, charge, h) ==
    LET new == [key |-> key, charge |-> charge, refs |-> 1, in_cache |-> FALSE]
    IN IF c.capacity = 0 THEN [c EXCEPT !.entry[h] = new]
       ELSE EvictOver([InUse(c, h) EXCEPT !.entry[h] = [new EXCEPT !.refs = 2, !.in_cache = TRUE],
                                          !.table = TInsert(@, key, h), !.usage = @ + charge])

(* Insert returns h to its caller, who holds one of its references. *)
CInsert(c, key, charge, h) ==
    LET new == [key |-> key, charge |-> charge, refs |-> 1, in_cache |-> FALSE]
        cached == [InUse(c, h) EXCEPT !.entry[h] = [new EXCEPT !.refs = 2, !.in_cache = TRUE],
                                      !.table = TInsert(@, key, h), !.usage = @ + charge]
    IN EvictOver(IF c.capacity = 0 THEN [c EXCEPT !.entry[h] = new]
                 ELSE IF key \in DOMAIN c.table THEN FinishErase(cached, c.table[key])
                 ELSE cached)

-----------------------------------------------------------------------------
(* What the lists, the table, the counts and the charge have to do with    *)
(* each other, given how many references callers hold of each entry.       *)
CacheAgrees(c, held(_)) ==
    /\ \A h \in CacheHandles :
        LET e == c.entry[h]
        IN /\ e.refs = held(h) + (IF e.in_cache THEN 1 ELSE 0)
           /\ e.in_cache <=> \E k \in DOMAIN c.table : c.table[k] = h
           /\ e.in_cache => c.table[e.key] = h
           /\ h \in ToSet(c.lru) <=> e.in_cache /\ e.refs = 1
           /\ h \in c.in_use <=> e.in_cache /\ e.refs > 1
    /\ c.usage = MapThenSumSet(LAMBDA k : c.entry[c.table[k]].charge, DOMAIN c.table)
=============================================================================
