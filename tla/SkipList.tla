------------------------------ MODULE SkipList ------------------------------
(***************************************************************************)
(* leveldb's memtable index.  One thread at a time inserts, with the       *)
(* database's lock; readers walk the list without any, while a node is     *)
(* being linked level by level.  A node is its key: the head is 0, and a   *)
(* null pointer, which sorts after every key, is Infinity.                 *)
(***************************************************************************)
EXTENDS Integers

CONSTANTS
    Keys,
    Infinity,
    kMaxHeight,
    Iters           \* readers' iterators

ASSUME SkipListAssumption ==
    /\ Infinity \in Nat \ {0}
    /\ Keys \subseteq 1..Infinity - 1
    /\ kMaxHeight \in Nat \ {0}

VARIABLES
    next_,          \* next_[n][l], where n points to at level l
    max_heights,    \* the values max_height_ has had: readers may see an old one
    inserting,      \* the node being linked, as a set of at most one
    iter            \* per iterator, where its search is, and what it found
skipVars == <<next_, max_heights, inserting, iter>>

HeadNode == 0
Nodes == Keys \cup {HeadNode}
Levels == 1..kMaxHeight
Unset == -1         \* memory of a node that is not initialised, or not its own

Linked(l) == {k \in Keys : next_[k][l] # Unset}
Height == CHOOSE h \in max_heights : \A g \in max_heights : g <= h

(* What a search was for and what it has to do with the keys that were in  *)
(* the list when it began.                                                 *)
Searches == [kind : {"walk", "found"}, side : {"at", "before"}, target : 0..Infinity,
             present : SUBSET Keys, x : Nodes \cup {Infinity}, level : Levels]

SkipTypeOK ==
    /\ next_ \in [Nodes -> [Levels -> Keys \cup {Infinity, Unset}]]
    /\ max_heights \in SUBSET Levels
    /\ inserting \subseteq [key : Keys, height : Levels, level : Levels, prev : [Levels -> Nodes]]
    /\ iter \in [Iters -> Searches]

SkipInit ==
    /\ next_ = [n \in Nodes |-> [l \in Levels |-> IF n = HeadNode THEN Infinity ELSE Unset]]
    /\ max_heights = {1}
    /\ inserting = {}
    /\ iter = [i \in Iters |-> [kind |-> "found", side |-> "at", target |-> Infinity,
                                present |-> {}, x |-> Infinity, level |-> 1]]

(* The last node at a level that comes before a key, as FindGreaterOrEqual *)
(* leaves it in prev for the one thread that changes the list.             *)
LastBefore(key, l) ==
    CHOOSE n \in Linked(l) \cup {HeadNode} : n < key /\ \A m \in Linked(l) : m < key => m <= n

(* Insert finds its place and a height, and raises max_height_... *)
Insert(key) ==
    /\ inserting = {} /\ key \notin Linked(1)
    /\ \E height \in Levels :
        /\ inserting' = {[key |-> key, height |-> height, level |-> 1,
                          prev |-> [l \in Levels |-> IF l <= Height THEN LastBefore(key, l) ELSE HeadNode]]}
        /\ max_heights' = IF height > Height THEN max_heights \cup {height} ELSE max_heights
    /\ UNCHANGED <<next_, iter>>

\* Mutant: readers see the node before it points anywhere itself
LinkLevelEarly ==
    \E node \in inserting :
        /\ next_' = [next_ EXCEPT ![node.prev[node.level]][node.level] = node.key]
        /\ inserting' = IF node.level = node.height THEN {}
                        ELSE {[node EXCEPT !.level = @ + 1]}
        /\ UNCHANGED <<max_heights, iter>>

(* ...and links the node from its lowest level up. *)
LinkLevel ==
    \E node \in inserting :
        LET p == node.prev[node.level]
        IN /\ next_' = [next_ EXCEPT ![node.key][node.level] = next_[p][node.level],
                                     ![p][node.level] = node.key]
           /\ inserting' = IF node.level = node.height THEN {}
                           ELSE {[node EXCEPT !.level = @ + 1]}
           /\ UNCHANGED <<max_heights, iter>>

-----------------------------------------------------------------------------
Idle(i) == iter[i].kind = "found"
Present == Linked(1)

Search(i, wanted, key) ==
    /\ Idle(i)
    /\ \E height \in max_heights :
        iter' = [iter EXCEPT ![i] = [kind |-> "walk", side |-> wanted, target |-> key,
                                     present |-> Present, x |-> HeadNode, level |-> height]]
    /\ UNCHANGED <<next_, max_heights, inserting>>

(* Seek, and Contains, with FindGreaterOrEqual; Prev with FindLessThan;    *)
(* SeekToLast with FindLast, which looks for the end.                      *)
SkipSeek(i) == \E key \in Keys : Search(i, "at", key)
SkipPrev(i) == iter[i].x \in Keys /\ Search(i, "before", iter[i].x)
SkipSeekToLast(i) == Search(i, "before", Infinity)

(* SeekToFirst and Next read one pointer. *)
Follow(i, node) ==
    /\ Idle(i)
    /\ iter' = [iter EXCEPT ![i] = [@ EXCEPT !.side = "at", !.target = node + 1,
                                             !.present = Present, !.x = next_[node][1]]]
    /\ UNCHANGED <<next_, max_heights, inserting>>
SkipSeekToFirst(i) == Follow(i, HeadNode)
SkipNext(i) == iter[i].x \in Keys /\ Follow(i, iter[i].x)

(* One load of a search: go on at this level, go down, or end. *)
Walk(i) ==
    LET w == iter[i]
        next == next_[w.x][w.level]
    IN /\ ~Idle(i)
       /\ iter' = [iter EXCEPT ![i] =
              IF next < w.target THEN [w EXCEPT !.x = next]
              ELSE IF w.level > 1 THEN [w EXCEPT !.level = @ - 1]
              ELSE [w EXCEPT !.kind = "found",
                             !.x = IF w.side = "at" THEN next
                                   ELSE IF w.x = HeadNode THEN Infinity ELSE w.x]]
       /\ UNCHANGED <<next_, max_heights, inserting>>

SkipStep ==
    \/ \E key \in Keys : Insert(key)
    \/ LinkLevel
    \/ \E i \in Iters : \/ SkipSeek(i) \/ SkipPrev(i) \/ SkipSeekToLast(i)
                        \/ SkipSeekToFirst(i) \/ SkipNext(i) \/ Walk(i)

SkipSpec == SkipInit /\ [][SkipStep]_skipVars

-----------------------------------------------------------------------------
(* A search only loads pointers that were set before it could get there,   *)
(* and finds a key that is in the list and on the right side of the one it *)
(* looks for, with none between that was there when it began: whatever the *)
(* insertion links meanwhile, and whichever max_height_ it saw.            *)
Loads(w) == w.kind = "walk" => next_[w.x][w.level] # Unset

Finds(w) ==
    w.kind = "found" =>
        /\ w.x \in Linked(1) \cup {Infinity}
        /\ w.side = "at" =>
            w.x >= w.target /\ \A k \in w.present : k >= w.target => k >= w.x
        /\ w.side = "before" =>
            IF w.x = Infinity THEN \A k \in w.present : k >= w.target
            ELSE w.x < w.target /\ \A k \in w.present : k < w.target => k <= w.x

SearchesSound == \A i \in Iters : Loads(iter[i]) /\ Finds(iter[i])
=============================================================================
