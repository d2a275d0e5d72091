---------------------------- MODULE NativeProofs ----------------------------
(***************************************************************************)
(* The parts of leveldb that stand on their own.  The skip list: while a   *)
(* node is linked level by level, whatever readers load was set before,    *)
(* and what they find is right.  The POSIX environment: none of its four   *)
(* machines forgets work, exceeds a limit, loses or repeats a byte or      *)
(* gives a lock twice.  The table cache: its books balance and every       *)
(* reader's handle is an entry of the table it asked for, for any number   *)
(* of readers, tables and entries and any capacity.                        *)
(***************************************************************************)
EXTENDS SkipList, PosixEnv, TableCache, DataLemmas

-----------------------------------------------------------------------------
AtLevel(l) == Linked(l) \cup {HeadNode}

(* The lists of all levels: head and linked nodes point to the next linked *)
(* node, the lists of the higher levels are part of those of the lower     *)
(* ones, there is a place for every key, and no node is above max_height_. *)
Ordered ==
    \A l \in Levels : \A n \in AtLevel(l) :
        /\ next_[n][l] \in Linked(l) \cup {Infinity}
        /\ n < next_[n][l]
        /\ \A m \in Linked(l) : m > n => m >= next_[n][l]

Nested == \A l \in Levels, m \in Levels : l < m => Linked(m) \subseteq Linked(l)

Placed ==
    \A key \in Keys, l \in Levels :
        \E n \in AtLevel(l) : n < key /\ \A m \in Linked(l) : m < key => m <= n

Bounded ==
    /\ \E h \in max_heights : \A g \in max_heights : g <= h
    /\ \A l \in Levels : Linked(l) # {} => \E h \in max_heights : l <= h

(* The node being linked is in the lists below its level, in no other, and *)
(* prev is its place in those to come.                                     *)
Linking(node) ==
    /\ node.level <= node.height
    /\ \E h \in max_heights : node.height <= h
    /\ \A l \in Levels :
        IF l < node.level THEN node.key \in Linked(l)
        ELSE /\ node.key \notin Linked(l)
             /\ node.prev[l] \in AtLevel(l) /\ node.prev[l] < node.key
             /\ \A m \in Linked(l) : m < node.key => m <= node.prev[l]

OneInserter == \A a, b \in inserting : a = b

ListSound ==
    /\ Ordered /\ Nested /\ Placed /\ Bounded
    /\ OneInserter /\ \A node \in inserting : Linking(node)

(* A search stands at a node of its level, before what it looks for, and   *)
(* the keys that were present when it began still are.                     *)
Searching(w) ==
    w.kind = "walk" =>
        /\ w.x \in AtLevel(w.level)
        /\ w.x = HeadNode \/ w.x < w.target
        /\ w.present \subseteq Linked(1)

SkipInv == SkipTypeOK /\ ListSound /\ \A i \in Iters : Searching(iter[i]) /\ Finds(iter[i])

-----------------------------------------------------------------------------
(* Keys, levels and nodes are numbers, and the head is no key. *)
LEMMA SkipConstants ==
    /\ Infinity \in Nat \ {0} /\ kMaxHeight \in Nat \ {0}
    /\ \A k \in Keys : k \in Nat /\ k > 0 /\ k < Infinity
    /\ \A n \in Nodes : n \in Nat /\ n < Infinity
    /\ \A l \in Levels : l \in Nat /\ l > 0
    /\ 1 \in Levels
    /\ HeadNode \in Nodes /\ HeadNode = 0 /\ HeadNode \notin Keys
BY SkipListAssumption DEF HeadNode, Nodes, Levels

(* What a search needs of the lists it walks: a node of its level points   *)
(* somewhere, and the way down leads to the same node.                     *)
LEMMA SearchesAreSound == SkipInv => SearchesSound
<1> SUFFICES ASSUME SkipInv, NEW i \in Iters PROVE Loads(iter[i]) /\ Finds(iter[i])
  BY DEF SearchesSound
<1>1. Finds(iter[i])
  BY DEF SkipInv
<1>2. ASSUME iter[i].kind = "walk" PROVE next_[iter[i].x][iter[i].level] # Unset
  <2>1. iter[i] \in Searches /\ Searching(iter[i])
    BY DEF SkipInv, SkipTypeOK
  <2>2. iter[i].level \in Levels /\ iter[i].x \in AtLevel(iter[i].level)
    BY <1>2, <2>1 DEF Searches, Searching
  <2>3. next_[iter[i].x][iter[i].level] \in Linked(iter[i].level) \cup {Infinity}
    BY <2>2 DEF SkipInv, ListSound, Ordered
  <2> QED
    BY <2>3, SkipConstants DEF Linked, Unset
<1> QED
  BY <1>1, <1>2 DEF Loads

-----------------------------------------------------------------------------
LEMMA SkipInitially == SkipInit => SkipInv
<1> SUFFICES ASSUME SkipInit PROVE SkipInv
  OBVIOUS
<1> USE SkipConstants
<1>1. SkipTypeOK
  BY DEF SkipInit, SkipTypeOK, Searches, Unset
<1>2. \A l \in Levels : Linked(l) = {}
  BY DEF SkipInit, Linked, Unset, Nodes, HeadNode
<1>3. \A l \in Levels : next_[HeadNode][l] = Infinity
  BY DEF SkipInit, Nodes
<1>4. Ordered
  BY <1>2, <1>3 DEF Ordered, AtLevel
<1>5. Nested
  BY <1>2 DEF Nested
<1>6. Placed
  <2> SUFFICES ASSUME NEW key \in Keys, NEW l \in Levels
               PROVE  \E n \in AtLevel(l) : n < key /\ \A m \in Linked(l) : m < key => m <= n
    BY DEF Placed
  <2> QED
    BY <1>2 DEF AtLevel
<1>7. Bounded
  BY <1>2 DEF SkipInit, Bounded
<1>8. OneInserter /\ \A node \in inserting : Linking(node)
  BY DEF SkipInit, OneInserter
<1>9. ASSUME NEW i \in Iters PROVE Searching(iter[i]) /\ Finds(iter[i])
  BY DEF SkipInit, Searching, Finds
<1> QED
  BY <1>1, <1>4, <1>5, <1>6, <1>7, <1>8, <1>9 DEF SkipInv, ListSound

-----------------------------------------------------------------------------
(* The largest max_height_ is one of them, and the place for a key at a    *)
(* level is there to be found.                                             *)
LEMMA HeightIsLargest ==
    ASSUME SkipTypeOK, Bounded
    PROVE  Height \in max_heights /\ Height \in Levels /\ \A g \in max_heights : g <= Height
BY DEF Height, Bounded, SkipTypeOK

LEMMA LastBeforeIsThere ==
    ASSUME Placed, NEW key \in Keys, NEW l \in Levels
    PROVE  /\ LastBefore(key, l) \in AtLevel(l) /\ LastBefore(key, l) < key
           /\ \A m \in Linked(l) : m < key => m <= LastBefore(key, l)
BY DEF Placed, LastBefore, AtLevel

-----------------------------------------------------------------------------
(* Insert only picks a place: the lists stay as they are. *)
LEMMA InsertKeeps ==
    ASSUME SkipInv, NEW key \in Keys, Insert(key)
    PROVE  SkipInv'
<1> USE SkipConstants
<1>1. PICK height \in Levels :
        /\ inserting' = {[key |-> key, height |-> height, level |-> 1,
                          prev |-> [l \in Levels |-> IF l <= Height THEN LastBefore(key, l) ELSE HeadNode]]}
        /\ max_heights' = IF height > Height THEN max_heights \cup {height} ELSE max_heights
  BY DEF Insert
<1>2. next_' = next_ /\ iter' = iter /\ key \notin Linked(1)
  BY DEF Insert
<1>3. /\ Height \in max_heights /\ Height \in Levels
      /\ \A g \in max_heights : g <= Height /\ g \in Levels
  BY HeightIsLargest DEF SkipInv, ListSound, SkipTypeOK
<1>4. \A l \in Levels : Linked(l)' = Linked(l) /\ AtLevel(l)' = AtLevel(l)
  BY <1>2 DEF Linked, AtLevel
<1> DEFINE node == [key |-> key, height |-> height, level |-> 1,
                    prev |-> [l \in Levels |-> IF l <= Height THEN LastBefore(key, l) ELSE HeadNode]]
<1>5. ASSUME NEW l \in Levels
      PROVE  /\ node.prev[l] \in AtLevel(l) /\ node.prev[l] < key
             /\ \A m \in Linked(l) : m < key => m <= node.prev[l]
  <2>1. CASE l <= Height
    BY <2>1, LastBeforeIsThere DEF SkipInv, ListSound
  <2>2. CASE ~(l <= Height)
    <3>1. Linked(l) = {}
      BY <2>2, <1>3 DEF SkipInv, ListSound, Bounded
    <3> QED
      BY <2>2, <3>1 DEF AtLevel
  <2> QED
    BY <2>1, <2>2
<1>6. node \in [key : Keys, height : Levels, level : Levels, prev : [Levels -> Nodes]]
  <2>1. \A l \in Levels : AtLevel(l) \subseteq Nodes
    BY DEF AtLevel, Linked, Nodes
  <2> QED
    BY <1>5, <2>1
<1>7. SkipTypeOK'
  BY <1>1, <1>2, <1>6 DEF SkipInv, SkipTypeOK
<1>8. Ordered' /\ Nested' /\ Placed'
  BY <1>2, <1>4 DEF SkipInv, ListSound, Ordered, Nested, Placed
<1>9. Bounded' /\ \E h \in max_heights' : height <= h
  <2>1. max_heights \subseteq max_heights'
    BY <1>1
  <2>2. \A l \in Levels : Linked(l)' # {} => \E h \in max_heights' : l <= h
    BY <2>1, <1>4 DEF SkipInv, ListSound, Bounded
  <2>3. CASE height > Height
    <3>1. max_heights' = max_heights \cup {height}
      BY <1>1, <2>3
    <3>2. \A g \in max_heights' : g <= height
      BY <3>1, <1>3, <2>3
    <3> QED
      BY <2>2, <3>1, <3>2 DEF Bounded
  <2>4. CASE ~(height > Height)
    <3>1. max_heights' = max_heights
      BY <1>1, <2>4
    <3> QED
      BY <2>2, <2>4, <3>1, <1>3 DEF Bounded
  <2> QED
    BY <2>3, <2>4
<1>10. OneInserter' /\ \A n \in inserting' : Linking(n)'
  <2>1. inserting' = {node}
    BY <1>1
  <2>2. \A l \in Levels : l >= 1 /\ key \notin Linked(l)
    BY <1>2 DEF SkipInv, ListSound, Nested, Levels
  <2>3. ASSUME NEW n \in inserting' PROVE Linking(n)'
    <3>1. /\ n.level = 1 /\ n.height = height /\ n.key = key
          /\ \A l \in Levels : n.prev[l] = node.prev[l]
      BY <2>1, <2>3
    <3> HIDE DEF node
    <3> QED
      BY <1>4, <1>5, <1>9, <2>2, <3>1 DEF Linking
  <2> QED
    BY <2>1, <2>3 DEF OneInserter
<1>11. \A i \in Iters : (Searching(iter[i]) /\ Finds(iter[i]))'
  <2>1. 1 \in Levels
    OBVIOUS
  <2>2. \A i \in Iters : iter[i].kind = "walk" => iter[i].level \in Levels
    BY DEF SkipInv, SkipTypeOK, Searches
  <2> QED
    BY <1>2, <1>4, <2>2 DEF SkipInv, Searching, Finds
<1> QED
  BY <1>7, <1>8, <1>9, <1>10, <1>11 DEF SkipInv, ListSound

-----------------------------------------------------------------------------
(* LinkLevel puts one node into the list of one level, behind its prev. *)
LEMMA LinkLevelKeeps ==
    ASSUME SkipInv, LinkLevel
    PROVE  SkipInv'
<1> USE SkipConstants
<1>1. PICK node \in inserting :
        /\ next_' = [next_ EXCEPT ![node.key][node.level] = next_[node.prev[node.level]][node.level],
                                  ![node.prev[node.level]][node.level] = node.key]
        /\ inserting' = IF node.level = node.height THEN {} ELSE {[node EXCEPT !.level = @ + 1]}
        /\ UNCHANGED <<max_heights, iter>>
  BY DEF LinkLevel
<1> DEFINE k == node.key
           v == node.level
           p == node.prev[node.level]
<1>2. /\ node \in [key : Keys, height : Levels, level : Levels, prev : [Levels -> Nodes]]
      /\ k \in Keys /\ v \in Levels /\ k \in Nodes /\ p \in Nodes
      /\ next_ \in [Nodes -> [Levels -> Keys \cup {Infinity, Unset}]]
  BY DEF SkipInv, SkipTypeOK, Nodes
<1>3. /\ Linking(node) /\ Ordered /\ Nested /\ Placed /\ Bounded
      /\ v <= node.height /\ \E h \in max_heights : node.height <= h
      /\ k \notin Linked(v) /\ p \in AtLevel(v) /\ p < k
      /\ \A m \in Linked(v) : m < k => m <= p
  BY <1>2 DEF SkipInv, ListSound, Linking
<1> HIDE DEF k, v, p
<1>4. /\ next_[p][v] \in Linked(v) \cup {Infinity} /\ p < next_[p][v] /\ k < next_[p][v]
      /\ \A m \in Linked(v) : m > p => m >= next_[p][v]
  <2>1. /\ next_[p][v] \in Linked(v) \cup {Infinity} /\ p < next_[p][v]
        /\ \A m \in Linked(v) : m > p => m >= next_[p][v]
    BY <1>2, <1>3 DEF Ordered
  <2>2. \A m \in Linked(v) : m > p => m > k
    BY <1>2, <1>3 DEF Linked
  <2>3. k < next_[p][v]
    BY <1>2, <2>1, <2>2
  <2> QED
    BY <2>1, <2>3
<1>5. /\ next_' \in [Nodes -> [Levels -> Keys \cup {Infinity, Unset}]]
      /\ \A n \in Nodes, l \in Levels :
            next_'[n][l] = IF l = v /\ n = p THEN k
                           ELSE IF l = v /\ n = k THEN next_[p][v]
                           ELSE next_[n][l]
  <2>1. next_' = [next_ EXCEPT ![k][v] = next_[p][v], ![p][v] = k]
    BY <1>1 DEF k, v, p
  <2>2. k # p /\ next_[p][v] \in Keys \cup {Infinity, Unset}
    BY <1>2, <1>3
  <2> QED
    BY <2>1, <2>2, <1>2
<1>6. /\ Linked(v)' = Linked(v) \cup {k} /\ AtLevel(v)' = AtLevel(v) \cup {k}
      /\ \A l \in Levels : l # v => Linked(l)' = Linked(l) /\ AtLevel(l)' = AtLevel(l)
      /\ \A l \in Levels : Linked(l) \subseteq Linked(l)' /\ AtLevel(l) \subseteq AtLevel(l)'
  <2>1. \A n \in Keys : next_'[n][v] # Unset <=> n \in Linked(v) \cup {k}
    <3>1. k # Unset /\ next_[p][v] # Unset
      BY <1>2, <1>4 DEF Unset, Linked
    <3>2. \A n \in Keys : n = p => n \in Linked(v)
      BY <1>3 DEF AtLevel
    <3> QED
      BY <3>1, <3>2, <1>2, <1>5 DEF Nodes, Linked
  <2>2. \A l \in Levels, n \in Keys : l # v => next_'[n][l] = next_[n][l]
    BY <1>5 DEF Nodes
  <2>3. Linked(v)' = Linked(v) \cup {k}
    BY <2>1, <1>2 DEF Linked
  <2>4. \A l \in Levels : l # v => Linked(l)' = Linked(l)
    BY <2>2 DEF Linked
  <2> QED
    BY <2>3, <2>4 DEF AtLevel
<1>7. SkipTypeOK'
  <2>1. inserting' \subseteq [key : Keys, height : Levels, level : Levels, prev : [Levels -> Nodes]]
    <3>1. node.level # node.height => node.level + 1 \in Levels
      BY <1>2, <1>3 DEF Levels, v
    <3> QED
      BY <1>1, <1>2, <3>1
  <2> QED
    BY <1>1, <1>5, <2>1 DEF SkipInv, SkipTypeOK
<1>8. Ordered'
  <2> SUFFICES ASSUME NEW l \in Levels, NEW n \in AtLevel(l)'
               PROVE  /\ next_'[n][l] \in Linked(l)' \cup {Infinity}
                      /\ n < next_'[n][l]
                      /\ \A m \in Linked(l)' : m > n => m >= next_'[n][l]
    BY DEF Ordered
  <2>1. n \in Nodes /\ AtLevel(l)' \subseteq Nodes
    BY DEF AtLevel, Linked, Nodes
  <2>2. CASE l # v
    BY <2>1, <2>2, <1>3, <1>5, <1>6 DEF Ordered
  <2>3. CASE l = v /\ n = k
    <3>1. next_'[n][l] = next_[p][v]
      BY <2>1, <2>3, <1>3, <1>5, <1>2
    <3>2. \A m \in Linked(v) : m > k => m > p
      BY <1>2, <1>3 DEF Linked
    <3>3. Linked(l)' = Linked(v) \cup {k} /\ n = k
      BY <1>6, <2>3
    <3>4. /\ next_[p][v] \in Linked(v) \cup {Infinity} /\ k < next_[p][v]
          /\ \A m \in Linked(v) : m > k => m >= next_[p][v]
      BY <1>4, <3>2
    <3>5. \A m \in Linked(v) \cup {k} : m > k => m >= next_[p][v]
      <4>1. k \in Int
        BY <1>2, SkipListAssumption
      <4> QED
        BY <3>4, <4>1
    <3> QED
      BY <3>1, <3>3, <3>4, <3>5
  <2>4. CASE l = v /\ n = p
    <3>1. next_'[n][l] = k
      BY <2>1, <2>4, <1>5
    <3>2. \A m \in Linked(v) : m > p => m >= k
      BY <1>2, <1>3 DEF Linked
    <3>3. Linked(l)' = Linked(v) \cup {k} /\ n = p /\ p < k
      BY <1>3, <1>6, <2>4
    <3>4. k >= k
      <4>1. k \in Int
        BY <1>2, SkipListAssumption
      <4> QED
        BY <4>1
    <3> QED
      BY <3>1, <3>2, <3>3, <3>4
  <2>5. CASE l = v /\ n # k /\ n # p
    <3>1. next_'[n][l] = next_[n][v] /\ n \in AtLevel(v)
      BY <2>1, <2>5, <1>5, <1>6
    <3>2. /\ next_[n][v] \in Linked(v) \cup {Infinity} /\ n < next_[n][v]
          /\ \A m \in Linked(v) : m > n => m >= next_[n][v]
      BY <3>1, <2>5 DEF Ordered, SkipInv, ListSound
    <3>3. k > n => k >= next_[n][v]
      <4> SUFFICES ASSUME k > n PROVE k >= next_[n][v]
        OBVIOUS
      <4>1. n < p
        BY <3>1, <2>1, <2>5, <1>2, <1>3 DEF AtLevel
      <4>2. p \in Linked(v)
        BY <4>1, <2>1, <1>3 DEF AtLevel
      <4>3. next_[n][v] \in Nat
        BY <3>2 DEF Linked
      <4> QED
        BY <4>1, <4>2, <4>3, <3>2, <2>1, <1>2, <1>3
    <3> QED
      BY <2>5, <3>1, <3>2, <3>3, <1>6
  <2> QED
    BY <2>2, <2>3, <2>4, <2>5
<1>9. Nested'
  <2> SUFFICES ASSUME NEW l \in Levels, NEW m \in Levels, l < m
               PROVE  Linked(m)' \subseteq Linked(l)'
    BY DEF Nested
  <2>1. Linked(m) \subseteq Linked(l)
    BY <1>3 DEF Nested
  <2>2. m = v => k \in Linked(l)
    BY <1>2, <1>3 DEF Linking, k, v
  <2> QED
    BY <2>1, <2>2, <1>6
<1>10. Placed'
  <2> SUFFICES ASSUME NEW key \in Keys, NEW l \in Levels
               PROVE  \E n \in AtLevel(l)' : n < key /\ \A m \in Linked(l)' : m < key => m <= n
    BY DEF Placed
  <2>1. PICK n \in AtLevel(l) : n < key /\ \A m \in Linked(l) : m < key => m <= n
    BY <1>3 DEF Placed
  <2>2. CASE l = v /\ k < key /\ n < k
    <3>1. \A m \in Linked(l) : m < key => m <= k
      BY <2>1, <2>2, <1>2 DEF Linked, AtLevel
    <3>2. k \in AtLevel(l)' /\ Linked(l)' = Linked(l) \cup {k} /\ k <= k
      BY <2>2, <1>2, <1>6
    <3> QED
      BY <2>2, <3>1, <3>2
  <2>3. CASE ~(l = v /\ k < key /\ n < k)
    <3>1. l = v /\ k < key => k <= n
      BY <2>3, <1>2 DEF AtLevel, Linked
    <3> QED
      BY <2>1, <3>1, <1>6
  <2> QED
    BY <2>2, <2>3
<1>11. Bounded'
  <2>1. \E h \in max_heights : v <= h
    <3>1. max_heights \subseteq Levels /\ node.height \in Levels
      BY <1>2 DEF SkipInv, SkipTypeOK
    <3> QED
      BY <1>2, <1>3, <3>1
  <2> QED
    BY <2>1, <1>1, <1>3, <1>6 DEF Bounded
<1>12. OneInserter' /\ \A n \in inserting' : Linking(n)'
  <2>1. OneInserter'
    BY <1>1 DEF OneInserter
  <2>2. ASSUME NEW n \in inserting' PROVE Linking(n)'
    <3>1. /\ n.level = v + 1 /\ n.height = node.height /\ n.key = k /\ n.prev = node.prev
          /\ v # node.height
      BY <1>1, <1>2, <2>2 DEF v, k
    <3>2. n.level <= n.height
      BY <3>1, <1>2, <1>3 DEF Levels
    <3>3. ASSUME NEW l \in Levels, l < v + 1 PROVE k \in Linked(l)'
      <4>1. CASE l = v
        BY <4>1, <1>6
      <4>2. CASE l < v
        BY <4>2, <1>2, <1>3, <1>6 DEF Linking, k, v
      <4> QED
        BY <3>3, <4>1, <4>2, <1>2
    <3>4. ASSUME NEW l \in Levels, ~(l < v + 1)
          PROVE  /\ k \notin Linked(l)' /\ node.prev[l] \in AtLevel(l)' /\ node.prev[l] < k
                 /\ \A m \in Linked(l)' : m < k => m <= node.prev[l]
      <4>1. l # v /\ ~(l < v)
        BY <3>4, <1>2
      <4>2. /\ k \notin Linked(l) /\ node.prev[l] \in AtLevel(l) /\ node.prev[l] < k
            /\ \A m \in Linked(l) : m < k => m <= node.prev[l]
        BY <4>1, <1>3 DEF Linking, k, v
      <4> QED
        BY <4>1, <4>2, <1>6
    <3> QED
      BY <3>1, <3>2, <3>3, <3>4, <1>1, <1>3 DEF Linking
  <2> QED
    BY <2>1, <2>2
<1>13. \A i \in Iters : (Searching(iter[i]) /\ Finds(iter[i]))'
  <2> SUFFICES ASSUME NEW i \in Iters
               PROVE  (Searching(iter[i]) /\ Finds(iter[i]))'
    OBVIOUS
  <2>1. iter' = iter /\ iter[i] \in Searches /\ Searching(iter[i]) /\ Finds(iter[i])
    BY <1>1 DEF SkipInv, SkipTypeOK
  <2>2. iter[i].level \in Levels
    BY <2>1 DEF Searches
  <2>3. Searching(iter[i])'
    BY <2>1, <2>2, <1>6 DEF Searching
  <2>4. Finds(iter[i])'
    BY <2>1, <1>6 DEF Finds
  <2> QED
    BY <2>3, <2>4
<1> QED
  BY <1>7, <1>8, <1>9, <1>10, <1>11, <1>12, <1>13 DEF SkipInv, ListSound

-----------------------------------------------------------------------------
(* A reader changes nothing but its own search. *)
LEMMA ReaderKeeps ==
    ASSUME SkipInv, NEW i \in Iters, NEW w \in Searches, Searching(w), Finds(w),
           iter' = [iter EXCEPT ![i] = w], UNCHANGED <<next_, max_heights, inserting>>
    PROVE  SkipInv'
<1>1. /\ iter \in [Iters -> Searches] /\ iter' \in [Iters -> Searches]
      /\ \A j \in Iters : iter'[j] = IF j = i THEN w ELSE iter[j]
  BY DEF SkipInv, SkipTypeOK
<1>2. \A l \in Levels : Linked(l)' = Linked(l) /\ AtLevel(l)' = AtLevel(l)
  BY DEF Linked, AtLevel
<1>3. Linked(1)' = Linked(1)
  BY <1>2, SkipConstants
<1>4. ListSound'
  BY <1>2 DEF SkipInv, ListSound, Ordered, Nested, Placed, Bounded, OneInserter, Linking
<1>5. ASSUME NEW j \in Iters PROVE (Searching(iter[j]) /\ Finds(iter[j]))'
  <2>1. iter'[j] \in Searches /\ Searching(iter'[j]) /\ Finds(iter'[j])
    BY <1>1 DEF SkipInv
  <2>2. iter'[j].level \in Levels
    BY <2>1 DEF Searches
  <2> QED
    BY <2>1, <2>2, <1>2, <1>3 DEF Searching, Finds
<1> QED
  BY <1>1, <1>4, <1>5 DEF SkipInv, SkipTypeOK

LEMMA SearchKeeps ==
    ASSUME SkipInv, NEW i \in Iters, NEW side \in {"at", "before"}, NEW key \in 0..Infinity,
           Search(i, side, key)
    PROVE  SkipInv'
<1>1. PICK height \in max_heights :
        iter' = [iter EXCEPT ![i] = [kind |-> "walk", side |-> side, target |-> key,
                                     present |-> Present, x |-> HeadNode, level |-> height]]
  BY DEF Search
<1> DEFINE w == [kind |-> "walk", side |-> side, target |-> key,
                 present |-> Present, x |-> HeadNode, level |-> height]
<1>2. height \in Levels /\ Present \subseteq Keys
  BY DEF SkipInv, SkipTypeOK, Present, Linked
<1>3. w \in Searches
  BY <1>2 DEF Searches, Nodes
<1>4. Searching(w) /\ Finds(w)
  BY <1>2 DEF Searching, Finds, AtLevel, Present
<1> QED
  BY <1>1, <1>3, <1>4, ReaderKeeps DEF Search

LEMMA FollowKeeps ==
    ASSUME SkipInv, NEW i \in Iters, NEW node \in Nodes,
           node = HeadNode \/ node = iter[i].x, Follow(i, node)
    PROVE  SkipInv'
<1> USE SkipConstants
<1> DEFINE w == [iter[i] EXCEPT !.side = "at", !.target = node + 1, !.present = Present,
                                !.x = next_[node][1]]
<1>1. /\ iter[i] \in Searches /\ iter[i].kind = "found" /\ Finds(iter[i])
      /\ iter' = [iter EXCEPT ![i] = w]
  BY DEF SkipInv, SkipTypeOK, Follow, Idle
<1>2. node \in AtLevel(1)
  BY <1>1 DEF AtLevel, Finds, Nodes
<1>3. /\ next_[node][1] \in Linked(1) \cup {Infinity} /\ node < next_[node][1]
      /\ \A m \in Linked(1) : m > node => m >= next_[node][1]
  BY <1>2 DEF SkipInv, ListSound, Ordered
<1>4. /\ w \in Searches /\ w.kind = "found" /\ w.side = "at" /\ w.target = node + 1
      /\ w.present = Linked(1) /\ w.x = next_[node][1]
  <2>1. Linked(1) \subseteq Keys /\ node + 1 \in 0..Infinity
    BY DEF Linked
  <2> QED
    BY <1>1, <1>3, <2>1 DEF Searches, Present, Nodes
<1> HIDE DEF w
<1>5. \A m \in Linked(1) : m >= node + 1 => m > node
  BY DEF Linked
<1>6. next_[node][1] >= node + 1
  BY <1>3 DEF Linked
<1>7. Searching(w) /\ Finds(w)
  BY <1>3, <1>4, <1>5, <1>6 DEF Searching, Finds
<1> QED
  BY <1>1, <1>4, <1>7, ReaderKeeps DEF Follow

(* One load: the next node is before the target, or the search goes down   *)
(* to a list that holds all of this one, or it ends at the lowest. *)
LEMMA WalkKeeps ==
    ASSUME SkipInv, NEW i \in Iters, Walk(i)
    PROVE  SkipInv'
<1> USE SkipConstants
<1> DEFINE w == iter[i]
           next == next_[w.x][w.level]
           on == [w EXCEPT !.x = next]
           down == [w EXCEPT !.level = @ - 1]
           end == [w EXCEPT !.kind = "found",
                            !.x = IF w.side = "at" THEN next
                                  ELSE IF w.x = HeadNode THEN Infinity ELSE w.x]
<1>1. /\ iter' = [iter EXCEPT ![i] = IF next < w.target THEN on ELSE IF w.level > 1 THEN down ELSE end]
      /\ UNCHANGED <<next_, max_heights, inserting>> /\ w.kind # "found"
  BY DEF Walk, Idle
<1>2. /\ w \in Searches /\ w.kind = "walk" /\ w.side \in {"at", "before"} /\ w.level \in Levels
      /\ w.target \in 0..Infinity
  BY <1>1 DEF SkipInv, SkipTypeOK, Searches
<1>3. /\ w.x \in AtLevel(w.level)
      /\ w.x = HeadNode \/ w.x < w.target
      /\ w.present \subseteq Linked(1) /\ w.x \in Nodes
  BY <1>2 DEF SkipInv, Searching, AtLevel, Linked, Nodes
<1>4. /\ next \in Linked(w.level) \cup {Infinity} /\ w.x < next
      /\ \A m \in Linked(w.level) : m > w.x => m >= next
      /\ next \in Nodes \cup {Infinity} /\ next \in Nat
  <2>1. /\ next \in Linked(w.level) \cup {Infinity} /\ w.x < next
        /\ \A m \in Linked(w.level) : m > w.x => m >= next
    BY <1>2, <1>3 DEF SkipInv, ListSound, Ordered
  <2> QED
    BY <2>1 DEF Linked, Nodes
<1>5. CASE next < w.target
  <2>1. /\ on \in Searches /\ on.kind = "walk" /\ on.x = next /\ on.level = w.level
        /\ on.target = w.target /\ on.present = w.present
    BY <1>2, <1>4 DEF Searches
  <2>2. next \in AtLevel(w.level)
    BY <1>2, <1>4, <1>5 DEF AtLevel
  <2>3. iter' = [iter EXCEPT ![i] = on]
    BY <1>1, <1>5
  <2> HIDE DEF w, next, on
  <2>4. Searching(on) /\ Finds(on)
    BY <2>1, <2>2, <1>3, <1>5 DEF Searching, Finds
  <2> QED
    BY <2>1, <2>3, <2>4, <1>1, ReaderKeeps
<1>6. CASE ~(next < w.target) /\ w.level > 1
  <2>1. w.level - 1 \in Levels /\ w.level - 1 < w.level
    BY <1>2, <1>6 DEF Levels
  <2>2. /\ down \in Searches /\ down.kind = "walk" /\ down.x = w.x /\ down.level = w.level - 1
        /\ down.target = w.target /\ down.present = w.present
    BY <1>2, <2>1 DEF Searches
  <2>3. w.x \in AtLevel(w.level - 1)
    BY <1>2, <1>3, <2>1 DEF SkipInv, ListSound, Nested, AtLevel
  <2>4. iter' = [iter EXCEPT ![i] = down]
    BY <1>1, <1>6
  <2> HIDE DEF w, next, down
  <2>5. Searching(down) /\ Finds(down)
    BY <2>2, <2>3, <1>3 DEF Searching, Finds
  <2> QED
    BY <2>2, <2>4, <2>5, <1>1, ReaderKeeps
<1>7. CASE ~(next < w.target) /\ ~(w.level > 1)
  <2>1. w.level = 1
    BY <1>2, <1>7
  <2>2. /\ end \in Searches /\ end.kind = "found" /\ end.side = w.side
        /\ end.target = w.target /\ end.present = w.present
        /\ end.x = IF w.side = "at" THEN next ELSE IF w.x = HeadNode THEN Infinity ELSE w.x
    BY <1>2, <1>4 DEF Searches
  <2>3. iter' = [iter EXCEPT ![i] = end]
    BY <1>1, <1>7
  <2>4. w.target \in Nat /\ w.x \in Nat /\ next \in Nat
    <3> HIDE DEF w, next, on, down, end
    <3>1. w.target \in Nat
      BY <1>2
    <3>2. w.x \in Nat
      BY <1>3
    <3>3. next \in Nat
      BY <1>4
    <3> QED
      BY <3>1, <3>2, <3>3
  <2> HIDE DEF w, next, end
  <2>5. \A k \in w.present : k \in Nat /\ k > 0 /\ (k > w.x => k >= next)
    <3>1. Linked(w.level) = Linked(1) /\ \A k \in Linked(1) : k \in Nat /\ k > 0
      BY <2>1 DEF Linked
    <3> QED
      BY <1>3, <1>4, <3>1
  <2>6. next >= w.target
    BY <1>7, <2>4
  <2>7. CASE w.side = "at"
    <3>1. end.x = next /\ next \in Linked(1) \cup {Infinity} /\ next >= w.target
      BY <2>1, <2>2, <2>6, <2>7, <1>4
    <3>2. \A k \in w.present : k >= w.target => k >= next
      BY <1>3, <2>5, <2>6, <2>4
    <3> QED
      BY <3>1, <3>2, <2>2, <2>3, <2>7, <1>1, ReaderKeeps DEF Searching, Finds
  <2>8. CASE w.side = "before" /\ w.x = HeadNode
    <3>1. end.x = Infinity
      BY <2>2, <2>8
    <3>2. \A k \in w.present : k >= w.target
      <4> SUFFICES ASSUME NEW k \in w.present PROVE k >= w.target
        OBVIOUS
      <4>1. k >= next /\ k \in Nat
        BY <2>5, <2>8
      <4> QED
        BY <2>6, <2>4, <4>1
    <3> QED
      BY <3>1, <3>2, <2>2, <2>3, <2>8, <1>1, ReaderKeeps DEF Searching, Finds
  <2>9. CASE w.side = "before" /\ w.x # HeadNode
    <3>1. end.x = w.x /\ w.x \in Linked(1) /\ w.x < w.target /\ w.x # Infinity
      BY <1>3, <2>1, <2>2, <2>9 DEF AtLevel, Linked
    <3>2. \A k \in w.present : k < w.target => k <= w.x
      BY <2>5, <2>6, <2>4
    <3> QED
      BY <3>1, <3>2, <2>2, <2>3, <2>9, <1>1, ReaderKeeps DEF Searching, Finds
  <2> QED
    BY <2>7, <2>8, <2>9, <1>2
<1> QED
  BY <1>5, <1>6, <1>7

-----------------------------------------------------------------------------
LEMMA SkipStepKeeps == SkipInv /\ [SkipStep]_skipVars => SkipInv'
<1> SUFFICES ASSUME SkipInv, [SkipStep]_skipVars PROVE SkipInv'
  OBVIOUS
<1>1. CASE \E key \in Keys : Insert(key)
  BY <1>1, InsertKeeps
<1>2. CASE LinkLevel
  BY <1>2, LinkLevelKeeps
<1>3. ASSUME NEW i \in Iters, SkipSeek(i) \/ SkipPrev(i) \/ SkipSeekToLast(i)
      PROVE  SkipInv'
  <2>1. \A key \in Keys : key \in 0..Infinity
    BY SkipConstants
  <2>2. Infinity \in 0..Infinity
    BY SkipConstants
  <2> QED
    BY <1>3, <2>1, <2>2, SearchKeeps DEF SkipSeek, SkipPrev, SkipSeekToLast
<1>4. ASSUME NEW i \in Iters, SkipSeekToFirst(i) \/ SkipNext(i)
      PROVE  SkipInv'
  BY <1>4, FollowKeeps, SkipConstants DEF SkipSeekToFirst, SkipNext, Nodes
<1>5. ASSUME NEW i \in Iters, Walk(i)
      PROVE  SkipInv'
  BY <1>5, WalkKeeps
<1>6. CASE UNCHANGED skipVars
  <2>1. UNCHANGED <<next_, max_heights, inserting, iter>>
    BY <1>6 DEF skipVars
  <2>2. \A l \in Levels : Linked(l)' = Linked(l) /\ AtLevel(l)' = AtLevel(l)
    BY <2>1 DEF Linked, AtLevel
  <2>3. Linked(1)' = Linked(1)
    BY <2>2, SkipConstants
  <2>4. ListSound'
    BY <2>1, <2>2 DEF SkipInv, ListSound, Ordered, Nested, Placed, Bounded, OneInserter, Linking
  <2>5. \A i \in Iters : (Searching(iter[i]) /\ Finds(iter[i]))'
    <3>1. \A i \in Iters : iter[i] \in Searches /\ iter[i].level \in Levels
      BY DEF SkipInv, SkipTypeOK, Searches
    <3> QED
      BY <2>1, <2>2, <2>3, <3>1 DEF SkipInv, Searching, Finds
  <2> QED
    BY <2>1, <2>4, <2>5 DEF SkipInv, SkipTypeOK
<1> QED
  BY <1>1, <1>2, <1>3, <1>4, <1>5, <1>6 DEF SkipStep

(* The type invariant of the skip list (db/skiplist.h). *)
THEOREM SkipListTyped == SkipSpec => []SkipTypeOK
<1>1. SkipInv => SkipTypeOK
  BY DEF SkipInv
<1> QED
  BY SkipInitially, SkipStepKeeps, <1>1, PTL DEF SkipSpec

(* Readers without a lock: every pointer a search loads was set before,    *)
(* and a finished search is at a key of the list, on the right side of the *)
(* one it looked for, with none between that was there when it began, for  *)
(* any keys, heights and number of readers, and whatever is linked while   *)
(* they walk (SkipList::FindGreaterOrEqual, FindLessThan, Insert).         *)
THEOREM ReadersWithoutLock == SkipSpec => []SearchesSound
BY SkipInitially, SkipStepKeeps, SearchesAreSound, PTL DEF SkipSpec

-----------------------------------------------------------------------------
(* Background work. *)
WorkTypeOK ==
    /\ work \in Seq(Nat) /\ ran \in Seq(Nat) /\ scheduled \in Nat
    /\ thread \in {"none", "waiting", "ready", "running"}

WorkInv == WorkTypeOK /\ WorkKept

LEMMA WorkInitially == WorkInit => WorkInv
<1> SUFFICES ASSUME WorkInit PROVE WorkInv
  OBVIOUS
<1>1. WorkTypeOK
  BY DEF WorkInit, WorkTypeOK
<1>2. ran \o work = <<>> /\ [i \in 1..scheduled |-> i] = <<>>
  BY DEF WorkInit
<1> QED
  BY <1>1, <1>2 DEF WorkInv, WorkKept, WorkInit

LEMMA AppendToConcat ==
    ASSUME NEW s \in Seq(Nat), NEW t \in Seq(Nat), NEW e \in Nat
    PROVE  s \o Append(t, e) = Append(s \o t, e)
<1>1. s \o t \in Seq(Nat) /\ <<e>> \in Seq(Nat)
  BY ConcatProperties
<1>2. Append(t, e) = t \o <<e>> /\ Append(s \o t, e) = (s \o t) \o <<e>>
  BY <1>1, AppendIsConcat
<1> QED
  BY <1>1, <1>2, ConcatAssociative

LEMMA MoveHead ==
    ASSUME NEW s \in Seq(Nat), NEW t \in Seq(Nat), t # <<>>
    PROVE  Append(s, Head(t)) \o Tail(t) = s \o t
<1>1. /\ Len(t) \in Nat /\ Len(t) > 0 /\ Head(t) = t[1] /\ t[1] \in Nat
      /\ Tail(t) \in Seq(Nat) /\ Len(Tail(t)) = Len(t) - 1
      /\ \A i \in 1..Len(t) - 1 : Tail(t)[i] = t[i + 1]
  OBVIOUS
<1> DEFINE u == Append(s, Head(t))
<1>2. /\ u \in Seq(Nat) /\ Len(u) = Len(s) + 1 /\ Len(s) \in Nat /\ u[Len(s) + 1] = t[1]
      /\ \A i \in 1..Len(s) : u[i] = s[i]
  BY <1>1
<1> HIDE DEF u
<1>3. /\ u \o Tail(t) \in Seq(Nat) /\ s \o t \in Seq(Nat)
      /\ Len(u \o Tail(t)) = Len(s) + Len(t) /\ Len(s \o t) = Len(s) + Len(t)
      /\ \A i \in 1..Len(s) + Len(t) :
            /\ (u \o Tail(t))[i] = IF i <= Len(u) THEN u[i] ELSE Tail(t)[i - Len(u)]
            /\ (s \o t)[i] = IF i <= Len(s) THEN s[i] ELSE t[i - Len(s)]
  <2> DEFINE v == Tail(t)
  <2>1. v \in Seq(Nat) /\ Len(v) = Len(t) - 1 /\ Len(u) + Len(v) = Len(s) + Len(t)
    BY <1>1, <1>2
  <2> HIDE DEF v
  <2>2. /\ u \o v \in Seq(Nat) /\ Len(u \o v) = Len(u) + Len(v)
        /\ \A i \in 1..Len(u) + Len(v) : (u \o v)[i] = IF i <= Len(u) THEN u[i] ELSE v[i - Len(u)]
    <3>1. u \in Seq(Nat) /\ v \in Seq(Nat)
      BY <1>2, <2>1
    <3> QED
      BY <3>1, ConcatProperties
  <2>3. /\ s \o t \in Seq(Nat) /\ Len(s \o t) = Len(s) + Len(t)
        /\ \A i \in 1..Len(s) + Len(t) : (s \o t)[i] = IF i <= Len(s) THEN s[i] ELSE t[i - Len(s)]
    BY ConcatProperties
  <2> QED
    BY <2>1, <2>2, <2>3 DEF v
<1>4. ASSUME NEW i \in 1..Len(s) + Len(t) PROVE (u \o Tail(t))[i] = (s \o t)[i]
  <2>1. CASE i <= Len(s)
    BY <2>1, <1>2, <1>3
  <2>2. CASE i = Len(s) + 1
    BY <2>2, <1>1, <1>2, <1>3
  <2>3. CASE i > Len(s) + 1
    <3>1. i - Len(u) \in 1..Len(t) - 1 /\ (i - Len(u)) + 1 = i - Len(s)
      BY <2>3, <1>1, <1>2
    <3> QED
      BY <2>3, <3>1, <1>1, <1>2, <1>3
  <2> QED
    BY <2>1, <2>2, <2>3, <1>2
<1>5. u \o Tail(t) = s \o t
  BY <1>3, <1>4, SeqEqual
<1> QED
  BY <1>5 DEF u

(* Append, Tail and Head move items between the queue and those that ran,  *)
(* and leave what both make together.                                      *)
LEMMA WorkStepKeeps == WorkInv /\ [WorkNext]_workVars => WorkInv'
<1> SUFFICES ASSUME WorkInv, [WorkNext]_workVars PROVE WorkInv'
  OBVIOUS
<1>1. /\ work \in Seq(Nat) /\ ran \in Seq(Nat) /\ scheduled \in Nat
      /\ thread \in {"none", "waiting", "ready", "running"}
      /\ ran \o work = [i \in 1..scheduled |-> i]
      /\ thread \in {"none", "waiting"} => work = <<>>
  BY DEF WorkInv, WorkTypeOK, WorkKept
<1>2. CASE Schedule
  <2>1. scheduled' = scheduled + 1 /\ work' = Append(work, scheduled + 1) /\ ran' = ran
    BY <1>2 DEF Schedule
  <2>2. work' \in Seq(Nat)
    BY <1>1, <2>1
  <2>3. thread' \in {"ready", "running"}
    BY <1>1, <1>2 DEF Schedule
  <2>4. ran \o Append(work, scheduled + 1) = [i \in 1..scheduled + 1 |-> i]
    <3> DEFINE all == ran \o work
               more == Append(all, scheduled + 1)
    <3>1. ran \o Append(work, scheduled + 1) = more
      <4>1. scheduled + 1 \in Nat
        BY <1>1
      <4> QED
        BY <4>1, <1>1, AppendToConcat
    <3>2. all = [i \in 1..scheduled |-> i]
      BY <1>1
    <3> HIDE DEF all
    <3>3. all \in Seq(Nat) /\ Len(all) = scheduled /\ \A i \in 1..scheduled : all[i] = i
      BY <1>1, <3>2
    <3>4. more = [i \in 1..scheduled + 1 |-> i]
      BY <1>1, <3>3
    <3> QED
      BY <3>1, <3>4
  <2>5. WorkTypeOK'
    BY <1>1, <2>1, <2>2, <2>3 DEF WorkTypeOK
  <2>6. (ran \o work = [i \in 1..scheduled |-> i])'
    BY <2>1, <2>4
  <2> QED
    BY <2>3, <2>5, <2>6 DEF WorkInv, WorkKept
<1>3. CASE LookForWork
  <2>1. CASE work = <<>>
    BY <1>1, <1>3, <2>1 DEF LookForWork, WorkInv, WorkTypeOK, WorkKept
  <2>2. CASE work # <<>>
    <3>1. /\ thread' = "running" /\ work' = Tail(work) /\ ran' = Append(ran, Head(work))
          /\ scheduled' = scheduled
      BY <1>3, <2>2 DEF LookForWork
    <3>2. work' \in Seq(Nat) /\ ran' \in Seq(Nat)
      BY <1>1, <2>2, <3>1
    <3>3. ran' \o work' = ran \o work
      BY <1>1, <2>2, <3>1, MoveHead
    <3> QED
      BY <1>1, <3>1, <3>2, <3>3 DEF WorkInv, WorkTypeOK, WorkKept
  <2> QED
    BY <2>1, <2>2
<1>4. CASE WorkDone
  BY <1>1, <1>4 DEF WorkDone, WorkInv, WorkTypeOK, WorkKept
<1>5. CASE SpuriousWakeup
  BY <1>1, <1>5 DEF SpuriousWakeup, WorkInv, WorkTypeOK, WorkKept
<1>6. CASE UNCHANGED workVars
  BY <1>1, <1>6 DEF workVars, WorkInv, WorkTypeOK, WorkKept
<1> QED
  BY <1>2, <1>3, <1>4, <1>5, <1>6 DEF WorkNext

-----------------------------------------------------------------------------
(* Files to read: a limiter's count and the threads that have taken from   *)
(* it make its limit, those that are about to give back included.          *)
Places == {"closed", "no_mmap", "mapping", "mmap", "limit_fd", "no_fd", "fd", "path"}

MmapTaken == At({"mapping", "mmap", "no_mmap"})
MmapHeld == At({"mapping", "mmap"})
FdTaken == At({"fd", "no_fd"})
FdHeld == At({"fd"})

ReadableTypeOK ==
    /\ opening \in [EnvThreads -> Places]
    /\ allowed \in [{"mmap", "fd"} -> Int]

ReadableInv ==
    /\ ReadableTypeOK
    /\ allowed["mmap"] + MmapTaken = Limits["mmap"]
    /\ allowed["fd"] + FdTaken = Limits["fd"]
    /\ MmapHeld <= Limits["mmap"]
    /\ FdHeld <= Limits["fd"]

(* A thread's step moves it from one place to another: the number at a set *)
(* of places changes only when it enters or leaves the set.                *)
LEMMA AtIsNat ==
    ASSUME NEW places
    PROVE  At(places) \in Nat /\ IsFiniteSet({t \in EnvThreads : opening[t] \in places})
BY PosixAssumption, FS_Subset, FS_CardinalityType DEF At

LEMMA AtMoves ==
    ASSUME ReadableTypeOK, NEW t \in EnvThreads, NEW to \in Places, To(t, to), NEW places
    PROVE  At(places)' = At(places) + (IF to \in places THEN 1 ELSE 0)
                                    - (IF opening[t] \in places THEN 1 ELSE 0)
<1> DEFINE S == {s \in EnvThreads : opening[s] \in places}
           T == {s \in EnvThreads : opening'[s] \in places}
<1>1. \A s \in EnvThreads : opening'[s] = IF s = t THEN to ELSE opening[s]
  BY DEF To, ReadableTypeOK
<1>2. IsFiniteSet(S) /\ Cardinality(S) \in Nat
  BY AtIsNat DEF At
<1>3. T = IF to \in places THEN S \cup {t} ELSE S \ {t}
  BY <1>1
<1>4. t \in S <=> opening[t] \in places
  OBVIOUS
<1> HIDE DEF S, T
<1>5. Cardinality(T) = Cardinality(S) + (IF to \in places THEN 1 ELSE 0)
                                      - (IF opening[t] \in places THEN 1 ELSE 0)
  <2>1. CASE to \in places
    <3>1. Cardinality(S \cup {t}) = IF t \in S THEN Cardinality(S) ELSE Cardinality(S) + 1
      BY <1>2, FS_AddElement
    <3> QED
      BY <2>1, <3>1, <1>2, <1>3, <1>4
  <2>2. CASE to \notin places
    <3>1. Cardinality(S \ {t}) = IF t \in S THEN Cardinality(S) - 1 ELSE Cardinality(S)
      BY <1>2, FS_RemoveElement
    <3> QED
      BY <2>2, <3>1, <1>2, <1>3, <1>4
  <2> QED
    BY <2>1, <2>2
<1> QED
  BY <1>5 DEF At, S, T

(* Nobody holds a file without having taken it. *)
LEMMA HeldIsTaken ==
    /\ MmapTaken \in Nat /\ MmapHeld \in Nat /\ MmapHeld <= MmapTaken
    /\ FdTaken \in Nat /\ FdHeld \in Nat /\ FdHeld <= FdTaken
<1>1. ASSUME NEW less, NEW more, less \subseteq more
      PROVE  At(less) \in Nat /\ At(more) \in Nat /\ At(less) <= At(more)
  <2> DEFINE S == {t \in EnvThreads : opening[t] \in less}
             T == {t \in EnvThreads : opening[t] \in more}
  <2>1. S \in SUBSET T /\ IsFiniteSet(T)
    BY <1>1, AtIsNat
  <2> HIDE DEF S, T
  <2>2. Cardinality(S) <= Cardinality(T)
    BY <2>1, FS_Subset
  <2> QED
    BY <2>2, AtIsNat DEF At, S, T
<1>2. {"mapping", "mmap"} \subseteq {"mapping", "mmap", "no_mmap"} /\ {"fd"} \subseteq {"fd", "no_fd"}
  OBVIOUS
<1> QED
  BY <1>1, <1>2, Zenon DEF MmapTaken, MmapHeld, FdTaken, FdHeld

LEMMA CountsMove ==
    ASSUME ReadableTypeOK, NEW t \in EnvThreads, NEW to \in Places, To(t, to)
    PROVE  /\ opening' \in [EnvThreads -> Places]
           /\ MmapTaken' = MmapTaken + (IF to \in {"mapping", "mmap", "no_mmap"} THEN 1 ELSE 0)
                                    - (IF opening[t] \in {"mapping", "mmap", "no_mmap"} THEN 1 ELSE 0)
           /\ MmapHeld' = MmapHeld + (IF to \in {"mapping", "mmap"} THEN 1 ELSE 0)
                                  - (IF opening[t] \in {"mapping", "mmap"} THEN 1 ELSE 0)
           /\ FdTaken' = FdTaken + (IF to \in {"fd", "no_fd"} THEN 1 ELSE 0)
                                - (IF opening[t] \in {"fd", "no_fd"} THEN 1 ELSE 0)
           /\ FdHeld' = FdHeld + (IF to \in {"fd"} THEN 1 ELSE 0)
                              - (IF opening[t] \in {"fd"} THEN 1 ELSE 0)
<1>1. opening' \in [EnvThreads -> Places]
  BY DEF To, ReadableTypeOK
<1> QED
  BY <1>1, AtMoves, Zenon DEF MmapTaken, MmapHeld, FdTaken, FdHeld

LEMMA NoneTaken ==
    ASSUME \A t \in EnvThreads : opening[t] \in {"closed", "path"}
    PROVE  MmapTaken = 0 /\ MmapHeld = 0 /\ FdTaken = 0 /\ FdHeld = 0
<1>1. ASSUME NEW places, "closed" \notin places, "path" \notin places PROVE At(places) = 0
  <2>1. {t \in EnvThreads : opening[t] \in places} = {}
    BY <1>1
  <2> QED
    BY <2>1, FS_EmptySet DEF At
<1> QED
  BY <1>1 DEF MmapTaken, MmapHeld, FdTaken, FdHeld

LEMMA ReadableInitially == ReadableInit => ReadableInv
<1> SUFFICES ASSUME ReadableInit PROVE ReadableInv
  OBVIOUS
<1>1. ReadableTypeOK
  BY PosixAssumption DEF ReadableInit, ReadableTypeOK, Places
<1>2. MmapTaken = 0 /\ MmapHeld = 0 /\ FdTaken = 0 /\ FdHeld = 0
  BY NoneTaken DEF ReadableInit
<1>3. allowed = Limits /\ Limits["mmap"] \in Nat /\ Limits["fd"] \in Nat
  BY PosixAssumption DEF ReadableInit
<1> QED
  BY <1>1, <1>2, <1>3 DEF ReadableInv

LEMMA ReadableStepKeeps == ReadableInv /\ [ReadableNext]_readableVars => ReadableInv'
<1> SUFFICES ASSUME ReadableInv, [ReadableNext]_readableVars PROVE ReadableInv'
  OBVIOUS
<1>1. /\ allowed \in [{"mmap", "fd"} -> Int]
      /\ Limits["mmap"] \in Nat /\ Limits["fd"] \in Nat
      /\ allowed["mmap"] \in Int /\ allowed["fd"] \in Int
      /\ allowed["mmap"] + MmapTaken = Limits["mmap"] /\ MmapHeld <= Limits["mmap"]
      /\ allowed["fd"] + FdTaken = Limits["fd"] /\ FdHeld <= Limits["fd"]
  BY PosixAssumption DEF ReadableInv, ReadableTypeOK
<1>0. /\ ReadableTypeOK
      /\ \A place \in {"closed", "no_mmap", "mapping", "mmap", "limit_fd", "no_fd", "fd", "path"} : place \in Places
  BY DEF ReadableInv, Places
<1>2. ASSUME NEW t \in EnvThreads, NewRandomAccessFile(t) PROVE ReadableInv'
  <2>1. CASE allowed["mmap"] > 0
    <3>1. opening[t] = "closed" /\ To(t, "mapping")
      BY <1>2, <2>1 DEF NewRandomAccessFile, Acquire
    <3>2. allowed' = [allowed EXCEPT !["mmap"] = @ - 1]
      BY <1>2, <2>1 DEF NewRandomAccessFile, Acquire
    <3>3. /\ opening' \in [EnvThreads -> Places]
          /\ MmapTaken' = MmapTaken + 1 /\ MmapHeld' = MmapHeld + 1
          /\ FdTaken' = FdTaken /\ FdHeld' = FdHeld
      BY <3>1, <1>0, CountsMove, HeldIsTaken
    <3>4. /\ allowed' \in [{"mmap", "fd"} -> Int]
          /\ allowed'["mmap"] = allowed["mmap"] - 1 /\ allowed'["fd"] = allowed["fd"]
      BY <3>2, <1>1
    <3> QED
      BY <3>3, <3>4, <1>1, <2>1, HeldIsTaken DEF ReadableInv, ReadableTypeOK
  <2>2. CASE ~(allowed["mmap"] > 0)
    <3>1. opening[t] = "closed" /\ To(t, "no_mmap")
      BY <1>2, <2>2 DEF NewRandomAccessFile, Acquire
    <3>2. allowed' = [allowed EXCEPT !["mmap"] = @ - 1]
      BY <1>2, <2>2 DEF NewRandomAccessFile, Acquire
    <3>3. /\ opening' \in [EnvThreads -> Places]
          /\ MmapTaken' = MmapTaken + 1 /\ MmapHeld' = MmapHeld
          /\ FdTaken' = FdTaken /\ FdHeld' = FdHeld
      BY <3>1, <1>0, CountsMove, HeldIsTaken
    <3>4. /\ allowed' \in [{"mmap", "fd"} -> Int]
          /\ allowed'["mmap"] = allowed["mmap"] - 1 /\ allowed'["fd"] = allowed["fd"]
      BY <3>2, <1>1
    <3> QED
      BY <3>3, <3>4, <1>1, HeldIsTaken DEF ReadableInv, ReadableTypeOK
  <2> QED
    BY <2>1, <2>2
<1>3. ASSUME NEW t \in EnvThreads, NoMmap(t) PROVE ReadableInv'
  <2>1. opening[t] = "no_mmap" /\ To(t, "limit_fd")
    BY <1>3 DEF NoMmap, Release
  <2>2. allowed' = [allowed EXCEPT !["mmap"] = @ + 1]
    BY <1>3 DEF NoMmap, Release
  <2>3. /\ opening' \in [EnvThreads -> Places]
        /\ MmapTaken' = MmapTaken - 1 /\ MmapHeld' = MmapHeld
        /\ FdTaken' = FdTaken /\ FdHeld' = FdHeld
    BY <2>1, <1>0, CountsMove, HeldIsTaken
  <2>4. /\ allowed' \in [{"mmap", "fd"} -> Int]
        /\ allowed'["mmap"] = allowed["mmap"] + 1 /\ allowed'["fd"] = allowed["fd"]
    BY <2>2, <1>1
  <2> QED
    BY <2>3, <2>4, <1>1, HeldIsTaken DEF ReadableInv, ReadableTypeOK
<1>4. ASSUME NEW t \in EnvThreads, LimitFd(t) PROVE ReadableInv'
  <2>1. CASE allowed["fd"] > 0
    <3>1. opening[t] = "limit_fd" /\ To(t, "fd")
      BY <1>4, <2>1 DEF LimitFd, Acquire
    <3>2. allowed' = [allowed EXCEPT !["fd"] = @ - 1]
      BY <1>4, <2>1 DEF LimitFd, Acquire
    <3>3. /\ opening' \in [EnvThreads -> Places]
          /\ MmapTaken' = MmapTaken /\ MmapHeld' = MmapHeld
          /\ FdTaken' = FdTaken + 1 /\ FdHeld' = FdHeld + 1
      BY <3>1, <1>0, CountsMove, HeldIsTaken
    <3>4. /\ allowed' \in [{"mmap", "fd"} -> Int]
          /\ allowed'["mmap"] = allowed["mmap"] /\ allowed'["fd"] = allowed["fd"] - 1
      BY <3>2, <1>1
    <3> QED
      BY <3>3, <3>4, <1>1, <2>1, HeldIsTaken DEF ReadableInv, ReadableTypeOK
  <2>2. CASE ~(allowed["fd"] > 0)
    <3>1. opening[t] = "limit_fd" /\ To(t, "no_fd")
      BY <1>4, <2>2 DEF LimitFd, Acquire
    <3>2. allowed' = [allowed EXCEPT !["fd"] = @ - 1]
      BY <1>4, <2>2 DEF LimitFd, Acquire
    <3>3. /\ opening' \in [EnvThreads -> Places]
          /\ MmapTaken' = MmapTaken /\ MmapHeld' = MmapHeld
          /\ FdTaken' = FdTaken + 1 /\ FdHeld' = FdHeld
      BY <3>1, <1>0, CountsMove, HeldIsTaken
    <3>4. /\ allowed' \in [{"mmap", "fd"} -> Int]
          /\ allowed'["mmap"] = allowed["mmap"] /\ allowed'["fd"] = allowed["fd"] - 1
      BY <3>2, <1>1
    <3> QED
      BY <3>3, <3>4, <1>1, HeldIsTaken DEF ReadableInv, ReadableTypeOK
  <2> QED
    BY <2>1, <2>2
<1>5. ASSUME NEW t \in EnvThreads, NoFd(t) PROVE ReadableInv'
  <2>1. opening[t] = "no_fd" /\ To(t, "path")
    BY <1>5 DEF NoFd, Release
  <2>2. allowed' = [allowed EXCEPT !["fd"] = @ + 1]
    BY <1>5 DEF NoFd, Release
  <2>3. /\ opening' \in [EnvThreads -> Places]
        /\ MmapTaken' = MmapTaken /\ MmapHeld' = MmapHeld
        /\ FdTaken' = FdTaken - 1 /\ FdHeld' = FdHeld
    BY <2>1, <1>0, CountsMove, HeldIsTaken
  <2>4. /\ allowed' \in [{"mmap", "fd"} -> Int]
        /\ allowed'["mmap"] = allowed["mmap"] /\ allowed'["fd"] = allowed["fd"] + 1
    BY <2>2, <1>1
  <2> QED
    BY <2>3, <2>4, <1>1, HeldIsTaken DEF ReadableInv, ReadableTypeOK
<1>6. ASSUME NEW t \in EnvThreads, Mapped(t) PROVE ReadableInv'
  <2>1. opening[t] = "mapping" /\ To(t, "mmap")
    BY <1>6 DEF Mapped
  <2>2. allowed' = allowed
    BY <1>6 DEF Mapped
  <2>3. /\ opening' \in [EnvThreads -> Places]
        /\ MmapTaken' = MmapTaken /\ MmapHeld' = MmapHeld
        /\ FdTaken' = FdTaken /\ FdHeld' = FdHeld
    BY <2>1, <1>0, CountsMove, HeldIsTaken
  <2>4. /\ allowed' \in [{"mmap", "fd"} -> Int]
        /\ allowed'["mmap"] = allowed["mmap"] /\ allowed'["fd"] = allowed["fd"]
    BY <2>2, <1>1
  <2> QED
    BY <2>3, <2>4, <1>1, HeldIsTaken DEF ReadableInv, ReadableTypeOK
<1>7. ASSUME NEW t \in EnvThreads, MapFails(t) PROVE ReadableInv'
  <2>1. opening[t] = "mapping" /\ To(t, "closed")
    BY <1>7 DEF MapFails, Release
  <2>2. allowed' = [allowed EXCEPT !["mmap"] = @ + 1]
    BY <1>7 DEF MapFails, Release
  <2>3. /\ opening' \in [EnvThreads -> Places]
        /\ MmapTaken' = MmapTaken - 1 /\ MmapHeld' = MmapHeld - 1
        /\ FdTaken' = FdTaken /\ FdHeld' = FdHeld
    BY <2>1, <1>0, CountsMove, HeldIsTaken
  <2>4. /\ allowed' \in [{"mmap", "fd"} -> Int]
        /\ allowed'["mmap"] = allowed["mmap"] + 1 /\ allowed'["fd"] = allowed["fd"]
    BY <2>2, <1>1
  <2> QED
    BY <2>3, <2>4, <1>1, HeldIsTaken DEF ReadableInv, ReadableTypeOK
<1>8. ASSUME NEW t \in EnvThreads, CloseReadable(t) PROVE ReadableInv'
  <2>1. CASE opening[t] = "mmap"
    <3>1. opening[t] = "mmap" /\ To(t, "closed")
      BY <1>8, <2>1 DEF CloseReadable, Release
    <3>2. allowed' = [allowed EXCEPT !["mmap"] = @ + 1]
      BY <1>8, <2>1 DEF CloseReadable, Release
    <3>3. /\ opening' \in [EnvThreads -> Places]
          /\ MmapTaken' = MmapTaken - 1 /\ MmapHeld' = MmapHeld - 1
          /\ FdTaken' = FdTaken /\ FdHeld' = FdHeld
      BY <3>1, <1>0, CountsMove, HeldIsTaken
    <3>4. /\ allowed' \in [{"mmap", "fd"} -> Int]
          /\ allowed'["mmap"] = allowed["mmap"] + 1 /\ allowed'["fd"] = allowed["fd"]
      BY <3>2, <1>1
    <3> QED
      BY <3>3, <3>4, <1>1, HeldIsTaken DEF ReadableInv, ReadableTypeOK
  <2>2. CASE opening[t] = "fd"
    <3>1. opening[t] = "fd" /\ To(t, "closed")
      BY <1>8, <2>2 DEF CloseReadable, Release
    <3>2. allowed' = [allowed EXCEPT !["fd"] = @ + 1]
      BY <1>8, <2>2 DEF CloseReadable, Release
    <3>3. /\ opening' \in [EnvThreads -> Places]
          /\ MmapTaken' = MmapTaken /\ MmapHeld' = MmapHeld
          /\ FdTaken' = FdTaken - 1 /\ FdHeld' = FdHeld - 1
      BY <3>1, <1>0, CountsMove, HeldIsTaken
    <3>4. /\ allowed' \in [{"mmap", "fd"} -> Int]
          /\ allowed'["mmap"] = allowed["mmap"] /\ allowed'["fd"] = allowed["fd"] + 1
      BY <3>2, <1>1
    <3> QED
      BY <3>3, <3>4, <1>1, HeldIsTaken DEF ReadableInv, ReadableTypeOK
  <2>3. CASE opening[t] = "path"
    <3>1. opening[t] = "path" /\ To(t, "closed")
      BY <1>8, <2>3 DEF CloseReadable, Release
    <3>2. allowed' = allowed
      BY <1>8, <2>3 DEF CloseReadable, Release
    <3>3. /\ opening' \in [EnvThreads -> Places]
          /\ MmapTaken' = MmapTaken /\ MmapHeld' = MmapHeld
          /\ FdTaken' = FdTaken /\ FdHeld' = FdHeld
      BY <3>1, <1>0, CountsMove, HeldIsTaken
    <3>4. /\ allowed' \in [{"mmap", "fd"} -> Int]
          /\ allowed'["mmap"] = allowed["mmap"] /\ allowed'["fd"] = allowed["fd"]
      BY <3>2, <1>1
    <3> QED
      BY <3>3, <3>4, <1>1, HeldIsTaken DEF ReadableInv, ReadableTypeOK
  <2> QED
    BY <1>8, <2>1, <2>2, <2>3 DEF CloseReadable
<1>9. CASE UNCHANGED readableVars
  BY <1>9 DEF readableVars, ReadableInv, ReadableTypeOK, MmapTaken, MmapHeld, FdTaken, FdHeld, At
<1> QED
  BY <1>2, <1>3, <1>4, <1>5, <1>6, <1>7, <1>8, <1>9 DEF ReadableNext

(* When every thread is at rest, nobody has taken anything. *)
LEMMA ReadableInvLimits == ReadableInv => LimitsHold
<1> SUFFICES ASSUME ReadableInv PROVE LimitsHold
  OBVIOUS
<1>1. ASSUME At({"closed", "path"}) = Cardinality(EnvThreads) PROVE allowed = Limits
  <2> DEFINE S == {t \in EnvThreads : opening[t] \in {"closed", "path"}}
  <2>1. S \in SUBSET EnvThreads /\ Cardinality(EnvThreads) = Cardinality(S)
    BY <1>1 DEF At
  <2> HIDE DEF S
  <2>2. EnvThreads = S
    BY <2>1, PosixAssumption, FS_Subset
  <2>3. \A t \in EnvThreads : opening[t] \in {"closed", "path"}
    BY <2>2 DEF S
  <2>4. MmapTaken = 0 /\ FdTaken = 0
    BY <2>3, NoneTaken
  <2>5. allowed["mmap"] = Limits["mmap"] /\ allowed["fd"] = Limits["fd"]
    BY <2>4, PosixAssumption DEF ReadableInv, ReadableTypeOK
  <2> QED
    BY <2>5, PosixAssumption DEF ReadableInv, ReadableTypeOK
<1>2. At({"mapping", "mmap"}) <= Limits["mmap"] /\ At({"fd"}) <= Limits["fd"]
  BY DEF ReadableInv, MmapHeld, FdHeld
<1> QED
  BY <1>1, <1>2 DEF LimitsHold

-----------------------------------------------------------------------------
(* A file to write.  What holds of the bytes in the file and in the buffer *)
(* whether a call has failed or not, and what holds as long as none has.   *)
Rising(s) == \A i, j \in 1..Len(s) : i < j => s[i] < s[j]
Before(s, t) == \A i \in 1..Len(s), j \in 1..Len(t) : s[i] < t[j]
UpTo(s, n) == \A i \in 1..Len(s) : s[i] <= n
NumberedFrom(s, n) == \A i \in 1..Len(s) : s[i] = n + i

WritableTypeOK ==
    /\ appended \in Nat /\ buf \in Seq(Nat) /\ kernel \in Seq(Nat)
    /\ durable \in Nat /\ synced \in Nat
    /\ directory \in BOOLEAN /\ failed \in BOOLEAN /\ manifest \in BOOLEAN /\ closed \in BOOLEAN

InOrder(k, b, n) == Rising(k) /\ Rising(b) /\ Before(k, b) /\ UpTo(k, n) /\ UpTo(b, n)
Exact(k, b, n) == NumberedFrom(k, 0) /\ NumberedFrom(b, Len(k)) /\ Len(k) + Len(b) = n

WritableInv ==
    /\ WritableTypeOK
    /\ InOrder(kernel, buf, appended)
    /\ Len(buf) <= BufferSize /\ durable <= Len(kernel) /\ synced <= appended
    /\ ~failed => Exact(kernel, buf, appended) /\ synced <= durable
    /\ closed => buf = <<>>
    /\ manifest /\ synced > 0 => directory

(* What concatenations and parts of rising sequences are. *)
Joined(s, t, st) ==
    /\ st \in Seq(Nat) /\ Len(st) = Len(s) + Len(t) /\ Rising(st)
    /\ \A n \in Nat : UpTo(s, n) /\ UpTo(t, n) => UpTo(st, n)
    /\ \A u \in Seq(Nat) : Before(s, u) /\ Before(t, u) => Before(st, u)
    /\ \A u \in Seq(Nat) : Before(u, s) /\ Before(u, t) => Before(u, st)
    /\ \A n \in Nat : NumberedFrom(s, n) /\ NumberedFrom(t, n + Len(s)) => NumberedFrom(st, n)

PartOf(s, m, n, part) ==
    /\ part \in Seq(Nat) /\ Len(part) = n - m + 1 /\ Rising(part)
    /\ \A i \in 1..Len(part) : part[i] = s[m + i - 1]
    /\ \A k \in Nat : UpTo(s, k) => UpTo(part, k)
    /\ \A u \in Seq(Nat) : (Before(s, u) => Before(part, u)) /\ (Before(u, s) => Before(u, part))

LEMMA ConcatRising ==
    ASSUME NEW s \in Seq(Nat), NEW t \in Seq(Nat), Rising(s), Rising(t), Before(s, t)
    PROVE  Joined(s, t, s \o t)
<1> DEFINE st == s \o t
<1>1. /\ st \in Seq(Nat) /\ Len(st) = Len(s) + Len(t)
      /\ \A i \in 1..Len(s) + Len(t) : st[i] = IF i <= Len(s) THEN s[i] ELSE t[i - Len(s)]
  BY ConcatProperties
<1>2. Len(s) \in Nat /\ Len(t) \in Nat
  OBVIOUS
<1> HIDE DEF st
(* An index of the whole is one of a part. *)
<1>3. ASSUME NEW i \in 1..Len(st)
      PROVE  \/ i \in 1..Len(s) /\ st[i] = s[i]
             \/ i - Len(s) \in 1..Len(t) /\ i > Len(s) /\ st[i] = t[i - Len(s)]
  BY <1>1, <1>2
<1>4. Rising(st)
  <2> SUFFICES ASSUME NEW i \in 1..Len(st), NEW j \in 1..Len(st), i < j PROVE st[i] < st[j]
    BY DEF Rising
  <2>1. CASE i \in 1..Len(s) /\ st[i] = s[i] /\ j \in 1..Len(s) /\ st[j] = s[j]
    BY <2>1 DEF Rising
  <2>2. CASE i \in 1..Len(s) /\ st[i] = s[i] /\ j - Len(s) \in 1..Len(t) /\ st[j] = t[j - Len(s)]
    BY <2>2 DEF Before
  <2>3. CASE /\ i - Len(s) \in 1..Len(t) /\ st[i] = t[i - Len(s)]
             /\ j - Len(s) \in 1..Len(t) /\ st[j] = t[j - Len(s)]
    <3>1. i - Len(s) < j - Len(s)
      BY <1>2
    <3> QED
      BY <2>3, <3>1 DEF Rising
  <2> QED
    BY <1>2, <1>3, <2>1, <2>2, <2>3
<1>5. \A n \in Nat : UpTo(s, n) /\ UpTo(t, n) => UpTo(st, n)
  BY <1>3 DEF UpTo
<1>6. /\ \A u \in Seq(Nat) : Before(s, u) /\ Before(t, u) => Before(st, u)
      /\ \A u \in Seq(Nat) : Before(u, s) /\ Before(u, t) => Before(u, st)
  BY <1>3 DEF Before
<1>7. ASSUME NEW n \in Nat, NumberedFrom(s, n), NumberedFrom(t, n + Len(s)) PROVE NumberedFrom(st, n)
  <2> SUFFICES ASSUME NEW i \in 1..Len(st) PROVE st[i] = n + i
    BY DEF NumberedFrom
  <2>1. CASE i \in 1..Len(s) /\ st[i] = s[i]
    BY <1>7, <2>1 DEF NumberedFrom
  <2>2. CASE i - Len(s) \in 1..Len(t) /\ st[i] = t[i - Len(s)]
    <3>1. t[i - Len(s)] = (n + Len(s)) + (i - Len(s))
      BY <1>7, <2>2 DEF NumberedFrom
    <3> QED
      BY <1>2, <2>2, <3>1
  <2> QED
    BY <1>3, <2>1, <2>2
<1> QED
  BY <1>1, <1>4, <1>5, <1>6, <1>7 DEF st, Joined

LEMMA PartRising ==
    ASSUME NEW s \in Seq(Nat), Rising(s), NEW m \in 1..Len(s) + 1, NEW n \in m - 1..Len(s)
    PROVE  PartOf(s, m, n, SubSeq(s, m, n))
<1> DEFINE part == SubSeq(s, m, n)
<1>1. Len(s) \in Nat /\ m \in Int /\ n \in Int /\ n - m + 1 \in Nat
  OBVIOUS
<1>2. /\ part \in Seq(Nat) /\ Len(part) = n - m + 1
      /\ \A i \in 1..Len(part) : part[i] = s[m + i - 1]
  <2>1. \A i \in m..n : s[i] \in Nat
    BY <1>1
  <2> QED
    BY <1>1, <2>1, SubSeqProperties
<1> HIDE DEF part
<1>3. \A i \in 1..Len(part) : m + i - 1 \in 1..Len(s) /\ part[i] = s[m + i - 1]
  BY <1>1, <1>2
<1>4. \A i, j \in 1..Len(part) : i < j => m + i - 1 < m + j - 1
  BY <1>1, <1>2
<1>5. Rising(part)
  BY <1>3, <1>4 DEF Rising
<1>6. \A k \in Nat : UpTo(s, k) => UpTo(part, k)
  BY <1>3 DEF UpTo
<1>7. \A u \in Seq(Nat) : (Before(s, u) => Before(part, u)) /\ (Before(u, s) => Before(u, part))
  BY <1>3 DEF Before
<1> QED
  BY <1>2, <1>5, <1>6, <1>7 DEF part, PartOf

LEMMA WritableInitially == WritableInit => WritableInv
<1> SUFFICES ASSUME WritableInit PROVE WritableInv
  OBVIOUS
<1>1. /\ buf = <<>> /\ kernel = <<>> /\ Len(buf) = 0 /\ Len(kernel) = 0 /\ appended = 0
      /\ buf \in Seq(Nat) /\ kernel \in Seq(Nat)
  BY EmptySeq DEF WritableInit
<1>2. WritableTypeOK
  <2>1. /\ appended \in Nat /\ durable \in Nat /\ synced \in Nat
        /\ buf \in Seq(Nat) /\ kernel \in Seq(Nat)
    BY <1>1 DEF WritableInit
  <2>2. directory \in BOOLEAN /\ failed \in BOOLEAN /\ manifest \in BOOLEAN /\ closed \in BOOLEAN
    BY DEF WritableInit
  <2> QED
    BY <2>1, <2>2 DEF WritableTypeOK
<1>3. InOrder(kernel, buf, appended) /\ Exact(kernel, buf, appended)
  BY <1>1 DEF InOrder, Exact, Rising, Before, UpTo, NumberedFrom
<1> QED
  BY <1>1, <1>2, <1>3, PosixAssumption DEF WritableInit, WritableInv

(* A write puts the bytes, or the first of them, behind those of the file. *)
LEMMA WritesKeep ==
    ASSUME kernel \in Seq(Nat), failed \in BOOLEAN, Rising(kernel),
           NEW data \in Seq(Nat), Rising(data), Before(kernel, data),
           NEW n \in Nat, UpTo(kernel, n), UpTo(data, n), NEW ok \in BOOLEAN, Writes(data, ok)
    PROVE  /\ kernel' \in Seq(Nat) /\ Rising(kernel') /\ UpTo(kernel', n) /\ Len(kernel') >= Len(kernel)
           /\ failed' \in BOOLEAN
           /\ ~failed' => ok /\ ~failed /\ kernel' = kernel \o data
           /\ \A u \in Seq(Nat) : Before(kernel, u) /\ Before(data, u) => Before(kernel', u)
<1>1. failed' = (failed \/ ~ok)
  BY DEF Writes
<1>2. Len(kernel) \in Nat /\ Len(data) \in Nat
  OBVIOUS
<1>3. CASE ok
  <2> DEFINE all == kernel \o data
  <2>1. Joined(kernel, data, all) /\ kernel' = all
    BY <1>3, ConcatRising DEF Writes
  <2> HIDE DEF all
  <2>2. /\ all \in Seq(Nat) /\ Rising(all) /\ UpTo(all, n) /\ Len(all) = Len(kernel) + Len(data)
        /\ \A u \in Seq(Nat) : Before(kernel, u) /\ Before(data, u) => Before(all, u)
    <3>1. all \in Seq(Nat) /\ Rising(all) /\ Len(all) = Len(kernel) + Len(data)
      BY <2>1 DEF Joined
    <3>2. UpTo(all, n)
      BY <2>1 DEF Joined
    <3>3. ASSUME NEW u \in Seq(Nat), Before(kernel, u), Before(data, u) PROVE Before(all, u)
      BY <2>1, <3>3 DEF Joined
    <3> QED
      BY <3>1, <3>2, <3>3
  <2>3. failed' \in BOOLEAN /\ (~failed' => ok /\ ~failed)
    BY <1>1, <1>3
  <2>4. Len(all) >= Len(kernel)
    BY <1>2, <2>2
  <2> QED
    BY <2>1, <2>2, <2>3, <2>4 DEF all
<1>4. CASE ~ok
  <2>1. PICK k \in 0..Len(data) - 1 : kernel' = kernel \o SubSeq(data, 1, k)
    BY <1>4 DEF Writes
  <2> DEFINE part == SubSeq(data, 1, k)
             all == kernel \o part
  <2>2. 1 \in 1..Len(data) + 1 /\ k \in 1 - 1..Len(data)
    BY <1>2
  <2>3. PartOf(data, 1, k, part) /\ kernel' = all
    BY <2>1, <2>2, PartRising
  <2> HIDE DEF part, all
  <2>4. /\ part \in Seq(Nat) /\ Rising(part) /\ UpTo(part, n) /\ Before(kernel, part)
        /\ \A u \in Seq(Nat) : Before(data, u) => Before(part, u)
    BY <2>3 DEF PartOf
  <2>5. Joined(kernel, part, all)
    BY <2>4, ConcatRising DEF all
  <2>6. /\ all \in Seq(Nat) /\ Rising(all) /\ UpTo(all, n) /\ Len(all) = Len(kernel) + Len(part)
        /\ \A u \in Seq(Nat) : Before(kernel, u) /\ Before(data, u) => Before(all, u)
    <3>1. all \in Seq(Nat) /\ Rising(all) /\ Len(all) = Len(kernel) + Len(part)
      BY <2>5 DEF Joined
    <3>2. UpTo(all, n)
      BY <2>4, <2>5 DEF Joined
    <3>3. ASSUME NEW u \in Seq(Nat), Before(kernel, u), Before(data, u) PROVE Before(all, u)
      BY <2>4, <2>5, <3>3 DEF Joined
    <3> QED
      BY <3>1, <3>2, <3>3
  <2>7. failed' \in BOOLEAN /\ failed'
    BY <1>1, <1>4
  <2>8. Len(all) >= Len(kernel)
    <3>1. Len(part) \in Nat
      BY <2>4
    <3> QED
      BY <1>2, <2>6, <3>1
  <2> QED
    BY <2>3, <2>6, <2>7, <2>8
<1> QED
  BY <1>3, <1>4

LEMMA ExactConcat ==
    ASSUME NEW k \in Seq(Nat), NEW b \in Seq(Nat), NEW n \in Nat, InOrder(k, b, n), Exact(k, b, n)
    PROVE  Exact(k \o b, <<>>, n)
<1>1. /\ k \o b \in Seq(Nat) /\ Len(k \o b) = Len(k) + Len(b)
      /\ NumberedFrom(k, 0) /\ NumberedFrom(b, Len(k)) => NumberedFrom(k \o b, 0)
  <2>1. 0 \in Nat /\ 0 + Len(k) = Len(k)
    OBVIOUS
  <2>2. Joined(k, b, k \o b)
    BY ConcatRising DEF InOrder
  <2> QED
    BY <2>1, <2>2 DEF Joined
<1>2. Len(<<>>) = 0
  OBVIOUS
<1> QED
  BY <1>1, <1>2 DEF Exact, NumberedFrom

LEMMA EmptyInOrder ==
    ASSUME NEW k \in Seq(Nat), NEW n \in Nat, Rising(k), UpTo(k, n)
    PROVE  InOrder(k, <<>>, n) /\ Len(<<>>) = 0 /\ <<>> \in Seq(Nat)
<1>1. Len(<<>>) = 0 /\ <<>> \in Seq(Nat)
  BY EmptySeq
<1> QED
  BY <1>1 DEF InOrder, Rising, Before, UpTo

-----------------------------------------------------------------------------
(* Flush and Close empty the buffer into the file. *)
LEMMA FlushKeeps ==
    ASSUME WritableInv, FlushData, manifest' = manifest, closed' \in BOOLEAN
    PROVE  WritableInv'
<1>1. PICK ok \in BOOLEAN : Writes(buf, ok) /\ buf' = <<>>
  BY DEF FlushData, FlushBuffer
<1>2. UNCHANGED <<appended, durable, directory, synced>>
  BY DEF FlushData
<1>3. /\ appended \in Nat /\ buf \in Seq(Nat) /\ kernel \in Seq(Nat) /\ failed \in BOOLEAN
      /\ Rising(kernel) /\ Rising(buf) /\ Before(kernel, buf)
      /\ UpTo(kernel, appended) /\ UpTo(buf, appended)
      /\ InOrder(kernel, buf, appended) /\ Len(kernel) \in Nat /\ durable \in Nat
      /\ synced \in Nat /\ durable <= Len(kernel) /\ synced <= appended
  BY DEF WritableInv, WritableTypeOK, InOrder
<1>4. /\ kernel' \in Seq(Nat) /\ Rising(kernel') /\ UpTo(kernel', appended)
      /\ Len(kernel') >= Len(kernel) /\ failed' \in BOOLEAN
      /\ ~failed' => ok /\ ~failed /\ kernel' = kernel \o buf
  BY <1>1, <1>3, WritesKeep
<1>5. WritableTypeOK'
  BY <1>1, <1>2, <1>3, <1>4, EmptySeq DEF WritableInv, WritableTypeOK
<1>6. InOrder(kernel', buf', appended') /\ Len(buf') = 0
  BY <1>1, <1>2, <1>3, <1>4, EmptyInOrder
<1>7. durable' <= Len(kernel') /\ Len(buf') <= BufferSize
  <2>1. Len(kernel') \in Nat
    BY <1>4
  <2> QED
    BY <1>2, <1>3, <1>4, <1>6, <2>1, PosixAssumption
<1>8. ~failed' => Exact(kernel', buf', appended') /\ synced' <= durable'
  <2> SUFFICES ASSUME ~failed' PROVE Exact(kernel', buf', appended') /\ synced' <= durable'
    OBVIOUS
  <2>1. ~failed /\ kernel' = kernel \o buf
    BY <1>4
  <2>2. Exact(kernel, buf, appended) /\ synced <= durable
    BY <2>1 DEF WritableInv
  <2>3. Exact(kernel \o buf, <<>>, appended)
    BY <1>3, <2>2, ExactConcat
  <2> QED
    BY <1>1, <1>2, <2>1, <2>2, <2>3
<1> QED
  BY <1>1, <1>2, <1>3, <1>5, <1>6, <1>7, <1>8 DEF WritableInv

-----------------------------------------------------------------------------
(* Append: the bytes appended, the first of them that fill the buffer, and *)
(* the rest of them.                                                       *)
NewBytes(n, size, data) ==
    /\ data \in Seq(Nat) /\ Len(data) = size
    /\ Rising(data) /\ UpTo(data, n + size) /\ NumberedFrom(data, n)
    /\ \A u \in Seq(Nat) : UpTo(u, n) => Before(u, data)

SplitAt(s, c, pre, rest) ==
    /\ pre \in Seq(Nat) /\ Rising(pre) /\ Len(pre) = c
    /\ rest \in Seq(Nat) /\ Rising(rest) /\ Len(rest) = Len(s) - c
    /\ Before(pre, rest)
    /\ \A n \in Nat : UpTo(s, n) => UpTo(pre, n) /\ UpTo(rest, n)
    /\ \A u \in Seq(Nat) : Before(u, s) => Before(u, pre) /\ Before(u, rest)
    /\ \A n \in Nat : NumberedFrom(s, n) => NumberedFrom(pre, n) /\ NumberedFrom(rest, n + c)

LEMMA BytesAreNew ==
    ASSUME NEW n \in Nat, NEW size \in Nat
    PROVE  NewBytes(n, size, [i \in 1..size |-> n + i])
<1> DEFINE data == [i \in 1..size |-> n + i]
<1>1. data \in [1..size -> Nat] /\ \A i \in 1..size : data[i] = n + i
  OBVIOUS
<1> HIDE DEF data
<1>2. data \in Seq(Nat) /\ Len(data) = size
  BY <1>1
<1>3. Rising(data) /\ UpTo(data, n + size) /\ NumberedFrom(data, n)
  BY <1>1, <1>2 DEF Rising, UpTo, NumberedFrom
<1>4. ASSUME NEW u \in Seq(Nat), UpTo(u, n) PROVE Before(u, data)
  BY <1>1, <1>2, <1>4 DEF UpTo, Before
<1> QED
  BY <1>2, <1>3, <1>4 DEF NewBytes, data

LEMMA SplitRising ==
    ASSUME NEW s \in Seq(Nat), Rising(s), NEW c \in 0..Len(s)
    PROVE  SplitAt(s, c, SubSeq(s, 1, c), SubSeq(s, c + 1, Len(s)))
<1> DEFINE pre == SubSeq(s, 1, c)
           rest == SubSeq(s, c + 1, Len(s))
<1>1. Len(s) \in Nat /\ c \in Nat /\ c <= Len(s)
  OBVIOUS
<1>2. 1 \in 1..Len(s) + 1 /\ c \in 1 - 1..Len(s) /\ c + 1 \in 1..Len(s) + 1 /\ Len(s) \in (c + 1) - 1..Len(s)
  BY <1>1
<1>3. PartOf(s, 1, c, pre) /\ PartOf(s, c + 1, Len(s), rest)
  BY <1>2, PartRising
<1> HIDE DEF pre, rest
<1>4. /\ pre \in Seq(Nat) /\ Rising(pre) /\ Len(pre) = c
      /\ \A i \in 1..Len(pre) : i \in 1..Len(s) /\ pre[i] = s[i]
  BY <1>1, <1>3 DEF PartOf
<1>5. /\ rest \in Seq(Nat) /\ Rising(rest) /\ Len(rest) = Len(s) - c
      /\ \A i \in 1..Len(rest) : c + i \in 1..Len(s) /\ rest[i] = s[c + i]
  <2>1. /\ rest \in Seq(Nat) /\ Rising(rest) /\ Len(rest) = Len(s) - (c + 1) + 1
        /\ \A i \in 1..Len(rest) : rest[i] = s[c + 1 + i - 1]
    BY <1>3 DEF PartOf
  <2>2. Len(rest) = Len(s) - c
    BY <1>1, <2>1
  <2>3. \A i \in 1..Len(rest) : c + 1 + i - 1 = c + i /\ c + i \in 1..Len(s)
    BY <1>1, <2>2
  <2> QED
    BY <2>1, <2>2, <2>3
<1>6. Before(pre, rest)
  <2> SUFFICES ASSUME NEW i \in 1..Len(pre), NEW j \in 1..Len(rest) PROVE pre[i] < rest[j]
    BY DEF Before
  <2>1. i \in 1..Len(s) /\ c + j \in 1..Len(s) /\ pre[i] = s[i] /\ rest[j] = s[c + j]
    BY <1>4, <1>5
  <2>2. i < c + j
    BY <1>1, <1>4, <1>5
  <2> QED
    BY <2>1, <2>2 DEF Rising
<1>7. \A n \in Nat : UpTo(s, n) => UpTo(pre, n) /\ UpTo(rest, n)
  BY <1>3 DEF PartOf
<1>8. \A u \in Seq(Nat) : Before(u, s) => Before(u, pre) /\ Before(u, rest)
  BY <1>3 DEF PartOf
<1>9. ASSUME NEW n \in Nat, NumberedFrom(s, n) PROVE NumberedFrom(pre, n) /\ NumberedFrom(rest, n + c)
  BY <1>1, <1>4, <1>5, <1>9 DEF NumberedFrom
<1> QED
  BY <1>4, <1>5, <1>6, <1>7, <1>8, <1>9 DEF SplitAt, pre, rest

LEMMA UpToMore ==
    ASSUME NEW s \in Seq(Nat), NEW m \in Nat, NEW n \in Nat, m <= n, UpTo(s, m)
    PROVE  UpTo(s, n)
  BY DEF UpTo

(* What is left to show of a step that leaves the disk alone. *)
LEMMA StaysSound ==
    ASSUME WritableInv, UNCHANGED <<durable, directory, synced, manifest, closed>>, ~closed,
           appended' \in Nat, appended' >= appended,
           kernel' \in Seq(Nat), Len(kernel') >= Len(kernel), buf' \in Seq(Nat), Len(buf') <= BufferSize,
           failed' \in BOOLEAN, InOrder(kernel', buf', appended'),
           ~failed' => ~failed /\ Exact(kernel', buf', appended')
    PROVE  WritableInv'
<1>1. WritableTypeOK'
  BY DEF WritableInv, WritableTypeOK
<1>2. durable' <= Len(kernel') /\ synced' <= appended'
  <2>1. /\ appended \in Nat /\ durable \in Nat /\ synced \in Nat /\ Len(kernel) \in Nat
        /\ Len(kernel') \in Nat /\ durable <= Len(kernel) /\ synced <= appended
    BY DEF WritableInv, WritableTypeOK
  <2> QED
    BY <2>1
<1>3. ~failed' => synced' <= durable'
  BY DEF WritableInv
<1>4. (closed' => buf' = <<>>) /\ (manifest' /\ synced' > 0 => directory')
  BY DEF WritableInv
<1> QED
  BY <1>1, <1>2, <1>3, <1>4 DEF WritableInv

(* Append fills the buffer, writes a full one, and buffers or writes what  *)
(* is left: the bytes stay in order and, without an error, complete.       *)
LEMMA AppendKeeps ==
    ASSUME WritableInv, ~closed, UNCHANGED <<manifest, closed>>, AppendData
    PROVE  WritableInv'
<1>1. PICK size \in 1..MaxBytes - appended, ok \in BOOLEAN :
          LET data == [i \in 1..size |-> appended + i]
              copy == IF size < BufferSize - Len(buf) THEN size ELSE BufferSize - Len(buf)
              full == buf \o SubSeq(data, 1, copy)
              rest == SubSeq(data, copy + 1, size)
          IN /\ appended' = appended + size
             /\ IF rest = <<>> THEN ok /\ buf' = full /\ UNCHANGED <<kernel, failed>>
                ELSE IF Len(rest) < BufferSize
                THEN Writes(full, ok) /\ buf' = IF ok THEN rest ELSE <<>>
                ELSE Writes(full \o rest, ok) /\ buf' = <<>>
             /\ UNCHANGED <<durable, directory, synced>>
  BY DEF AppendData
<1> DEFINE data == [i \in 1..size |-> appended + i]
           copy == IF size < BufferSize - Len(buf) THEN size ELSE BufferSize - Len(buf)
           pre == SubSeq(data, 1, copy)
           full == buf \o pre
           rest == SubSeq(data, copy + 1, size)
           all == full \o rest
           n == appended + size
<1>2. /\ appended' = n
      /\ \/ rest = <<>> /\ ok /\ buf' = full /\ UNCHANGED <<kernel, failed>>
         \/ Len(rest) < BufferSize /\ Writes(full, ok) /\ buf' = IF ok THEN rest ELSE <<>>
         \/ Writes(all, ok) /\ buf' = <<>>
      /\ UNCHANGED <<durable, directory, synced>>
  BY <1>1
<1>3. /\ appended \in Nat /\ buf \in Seq(Nat) /\ kernel \in Seq(Nat) /\ failed \in BOOLEAN
      /\ Rising(kernel) /\ Rising(buf) /\ Before(kernel, buf)
      /\ UpTo(kernel, appended) /\ UpTo(buf, appended)
      /\ Len(kernel) \in Nat /\ Len(buf) \in Nat /\ Len(buf) <= BufferSize
      /\ ~failed => Exact(kernel, buf, appended)
  BY DEF WritableInv, WritableTypeOK, InOrder
<1>4. /\ size \in Nat /\ BufferSize \in Nat /\ BufferSize > 0 /\ n \in Nat /\ n >= appended
      /\ copy \in 0..size /\ Len(buf) + copy <= BufferSize
  BY <1>3, PosixAssumption
<1>5. NewBytes(appended, size, data)
  BY <1>3, <1>4, BytesAreNew
<1>6. SplitAt(data, copy, pre, rest)
  <2>1. data \in Seq(Nat) /\ Rising(data) /\ Len(data) = size
    BY <1>5 DEF NewBytes
  <2> HIDE DEF data, copy
  <2> QED
    BY <1>4, <2>1, SplitRising
<1> HIDE DEF data, copy, pre, rest, n
<1>7. /\ pre \in Seq(Nat) /\ Rising(pre) /\ Len(pre) = copy /\ UpTo(pre, n)
      /\ rest \in Seq(Nat) /\ Rising(rest) /\ Len(rest) = size - copy /\ UpTo(rest, n)
      /\ Before(pre, rest) /\ Before(buf, pre) /\ Before(buf, rest)
      /\ Before(kernel, pre) /\ Before(kernel, rest)
      /\ NumberedFrom(pre, appended) /\ NumberedFrom(rest, appended + copy)
  <2>1. Len(data) = size /\ UpTo(data, n) /\ NumberedFrom(data, appended)
    BY <1>5 DEF NewBytes, n
  <2>2. Before(buf, data) /\ Before(kernel, data)
    BY <1>3, <1>5 DEF NewBytes
  <2> QED
    BY <1>3, <1>4, <1>6, <2>1, <2>2 DEF SplitAt
<1>8. UpTo(kernel, n) /\ UpTo(buf, n)
  BY <1>3, <1>4, UpToMore
(* The filled buffer. *)
<1>9. Joined(buf, pre, full)
  BY <1>3, <1>7, ConcatRising
<1> HIDE DEF full
<1>10. /\ full \in Seq(Nat) /\ Rising(full) /\ Len(full) = Len(buf) + copy /\ UpTo(full, n)
       /\ Before(kernel, full) /\ Before(full, rest)
  BY <1>3, <1>4, <1>7, <1>8, <1>9 DEF Joined
(* All there is to write. *)
<1>11. Joined(full, rest, all)
  BY <1>7, <1>10, ConcatRising
<1> HIDE DEF all
<1>12. /\ all \in Seq(Nat) /\ Rising(all) /\ Len(all) = Len(full) + Len(rest) /\ UpTo(all, n)
       /\ Before(kernel, all)
  BY <1>3, <1>4, <1>7, <1>10, <1>11 DEF Joined
<1>13. ASSUME ~failed
       PROVE  /\ NumberedFrom(kernel, 0) /\ NumberedFrom(full, Len(kernel))
              /\ NumberedFrom(rest, Len(kernel) + Len(full)) /\ NumberedFrom(all, Len(kernel))
              /\ Len(kernel) + (Len(full) + Len(rest)) = n
  <2>1. NumberedFrom(kernel, 0) /\ NumberedFrom(buf, Len(kernel)) /\ Len(kernel) + Len(buf) = appended
    BY <1>3, <1>13 DEF Exact
  <2>2. NumberedFrom(full, Len(kernel))
    BY <1>3, <1>7, <1>9, <2>1 DEF Joined
  <2>3. Len(kernel) + Len(full) = appended + copy
    <3>1. /\ Len(kernel) \in Nat /\ Len(buf) \in Nat /\ copy \in Nat
          /\ Len(full) = Len(buf) + copy /\ Len(kernel) + Len(buf) = appended
      BY <1>3, <1>4, <1>10, <2>1
    <3> QED
      BY <3>1
  <2>4. NumberedFrom(rest, Len(kernel) + Len(full))
    BY <1>7, <2>3
  <2>5. NumberedFrom(all, Len(kernel))
    BY <1>3, <1>11, <2>2, <2>4 DEF Joined
  <2>6. Len(kernel) + (Len(full) + Len(rest)) = n
    <3>1. /\ Len(kernel) \in Nat /\ Len(full) \in Nat /\ copy \in Nat /\ size \in Nat
          /\ appended \in Nat /\ Len(rest) = size - copy /\ Len(kernel) + Len(full) = appended + copy
      BY <1>3, <1>4, <1>7, <1>10, <2>3
    <3> QED
      BY <3>1 DEF n
  <2> QED
    BY <2>1, <2>2, <2>4, <2>5, <2>6
(* The three outcomes. *)
<1> DEFINE Kept == /\ kernel' \in Seq(Nat) /\ Len(kernel') >= Len(kernel)
                   /\ buf' \in Seq(Nat) /\ Len(buf') <= BufferSize
                   /\ failed' \in BOOLEAN /\ InOrder(kernel', buf', n)
                   /\ ~failed' => ~failed /\ Exact(kernel', buf', n)
<1>14. Kept
  <2>1. CASE rest = <<>> /\ ok /\ buf' = full /\ UNCHANGED <<kernel, failed>>
    <3>1. /\ kernel' \in Seq(Nat) /\ Len(kernel') >= Len(kernel) /\ buf' \in Seq(Nat)
          /\ Len(buf') <= BufferSize /\ failed' \in BOOLEAN
      BY <1>3, <1>4, <1>10, <2>1
    <3>2. InOrder(kernel', buf', n)
      BY <1>3, <1>8, <1>10, <2>1 DEF InOrder
    <3>3. ASSUME ~failed PROVE Exact(kernel', buf', n)
      <4>1. Len(rest) = 0
        BY <2>1
      <4>2. Len(kernel) + Len(full) = n
        BY <1>3, <1>10, <1>13, <3>3, <4>1
      <4> QED
        BY <1>13, <2>1, <3>3, <4>2 DEF Exact
    <3> QED
      BY <2>1, <3>1, <3>2, <3>3
  <2>2. CASE Len(rest) < BufferSize /\ Writes(full, ok) /\ buf' = IF ok THEN rest ELSE <<>>
    <3>1. /\ kernel' \in Seq(Nat) /\ Rising(kernel') /\ UpTo(kernel', n) /\ Len(kernel') >= Len(kernel)
          /\ failed' \in BOOLEAN /\ (~failed' => ok /\ ~failed /\ kernel' = kernel \o full)
          /\ Before(kernel', rest)
      BY <1>3, <1>4, <1>7, <1>8, <1>10, <2>2, WritesKeep
    <3>2. buf' \in Seq(Nat) /\ Len(buf') <= BufferSize /\ InOrder(kernel', buf', n)
      <4>1. CASE ok
        <5>1. buf' = rest /\ Len(rest) <= BufferSize
          BY <1>4, <1>7, <2>2, <4>1
        <5> QED
          BY <1>7, <3>1, <5>1 DEF InOrder
      <4>2. CASE ~ok
        <5>1. InOrder(kernel', <<>>, n) /\ Len(<<>>) = 0 /\ <<>> \in Seq(Nat)
          BY <1>4, <3>1, EmptyInOrder
        <5> QED
          BY <1>4, <2>2, <4>2, <5>1
      <4> QED
        BY <4>1, <4>2
    <3>3. ASSUME ~failed' PROVE ~failed /\ Exact(kernel', buf', n)
      <4>1. ok /\ ~failed /\ kernel' = kernel \o full /\ buf' = rest
        BY <2>2, <3>1, <3>3
      <4>2. Joined(kernel, full, kernel')
        BY <1>3, <1>10, <4>1, ConcatRising
      <4>3. 0 + Len(kernel) = Len(kernel) /\ 0 \in Nat
        BY <1>3
      <4>4. NumberedFrom(kernel', 0) /\ Len(kernel') = Len(kernel) + Len(full)
        BY <1>13, <4>1, <4>2, <4>3 DEF Joined
      <4>5. Len(kernel') + Len(rest) = n
        BY <1>3, <1>7, <1>10, <1>13, <4>1, <4>4
      <4> QED
        BY <1>13, <4>1, <4>4, <4>5 DEF Exact
    <3> QED
      BY <3>1, <3>2, <3>3
  <2>3. CASE Writes(all, ok) /\ buf' = <<>>
    <3>1. /\ kernel' \in Seq(Nat) /\ Rising(kernel') /\ UpTo(kernel', n) /\ Len(kernel') >= Len(kernel)
          /\ failed' \in BOOLEAN /\ (~failed' => ok /\ ~failed /\ kernel' = kernel \o all)
      BY <1>3, <1>4, <1>8, <1>12, <2>3, WritesKeep
    <3>2. buf' \in Seq(Nat) /\ Len(buf') = 0 /\ InOrder(kernel', buf', n)
      BY <1>4, <2>3, <3>1, EmptyInOrder
    <3>3. ASSUME ~failed' PROVE ~failed /\ Exact(kernel', buf', n)
      <4>1. ~failed /\ kernel' = kernel \o all
        BY <3>1, <3>3
      <4>2. Joined(kernel, all, kernel')
        BY <1>3, <1>12, <4>1, ConcatRising
      <4>3. 0 + Len(kernel) = Len(kernel) /\ 0 \in Nat
        BY <1>3
      <4>4. NumberedFrom(kernel', 0) /\ Len(kernel') = Len(kernel) + Len(all)
        BY <1>13, <4>1, <4>2, <4>3 DEF Joined
      <4>5. Len(kernel') + Len(buf') = n
        BY <1>3, <1>7, <1>10, <1>12, <1>13, <3>2, <4>1, <4>4
      <4>6. NumberedFrom(buf', Len(kernel'))
        BY <3>2 DEF NumberedFrom
      <4> QED
        BY <4>1, <4>4, <4>5, <4>6 DEF Exact
    <3>4. Len(buf') <= BufferSize
      BY <1>4, <3>2
    <3> QED
      BY <3>1, <3>2, <3>3, <3>4
  <2> QED
    BY <1>2, <2>1, <2>2, <2>3
<1> QED
  BY <1>2, <1>4, <1>14, StaysSound

(* Sync empties the buffer too, and promises only what is on the disk. *)
LEMMA SyncKeeps ==
    ASSUME WritableInv, ~closed, UNCHANGED <<manifest, closed>>, SyncData
    PROVE  WritableInv'
<1>1. /\ appended \in Nat /\ buf \in Seq(Nat) /\ kernel \in Seq(Nat) /\ failed \in BOOLEAN
      /\ Rising(kernel) /\ Rising(buf) /\ Before(kernel, buf) /\ UpTo(kernel, appended) /\ UpTo(buf, appended)
      /\ InOrder(kernel, buf, appended) /\ Len(kernel) \in Nat /\ Len(buf) \in Nat /\ Len(buf) <= BufferSize
      /\ durable \in Nat /\ synced \in Nat /\ durable <= Len(kernel) /\ synced <= appended
  BY DEF WritableInv, WritableTypeOK, InOrder
<1>2. /\ directory \in BOOLEAN /\ manifest \in BOOLEAN /\ closed \in BOOLEAN
      /\ manifest /\ synced > 0 => directory
  BY DEF WritableInv, WritableTypeOK
<1>3. /\ appended' = appended /\ directory' \in {directory, directory \/ manifest}
      /\ manifest' = manifest /\ closed' = closed
  BY DEF SyncData
<1>4. directory' \in BOOLEAN /\ (directory => directory')
  BY <1>2, <1>3
<1>5. CASE SyncFails /\ UNCHANGED <<kernel, buf>>
  <2>1. failed' = TRUE /\ durable' = durable /\ synced' = synced /\ kernel' = kernel /\ buf' = buf
    BY <1>5 DEF SyncFails
  <2>2. WritableTypeOK'
    BY <1>1, <1>2, <1>3, <1>4, <2>1 DEF WritableTypeOK
  <2> QED
    BY <1>1, <1>2, <1>3, <1>4, <2>1, <2>2 DEF WritableInv
<1>6. CASE /\ ~manifest \/ directory'
           /\ Writes(buf, TRUE) /\ buf' = <<>> /\ durable' = Len(kernel') /\ synced' = appended
  <2>1. /\ kernel' \in Seq(Nat) /\ Rising(kernel') /\ UpTo(kernel', appended)
        /\ failed' \in BOOLEAN /\ (~failed' => ~failed /\ kernel' = kernel \o buf)
    BY <1>1, <1>6, WritesKeep
  <2>2. InOrder(kernel', buf', appended') /\ Len(buf') = 0 /\ buf' \in Seq(Nat)
    BY <1>1, <1>3, <1>6, <2>1, EmptyInOrder
  <2>3. ASSUME ~failed' PROVE Exact(kernel', buf', appended') /\ synced' <= durable'
    <3>1. ~failed /\ kernel' = kernel \o buf
      BY <2>1, <2>3
    <3>2. Exact(kernel, buf, appended)
      BY <3>1 DEF WritableInv
    <3>3. Exact(kernel', buf', appended')
      BY <1>1, <1>3, <1>6, <3>1, <3>2, ExactConcat
    <3>4. Len(kernel') = appended' /\ synced' = appended' /\ durable' = Len(kernel')
      BY <1>1, <1>3, <1>6, <2>1, <2>2, <3>3 DEF Exact
    <3> QED
      BY <1>1, <1>3, <3>3, <3>4
  <2>4. Len(kernel') \in Nat
    BY <2>1
  <2>5. WritableTypeOK'
    BY <1>1, <1>2, <1>3, <1>4, <1>6, <2>1, <2>2, <2>4 DEF WritableTypeOK
  <2>6. durable' <= Len(kernel') /\ synced' <= appended' /\ Len(buf') <= BufferSize
    BY <1>1, <1>3, <1>6, <2>2, <2>4, PosixAssumption
  <2>7. (closed' => buf' = <<>>) /\ (manifest' /\ synced' > 0 => directory')
    BY <1>3, <1>6
  <2> QED
    BY <2>2, <2>3, <2>5, <2>6, <2>7 DEF WritableInv
<1>7. CASE Writes(buf, FALSE) /\ buf' = <<>> /\ UNCHANGED <<durable, synced>>
  <2>1. /\ kernel' \in Seq(Nat) /\ Rising(kernel') /\ UpTo(kernel', appended)
        /\ Len(kernel') >= Len(kernel) /\ failed' \in BOOLEAN /\ failed'
    BY <1>1, <1>7, WritesKeep
  <2>2. InOrder(kernel', buf', appended') /\ Len(buf') = 0 /\ buf' \in Seq(Nat)
    BY <1>1, <1>3, <1>7, <2>1, EmptyInOrder
  <2>3. Len(kernel') \in Nat
    BY <2>1
  <2>4. WritableTypeOK'
    BY <1>1, <1>2, <1>3, <1>4, <1>7, <2>1, <2>2 DEF WritableTypeOK
  <2>5. durable' <= Len(kernel') /\ synced' <= appended' /\ Len(buf') <= BufferSize
    BY <1>1, <1>3, <1>7, <2>1, <2>2, <2>3, PosixAssumption
  <2>6. (closed' => buf' = <<>>) /\ (manifest' /\ synced' > 0 => directory')
    BY <1>2, <1>3, <1>4, <1>7
  <2> QED
    BY <2>1, <2>2, <2>4, <2>5, <2>6 DEF WritableInv
<1>8. CASE kernel' = kernel \o buf /\ buf' = <<>> /\ SyncFails
  <2>1. failed' = TRUE /\ durable' = durable /\ synced' = synced
    BY <1>8 DEF SyncFails
  <2>2. Joined(kernel, buf, kernel')
    BY <1>1, <1>8, ConcatRising
  <2>3. /\ kernel' \in Seq(Nat) /\ Rising(kernel') /\ UpTo(kernel', appended)
        /\ Len(kernel') = Len(kernel) + Len(buf)
    BY <1>1, <2>2 DEF Joined
  <2>4. InOrder(kernel', buf', appended') /\ Len(buf') = 0 /\ buf' \in Seq(Nat)
    BY <1>1, <1>3, <1>8, <2>3, EmptyInOrder
  <2>5. WritableTypeOK'
    BY <1>1, <1>2, <1>3, <1>4, <2>1, <2>3, <2>4 DEF WritableTypeOK
  <2>6. durable' <= Len(kernel') /\ synced' <= appended' /\ Len(buf') <= BufferSize
    BY <1>1, <1>3, <2>1, <2>3, <2>4, PosixAssumption
  <2>7. (closed' => buf' = <<>>) /\ (manifest' /\ synced' > 0 => directory')
    BY <1>2, <1>3, <1>4, <1>8, <2>1
  <2> QED
    BY <2>1, <2>4, <2>5, <2>6, <2>7 DEF WritableInv
<1> QED
  BY <1>5, <1>6, <1>7, <1>8 DEF SyncData

LEMMA WriteBackKeeps ==
    ASSUME WritableInv, UNCHANGED <<manifest, closed>>, WriteBack
    PROVE  WritableInv'
<1>1. /\ UNCHANGED <<appended, buf, kernel, directory, synced, failed, manifest, closed>>
      /\ durable' \in durable + 1..Len(kernel)
  BY DEF WriteBack
<1>2. Len(kernel) \in Nat /\ durable \in Nat /\ synced \in Nat
  BY DEF WritableInv, WritableTypeOK
<1>3. durable' \in Nat /\ durable' <= Len(kernel) /\ durable' >= durable
  BY <1>1, <1>2
<1>4. WritableTypeOK'
  BY <1>1, <1>3 DEF WritableInv, WritableTypeOK
<1>5. ~failed => synced <= durable'
  BY <1>2, <1>3 DEF WritableInv
<1> QED
  BY <1>1, <1>3, <1>4, <1>5 DEF WritableInv

LEMMA WritableStepKeeps == WritableInv /\ [WritableNext]_writableVars => WritableInv'
<1>1. SUFFICES ASSUME WritableInv, [WritableNext]_writableVars PROVE WritableInv'
  OBVIOUS
<1>2. CASE ~closed /\ UNCHANGED <<manifest, closed>> /\ AppendData
  BY <1>1, <1>2, AppendKeeps
<1>3. CASE ~closed /\ UNCHANGED <<manifest, closed>> /\ FlushData
  <2>1. manifest' = manifest /\ closed' \in BOOLEAN
    BY <1>1, <1>3 DEF WritableInv, WritableTypeOK
  <2> QED
    BY <1>1, <1>3, <2>1, FlushKeeps
<1>4. CASE ~closed /\ UNCHANGED <<manifest, closed>> /\ SyncData
  BY <1>1, <1>4, SyncKeeps
<1>5. CASE UNCHANGED <<manifest, closed>> /\ WriteBack
  BY <1>1, <1>5, WriteBackKeeps
<1>6. CASE ~closed /\ closed' = TRUE /\ UNCHANGED manifest /\ FlushData
  <2>1. manifest' = manifest /\ closed' \in BOOLEAN
    BY <1>6
  <2> QED
    BY <1>1, <1>6, <2>1, FlushKeeps
<1>7. CASE UNCHANGED writableVars
  BY <1>1, <1>7 DEF writableVars, WritableInv, WritableTypeOK
<1> QED
  BY <1>1, <1>2, <1>3, <1>4, <1>5, <1>6, <1>7 DEF WritableNext

(* The bytes of the file and the buffer, numbered one after the other, are *)
(* the bytes appended.                                                     *)
LEMMA WritableInvAppends == WritableInv => AppendsKept
<1> SUFFICES ASSUME WritableInv PROVE AppendsKept
  OBVIOUS
<1>1. /\ buf \in Seq(Nat) /\ kernel \in Seq(Nat) /\ appended \in Nat
      /\ Rising(kernel) /\ Rising(buf) /\ Before(kernel, buf)
  BY DEF WritableInv, WritableTypeOK, InOrder
<1>2. ASSUME ~failed PROVE kernel \o buf = [i \in 1..appended |-> i]
  <2> DEFINE st == kernel \o buf
  <2>1. Joined(kernel, buf, st) /\ Exact(kernel, buf, appended)
    BY <1>1, <1>2, ConcatRising DEF WritableInv
  <2> HIDE DEF st
  <2>2. 0 + Len(kernel) = Len(kernel) /\ 0 \in Nat
    BY <1>1
  <2>3. st \in Seq(Nat) /\ Len(st) = appended /\ NumberedFrom(st, 0)
    BY <2>1, <2>2 DEF Joined, Exact
  <2>4. st \in [1..appended -> Nat] /\ \A i \in 1..appended : st[i] = i
    BY <1>1, <2>3 DEF NumberedFrom
  <2>5. st = [i \in 1..appended |-> i]
    BY <2>4
  <2> QED
    BY <2>5 DEF st
<1>3. \A i, j \in DOMAIN kernel : i < j => kernel[i] < kernel[j]
  BY <1>1 DEF Rising
<1> QED
  BY <1>2, <1>3 DEF WritableInv, AppendsKept

-----------------------------------------------------------------------------
(* Locks: a call that is past locks_ and not yet out of it is the only one *)
(* of its process, and the kernel's owner is the one that holds the lock   *)
(* for as long as nobody closes a descriptor under it.                     *)
LockSteps == {"opened", "listed", "held", "refused", "unlocked", "unlisted", "end"}
LockCalls == [process : Processes, step : LockSteps]

LockTypeOK ==
    /\ locking \in Seq(LockCalls)
    /\ owner \subseteq Processes /\ locked \subseteq Processes
    /\ tries \in Nat /\ slipped \in BOOLEAN

InTable(i) == locking[i].step \in {"listed", "held", "refused", "unlocked"}

TableSound ==
    /\ \A i \in DOMAIN locking : InTable(i) => locking[i].process \in locked
    /\ \A i, j \in DOMAIN locking :
          InTable(i) /\ InTable(j) /\ locking[i].process = locking[j].process => i = j

OwnerSound ==
    ~slipped => \A i \in DOMAIN locking : locking[i].step = "held" => owner = {locking[i].process}

LockInv == LockTypeOK /\ TableSound /\ OwnerSound

LEMMA LockInitially == LockInit => LockInv
<1> SUFFICES ASSUME LockInit PROVE LockInv
  OBVIOUS
<1>1. locking = <<>> /\ DOMAIN locking = {}
  BY DEF LockInit
<1>2. LockTypeOK
  <2>1. locking \in Seq(LockCalls)
    BY <1>1, EmptySeq
  <2> QED
    BY <2>1 DEF LockInit, LockTypeOK
<1> QED
  BY <1>1, <1>2 DEF LockInv, TableSound, OwnerSound

(* A step of one call leaves the others where they are. *)
LEMMA CallMoves ==
    ASSUME LockTypeOK, NEW i \in DOMAIN locking, NEW from, NEW to \in LockSteps, LockStep(i, from, to)
    PROVE  /\ locking[i].step = from /\ locking[i].process \in Processes
           /\ locking' \in Seq(LockCalls) /\ DOMAIN locking' = DOMAIN locking
           /\ \A j \in DOMAIN locking :
                /\ locking'[j].process = locking[j].process
                /\ locking'[j].step = IF j = i THEN to ELSE locking[j].step
<1> DEFINE n == Len(locking)
<1>1. n \in Nat /\ DOMAIN locking = 1..n /\ locking \in [1..n -> LockCalls]
  BY DEF LockTypeOK
<1>2. locking[i].step = from /\ locking' = [locking EXCEPT ![i].step = to]
  BY DEF LockStep
<1> HIDE DEF n
<1>3. locking[i] \in LockCalls /\ [locking[i] EXCEPT !.step = to] \in LockCalls
  BY <1>1 DEF LockCalls
<1>4. /\ locking' \in [1..n -> LockCalls]
      /\ \A j \in 1..n : locking'[j] = IF j = i THEN [locking[i] EXCEPT !.step = to] ELSE locking[j]
  BY <1>1, <1>2, <1>3
<1>5. locking' \in Seq(LockCalls) /\ DOMAIN locking' = DOMAIN locking
  BY <1>1, <1>4
<1>6. /\ [locking[i] EXCEPT !.step = to].process = locking[i].process
      /\ [locking[i] EXCEPT !.step = to].step = to
  BY <1>3 DEF LockCalls
<1> QED
  BY <1>1, <1>2, <1>3, <1>4, <1>5, <1>6 DEF LockCalls

LEMMA LockStepKeeps == LockInv /\ [LockNext]_lockVars => LockInv'
<1> SUFFICES ASSUME LockInv, [LockNext]_lockVars PROVE LockInv'
  OBVIOUS
<1>1. /\ LockTypeOK /\ owner \subseteq Processes /\ locked \subseteq Processes
      /\ tries \in Nat /\ slipped \in BOOLEAN
  BY DEF LockInv, LockTypeOK
<1>2. TableSound /\ OwnerSound
  BY DEF LockInv
<1>3. CASE LockFile
  <2>1. PICK p \in Processes : locking' = Append(locking, [process |-> p, step |-> "opened"])
    BY <1>3 DEF LockFile
  <2>2. UNCHANGED <<owner, locked, slipped>> /\ tries' = tries + 1
    BY <1>3 DEF LockFile
  <2> DEFINE n == Len(locking)
             call == [process |-> p, step |-> "opened"]
  <2>3. call \in LockCalls /\ call.step = "opened"
    BY DEF LockCalls, LockSteps
  <2>4. locking \in Seq(LockCalls) /\ n \in Nat /\ DOMAIN locking = 1..n
    BY <1>1 DEF LockTypeOK
  <2> HIDE DEF call
  <2>5. /\ locking' \in Seq(LockCalls) /\ DOMAIN locking' = 1..n + 1
        /\ locking'[n + 1] = call /\ \A i \in 1..n : locking'[i] = locking[i]
    BY <2>1, <2>3, <2>4 DEF call
  <2> HIDE DEF n
  <2>6. \A i \in 1..n + 1 : i \in 1..n \/ i = n + 1
    BY <2>4
  <2>7. LockTypeOK'
    BY <1>1, <2>2, <2>5 DEF LockTypeOK
  <2>8. TableSound'
    BY <1>2, <2>2, <2>3, <2>4, <2>5, <2>6 DEF TableSound, InTable
  <2>9. OwnerSound'
    BY <1>2, <2>2, <2>3, <2>4, <2>5, <2>6 DEF OwnerSound
  <2> QED
    BY <2>7, <2>8, <2>9 DEF LockInv
<1>4. ASSUME NEW i \in DOMAIN locking, LockTable(i) PROVE LockInv'
  <2>1. CASE locking[i].process \in locked
    <3>1. /\ LockStep(i, "opened", "end") /\ owner' = owner \ {locking[i].process}
          /\ slipped' = (slipped \/ locking[i].process \in owner)
          /\ UNCHANGED <<locked, tries>>
      BY <1>4, <2>1 DEF LockTable, CloseFd
    <3>2. /\ locking[i].step = "opened" /\ locking' \in Seq(LockCalls) /\ DOMAIN locking' = DOMAIN locking
          /\ \A j \in DOMAIN locking :
                /\ locking'[j].process = locking[j].process
                /\ locking'[j].step = IF j = i THEN "end" ELSE locking[j].step
      BY <1>1, <3>1, CallMoves DEF LockSteps
    <3>3. LockTypeOK'
      <4>1. slipped' \in BOOLEAN /\ owner' \subseteq Processes
        BY <1>1, <3>1
      <4> QED
        BY <1>1, <3>1, <3>2, <4>1 DEF LockTypeOK
    <3>4. TableSound'
      BY <1>2, <3>1, <3>2 DEF TableSound, InTable
    <3>5. OwnerSound'
      <4> SUFFICES ASSUME ~slipped', NEW j \in DOMAIN locking, locking[j].step = "held"
                   PROVE  owner' = {locking[j].process}
        BY <3>2 DEF OwnerSound
      <4>1. ~slipped /\ locking[i].process \notin owner
        BY <3>1
      <4>2. owner' = owner
        BY <3>1, <4>1
      <4> QED
        BY <1>2, <4>1, <4>2 DEF OwnerSound
    <3> QED
      BY <3>3, <3>4, <3>5 DEF LockInv
  <2>2. CASE locking[i].process \notin locked
    <3>1. /\ LockStep(i, "opened", "listed") /\ locked' = locked \cup {locking[i].process}
          /\ UNCHANGED <<owner, slipped, tries>>
      BY <1>4, <2>2 DEF LockTable
    <3>2. /\ locking[i].step = "opened" /\ locking[i].process \in Processes
          /\ locking' \in Seq(LockCalls) /\ DOMAIN locking' = DOMAIN locking
          /\ \A j \in DOMAIN locking :
                /\ locking'[j].process = locking[j].process
                /\ locking'[j].step = IF j = i THEN "listed" ELSE locking[j].step
      BY <1>1, <3>1, CallMoves DEF LockSteps
    <3> QED
      BY <1>1, <1>2, <2>2, <3>1, <3>2 DEF LockInv, LockTypeOK, TableSound, InTable, OwnerSound
  <2> QED
    BY <2>1, <2>2
<1>5. ASSUME NEW i \in DOMAIN locking, SetLock(i) PROVE LockInv'
  <2>1. CASE owner \subseteq {locking[i].process}
    <3>1. /\ LockStep(i, "listed", "held") /\ owner' = {locking[i].process}
          /\ UNCHANGED <<locked, slipped, tries>>
      BY <1>5, <2>1 DEF SetLock
    <3>2. /\ locking[i].step = "listed" /\ locking[i].process \in Processes
          /\ locking' \in Seq(LockCalls) /\ DOMAIN locking' = DOMAIN locking
          /\ \A j \in DOMAIN locking :
                /\ locking'[j].process = locking[j].process
                /\ locking'[j].step = IF j = i THEN "held" ELSE locking[j].step
      BY <1>1, <3>1, CallMoves DEF LockSteps
    <3>3. LockTypeOK'
      BY <1>1, <3>1, <3>2 DEF LockTypeOK
    <3>4. TableSound'
      BY <1>2, <3>1, <3>2 DEF TableSound, InTable
    <3>5. OwnerSound'
      <4> SUFFICES ASSUME ~slipped, NEW j \in DOMAIN locking, locking'[j].step = "held"
                   PROVE  locking[j].process = locking[i].process
        BY <3>1, <3>2 DEF OwnerSound
      <4>1. CASE j # i
        <5>1. owner = {locking[j].process}
          BY <1>2, <3>2, <4>1 DEF OwnerSound
        <5> QED
          BY <2>1, <5>1
      <4> QED
        BY <4>1
    <3> QED
      BY <3>3, <3>4, <3>5 DEF LockInv
  <2>2. CASE ~(owner \subseteq {locking[i].process})
    <3>1. /\ LockStep(i, "listed", "refused") /\ owner' = owner \ {locking[i].process}
          /\ slipped' = (slipped \/ locking[i].process \in owner)
          /\ UNCHANGED <<locked, tries>>
      BY <1>5, <2>2 DEF SetLock, CloseFd
    <3>2. /\ locking[i].step = "listed" /\ locking' \in Seq(LockCalls) /\ DOMAIN locking' = DOMAIN locking
          /\ \A j \in DOMAIN locking :
                /\ locking'[j].process = locking[j].process
                /\ locking'[j].step = IF j = i THEN "refused" ELSE locking[j].step
      BY <1>1, <3>1, CallMoves DEF LockSteps
    <3>3. LockTypeOK'
      <4>1. slipped' \in BOOLEAN /\ owner' \subseteq Processes
        BY <1>1, <3>1
      <4> QED
        BY <1>1, <3>1, <3>2, <4>1 DEF LockTypeOK
    <3>4. TableSound'
      BY <1>2, <3>1, <3>2 DEF TableSound, InTable
    <3>5. OwnerSound'
      <4> SUFFICES ASSUME ~slipped', NEW j \in DOMAIN locking, locking[j].step = "held"
                   PROVE  owner' = {locking[j].process}
        BY <3>2 DEF OwnerSound
      <4>1. ~slipped /\ locking[i].process \notin owner
        BY <3>1
      <4>2. owner' = owner
        BY <3>1, <4>1
      <4> QED
        BY <1>2, <4>1, <4>2 DEF OwnerSound
    <3> QED
      BY <3>3, <3>4, <3>5 DEF LockInv
  <2> QED
    BY <2>1, <2>2
<1>6. ASSUME NEW i \in DOMAIN locking, LockRefused(i) \/ UnlockTable(i) PROVE LockInv'
  <2>1. PICK from \in {"refused", "unlocked"}, to \in {"end", "unlisted"} :
            /\ LockStep(i, from, to) /\ locked' = locked \ {locking[i].process}
            /\ UNCHANGED <<owner, tries, slipped>>
    BY <1>6 DEF LockRefused, UnlockTable
  <2>2. /\ locking[i].step = from
        /\ locking' \in Seq(LockCalls) /\ DOMAIN locking' = DOMAIN locking
        /\ \A j \in DOMAIN locking :
              /\ locking'[j].process = locking[j].process
              /\ locking'[j].step = IF j = i THEN to ELSE locking[j].step
    BY <1>1, <2>1, CallMoves DEF LockSteps
  <2> QED
    BY <1>1, <1>2, <2>1, <2>2 DEF LockInv, LockTypeOK, TableSound, InTable, OwnerSound
<1>7. ASSUME NEW i \in DOMAIN locking, UnlockFile(i) PROVE LockInv'
  <2>1. /\ LockStep(i, "held", "unlocked") /\ owner' = owner \ {locking[i].process}
        /\ UNCHANGED <<locked, tries, slipped>>
    BY <1>7 DEF UnlockFile
  <2>2. /\ locking[i].step = "held" /\ locking' \in Seq(LockCalls) /\ DOMAIN locking' = DOMAIN locking
        /\ \A j \in DOMAIN locking :
              /\ locking'[j].process = locking[j].process
              /\ locking'[j].step = IF j = i THEN "unlocked" ELSE locking[j].step
    BY <1>1, <2>1, CallMoves DEF LockSteps
  <2>3. \A j \in DOMAIN locking : locking'[j].step = "held" => slipped
    BY <1>2, <2>2 DEF TableSound, InTable, OwnerSound
  <2> QED
    BY <1>1, <1>2, <2>1, <2>2, <2>3 DEF LockInv, LockTypeOK, TableSound, InTable, OwnerSound
<1>8. ASSUME NEW i \in DOMAIN locking, UnlockClose(i) PROVE LockInv'
  <2>1. /\ LockStep(i, "unlisted", "end") /\ owner' = owner \ {locking[i].process}
        /\ slipped' = (slipped \/ locking[i].process \in owner)
        /\ UNCHANGED <<locked, tries>>
    BY <1>8 DEF UnlockClose, CloseFd
  <2>2. /\ locking[i].step = "unlisted" /\ locking' \in Seq(LockCalls) /\ DOMAIN locking' = DOMAIN locking
        /\ \A j \in DOMAIN locking :
              /\ locking'[j].process = locking[j].process
              /\ locking'[j].step = IF j = i THEN "end" ELSE locking[j].step
    BY <1>1, <2>1, CallMoves DEF LockSteps
  <2>3. LockTypeOK'
    <3>1. slipped' \in BOOLEAN /\ owner' \subseteq Processes
      BY <1>1, <2>1
    <3> QED
      BY <1>1, <2>1, <2>2, <3>1 DEF LockTypeOK
  <2>4. TableSound'
    BY <1>2, <2>1, <2>2 DEF TableSound, InTable
  <2>5. OwnerSound'
    <3> SUFFICES ASSUME ~slipped', NEW j \in DOMAIN locking, locking[j].step = "held"
                 PROVE  owner' = {locking[j].process}
      BY <2>2 DEF OwnerSound
    <3>1. ~slipped /\ locking[i].process \notin owner
      BY <2>1
    <3>2. owner' = owner
      BY <2>1, <3>1
    <3> QED
      BY <1>2, <3>1, <3>2 DEF OwnerSound
  <2> QED
    BY <2>3, <2>4, <2>5 DEF LockInv
<1>9. CASE UNCHANGED lockVars
  BY <1>9 DEF lockVars, LockInv, LockTypeOK, TableSound, InTable, OwnerSound
<1> QED
  BY <1>3, <1>4, <1>5, <1>6, <1>7, <1>8, <1>9 DEF LockNext

LEMMA LockInvExcludes == LockInv => LocksExclude
<1> SUFFICES ASSUME LockInv PROVE LocksExclude
  OBVIOUS
<1>1. ASSUME NEW p \in Processes PROVE Cardinality(Holding(p)) <= 1
  <2>1. \A i, j \in Holding(p) : i = j
    BY DEF LockInv, TableSound, InTable, Holding
  <2>2. CASE Holding(p) = {}
    BY <2>2, FS_EmptySet
  <2>3. CASE Holding(p) # {}
    <3>1. PICK i \in Holding(p) : Holding(p) = {i}
      BY <2>1, <2>3
    <3>2. Cardinality({i}) = 1
      BY FS_Singleton
    <3> QED
      BY <3>1, <3>2
  <2> QED
    BY <2>2, <2>3
<1>2. ASSUME ~slipped, NEW p \in Processes, NEW q \in Processes, Holding(p) # {}, Holding(q) # {}
      PROVE  p = q
  BY <1>2 DEF LockInv, OwnerSound, Holding
<1> QED
  BY <1>1, <1>2 DEF LocksExclude

-----------------------------------------------------------------------------
(* Whatever the files, threads and processes do and however their steps    *)
(* interleave: work in the background runs once and in order and is never  *)
(* slept on (Schedule, BackgroundThreadMain); the limiters never let more  *)
(* files be mapped or open than they allow, and lose no permission         *)
(* (Limiter); a file to write keeps its bytes in order and complete until  *)
(* a call fails, and what a Sync promised is on the disk                   *)
(* (PosixWritableFile); and a lock has one holder in a process, and one in *)
(* all unless a process closed a descriptor under it (LockFile).           *)
THEOREM EnvironmentSound == EnvSpec => []EnvSound
<1>1. WorkInit /\ [][WorkNext]_workVars => []WorkInv
  <2>1. WorkInv /\ [WorkNext]_workVars => WorkInv'
    BY WorkStepKeeps
  <2> QED
    BY WorkInitially, <2>1, PTL
<1>2. ReadableInit /\ [][ReadableNext]_readableVars => []ReadableInv
  <2>1. ReadableInv /\ [ReadableNext]_readableVars => ReadableInv'
    BY ReadableStepKeeps
  <2> QED
    BY ReadableInitially, <2>1, PTL
<1>3. WritableInit /\ [][WritableNext]_writableVars => []WritableInv
  BY WritableInitially, WritableStepKeeps, PTL
<1>4. LockInit /\ [][LockNext]_lockVars => []LockInv
  <2>1. LockInv /\ [LockNext]_lockVars => LockInv'
    BY LockStepKeeps
  <2> QED
    BY LockInitially, <2>1, PTL
<1>5. WorkInv /\ ReadableInv /\ WritableInv /\ LockInv => EnvSound
  BY ReadableInvLimits, WritableInvAppends, LockInvExcludes DEF EnvSound, WorkInv
<1> QED
  BY <1>1, <1>2, <1>3, <1>4, <1>5, PTL DEF EnvSpec

-----------------------------------------------------------------------------
(* What a cache is made of. *)

CacheEntries == [key : Nat, charge : Nat, refs : Int, in_cache : BOOLEAN]
Lists == {l \in Seq(CacheHandles) : IsInjective(l)}
HashTables == UNION {[K -> CacheHandles] : K \in SUBSET FileNumbers}
Caches == [capacity : Nat, usage : Int, lru : Lists, in_use : SUBSET CacheHandles,
           table : HashTables, entry : [CacheHandles -> CacheEntries]]

LEMMA CacheFields ==
    ASSUME NEW c \in Caches
    PROVE  /\ c.capacity \in Nat /\ c.usage \in Int
           /\ c.lru \in Lists /\ c.lru \in Seq(CacheHandles) /\ IsInjective(c.lru)
           /\ c.in_use \in SUBSET CacheHandles
           /\ c.table \in HashTables /\ DOMAIN c.table \in SUBSET FileNumbers
           /\ \A k \in DOMAIN c.table : c.table[k] \in CacheHandles
           /\ c.entry \in [CacheHandles -> CacheEntries]
           /\ ToSet(c.lru) \in SUBSET CacheHandles
<1>1. c.table \in HashTables /\ c.lru \in Lists
  BY DEF Caches
<1>2. DOMAIN c.table \in SUBSET FileNumbers /\ \A k \in DOMAIN c.table : c.table[k] \in CacheHandles
  BY <1>1 DEF HashTables
<1>3. c.lru \in Seq(CacheHandles) /\ IsInjective(c.lru)
  BY <1>1 DEF Lists
<1>4. ToSet(c.lru) \in SUBSET CacheHandles
  BY <1>3 DEF ToSet
<1> QED
  BY <1>1, <1>2, <1>3, <1>4 DEF Caches

LEMMA OffIs ==
    ASSUME NEW c \in Caches, NEW h \in CacheHandles
    PROVE  \E l \in Lists : /\ ToSet(l) = ToSet(c.lru) \ {h}
                            /\ Off(c, h) = [c EXCEPT !.lru = l, !.in_use = c.in_use \ {h}]
<1>1. c.lru \in Seq(CacheHandles) /\ IsInjective(c.lru)
  BY CacheFields
<1>2. RemoveFirst(c.lru, h) \in Lists /\ ToSet(RemoveFirst(c.lru, h)) = ToSet(c.lru) \ {h}
  BY <1>1, WithoutFirst DEF Lists
<1>3. Off(c, h) = [c EXCEPT !.lru = RemoveFirst(c.lru, h), !.in_use = c.in_use \ {h}]
  BY DEF Off, Caches
<1> QED
  BY <1>2, <1>3

LEMMA InUseIs ==
    ASSUME NEW c \in Caches, NEW h \in CacheHandles
    PROVE  \E l \in Lists : /\ ToSet(l) = ToSet(c.lru) \ {h}
                            /\ InUse(c, h) = [c EXCEPT !.lru = l, !.in_use = c.in_use \cup {h}]
<1>1. PICK l \in Lists : /\ ToSet(l) = ToSet(c.lru) \ {h}
                         /\ Off(c, h) = [c EXCEPT !.lru = l, !.in_use = c.in_use \ {h}]
  BY OffIs
<1>2. InUse(c, h) = [c EXCEPT !.lru = l, !.in_use = (c.in_use \ {h}) \cup {h}]
  BY <1>1 DEF InUse, Caches
<1>3. (c.in_use \ {h}) \cup {h} = c.in_use \cup {h}
  OBVIOUS
<1> QED
  BY <1>1, <1>2, <1>3

LEMMA OnLRUIs ==
    ASSUME NEW c \in Caches, NEW h \in CacheHandles
    PROVE  \E l \in Lists : /\ ToSet(l) = ToSet(c.lru) \cup {h}
                            /\ OnLRU(c, h) = [c EXCEPT !.lru = l, !.in_use = c.in_use \ {h}]
<1>1. PICK l \in Lists : /\ ToSet(l) = ToSet(c.lru) \ {h}
                         /\ Off(c, h) = [c EXCEPT !.lru = l, !.in_use = c.in_use \ {h}]
  BY OffIs
<1>2. l \in Seq(CacheHandles) /\ IsInjective(l) /\ h \notin ToSet(l)
  BY <1>1 DEF Lists
<1>3. Append(l, h) \in Lists /\ ToSet(Append(l, h)) = ToSet(l) \cup {h}
  BY <1>2, WithLast DEF Lists
<1>4. ToSet(Append(l, h)) = ToSet(c.lru) \cup {h}
  BY <1>1, <1>3
<1>5. OnLRU(c, h) = [c EXCEPT !.lru = Append(l, h), !.in_use = c.in_use \ {h}]
  BY <1>1 DEF OnLRU, Caches
<1> QED
  BY <1>3, <1>4, <1>5

(* What Unref leaves: the new entry of h, and for the last reference but   *)
(* the cache's own the lists.                                              *)
LEMMA UnrefIs ==
    ASSUME NEW c \in Caches, NEW h \in CacheHandles
    PROVE  \E e \in CacheEntries, l \in Lists, u \in SUBSET CacheHandles :
              /\ Unref(c, h) = [c EXCEPT !.lru = l, !.in_use = u, !.entry = [c.entry EXCEPT ![h] = e]]
              /\ e = IF c.entry[h].refs = 1 THEN Free
                     ELSE [c.entry[h] EXCEPT !.refs = c.entry[h].refs - 1]
              /\ IF c.entry[h].refs = 2 /\ c.entry[h].in_cache
                 THEN ToSet(l) = ToSet(c.lru) \cup {h} /\ u = c.in_use \ {h}
                 ELSE l = c.lru /\ u = c.in_use
<1> DEFINE left == c.entry[h].refs - 1
           less == [c.entry[h] EXCEPT !.refs = left]
<1>1. /\ c.entry \in [CacheHandles -> CacheEntries] /\ c.entry[h] \in CacheEntries
      /\ c.lru \in Lists /\ c.in_use \in SUBSET CacheHandles
  BY CacheFields
<1>2. c.entry[h].refs \in Int /\ less \in CacheEntries /\ Free \in CacheEntries
  BY <1>1 DEF CacheEntries, Free
<1>3. (left = 0 <=> c.entry[h].refs = 1) /\ (left = 1 <=> c.entry[h].refs = 2)
  BY <1>2
<1>4. CASE left = 0
  <2>1. Unref(c, h) = [c EXCEPT !.entry[h] = Free]
    BY <1>4 DEF Unref
  <2>2. Unref(c, h) = [c EXCEPT !.lru = c.lru, !.in_use = c.in_use, !.entry = [c.entry EXCEPT ![h] = Free]]
    BY <1>1, <2>1 DEF Caches
  <2>3. c.entry[h].refs = 1 /\ ~(c.entry[h].refs = 2 /\ c.entry[h].in_cache)
    BY <1>2, <1>3, <1>4
  <2> QED
    BY <1>1, <1>2, <2>2, <2>3
<1>5. CASE left = 1 /\ c.entry[h].in_cache
  <2>1. PICK l \in Lists : /\ ToSet(l) = ToSet(c.lru) \cup {h}
                           /\ OnLRU(c, h) = [c EXCEPT !.lru = l, !.in_use = c.in_use \ {h}]
    BY OnLRUIs
  <2>2. Unref(c, h) = [OnLRU(c, h) EXCEPT !.entry[h].refs = left]
    BY <1>5 DEF Unref
  <2>3. Unref(c, h) = [c EXCEPT !.lru = l, !.in_use = c.in_use \ {h},
                                !.entry = [c.entry EXCEPT ![h] = less]]
    BY <1>1, <2>1, <2>2 DEF Caches
  <2>4. c.entry[h].refs # 1 /\ c.entry[h].refs = 2 /\ c.entry[h].in_cache
    BY <1>2, <1>3, <1>5
  <2>5. c.in_use \ {h} \in SUBSET CacheHandles
    BY <1>1
  <2> HIDE DEF left, less
  <2>6. less = IF c.entry[h].refs = 1 THEN Free
               ELSE [c.entry[h] EXCEPT !.refs = c.entry[h].refs - 1]
    BY <2>4 DEF left, less
  <2>7. IF c.entry[h].refs = 2 /\ c.entry[h].in_cache
        THEN ToSet(l) = ToSet(c.lru) \cup {h} /\ c.in_use \ {h} = c.in_use \ {h}
        ELSE l = c.lru /\ c.in_use \ {h} = c.in_use
    BY <2>1, <2>4
  <2> QED
    BY <1>2, <2>3, <2>5, <2>6, <2>7
<1>6. CASE left # 0 /\ ~(left = 1 /\ c.entry[h].in_cache)
  <2>1. Unref(c, h) = [c EXCEPT !.entry[h].refs = left]
    BY <1>6 DEF Unref
  <2>2. Unref(c, h) = [c EXCEPT !.lru = c.lru, !.in_use = c.in_use, !.entry = [c.entry EXCEPT ![h] = less]]
    BY <1>1, <2>1 DEF Caches
  <2> QED
    BY <1>1, <1>2, <1>3, <1>6, <2>2
<1> QED
  BY <1>4, <1>5, <1>6

LEMMA FinishEraseIs ==
    ASSUME NEW c \in Caches, NEW h \in CacheHandles
    PROVE  \E e \in CacheEntries, l \in Lists :
              /\ FinishErase(c, h) = [c EXCEPT !.usage = c.usage - c.entry[h].charge,
                                               !.lru = l, !.in_use = c.in_use \ {h},
                                               !.entry = [c.entry EXCEPT ![h] = e]]
              /\ e = IF c.entry[h].refs = 1 THEN Free
                     ELSE [c.entry[h] EXCEPT !.in_cache = FALSE, !.refs = c.entry[h].refs - 1]
              /\ ToSet(l) = ToSet(c.lru) \ {h}
<1> DEFINE out == [c.entry[h] EXCEPT !.in_cache = FALSE]
           left == c.usage - c.entry[h].charge
<1>1. c.entry \in [CacheHandles -> CacheEntries] /\ c.entry[h] \in CacheEntries
  BY CacheFields
<1>2. out \in CacheEntries /\ out.refs = c.entry[h].refs /\ out.in_cache = FALSE
  BY <1>1 DEF CacheEntries
<1>3. left \in Int
  BY <1>1, CacheFields DEF CacheEntries
<1>4. PICK l \in Lists : /\ ToSet(l) = ToSet(c.lru) \ {h}
                         /\ Off(c, h) = [c EXCEPT !.lru = l, !.in_use = c.in_use \ {h}]
  BY OffIs
<1> DEFINE d == [c EXCEPT !.usage = left, !.lru = l, !.in_use = c.in_use \ {h},
                          !.entry = [c.entry EXCEPT ![h] = out]]
<1>5. FinishErase(c, h) = Unref(d, h)
  <2>1. d = [Off(c, h) EXCEPT !.entry[h].in_cache = FALSE, !.usage = @ - c.entry[h].charge]
    BY <1>1, <1>4 DEF Caches
  <2> QED
    BY <2>1 DEF FinishErase
<1>6. [c.entry EXCEPT ![h] = out] \in [CacheHandles -> CacheEntries]
  BY <1>1, <1>2
<1> HIDE DEF out, left
<1>7. d \in Caches /\ d.entry = [c.entry EXCEPT ![h] = out] /\ d.lru = l /\ d.in_use = c.in_use \ {h}
  BY <1>3, <1>6 DEF Caches
<1>8. d.entry[h] = out
  BY <1>1, <1>7
<1>9. PICK e \in CacheEntries, ll \in Lists, u \in SUBSET CacheHandles :
              /\ Unref(d, h) = [d EXCEPT !.lru = ll, !.in_use = u, !.entry = [d.entry EXCEPT ![h] = e]]
              /\ e = IF d.entry[h].refs = 1 THEN Free
                     ELSE [d.entry[h] EXCEPT !.refs = d.entry[h].refs - 1]
              /\ IF d.entry[h].refs = 2 /\ d.entry[h].in_cache
                 THEN ToSet(ll) = ToSet(d.lru) \cup {h} /\ u = d.in_use \ {h}
                 ELSE ll = d.lru /\ u = d.in_use
  <2> HIDE DEF d
  <2> QED
    BY <1>7, UnrefIs
<1>10. ll = l /\ u = c.in_use \ {h}
  BY <1>2, <1>7, <1>8, <1>9
<1>11. e = IF c.entry[h].refs = 1 THEN Free
           ELSE [c.entry[h] EXCEPT !.in_cache = FALSE, !.refs = c.entry[h].refs - 1]
  <2>1. [out EXCEPT !.refs = out.refs - 1]
        = [c.entry[h] EXCEPT !.in_cache = FALSE, !.refs = c.entry[h].refs - 1]
    BY <1>1, <1>2 DEF out, CacheEntries
  <2> HIDE DEF d
  <2> QED
    BY <1>2, <1>8, <1>9, <2>1
<1>12. [d.entry EXCEPT ![h] = e] = [c.entry EXCEPT ![h] = e]
  BY <1>1, <1>7
<1>13. Unref(d, h) = [c EXCEPT !.usage = left, !.lru = l, !.in_use = c.in_use \ {h},
                               !.entry = [c.entry EXCEPT ![h] = e]]
  <2>1. Unref(d, h) = [d EXCEPT !.lru = l, !.in_use = c.in_use \ {h}, !.entry = [c.entry EXCEPT ![h] = e]]
    BY <1>9, <1>10, <1>12
  <2> QED
    BY <2>1 DEF Caches
<1>14. FinishErase(c, h) = [c EXCEPT !.usage = c.usage - c.entry[h].charge,
                               !.lru = l, !.in_use = c.in_use \ {h},
                               !.entry = [c.entry EXCEPT ![h] = e]]
  BY <1>5, <1>13 DEF left
<1> HIDE DEF d
<1> QED
  BY <1>4, <1>11, <1>14

LEMMA FinishEraseTyped ==
    ASSUME NEW c \in Caches, NEW h \in CacheHandles
    PROVE  FinishErase(c, h) \in Caches
<1>1. PICK e \in CacheEntries, l \in Lists :
              /\ FinishErase(c, h) = [c EXCEPT !.usage = c.usage - c.entry[h].charge,
                                               !.lru = l, !.in_use = c.in_use \ {h},
                                               !.entry = [c.entry EXCEPT ![h] = e]]
              /\ e = IF c.entry[h].refs = 1 THEN Free
                     ELSE [c.entry[h] EXCEPT !.in_cache = FALSE, !.refs = c.entry[h].refs - 1]
              /\ ToSet(l) = ToSet(c.lru) \ {h}
  BY FinishEraseIs
<1>2. c.usage - c.entry[h].charge \in Int /\ [c.entry EXCEPT ![h] = e] \in [CacheHandles -> CacheEntries]
  BY CacheFields DEF CacheEntries
<1>3. c.in_use \ {h} \in SUBSET CacheHandles
  BY CacheFields
<1>4. \A n \in Int, u \in SUBSET CacheHandles, en \in [CacheHandles -> CacheEntries] :
         [c EXCEPT !.usage = n, !.lru = l, !.in_use = u, !.entry = en] \in Caches
  BY DEF Caches
<1>5. PICK n, u, en : /\ n = c.usage - c.entry[h].charge /\ u = c.in_use \ {h}
                      /\ en = [c.entry EXCEPT ![h] = e]
  OBVIOUS
<1>6. [c EXCEPT !.usage = n, !.lru = l, !.in_use = u, !.entry = en] \in Caches
  BY <1>2, <1>3, <1>4, <1>5
<1> QED
  BY <1>1, <1>5, <1>6

LEMMA RemoveTyped ==
    ASSUME NEW c \in Caches, NEW key
    PROVE  [c EXCEPT !.table = TRemove(c.table, key)] \in Caches
<1>1. /\ DOMAIN c.table \in SUBSET FileNumbers
      /\ \A k \in DOMAIN c.table : c.table[k] \in CacheHandles
  BY CacheFields
<1>2. TRemove(c.table, key) \in [DOMAIN c.table \ {key} -> CacheHandles]
  BY <1>1 DEF TRemove
<1>3. TRemove(c.table, key) \in HashTables
  BY <1>1, <1>2 DEF HashTables
<1> QED
  BY <1>3 DEF Caches

LEMMA EraseKeyTyped ==
    ASSUME NEW c \in Caches, NEW key
    PROVE  EraseKey(c, key) \in Caches
<1>1. CASE key \notin DOMAIN c.table
  BY <1>1 DEF EraseKey
<1>2. CASE key \in DOMAIN c.table
  <2>1. c.table[key] \in CacheHandles
    BY <1>2, CacheFields
  <2> QED
    BY <1>2, <2>1, RemoveTyped, FinishEraseTyped DEF EraseKey
<1> QED
  BY <1>1, <1>2

-----------------------------------------------------------------------------
(* The folds, element by element. *)

EvictOne(d, h) == IF d.usage > d.capacity THEN EraseKey(d, d.entry[h].key) ELSE d

LEMMA EvictSteps ==
    ASSUME NEW c \in Caches
    PROVE  \E d \in [0..Len(c.lru) -> Caches] :
              /\ d[0] = c
              /\ d[Len(c.lru)] = EvictOver(c)
              /\ \A i \in 1..Len(c.lru) : d[i] = EvictOne(d[i - 1], c.lru[i])
<1> DEFINE n == Len(c.lru)
           G == [p \in (1..n) \X Caches |-> EvictOne(p[2], c.lru[p[1]])]
<1>1. n \in Nat /\ DOMAIN c.lru = 1..n
  BY CacheFields
<1>2. \A d \in Caches : \A h : EvictOne(d, h) \in Caches
  BY EraseKeyTyped DEF EvictOne
<1>3. G \in [(1..n) \X Caches -> Caches]
  BY <1>2
<1>4. \A i \in 1..n, d \in Caches : G[<<i, d>>] = EvictOne(d, c.lru[i])
  OBVIOUS
<1> HIDE DEF n, G
<1>5. PICK f \in [SUBSET (1..n) -> Caches] : Unfolds(f, n, c, G)
  BY <1>1, <1>3, PrefixRecursion
<1>6. \A s \in SUBSET (1..n) : s # {} => Max(s) \in 1..n /\ s \ {Max(s)} \in SUBSET (1..n)
  BY <1>1, MaxIsElement
<1>7. \A s \in SUBSET (1..n) :
         f[s] = IF s = {} THEN c ELSE EvictOne(f[s \ {Max(s)}], c.lru[Max(s)])
  BY <1>4, <1>5, <1>6 DEF Unfolds
<1> DEFINE E(g) == [s \in SUBSET (1..n) |->
                      IF s = {} THEN c ELSE EvictOne(g[s \ {Max(s)}], c.lru[Max(s)])]
<1>8. f = E(f)
  BY <1>5, <1>7
<1>9. EvictOver(c) = (CHOOSE g : g = E(g))[1..n]
  BY <1>1 DEF EvictOver, FoldLeft, MapThenFoldSet, EvictOne
<1>10. PICK it : it = E(it) /\ EvictOver(c) = it[1..n]
  <2> HIDE DEF E
  <2> QED
    BY <1>8, <1>9
<1>11. UnfoldsIn(it, n, Caches, c, G)
  <2>1. it[{}] = c
    BY <1>10
  <2>2. \A s \in SUBSET (1..n) : s # {} => it[s] = EvictOne(it[s \ {Max(s)}], c.lru[Max(s)])
    BY <1>10
  <2> QED
    BY <1>4, <1>6, <2>1, <2>2 DEF UnfoldsIn
<1> HIDE DEF E
<1>12. InSteps(it, n, Caches, c, G)
  BY <1>1, <1>3, <1>11, PrefixSteps
<1>13. PICK d \in [0..n -> Caches] :
          d[0] = c /\ d[n] = EvictOver(c) /\ \A i \in 1..n : d[i] = G[<<i, d[i - 1]>>]
  BY <1>10, <1>12 DEF InSteps
<1>14. \A i \in 1..n : i - 1 \in 0..n
  BY <1>1
<1>15. \A i \in 1..n : d[i] = EvictOne(d[i - 1], c.lru[i])
  BY <1>4, <1>13, <1>14
<1> QED
  BY <1>13, <1>15 DEF n

PruneOne(d, h) == EraseKey(d, d.entry[h].key)

LEMMA PruneSteps ==
    ASSUME NEW c \in Caches
    PROVE  \E d \in [0..Len(c.lru) -> Caches] :
              /\ d[0] = c
              /\ d[Len(c.lru)] = Prune(c)
              /\ \A i \in 1..Len(c.lru) : d[i] = PruneOne(d[i - 1], c.lru[i])
<1> DEFINE n == Len(c.lru)
           G == [p \in (1..n) \X Caches |-> PruneOne(p[2], c.lru[p[1]])]
<1>1. n \in Nat /\ DOMAIN c.lru = 1..n
  BY CacheFields
<1>2. \A d \in Caches : \A h : PruneOne(d, h) \in Caches
  BY EraseKeyTyped DEF PruneOne
<1>3. G \in [(1..n) \X Caches -> Caches]
  BY <1>2
<1>4. \A i \in 1..n, d \in Caches : G[<<i, d>>] = PruneOne(d, c.lru[i])
  OBVIOUS
<1> HIDE DEF n, G
<1>5. PICK f \in [SUBSET (1..n) -> Caches] : Unfolds(f, n, c, G)
  BY <1>1, <1>3, PrefixRecursion
<1>6. \A s \in SUBSET (1..n) : s # {} => Max(s) \in 1..n /\ s \ {Max(s)} \in SUBSET (1..n)
  BY <1>1, MaxIsElement
<1>7. \A s \in SUBSET (1..n) :
         f[s] = IF s = {} THEN c ELSE PruneOne(f[s \ {Max(s)}], c.lru[Max(s)])
  BY <1>4, <1>5, <1>6 DEF Unfolds
<1> DEFINE E(g) == [s \in SUBSET (1..n) |->
                      IF s = {} THEN c ELSE PruneOne(g[s \ {Max(s)}], c.lru[Max(s)])]
<1>8. f = E(f)
  BY <1>5, <1>7
<1>9. Prune(c) = (CHOOSE g : g = E(g))[1..n]
  BY <1>1 DEF Prune, FoldLeft, MapThenFoldSet, PruneOne
<1>10. PICK it : it = E(it) /\ Prune(c) = it[1..n]
  <2> HIDE DEF E
  <2> QED
    BY <1>8, <1>9
<1>11. UnfoldsIn(it, n, Caches, c, G)
  <2>1. it[{}] = c
    BY <1>10
  <2>2. \A s \in SUBSET (1..n) : s # {} => it[s] = PruneOne(it[s \ {Max(s)}], c.lru[Max(s)])
    BY <1>10
  <2> QED
    BY <1>4, <1>6, <2>1, <2>2 DEF UnfoldsIn
<1> HIDE DEF E
<1>12. InSteps(it, n, Caches, c, G)
  BY <1>1, <1>3, <1>11, PrefixSteps
<1>13. PICK d \in [0..n -> Caches] :
          d[0] = c /\ d[n] = Prune(c) /\ \A i \in 1..n : d[i] = G[<<i, d[i - 1]>>]
  BY <1>10, <1>12 DEF InSteps
<1>14. \A i \in 1..n : i - 1 \in 0..n
  BY <1>1
<1>15. \A i \in 1..n : d[i] = PruneOne(d[i - 1], c.lru[i])
  BY <1>4, <1>13, <1>14
<1> QED
  BY <1>13, <1>15 DEF n

LEMMA EraseSteps ==
    ASSUME NEW c \in Caches, NEW seq \in Seq(FileNumbers)
    PROVE  \E d \in [0..Len(seq) -> Caches] :
              /\ d[0] = c
              /\ d[Len(seq)] = FoldLeft(EraseKey, c, seq)
              /\ \A i \in 1..Len(seq) : d[i] = EraseKey(d[i - 1], seq[i])
<1> DEFINE n == Len(seq)
           G == [p \in (1..n) \X Caches |-> EraseKey(p[2], seq[p[1]])]
<1>1. n \in Nat /\ DOMAIN seq = 1..n
  OBVIOUS
<1>2. \A d \in Caches : \A key : EraseKey(d, key) \in Caches
  BY EraseKeyTyped
<1>3. G \in [(1..n) \X Caches -> Caches]
  BY <1>2
<1>4. \A i \in 1..n, d \in Caches : G[<<i, d>>] = EraseKey(d, seq[i])
  OBVIOUS
<1> HIDE DEF n, G
<1>5. PICK f \in [SUBSET (1..n) -> Caches] : Unfolds(f, n, c, G)
  BY <1>1, <1>3, PrefixRecursion
<1>6. \A s \in SUBSET (1..n) : s # {} => Max(s) \in 1..n /\ s \ {Max(s)} \in SUBSET (1..n)
  BY <1>1, MaxIsElement
<1>7. \A s \in SUBSET (1..n) :
         f[s] = IF s = {} THEN c ELSE EraseKey(f[s \ {Max(s)}], seq[Max(s)])
  BY <1>4, <1>5, <1>6 DEF Unfolds
<1> DEFINE E(g) == [s \in SUBSET (1..n) |->
                      IF s = {} THEN c ELSE EraseKey(g[s \ {Max(s)}], seq[Max(s)])]
<1>8. f = E(f)
  BY <1>5, <1>7
<1>9. FoldLeft(EraseKey, c, seq) = (CHOOSE g : g = E(g))[1..n]
  BY <1>1 DEF FoldLeft, MapThenFoldSet
<1>10. PICK it : it = E(it) /\ FoldLeft(EraseKey, c, seq) = it[1..n]
  <2> HIDE DEF E
  <2> QED
    BY <1>8, <1>9
<1>11. UnfoldsIn(it, n, Caches, c, G)
  <2>1. it[{}] = c
    BY <1>10
  <2>2. \A s \in SUBSET (1..n) : s # {} => it[s] = EraseKey(it[s \ {Max(s)}], seq[Max(s)])
    BY <1>10
  <2> QED
    BY <1>4, <1>6, <2>1, <2>2 DEF UnfoldsIn
<1> HIDE DEF E
<1>12. InSteps(it, n, Caches, c, G)
  BY <1>1, <1>3, <1>11, PrefixSteps
<1>13. PICK d \in [0..n -> Caches] :
          d[0] = c /\ d[n] = FoldLeft(EraseKey, c, seq) /\ \A i \in 1..n : d[i] = G[<<i, d[i - 1]>>]
  BY <1>10, <1>12 DEF InSteps
<1>14. \A i \in 1..n : i - 1 \in 0..n
  BY <1>1
<1>15. \A i \in 1..n : d[i] = EraseKey(d[i - 1], seq[i])
  BY <1>4, <1>13, <1>14
<1> QED
  BY <1>13, <1>15 DEF n

-----------------------------------------------------------------------------
(* The books of a cache, given how many references R the callers hold of   *)
(* each entry.  out are the entries that have left the table but are not   *)
(* finished with: within one operation of the cache there may be one.      *)

Cached(c, h) == \E k \in DOMAIN c.table : c.table[k] = h

EntryBooks(c, R, out, h) ==
    /\ c.entry[h].refs = R[h] + (IF c.entry[h].in_cache THEN 1 ELSE 0)
    /\ c.entry[h].in_cache <=> Cached(c, h) \/ h \in out
    /\ h \in out => ~Cached(c, h)
    /\ h \in ToSet(c.lru) <=> c.entry[h].in_cache /\ c.entry[h].refs = 1
    /\ h \in c.in_use <=> c.entry[h].in_cache /\ c.entry[h].refs > 1
    /\ c.entry[h].refs = 0 => c.entry[h] = Free
    /\ c.entry[h].refs # 0 => c.entry[h].key \in FileNumbers /\ c.entry[h].charge = 1

Books(c, R, out) ==
    /\ c \in Caches
    /\ \A h \in CacheHandles : EntryBooks(c, R, out, h)
    /\ \A k \in DOMAIN c.table : c.entry[c.table[k]].key = k
    /\ IsFiniteSet(DOMAIN c.table)
    /\ c.usage = Cardinality(DOMAIN c.table) + Cardinality(out)

(* A change of one entry: the books of the others stay what they were.     *)
LEMMA OtherBooks ==
    ASSUME NEW c, NEW d, NEW R, NEW S, NEW out, NEW rest, NEW h, NEW g, g # h,
           EntryBooks(c, R, out, g),
           d.entry[g] = c.entry[g], S[g] = R[g],
           Cached(d, g) <=> Cached(c, g), g \in rest <=> g \in out,
           g \in ToSet(d.lru) <=> g \in ToSet(c.lru), g \in d.in_use <=> g \in c.in_use
    PROVE  EntryBooks(d, S, rest, g)
BY DEF EntryBooks

(* What finishing with the entry h that has left the table does. *)
Finished(c, d, R, h) ==
    /\ Books(d, R, {})
    /\ d.capacity = c.capacity /\ d.table = c.table /\ d.usage = c.usage - 1
    /\ ToSet(d.lru) = ToSet(c.lru) \ {h}
    /\ \A g \in CacheHandles : R[g] > 0 => d.entry[g].key = c.entry[g].key

LEMMA FinishEraseBooks ==
    ASSUME NEW c, NEW R \in [CacheHandles -> Nat], NEW h \in CacheHandles, Books(c, R, {h})
    PROVE  Finished(c, FinishErase(c, h), R, h)
<1> USE DEF Books
<1>1. c \in Caches
  OBVIOUS
<1>2. PICK e \in CacheEntries, l \in Lists :
              /\ FinishErase(c, h) = [c EXCEPT !.usage = c.usage - c.entry[h].charge,
                                               !.lru = l, !.in_use = c.in_use \ {h},
                                               !.entry = [c.entry EXCEPT ![h] = e]]
              /\ e = IF c.entry[h].refs = 1 THEN Free
                     ELSE [c.entry[h] EXCEPT !.in_cache = FALSE, !.refs = c.entry[h].refs - 1]
              /\ ToSet(l) = ToSet(c.lru) \ {h}
  BY <1>1, FinishEraseIs
<1>3. PICK d : d = FinishErase(c, h)
  OBVIOUS
<1>4. /\ c.entry \in [CacheHandles -> CacheEntries] /\ c.entry[h] \in CacheEntries
      /\ c.entry[h].refs \in Int /\ c.entry[h].charge \in Nat /\ c.usage \in Int
  BY <1>1, CacheFields DEF CacheEntries
<1>5. /\ d \in Caches
      /\ d.capacity = c.capacity /\ d.table = c.table /\ d.usage = c.usage - c.entry[h].charge
      /\ d.lru = l /\ d.in_use = c.in_use \ {h} /\ d.entry = [c.entry EXCEPT ![h] = e]
  BY <1>1, <1>2, <1>3, FinishEraseTyped DEF Caches
<1>6. EntryBooks(c, R, {h}, h) /\ R[h] \in Nat
  OBVIOUS
<1>7. c.entry[h].in_cache /\ ~Cached(c, h) /\ c.entry[h].refs = R[h] + 1
  BY <1>6 DEF EntryBooks
<1>8. c.entry[h].charge = 1 /\ c.entry[h].key \in FileNumbers
  BY <1>4, <1>6, <1>7 DEF EntryBooks
<1>9. /\ d.entry[h] = e /\ e.refs = R[h] /\ ~e.in_cache
      /\ R[h] > 0 => e.key = c.entry[h].key /\ e.charge = c.entry[h].charge
      /\ R[h] = 0 => e = Free
  <2>1. d.entry[h] = e
    BY <1>4, <1>5
  <2>2. CASE R[h] = 0
    BY <1>2, <1>4, <1>6, <1>7, <2>1, <2>2 DEF Free
  <2>3. CASE R[h] # 0
    <3>1. e = [c.entry[h] EXCEPT !.in_cache = FALSE, !.refs = c.entry[h].refs - 1]
      BY <1>2, <1>4, <1>6, <1>7, <2>3
    <3> QED
      BY <1>4, <1>6, <1>7, <2>1, <2>3, <3>1 DEF CacheEntries
  <2> QED
    BY <2>2, <2>3
<1>10. EntryBooks(d, R, {}, h)
  <2>1. ~Cached(d, h) /\ h \notin ToSet(d.lru) /\ h \notin d.in_use
    BY <1>2, <1>5, <1>7 DEF Cached
  <2>2. R[h] # 0 => e.key \in FileNumbers /\ e.charge = 1
    BY <1>6, <1>8, <1>9
  <2> QED
    BY <1>6, <1>9, <2>1, <2>2 DEF EntryBooks
<1>11. ASSUME NEW g \in CacheHandles, g # h
       PROVE  EntryBooks(d, R, {}, g) /\ d.entry[g] = c.entry[g]
  <2>1. EntryBooks(c, R, {h}, g)
    OBVIOUS
  <2>2. d.entry[g] = c.entry[g]
    BY <1>4, <1>5, <1>11
  <2>3. Cached(d, g) <=> Cached(c, g)
    BY <1>5 DEF Cached
  <2>4. (g \in ToSet(d.lru) <=> g \in ToSet(c.lru)) /\ (g \in d.in_use <=> g \in c.in_use)
    BY <1>2, <1>5, <1>11
  <2>5. g \in {} <=> g \in {h}
    BY <1>11
  <2> QED
    BY <1>11, <2>1, <2>2, <2>3, <2>4, <2>5, OtherBooks
<1>12. \A k \in DOMAIN d.table : d.entry[d.table[k]].key = k
  <2> SUFFICES ASSUME NEW k \in DOMAIN c.table PROVE d.entry[c.table[k]].key = k
    BY <1>5
  <2>1. c.table[k] \in CacheHandles /\ c.table[k] # h
    BY <1>1, <1>7, CacheFields DEF Cached
  <2> QED
    BY <1>11, <2>1
<1>13. d.usage = Cardinality(DOMAIN d.table) + Cardinality({}) /\ d.usage = c.usage - 1
  <2>1. Cardinality({h}) = 1 /\ Cardinality({}) = 0
    BY FS_Singleton, FS_EmptySet
  <2>2. Cardinality(DOMAIN c.table) \in Nat
    BY FS_CardinalityType
  <2> QED
    BY <1>4, <1>5, <1>8, <2>1, <2>2
<1>14. \A g \in CacheHandles : R[g] > 0 => d.entry[g].key = c.entry[g].key
  BY <1>9, <1>11
<1> QED
  BY <1>2, <1>3, <1>5, <1>10, <1>11, <1>12, <1>13, <1>14 DEF Finished

(* What one erasure does to a cache whose books balance. *)
Erased(c, d, R, key) ==
    /\ Books(d, R, {})
    /\ d.capacity = c.capacity
    /\ DOMAIN d.table = DOMAIN c.table \ {key}
    /\ d.usage <= c.usage
    /\ ToSet(d.lru) \subseteq ToSet(c.lru)
    /\ \A h \in CacheHandles : R[h] > 0 => d.entry[h].key = c.entry[h].key
    /\ \A h \in CacheHandles : h \in ToSet(c.lru) /\ c.entry[h].key = key => h \notin ToSet(d.lru)

LEMMA EraseKeyBooks ==
    ASSUME NEW c, NEW R \in [CacheHandles -> Nat], NEW key, Books(c, R, {})
    PROVE  Erased(c, EraseKey(c, key), R, key)
<1>1. c \in Caches /\ c.usage \in Int
  BY CacheFields DEF Books
<1>2. \A h \in CacheHandles : h \in ToSet(c.lru) => Cached(c, h)
  BY DEF Books, EntryBooks
<1>3. \A k \in DOMAIN c.table : c.entry[c.table[k]].key = k /\ c.table[k] \in CacheHandles
  BY <1>1, CacheFields DEF Books
<1>4. CASE key \notin DOMAIN c.table
  <2>1. EraseKey(c, key) = c
    BY <1>4 DEF EraseKey
  <2>2. \A h \in CacheHandles : ~(h \in ToSet(c.lru) /\ c.entry[h].key = key)
    BY <1>2, <1>3, <1>4 DEF Cached
  <2>3. DOMAIN c.table = DOMAIN c.table \ {key} /\ c.usage <= c.usage
    BY <1>1, <1>4
  <2> QED
    BY <2>1, <2>2, <2>3 DEF Erased
<1>5. CASE key \in DOMAIN c.table
  <2> DEFINE h == c.table[key]
             t == TRemove(c.table, key)
             b == [c EXCEPT !.table = t]
             d == FinishErase(b, h)
  <2>1. EraseKey(c, key) = d
    BY <1>1, <1>5 DEF EraseKey, Caches
  <2>2. h \in CacheHandles /\ c.entry[h].key = key
    BY <1>3, <1>5
  <2>3. b \in Caches
    BY <1>1, RemoveTyped
  <2>4. DOMAIN t = DOMAIN c.table \ {key} /\ \A k \in DOMAIN t : t[k] = c.table[k]
    BY DEF TRemove
  <2>5. /\ b.table = t /\ b.entry = c.entry /\ b.lru = c.lru /\ b.in_use = c.in_use
        /\ b.usage = c.usage /\ b.capacity = c.capacity
    BY <1>1 DEF Caches
  <2> HIDE DEF h, t, b, d
  <2>6. ~Cached(b, h)
    BY <1>3, <2>2, <2>4, <2>5 DEF Cached
  <2>7. \A g \in CacheHandles : g # h => (Cached(b, g) <=> Cached(c, g))
    BY <2>4, <2>5 DEF Cached, h
  <2>8. Cached(c, h)
    BY <1>5 DEF Cached, h
  <2>9. \A g \in CacheHandles : EntryBooks(b, R, {h}, g)
    <3> SUFFICES ASSUME NEW g \in CacheHandles PROVE EntryBooks(b, R, {h}, g)
      OBVIOUS
    <3>1. EntryBooks(c, R, {}, g)
      BY DEF Books
    <3> QED
      BY <2>5, <2>6, <2>7, <2>8, <3>1 DEF EntryBooks
  <2>10. /\ IsFiniteSet(DOMAIN c.table) /\ Cardinality(DOMAIN c.table) \in Nat
         /\ IsFiniteSet(DOMAIN t) /\ Cardinality(DOMAIN t) = Cardinality(DOMAIN c.table) - 1
    BY <1>5, <2>4, FS_RemoveElement, FS_CardinalityType DEF Books
  <2>11. b.usage = Cardinality(DOMAIN t) + Cardinality({h})
    <3>1. c.usage = Cardinality(DOMAIN c.table) + 0 /\ Cardinality({h}) = 1
      BY FS_EmptySet, FS_Singleton DEF Books
    <3> QED
      BY <1>1, <2>5, <2>10, <3>1
  <2>12. Books(b, R, {h})
    BY <1>3, <2>3, <2>4, <2>5, <2>9, <2>10, <2>11 DEF Books
  <2>13. /\ Books(d, R, {}) /\ d.capacity = c.capacity /\ d.table = t /\ d.usage = c.usage - 1
         /\ ToSet(d.lru) = ToSet(c.lru) \ {h}
         /\ \A g \in CacheHandles : R[g] > 0 => d.entry[g].key = c.entry[g].key
    <3>1. Finished(b, d, R, h)
      BY <2>2, <2>12, FinishEraseBooks DEF d
    <3> QED
      BY <2>5, <3>1 DEF Finished
  <2>14. \A g \in CacheHandles : g \in ToSet(c.lru) /\ c.entry[g].key = key => g \notin ToSet(d.lru)
    <3> SUFFICES ASSUME NEW g \in CacheHandles, g \in ToSet(c.lru), c.entry[g].key = key
                 PROVE  g = h
      BY <2>13
    <3> QED
      BY <1>2, <1>3 DEF Cached, h
  <2>15. d.usage <= c.usage
    BY <1>1, <2>13
  <2>16. DOMAIN d.table = DOMAIN c.table \ {key} /\ ToSet(d.lru) \subseteq ToSet(c.lru)
    BY <2>4, <2>13
  <2> QED
    BY <2>1, <2>13, <2>14, <2>15, <2>16 DEF Erased
<1> QED
  BY <1>4, <1>5

(* ...and what any number of them. *)
Shrunk(c, d, R) ==
    /\ Books(d, R, {})
    /\ d.capacity = c.capacity
    /\ DOMAIN d.table \subseteq DOMAIN c.table
    /\ d.usage <= c.usage
    /\ ToSet(d.lru) \subseteq ToSet(c.lru)
    /\ \A h \in CacheHandles : R[h] > 0 => d.entry[h].key = c.entry[h].key

LEMMA ShrunkMore ==
    ASSUME NEW b, NEW c, NEW d, NEW R \in [CacheHandles -> Nat], NEW key,
           Books(b, R, {}), Shrunk(b, c, R), Erased(c, d, R, key)
    PROVE  Shrunk(b, d, R)
<1>1. b.usage \in Int /\ c.usage \in Int /\ d.usage \in Int
  BY CacheFields DEF Shrunk, Erased, Books
<1>2. d.usage <= b.usage
  BY <1>1 DEF Shrunk, Erased
<1> QED
  BY <1>2 DEF Shrunk, Erased

LEMMA NotShrunk ==
    ASSUME NEW c, NEW R, Books(c, R, {})
    PROVE  Shrunk(c, c, R)
<1>1. c.usage \in Int
  BY CacheFields DEF Books
<1> QED
  BY <1>1 DEF Shrunk

LEMMA PruneBooks ==
    ASSUME NEW c, NEW R \in [CacheHandles -> Nat], Books(c, R, {})
    PROVE  Shrunk(c, Prune(c), R)
<1>1. c \in Caches
  BY DEF Books
<1>2. PICK d \in [0..Len(c.lru) -> Caches] :
              /\ d[0] = c
              /\ d[Len(c.lru)] = Prune(c)
              /\ \A i \in 1..Len(c.lru) : d[i] = PruneOne(d[i - 1], c.lru[i])
  BY <1>1, PruneSteps
<1>3. PICK n \in Nat : n = Len(c.lru)
  BY <1>1, CacheFields
<1> DEFINE Q == {i \in 0..n : Shrunk(c, d[i], R)}
<1>4. 0 \in Q
  BY <1>2, NotShrunk
<1>5. ASSUME NEW i \in 1..n, i - 1 \in Q PROVE i \in Q
  <2>1. Shrunk(c, d[i - 1], R) /\ i \in 0..n
    BY <1>5
  <2>2. d[i] = EraseKey(d[i - 1], d[i - 1].entry[c.lru[i]].key)
    BY <1>2, <1>3 DEF PruneOne
  <2>3. Books(d[i - 1], R, {})
    BY <2>1 DEF Shrunk
  <2>4. Erased(d[i - 1], d[i], R, d[i - 1].entry[c.lru[i]].key)
    BY <2>2, <2>3, EraseKeyBooks
  <2>5. Shrunk(c, d[i], R)
    BY <2>1, <2>4, ShrunkMore
  <2> QED
    BY <2>1, <2>5
<1> HIDE DEF Q
<1>6. n \in Q
  <2>1. \A i \in 1..n : i - 1 \in Q => i \in Q
    BY <1>5
  <2>2. \A i \in 0..n : i \in Q
    BY <1>4, <2>1, BoundedInduction
  <2> QED
    BY <2>2
<1> QED
  BY <1>2, <1>3, <1>6 DEF Q

(* Every key in the sequence is gone afterwards. *)
LEMMA EraseAllBooks ==
    ASSUME NEW c, NEW R \in [CacheHandles -> Nat], NEW seq \in Seq(FileNumbers), Books(c, R, {})
    PROVE  /\ Shrunk(c, FoldLeft(EraseKey, c, seq), R)
           /\ DOMAIN FoldLeft(EraseKey, c, seq).table \cap ToSet(seq) = {}
<1>1. c \in Caches
  BY DEF Books
<1>2. PICK d \in [0..Len(seq) -> Caches] :
              /\ d[0] = c
              /\ d[Len(seq)] = FoldLeft(EraseKey, c, seq)
              /\ \A i \in 1..Len(seq) : d[i] = EraseKey(d[i - 1], seq[i])
  BY <1>1, EraseSteps
<1>3. PICK n \in Nat : n = Len(seq) /\ DOMAIN seq = 1..n
  OBVIOUS
<1> DEFINE Q == {i \in 0..n : /\ Shrunk(c, d[i], R)
                              /\ \A j \in 1..n : j <= i => seq[j] \notin DOMAIN d[i].table}
<1>4. 0 \in Q
  <2>1. \A j \in 1..n : ~(j <= 0)
    OBVIOUS
  <2> QED
    BY <1>2, <2>1, NotShrunk
<1>5. ASSUME NEW i \in 1..n, i - 1 \in Q PROVE i \in Q
  <2>1. Shrunk(c, d[i - 1], R) /\ i \in 0..n
    BY <1>5
  <2>2. d[i] = EraseKey(d[i - 1], seq[i])
    BY <1>2, <1>3
  <2>3. Books(d[i - 1], R, {})
    BY <2>1 DEF Shrunk
  <2>4. Erased(d[i - 1], d[i], R, seq[i])
    BY <2>2, <2>3, EraseKeyBooks
  <2>5. Shrunk(c, d[i], R)
    BY <2>1, <2>4, ShrunkMore
  <2>6. DOMAIN d[i].table = DOMAIN d[i - 1].table \ {seq[i]}
    BY <2>4 DEF Erased
  <2>7. ASSUME NEW j \in 1..n, j <= i PROVE seq[j] \notin DOMAIN d[i].table
    <3>1. CASE j = i
      BY <2>6, <3>1
    <3>2. CASE j # i
      <4>1. j <= i - 1
        BY <2>7, <3>2
      <4> QED
        BY <1>5, <2>6, <4>1
    <3> QED
      BY <3>1, <3>2
  <2> QED
    BY <2>1, <2>5, <2>7
<1> HIDE DEF Q
<1>6. n \in Q
  <2>1. \A i \in 1..n : i - 1 \in Q => i \in Q
    BY <1>5
  <2>2. \A i \in 0..n : i \in Q
    BY <1>4, <2>1, BoundedInduction
  <2> QED
    BY <2>2
<1>7. Shrunk(c, d[n], R) /\ \A j \in 1..n : seq[j] \notin DOMAIN d[n].table
  BY <1>6 DEF Q
<1> QED
  BY <1>2, <1>3, <1>7 DEF ToSet

(* Eviction stops when the charge fits, or when no entry is left that only *)
(* the cache holds.                                                        *)
LEMMA EvictBooks ==
    ASSUME NEW c, NEW R \in [CacheHandles -> Nat], Books(c, R, {})
    PROVE  /\ Shrunk(c, EvictOver(c), R)
           /\ EvictOver(c).usage <= EvictOver(c).capacity \/ ToSet(EvictOver(c).lru) = {}
<1>1. c \in Caches
  BY DEF Books
<1>2. PICK d \in [0..Len(c.lru) -> Caches] :
              /\ d[0] = c
              /\ d[Len(c.lru)] = EvictOver(c)
              /\ \A i \in 1..Len(c.lru) : d[i] = EvictOne(d[i - 1], c.lru[i])
  BY <1>1, EvictSteps
<1>3. PICK n \in Nat : n = Len(c.lru) /\ DOMAIN c.lru = 1..n
  BY <1>1, CacheFields
<1> DEFINE Q == {i \in 0..n : /\ Shrunk(c, d[i], R)
                              /\ \/ d[i].usage <= d[i].capacity
                                 \/ \A j \in 1..n : j <= i => c.lru[j] \notin ToSet(d[i].lru)}
<1>4. 0 \in Q
  <2>1. \A j \in 1..n : ~(j <= 0)
    OBVIOUS
  <2> QED
    BY <1>2, <2>1, NotShrunk
<1>5. ASSUME NEW i \in 1..n, i - 1 \in Q PROVE i \in Q
  <2>1. Shrunk(c, d[i - 1], R) /\ i \in 0..n /\ i - 1 \in 0..n
    BY <1>5
  <2>2. d[i] = EvictOne(d[i - 1], c.lru[i])
    BY <1>2, <1>3
  <2>3. Books(d[i - 1], R, {}) /\ d[i - 1] \in Caches
    BY <2>1 DEF Shrunk, Books
  <2>4. d[i - 1].usage \in Int /\ d[i - 1].capacity \in Nat
    BY <2>3, CacheFields
  <2>5. CASE d[i - 1].usage <= d[i - 1].capacity
    <3>1. d[i] = d[i - 1]
      BY <2>2, <2>4, <2>5 DEF EvictOne
    <3> QED
      BY <2>1, <2>5, <3>1
  <2>6. CASE ~(d[i - 1].usage <= d[i - 1].capacity)
    <3> DEFINE key == d[i - 1].entry[c.lru[i]].key
    <3>1. d[i] = EraseKey(d[i - 1], key)
      BY <2>2, <2>4, <2>6 DEF EvictOne
    <3> HIDE DEF key
    <3>2. Erased(d[i - 1], d[i], R, key)
      BY <2>3, <3>1, EraseKeyBooks
    <3>3. Shrunk(c, d[i], R)
      BY <2>1, <3>2, ShrunkMore
    <3>4. ToSet(d[i].lru) \subseteq ToSet(d[i - 1].lru)
      BY <3>2 DEF Erased
    <3>5. c.lru[i] \in CacheHandles
      BY <1>1, <1>3, CacheFields
    <3>6. c.lru[i] \notin ToSet(d[i].lru)
      BY <3>2, <3>4, <3>5 DEF Erased, key
    <3>7. ASSUME NEW j \in 1..n, j <= i PROVE c.lru[j] \notin ToSet(d[i].lru)
      <4>1. CASE j = i
        BY <3>6, <4>1
      <4>2. CASE j # i
        <5>1. j <= i - 1
          BY <3>7, <4>2
        <5> QED
          BY <1>5, <2>6, <3>4, <5>1
      <4> QED
        BY <4>1, <4>2
    <3> QED
      BY <2>1, <3>3, <3>7
  <2> QED
    BY <2>5, <2>6
<1> HIDE DEF Q
<1>6. n \in Q
  <2>1. \A i \in 1..n : i - 1 \in Q => i \in Q
    BY <1>5
  <2>2. \A i \in 0..n : i \in Q
    BY <1>4, <2>1, BoundedInduction
  <2> QED
    BY <2>2
<1>7. /\ Shrunk(c, d[n], R)
      /\ d[n].usage <= d[n].capacity \/ \A j \in 1..n : c.lru[j] \notin ToSet(d[n].lru)
  BY <1>6 DEF Q
<1>8. ToSet(d[n].lru) \subseteq ToSet(c.lru)
  BY <1>7 DEF Shrunk
<1>9. (\A j \in 1..n : c.lru[j] \notin ToSet(d[n].lru)) => ToSet(d[n].lru) = {}
  BY <1>3, <1>8 DEF ToSet
<1> QED
  BY <1>2, <1>3, <1>7, <1>9

(* One reference more, and one less; in both cases the table and its       *)
(* charge stay, and held entries stay what they are.                       *)
More(R, S, h) == S = [R EXCEPT ![h] = R[h] + 1]
Less(R, S, h) == R[h] > 0 /\ S = [R EXCEPT ![h] = R[h] - 1]

Recounted(c, d, S) ==
    /\ Books(d, S, {})
    /\ d.capacity = c.capacity /\ d.table = c.table /\ d.usage = c.usage
    /\ \A g \in CacheHandles : S[g] > 0 => d.entry[g].key = c.entry[g].key

(* A caller gives back one reference. *)
LEMMA UnrefBooks ==
    ASSUME NEW c, NEW R \in [CacheHandles -> Nat], NEW h \in CacheHandles, Books(c, R, {}),
           NEW S, Less(R, S, h)
    PROVE  Recounted(c, Unref(c, h), S)
<1> USE DEF Books, Less
<1>1. c \in Caches
  OBVIOUS
<1>2. PICK e \in CacheEntries, l \in Lists, u \in SUBSET CacheHandles :
              /\ Unref(c, h) = [c EXCEPT !.lru = l, !.in_use = u, !.entry = [c.entry EXCEPT ![h] = e]]
              /\ e = IF c.entry[h].refs = 1 THEN Free
                     ELSE [c.entry[h] EXCEPT !.refs = c.entry[h].refs - 1]
              /\ IF c.entry[h].refs = 2 /\ c.entry[h].in_cache
                 THEN ToSet(l) = ToSet(c.lru) \cup {h} /\ u = c.in_use \ {h}
                 ELSE l = c.lru /\ u = c.in_use
  BY <1>1, UnrefIs
<1>3. PICK d : d = Unref(c, h)
  OBVIOUS
<1>4. /\ c.entry \in [CacheHandles -> CacheEntries] /\ c.entry[h] \in CacheEntries
      /\ c.entry[h].refs \in Int
  BY <1>1, CacheFields DEF CacheEntries
<1>5. /\ d \in Caches
      /\ d.capacity = c.capacity /\ d.table = c.table /\ d.usage = c.usage
      /\ d.lru = l /\ d.in_use = u /\ d.entry = [c.entry EXCEPT ![h] = e]
  <2>1. [c.entry EXCEPT ![h] = e] \in [CacheHandles -> CacheEntries]
    BY <1>2, <1>4
  <2> QED
    BY <1>1, <1>2, <1>3, <2>1 DEF Caches
<1>6. EntryBooks(c, R, {}, h) /\ R[h] \in Nat /\ R[h] > 0
  OBVIOUS
<1>7. S[h] = R[h] - 1 /\ S[h] \in Nat /\ \A g \in CacheHandles : g # h => S[g] = R[g]
  BY <1>6
<1>8. /\ c.entry[h].refs # 0
      /\ c.entry[h].refs = R[h] + (IF c.entry[h].in_cache THEN 1 ELSE 0)
      /\ c.entry[h].key \in FileNumbers /\ c.entry[h].charge = 1
      /\ c.entry[h].in_cache <=> Cached(c, h)
      /\ h \in ToSet(c.lru) <=> c.entry[h].in_cache /\ c.entry[h].refs = 1
      /\ h \in c.in_use <=> c.entry[h].in_cache /\ c.entry[h].refs > 1
  BY <1>6 DEF EntryBooks
<1>9. d.entry[h] = e /\ (Cached(d, h) <=> Cached(c, h))
  BY <1>4, <1>5 DEF Cached
<1>10. EntryBooks(d, S, {}, h) /\ (S[h] > 0 => e.key = c.entry[h].key)
  <2>1. CASE c.entry[h].refs = 1
    <3>1. e = Free /\ ~c.entry[h].in_cache /\ S[h] = 0
      BY <1>2, <1>6, <1>7, <1>8, <2>1
    <3>2. h \notin ToSet(d.lru) /\ h \notin d.in_use
      BY <1>2, <1>5, <1>8, <2>1, <3>1
    <3> QED
      BY <1>8, <1>9, <3>1, <3>2 DEF EntryBooks, Free
  <2>2. CASE c.entry[h].refs = 2 /\ c.entry[h].in_cache
    <3>1. e = [c.entry[h] EXCEPT !.refs = c.entry[h].refs - 1] /\ S[h] = 0
      BY <1>2, <1>6, <1>7, <1>8, <2>2
    <3>2. e.refs = 1 /\ e.in_cache = TRUE /\ e.key = c.entry[h].key /\ e.charge = c.entry[h].charge
      BY <1>4, <2>2, <3>1 DEF CacheEntries
    <3>3. h \in ToSet(d.lru) /\ h \notin d.in_use
      BY <1>2, <1>5, <2>2
    <3> QED
      BY <1>8, <1>9, <2>2, <3>1, <3>2, <3>3 DEF EntryBooks
  <2>3. CASE c.entry[h].refs # 1 /\ ~(c.entry[h].refs = 2 /\ c.entry[h].in_cache)
    <3>1. e = [c.entry[h] EXCEPT !.refs = c.entry[h].refs - 1] /\ d.lru = c.lru /\ d.in_use = c.in_use
      BY <1>2, <1>5, <2>3
    <3>2. /\ e.refs = c.entry[h].refs - 1 /\ e.in_cache = c.entry[h].in_cache
          /\ e.key = c.entry[h].key /\ e.charge = c.entry[h].charge
      BY <1>4, <3>1 DEF CacheEntries
    <3>3. h \notin ToSet(d.lru)
      BY <1>8, <2>3, <3>1
    <3>4. e.refs = S[h] + (IF e.in_cache THEN 1 ELSE 0)
      BY <1>6, <1>7, <1>8, <3>2
    <3>5. e.refs # 0
      BY <1>4, <2>3, <3>2
    <3>6. e.in_cache => e.refs # 1 /\ e.refs > 1
      BY <1>4, <1>6, <1>8, <2>3, <3>2
    <3>7. h \in d.in_use <=> e.in_cache /\ e.refs > 1
      BY <1>4, <1>6, <1>8, <3>1, <3>2, <3>6
    <3> QED
      BY <1>8, <1>9, <3>2, <3>3, <3>4, <3>5, <3>6, <3>7 DEF EntryBooks
  <2> QED
    BY <2>1, <2>2, <2>3
<1>11. ASSUME NEW g \in CacheHandles, g # h
       PROVE  EntryBooks(d, S, {}, g) /\ d.entry[g] = c.entry[g]
  <2>1. EntryBooks(c, R, {}, g)
    OBVIOUS
  <2>2. d.entry[g] = c.entry[g]
    BY <1>4, <1>5, <1>11
  <2>3. Cached(d, g) <=> Cached(c, g)
    BY <1>5 DEF Cached
  <2>4. (g \in ToSet(d.lru) <=> g \in ToSet(c.lru)) /\ (g \in d.in_use <=> g \in c.in_use)
    BY <1>2, <1>5, <1>11
  <2>5. S[g] = R[g]
    BY <1>7, <1>11
  <2> QED
    BY <2>1, <2>2, <2>3, <2>4, <2>5 DEF EntryBooks
<1>12. \A k \in DOMAIN d.table : d.entry[d.table[k]].key = k
  <2> SUFFICES ASSUME NEW k \in DOMAIN c.table PROVE d.entry[c.table[k]].key = k
    BY <1>5
  <2>1. c.table[k] \in CacheHandles /\ c.entry[c.table[k]].key = k
    BY <1>1, CacheFields
  <2>2. CASE c.table[k] # h
    BY <1>11, <2>1, <2>2
  <2>3. CASE c.table[k] = h
    <3>1. Cached(c, h) /\ c.entry[h].in_cache /\ c.entry[h].refs # 1
      BY <1>6, <1>8, <2>3 DEF Cached
    <3>2. e.key = c.entry[h].key
      BY <1>2, <1>4, <3>1 DEF CacheEntries
    <3> QED
      BY <1>9, <2>1, <2>3, <3>2
  <2> QED
    BY <2>2, <2>3
<1>13. \A g \in CacheHandles : S[g] > 0 => d.entry[g].key = c.entry[g].key
  BY <1>9, <1>10, <1>11
<1> QED
  BY <1>3, <1>5, <1>10, <1>11, <1>12, <1>13 DEF Recounted

(* A lookup that hits takes one. *)
LEMMA RefBooks ==
    ASSUME NEW c, NEW R \in [CacheHandles -> Nat], NEW h \in CacheHandles, Cached(c, h),
           Books(c, R, {}), NEW S, More(R, S, h)
    PROVE  Recounted(c, Ref(c, h), S) /\ \A g \in CacheHandles : Ref(c, h).entry[g].key = c.entry[g].key
<1> USE DEF Books, More
<1>1. c \in Caches
  OBVIOUS
<1> DEFINE e == [c.entry[h] EXCEPT !.refs = c.entry[h].refs + 1]
<1>2. /\ c.entry \in [CacheHandles -> CacheEntries] /\ c.entry[h] \in CacheEntries
      /\ c.entry[h].refs \in Int /\ c.lru \in Lists /\ c.in_use \in SUBSET CacheHandles
  BY <1>1, CacheFields DEF CacheEntries
<1>3. EntryBooks(c, R, {}, h) /\ R[h] \in Nat
  OBVIOUS
<1>4. /\ c.entry[h].in_cache
      /\ c.entry[h].refs = R[h] + 1
      /\ c.entry[h].key \in FileNumbers /\ c.entry[h].charge = 1
      /\ h \in ToSet(c.lru) <=> c.entry[h].refs = 1
      /\ h \in c.in_use <=> c.entry[h].refs > 1
  BY <1>2, <1>3 DEF EntryBooks
<1>5. /\ e \in CacheEntries /\ e.refs = c.entry[h].refs + 1 /\ e.in_cache = c.entry[h].in_cache
      /\ e.key = c.entry[h].key /\ e.charge = c.entry[h].charge
  BY <1>2 DEF CacheEntries
<1>6. \E l \in Lists : /\ ToSet(l) = ToSet(c.lru) \ {h}
                       /\ Ref(c, h) = [c EXCEPT !.lru = l, !.in_use = c.in_use \cup {h},
                                                !.entry = [c.entry EXCEPT ![h] = e]]
  <2>1. CASE c.entry[h].refs = 1
    <3>1. PICK l \in Lists : /\ ToSet(l) = ToSet(c.lru) \ {h}
                             /\ InUse(c, h) = [c EXCEPT !.lru = l, !.in_use = c.in_use \cup {h}]
      BY <1>1, InUseIs
    <3>2. Ref(c, h) = [InUse(c, h) EXCEPT !.entry[h].refs = @ + 1]
      BY <1>4, <2>1 DEF Ref
    <3>3. Ref(c, h) = [c EXCEPT !.lru = l, !.in_use = c.in_use \cup {h},
                                !.entry = [c.entry EXCEPT ![h] = e]]
      BY <1>1, <1>2, <3>1, <3>2 DEF Caches
    <3> QED
      BY <3>1, <3>3
  <2>2. CASE c.entry[h].refs # 1
    <3>1. Ref(c, h) = [c EXCEPT !.entry[h].refs = @ + 1]
      BY <2>2 DEF Ref
    <3>2. h \notin ToSet(c.lru) /\ h \in c.in_use
      BY <1>2, <1>3, <1>4, <2>2
    <3>3. ToSet(c.lru) \ {h} = ToSet(c.lru) /\ c.in_use \cup {h} = c.in_use
      BY <3>2
    <3>4. Ref(c, h) = [c EXCEPT !.lru = c.lru, !.in_use = c.in_use,
                                !.entry = [c.entry EXCEPT ![h] = e]]
      BY <1>1, <1>2, <3>1 DEF Caches
    <3> QED
      BY <1>2, <3>3, <3>4
  <2> QED
    BY <2>1, <2>2
<1>7. PICK l \in Lists : /\ ToSet(l) = ToSet(c.lru) \ {h}
                         /\ Ref(c, h) = [c EXCEPT !.lru = l, !.in_use = c.in_use \cup {h},
                                                  !.entry = [c.entry EXCEPT ![h] = e]]
  BY <1>6
<1>8. PICK d : d = Ref(c, h)
  OBVIOUS
<1> HIDE DEF e
<1>9. /\ d \in Caches
      /\ d.capacity = c.capacity /\ d.table = c.table /\ d.usage = c.usage
      /\ d.lru = l /\ d.in_use = c.in_use \cup {h} /\ d.entry = [c.entry EXCEPT ![h] = e]
  <2>1. c.in_use \cup {h} \in SUBSET CacheHandles
    BY <1>2
  <2>2. [c.entry EXCEPT ![h] = e] \in [CacheHandles -> CacheEntries]
    BY <1>2, <1>5
  <2> QED
    BY <1>1, <1>7, <1>8, <2>2 DEF Caches
<1>10. S[h] = R[h] + 1 /\ S[h] \in Nat /\ \A g \in CacheHandles : g # h => S[g] = R[g]
  BY <1>3
<1>11. d.entry[h] = e /\ (Cached(d, h) <=> Cached(c, h))
  BY <1>2, <1>9 DEF Cached
<1>12. EntryBooks(d, S, {}, h)
  <2>1. e.refs = S[h] + 1 /\ e.refs > 1 /\ e.refs # 1 /\ e.refs # 0
    BY <1>3, <1>4, <1>5, <1>10
  <2>2. h \notin ToSet(d.lru) /\ h \in d.in_use
    BY <1>7, <1>9
  <2> QED
    BY <1>4, <1>5, <1>11, <2>1, <2>2 DEF EntryBooks
<1>13. ASSUME NEW g \in CacheHandles, g # h
       PROVE  EntryBooks(d, S, {}, g) /\ d.entry[g] = c.entry[g]
  <2>1. EntryBooks(c, R, {}, g)
    OBVIOUS
  <2>2. d.entry[g] = c.entry[g]
    BY <1>2, <1>9, <1>13
  <2>3. Cached(d, g) <=> Cached(c, g)
    BY <1>9 DEF Cached
  <2>4. (g \in ToSet(d.lru) <=> g \in ToSet(c.lru)) /\ (g \in d.in_use <=> g \in c.in_use)
    BY <1>7, <1>9, <1>13
  <2>5. S[g] = R[g]
    BY <1>10, <1>13
  <2> QED
    BY <2>1, <2>2, <2>3, <2>4, <2>5 DEF EntryBooks
<1>14. \A g \in CacheHandles : d.entry[g].key = c.entry[g].key
  BY <1>5, <1>11, <1>13
<1>15. \A k \in DOMAIN d.table : d.entry[d.table[k]].key = k
  <2>1. \A k \in DOMAIN c.table : c.table[k] \in CacheHandles /\ c.entry[c.table[k]].key = k
    BY <1>1, CacheFields
  <2> QED
    BY <1>9, <1>14, <2>1
<1> QED
  BY <1>8, <1>9, <1>12, <1>13, <1>14, <1>15 DEF Recounted

(* Insert: the new entry, then the one it replaces, if there was one, then *)
(* what no longer fits.  S counts the reference its caller gets.           *)
Inserted(c, d, R, S, key, h) ==
    /\ Books(d, S, {})
    /\ d.capacity = c.capacity
    /\ DOMAIN d.table \subseteq DOMAIN c.table \cup {key}
    /\ d.entry[h].key = key
    /\ \A g \in CacheHandles : g # h /\ R[g] > 0 => d.entry[g].key = c.entry[g].key
    /\ d.usage <= d.capacity \/ ToSet(d.lru) = {}

LEMMA InsertedEvict ==
    ASSUME NEW c, NEW b, NEW R \in [CacheHandles -> Nat], NEW S \in [CacheHandles -> Nat],
           NEW key, NEW h \in CacheHandles,
           S[h] > 0, \A g \in CacheHandles : g # h => S[g] = R[g],
           Books(b, S, {}), b.capacity = c.capacity, DOMAIN b.table \subseteq DOMAIN c.table \cup {key},
           b.entry[h].key = key,
           \A g \in CacheHandles : g # h /\ R[g] > 0 => b.entry[g].key = c.entry[g].key
    PROVE  Inserted(c, EvictOver(b), R, S, key, h)
<1>1. /\ Shrunk(b, EvictOver(b), S)
      /\ EvictOver(b).usage <= EvictOver(b).capacity \/ ToSet(EvictOver(b).lru) = {}
  BY EvictBooks
<1> QED
  BY <1>1 DEF Shrunk, Inserted

WithNew(c, key, h, e) ==
    [InUse(c, h) EXCEPT !.entry[h] = e, !.table = TInsert(@, key, h), !.usage = @ + 1]

NewBooks(c, b, S, key, h) ==
    /\ Books(b, S, IF key \in DOMAIN c.table THEN {c.table[key]} ELSE {})
    /\ b.capacity = c.capacity
    /\ DOMAIN b.table = DOMAIN c.table \cup {key}
    /\ b.entry[h].key = key
    /\ \A g \in CacheHandles : g # h => b.entry[g].key = c.entry[g].key

LEMMA CachedBooks ==
    ASSUME NEW c, NEW R \in [CacheHandles -> Nat], NEW S \in [CacheHandles -> Nat],
           NEW key \in FileNumbers, NEW h \in CacheHandles,
           Books(c, R, {}), c.entry[h] = Free, S = [R EXCEPT ![h] = 1],
           NEW e \in CacheEntries, e.key = key, e.charge = 1, e.refs = 2, e.in_cache = TRUE,
           NEW b, b = WithNew(c, key, h, e)
    PROVE  NewBooks(c, b, S, key, h)
<1> USE DEF Books
<1> DEFINE t == TInsert(c.table, key, h)
           out == IF key \in DOMAIN c.table THEN {c.table[key]} ELSE {}
<1>1. c \in Caches
  OBVIOUS
<1>2. /\ c.entry \in [CacheHandles -> CacheEntries] /\ c.usage \in Int
      /\ DOMAIN c.table \in SUBSET FileNumbers
      /\ \A k \in DOMAIN c.table : c.table[k] \in CacheHandles /\ c.entry[c.table[k]].key = k
  BY <1>1, CacheFields
<1>3. e \in CacheEntries /\ e.refs = 2 /\ e.in_cache = TRUE /\ e.key = key /\ e.charge = 1
  OBVIOUS
<1>4. /\ DOMAIN t = DOMAIN c.table \cup {key} /\ t[key] = h
      /\ \A k \in DOMAIN c.table : k # key => t[k] = c.table[k]
  BY DEF TInsert
<1>5. t \in HashTables
  <2>1. t \in [DOMAIN c.table \cup {key} -> CacheHandles]
    BY <1>2 DEF TInsert
  <2>2. DOMAIN c.table \cup {key} \in SUBSET FileNumbers
    BY <1>2
  <2> HIDE DEF t
  <2> QED
    BY <2>1, <2>2 DEF HashTables
<1>6. PICK l \in Lists : /\ ToSet(l) = ToSet(c.lru) \ {h}
                         /\ InUse(c, h) = [c EXCEPT !.lru = l, !.in_use = c.in_use \cup {h}]
  BY <1>1, InUseIs
<1>7. b = [c EXCEPT !.lru = l, !.in_use = c.in_use \cup {h}, !.entry = [c.entry EXCEPT ![h] = e],
                    !.table = t, !.usage = c.usage + 1]
  <2> HIDE DEF t
  <2>1. b = [InUse(c, h) EXCEPT !.entry[h] = e, !.table = t, !.usage = c.usage + 1]
    BY <1>1, <1>6 DEF t, Caches, WithNew
  <2> QED
    BY <1>1, <1>6, <2>1 DEF Caches
<1> HIDE DEF t, out
<1>8. /\ b \in Caches
      /\ b.capacity = c.capacity /\ b.table = t /\ b.usage = c.usage + 1
      /\ b.lru = l /\ b.in_use = c.in_use \cup {h} /\ b.entry = [c.entry EXCEPT ![h] = e]
  <2>1. [c.entry EXCEPT ![h] = e] \in [CacheHandles -> CacheEntries]
    BY <1>2, <1>3
  <2>2. c.in_use \cup {h} \in SUBSET CacheHandles /\ c.usage + 1 \in Int
    BY <1>1, <1>2, CacheFields
  <2> QED
    BY <1>1, <1>5, <1>7, <2>1, <2>2 DEF Caches
<1>9. /\ EntryBooks(c, R, {}, h) /\ R[h] \in Nat
      /\ ~c.entry[h].in_cache /\ c.entry[h].refs = 0 /\ c.entry[h].key = 0
  BY DEF Free
<1>10. ~Cached(c, h) /\ R[h] = 0
  BY <1>9 DEF EntryBooks
<1>11. S[h] = 1 /\ \A g \in CacheHandles : g # h => S[g] = R[g]
  OBVIOUS
<1>12. b.entry[h] = e /\ \A g \in CacheHandles : g # h => b.entry[g] = c.entry[g]
  BY <1>2, <1>8
<1>13. h \notin out /\ \A g \in out : Cached(c, g) /\ ~Cached(b, g)
  <2>1. h \notin out
    BY <1>10 DEF out, Cached
  <2>2. ASSUME NEW g \in out PROVE Cached(c, g) /\ ~Cached(b, g)
    <3>1. key \in DOMAIN c.table /\ g = c.table[key]
      BY DEF out
    <3>2. ASSUME NEW k \in DOMAIN b.table, b.table[k] = g PROVE FALSE
      <4>1. k # key
        BY <1>4, <1>8, <2>1, <3>2
      <4>2. k \in DOMAIN c.table /\ c.table[k] = g
        BY <1>4, <1>8, <3>2, <4>1
      <4> QED
        BY <1>2, <3>1, <4>1, <4>2
    <3> QED
      BY <3>1, <3>2 DEF Cached
  <2> QED
    BY <2>1, <2>2
<1>14. EntryBooks(b, S, out, h)
  <2>1. Cached(b, h)
    BY <1>4, <1>8 DEF Cached
  <2>2. h \notin ToSet(b.lru) /\ h \in b.in_use
    BY <1>6, <1>8
  <2> QED
    BY <1>3, <1>11, <1>12, <1>13, <2>1, <2>2 DEF EntryBooks
<1>15. ASSUME NEW g \in CacheHandles, g # h
       PROVE  EntryBooks(b, S, out, g)
  <2>1. EntryBooks(c, R, {}, g)
    OBVIOUS
  <2>2. Cached(b, g) \/ g \in out <=> Cached(c, g)
    <3>1. ASSUME Cached(b, g) PROVE Cached(c, g)
      <4>1. PICK k \in DOMAIN t : t[k] = g
        BY <1>8, <3>1 DEF Cached
      <4> QED
        BY <1>4, <1>15, <4>1 DEF Cached
    <3>2. ASSUME Cached(c, g) PROVE Cached(b, g) \/ g \in out
      <4>1. PICK k \in DOMAIN c.table : c.table[k] = g
        BY <3>2 DEF Cached
      <4>2. CASE k = key
        BY <4>1, <4>2 DEF out
      <4>3. CASE k # key
        BY <1>4, <1>8, <4>1, <4>3 DEF Cached
      <4> QED
        BY <4>2, <4>3
    <3> QED
      BY <1>13, <3>1, <3>2
  <2>3. (g \in ToSet(b.lru) <=> g \in ToSet(c.lru)) /\ (g \in b.in_use <=> g \in c.in_use)
    BY <1>6, <1>8, <1>15
  <2>4. b.entry[g] = c.entry[g] /\ S[g] = R[g]
    BY <1>11, <1>12, <1>15
  <2>5. g \in out => ~Cached(b, g)
    BY <1>13
  <2> QED
    BY <2>1, <2>2, <2>3, <2>4, <2>5 DEF EntryBooks
<1>16. \A k \in DOMAIN b.table : b.entry[b.table[k]].key = k
  <2> SUFFICES ASSUME NEW k \in DOMAIN t PROVE b.entry[t[k]].key = k
    BY <1>8
  <2>1. CASE k = key
    BY <1>3, <1>4, <1>12, <2>1
  <2>2. CASE k # key
    <3>1. k \in DOMAIN c.table /\ t[k] = c.table[k]
      BY <1>4, <2>2
    <3>2. c.table[k] # h
      BY <1>10, <3>1 DEF Cached
    <3> QED
      BY <1>2, <1>12, <3>1, <3>2
  <2> QED
    BY <2>1, <2>2
<1>17. IsFiniteSet(DOMAIN b.table) /\ b.usage = Cardinality(DOMAIN b.table) + Cardinality(out)
  <2>1. /\ IsFiniteSet(DOMAIN c.table) /\ Cardinality(DOMAIN c.table) \in Nat
        /\ c.usage = Cardinality(DOMAIN c.table) + 0
    BY FS_CardinalityType, FS_EmptySet
  <2>2. /\ IsFiniteSet(DOMAIN t)
        /\ Cardinality(DOMAIN t) = IF key \in DOMAIN c.table THEN Cardinality(DOMAIN c.table)
                                   ELSE Cardinality(DOMAIN c.table) + 1
    BY <1>4, <2>1, FS_AddElement
  <2>3. Cardinality(out) = IF key \in DOMAIN c.table THEN 1 ELSE 0
    BY FS_Singleton, FS_EmptySet DEF out
  <2> QED
    BY <1>8, <2>1, <2>2, <2>3
<1>18. Books(b, S, out)
  BY <1>8, <1>14, <1>15, <1>16, <1>17
<1> QED
  BY <1>3, <1>4, <1>8, <1>12, <1>18 DEF out, NewBooks

LEMMA InCacheEntry ==
    ASSUME NEW x \in CacheEntries, NEW y, y = [x EXCEPT !.refs = 2, !.in_cache = TRUE]
    PROVE  /\ y \in CacheEntries /\ y.refs = 2 /\ y.in_cache = TRUE
           /\ y.key = x.key /\ y.charge = x.charge
<1>1. PICK z : z = [x EXCEPT !.refs = 2]
  OBVIOUS
<1>2. z \in CacheEntries
  BY <1>1 DEF CacheEntries
<1>3. [z EXCEPT !.in_cache = TRUE] \in CacheEntries
  BY <1>2 DEF CacheEntries
<1>4. y = [z EXCEPT !.in_cache = TRUE]
  BY <1>1
<1>5. y.refs = 2 /\ y.in_cache = TRUE /\ y.key = x.key /\ y.charge = x.charge
  BY DEF CacheEntries
<1> QED
  BY <1>3, <1>4, <1>5

LEMMA CInsertBooks ==
    ASSUME NEW c, NEW R \in [CacheHandles -> Nat], NEW S \in [CacheHandles -> Nat],
           NEW key \in FileNumbers, NEW h \in CacheHandles,
           Books(c, R, {}), c.entry[h] = Free, S = [R EXCEPT ![h] = 1]
    PROVE  Inserted(c, CInsert(c, key, 1, h), R, S, key, h)
<1> DEFINE new == [key |-> key, charge |-> 1, refs |-> 1, in_cache |-> FALSE]
           e == [new EXCEPT !.refs = 2, !.in_cache = TRUE]
           cached == WithNew(c, key, h, e)
           apart == [c EXCEPT !.entry[h] = new]
<1>1. c \in Caches /\ c.entry \in [CacheHandles -> CacheEntries]
  BY CacheFields DEF Books
<1>2. S[h] = 1 /\ \A g \in CacheHandles : g # h => S[g] = R[g]
  OBVIOUS
<1>3. new \in CacheEntries /\ new.refs = 1 /\ ~new.in_cache /\ new.key = key /\ new.charge = 1
  BY TableCacheAssumption DEF CacheEntries
<1>4. CInsert(c, key, 1, h)
      = EvictOver(IF c.capacity = 0 THEN apart
                  ELSE IF key \in DOMAIN c.table THEN FinishErase(cached, c.table[key])
                  ELSE cached)
  BY DEF CInsert, WithNew
<1> HIDE DEF new
<1>5. CASE c.capacity = 0
  <2>2. apart = [c EXCEPT !.entry = [c.entry EXCEPT ![h] = new]]
    BY <1>1 DEF Caches
  <2>3. [c.entry EXCEPT ![h] = new] \in [CacheHandles -> CacheEntries]
    BY <1>1, <1>3
  <2>4. /\ apart \in Caches
        /\ apart.capacity = c.capacity /\ apart.table = c.table /\ apart.usage = c.usage
        /\ apart.lru = c.lru /\ apart.in_use = c.in_use /\ apart.entry = [c.entry EXCEPT ![h] = new]
    BY <1>1, <2>2, <2>3 DEF Caches
  <2> HIDE DEF apart
  <2>5. apart.entry[h] = new /\ \A g \in CacheHandles : g # h => apart.entry[g] = c.entry[g]
    BY <1>1, <2>4
  <2>6. EntryBooks(c, R, {}, h) /\ c.entry[h].refs = 0 /\ ~c.entry[h].in_cache /\ R[h] \in Nat
    BY DEF Books, Free
  <2>7. ~Cached(c, h) /\ h \notin ToSet(c.lru) /\ h \notin c.in_use
    BY <2>6 DEF EntryBooks
  <2>8. \A g \in CacheHandles : Cached(apart, g) <=> Cached(c, g)
    BY <2>4 DEF Cached
  <2>9. EntryBooks(apart, S, {}, h)
    BY <1>2, <1>3, <2>4, <2>5, <2>7, <2>8 DEF EntryBooks
  <2>10. ASSUME NEW g \in CacheHandles, g # h PROVE EntryBooks(apart, S, {}, g)
    <3>1. EntryBooks(c, R, {}, g)
      BY DEF Books
    <3> QED
      BY <1>2, <2>4, <2>5, <2>8, <2>10, <3>1 DEF EntryBooks
  <2>11. \A k \in DOMAIN c.table : c.table[k] # h /\ c.table[k] \in CacheHandles
    BY <1>1, <2>7, CacheFields DEF Cached
  <2>12. Books(apart, S, {})
    <3>1. \A k \in DOMAIN apart.table : apart.entry[apart.table[k]].key = k
      BY <2>4, <2>5, <2>11 DEF Books
    <3>2. IsFiniteSet(DOMAIN apart.table) /\ apart.usage = Cardinality(DOMAIN apart.table) + Cardinality({})
      BY <2>4 DEF Books
    <3> QED
      BY <2>4, <2>9, <2>10, <3>1, <3>2 DEF Books
  <2>13. DOMAIN apart.table \subseteq DOMAIN c.table \cup {key} /\ apart.entry[h].key = key
    BY <1>3, <2>4, <2>5
  <2>14. \A g \in CacheHandles : g # h /\ R[g] > 0 => apart.entry[g].key = c.entry[g].key
    BY <2>5
  <2>15. S[h] > 0
    BY <1>2
  <2>16. Inserted(c, EvictOver(apart), R, S, key, h)
    BY <1>2, <2>4, <2>12, <2>13, <2>14, <2>15, InsertedEvict
  <2> QED
    BY <1>4, <1>5, <2>16
<1>6. CASE c.capacity # 0
  <2>1. /\ Books(cached, S, IF key \in DOMAIN c.table THEN {c.table[key]} ELSE {})
        /\ cached.capacity = c.capacity
        /\ DOMAIN cached.table = DOMAIN c.table \cup {key}
        /\ cached.entry[h].key = key
        /\ \A g \in CacheHandles : g # h => cached.entry[g].key = c.entry[g].key
    <3>1. e \in CacheEntries /\ e.refs = 2 /\ e.in_cache = TRUE /\ e.key = key /\ e.charge = 1
      <4>1. e = [new EXCEPT !.refs = 2, !.in_cache = TRUE]
        OBVIOUS
      <4> HIDE DEF e
      <4> QED
        BY <1>3, <4>1, InCacheEntry
    <3> HIDE DEF e
    <3>2. PICK b : b = WithNew(c, key, h, e)
      OBVIOUS
    <3>3. NewBooks(c, b, S, key, h)
      BY <3>1, <3>2, CachedBooks
    <3> QED
      BY <3>2, <3>3 DEF NewBooks
  <2> HIDE DEF cached
  <2>2. S[h] > 0
    BY <1>2
  <2>3. CASE key \notin DOMAIN c.table
    <3>1. Books(cached, S, {})
      BY <2>1, <2>3
    <3>2. Inserted(c, EvictOver(cached), R, S, key, h)
      BY <1>2, <2>1, <2>2, <3>1, InsertedEvict
    <3> QED
      BY <1>4, <1>6, <2>3, <3>2
  <2>4. CASE key \in DOMAIN c.table
    <3>1. PICK old \in CacheHandles : old = c.table[key]
      BY <1>1, <2>4, CacheFields
    <3> DEFINE b == FinishErase(cached, old)
    <3>2. Books(cached, S, {old})
      BY <2>1, <2>4, <3>1
    <3>3. /\ Books(b, S, {}) /\ b.capacity = cached.capacity /\ b.table = cached.table
          /\ \A g \in CacheHandles : S[g] > 0 => b.entry[g].key = cached.entry[g].key
      <4>1. Finished(cached, b, S, old)
        BY <3>2, FinishEraseBooks
      <4> QED
        BY <4>1 DEF Finished
    <3> HIDE DEF b
    <3>4. b.capacity = c.capacity /\ DOMAIN b.table \subseteq DOMAIN c.table \cup {key}
      BY <2>1, <3>3
    <3>5. b.entry[h].key = key
      BY <2>1, <2>2, <3>3
    <3>6. \A g \in CacheHandles : g # h /\ R[g] > 0 => b.entry[g].key = c.entry[g].key
      BY <1>2, <2>1, <3>3
    <3>7. Inserted(c, EvictOver(b), R, S, key, h)
      BY <1>2, <2>2, <3>3, <3>4, <3>5, <3>6, InsertedEvict
    <3> QED
      BY <1>4, <1>6, <2>4, <3>1, <3>7 DEF b
  <2> QED
    BY <2>3, <2>4
<1> QED
  BY <1>5, <1>6

-----------------------------------------------------------------------------
(* The references that the readers hold. *)

Reads == [step : {"rest", "open", "use"}, version : SUBSET FileNumbers, file : Nat,
          handle : SUBSET CacheHandles]

Holders(g, h) == {r \in TableReaders : h \in g[r].handle}
HeldIn(g) == [h \in CacheHandles |-> Cardinality(Holders(g, h))]

LEMMA HeldTyped ==
    ASSUME NEW g
    PROVE  /\ HeldIn(g) \in [CacheHandles -> Nat]
           /\ \A h \in CacheHandles : /\ IsFiniteSet(Holders(g, h))
                                      /\ HeldIn(g)[h] = Cardinality(Holders(g, h))
<1>1. \A h \in CacheHandles : IsFiniteSet(Holders(g, h)) /\ Cardinality(Holders(g, h)) \in Nat
  BY TableCacheAssumption, FS_Subset, FS_CardinalityType DEF Holders
<1> QED
  BY <1>1 DEF HeldIn

LEMMA HeldSame ==
    ASSUME NEW g, NEW n, \A r \in TableReaders : n[r].handle = g[r].handle
    PROVE  HeldIn(n) = HeldIn(g)
<1>1. \A h \in CacheHandles : Holders(n, h) = Holders(g, h)
  BY DEF Holders
<1> QED
  BY <1>1 DEF HeldIn

LEMMA HeldMore ==
    ASSUME NEW g \in [TableReaders -> Reads], NEW r \in TableReaders, NEW x \in Reads,
           NEW h \in CacheHandles, g[r].handle = {}, x.handle = {h},
           NEW n, n = [g EXCEPT ![r] = x]
    PROVE  More(HeldIn(g), HeldIn(n), h)
<1>1. Holders(n, h) = Holders(g, h) \cup {r} /\ r \notin Holders(g, h)
  BY DEF Holders
<1>2. \A i \in CacheHandles : i # h => Holders(n, i) = Holders(g, i)
  BY DEF Holders
<1>3. Cardinality(Holders(n, h)) = Cardinality(Holders(g, h)) + 1
  <2>1. IsFiniteSet(Holders(g, h))
    BY HeldTyped
  <2> QED
    BY <1>1, <2>1, FS_AddElement
<1>4. \A i \in CacheHandles : HeldIn(n)[i] = IF i = h THEN HeldIn(g)[h] + 1 ELSE HeldIn(g)[i]
  BY <1>2, <1>3 DEF HeldIn
<1>5. HeldIn(n) = [i \in CacheHandles |-> HeldIn(n)[i]] /\ HeldIn(g) = [i \in CacheHandles |-> HeldIn(g)[i]]
  BY DEF HeldIn
<1>6. HeldIn(n) = [HeldIn(g) EXCEPT ![h] = HeldIn(g)[h] + 1]
  <2>1. PICK a, b : a = HeldIn(n) /\ b = HeldIn(g)
    OBVIOUS
  <2>2. a = [b EXCEPT ![h] = b[h] + 1]
    BY <1>4, <1>5, <2>1
  <2> QED
    BY <2>1, <2>2
<1> QED
  BY <1>6 DEF More

LEMMA HeldLess ==
    ASSUME NEW g \in [TableReaders -> Reads], NEW r \in TableReaders, NEW x \in Reads,
           NEW h \in CacheHandles, g[r].handle = {h}, x.handle = {},
           NEW n, n = [g EXCEPT ![r] = x]
    PROVE  Less(HeldIn(g), HeldIn(n), h)
<1>1. Holders(n, h) = Holders(g, h) \ {r} /\ r \in Holders(g, h)
  BY DEF Holders
<1>2. \A i \in CacheHandles : i # h => Holders(n, i) = Holders(g, i)
  BY DEF Holders
<1>3. Cardinality(Holders(n, h)) = Cardinality(Holders(g, h)) - 1 /\ Cardinality(Holders(g, h)) > 0
  <2>1. IsFiniteSet(Holders(g, h))
    BY HeldTyped
  <2>2. Cardinality(Holders(g, h)) \in Nat /\ Cardinality(Holders(g, h)) # 0
    BY <1>1, <2>1, FS_CardinalityType, FS_EmptySet
  <2>3. Cardinality(Holders(n, h)) = Cardinality(Holders(g, h)) - 1
    BY <1>1, <2>1, FS_RemoveElement
  <2> QED
    BY <2>2, <2>3
<1>4. \A i \in CacheHandles : HeldIn(n)[i] = IF i = h THEN HeldIn(g)[h] - 1 ELSE HeldIn(g)[i]
  BY <1>2, <1>3 DEF HeldIn
<1>5. HeldIn(n) = [i \in CacheHandles |-> HeldIn(n)[i]] /\ HeldIn(g) = [i \in CacheHandles |-> HeldIn(g)[i]]
  BY DEF HeldIn
<1>6. HeldIn(n) = [HeldIn(g) EXCEPT ![h] = HeldIn(g)[h] - 1]
  <2>1. PICK a, b : a = HeldIn(n) /\ b = HeldIn(g)
    OBVIOUS
  <2>2. a = [b EXCEPT ![h] = b[h] - 1]
    BY <1>4, <1>5, <2>1
  <2> QED
    BY <2>1, <2>2
<1>7. HeldIn(g)[h] > 0
  BY <1>3 DEF HeldIn
<1> QED
  BY <1>6, <1>7 DEF Less

(* When nothing is left that only the cache holds, every entry of the      *)
(* table is some reader's, and each reader has at most one.                *)
LEMMA AllInUse ==
    ASSUME NEW c, NEW g \in [TableReaders -> Reads], Books(c, HeldIn(g), {}), ToSet(c.lru) = {},
           \A r \in TableReaders : \A i, j \in g[r].handle : i = j
    PROVE  c.usage <= Cardinality(TableReaders)
<1> DEFINE D == DOMAIN c.table
           f == [k \in D |-> CHOOSE r \in TableReaders : c.table[k] \in g[r].handle]
<1>1. c \in Caches /\ \A k \in D : c.table[k] \in CacheHandles /\ c.entry[c.table[k]].key = k
  BY CacheFields DEF Books
<1>2. ASSUME NEW k \in D
      PROVE  f[k] \in TableReaders /\ c.table[k] \in g[f[k]].handle
  <2>1. PICK h \in CacheHandles : h = c.table[k]
    BY <1>1
  <2>2. EntryBooks(c, HeldIn(g), {}, h) /\ Cached(c, h)
    BY <2>1 DEF Books, Cached
  <2>3. c.entry[h].refs = HeldIn(g)[h] + 1 /\ c.entry[h].refs # 1
    BY <2>2 DEF EntryBooks
  <2>4. Cardinality(Holders(g, h)) # 0 /\ IsFiniteSet(Holders(g, h))
    BY <2>3, HeldTyped
  <2>5. Holders(g, h) # {}
    BY <2>4, FS_EmptySet
  <2>6. \E r \in TableReaders : c.table[k] \in g[r].handle
    BY <2>1, <2>5 DEF Holders
  <2> QED
    BY <2>6
<1> HIDE DEF f
<1>3. f \in [D -> TableReaders]
  BY <1>2 DEF f
<1>4. \A k, j \in D : f[k] = f[j] => k = j
  <2> SUFFICES ASSUME NEW k \in D, NEW j \in D, f[k] = f[j] PROVE k = j
    OBVIOUS
  <2>1. c.table[k] = c.table[j]
    BY <1>2
  <2> QED
    BY <1>1, <2>1
<1>5. f \in Injection(D, TableReaders)
  BY <1>3, <1>4 DEF Injection, IsInjective
<1>6. Cardinality(D) <= Cardinality(TableReaders)
  BY <1>5, TableCacheAssumption, FS_Injection
<1>7. c.usage = Cardinality(D) + 0 /\ Cardinality(D) \in Nat
  BY FS_EmptySet, FS_CardinalityType DEF Books
<1> QED
  BY <1>6, <1>7

(* The sum of the charges is the number of entries. *)
LEMMA ChargeOfTable ==
    ASSUME NEW c, NEW R \in [CacheHandles -> Nat], Books(c, R, {})
    PROVE  c.usage = MapThenSumSet(LAMBDA k : c.entry[c.table[k]].charge, DOMAIN c.table)
<1> DEFINE D == DOMAIN c.table
           one(s) == CHOOSE x \in s : TRUE
           F(it) == [s \in SUBSET D |->
                       IF s = {} THEN 0
                       ELSE c.entry[c.table[one(s)]].charge + it[s \ {one(s)}]]
           size == [s \in SUBSET D |-> Cardinality(s)]
<1>1. \A k \in D : c.entry[c.table[k]].charge = 1
  <2> SUFFICES ASSUME NEW k \in D PROVE c.entry[c.table[k]].charge = 1
    OBVIOUS
  <2>1. PICK h \in CacheHandles : h = c.table[k]
    BY CacheFields DEF Books
  <2>2. EntryBooks(c, R, {}, h) /\ Cached(c, h) /\ R[h] \in Nat
    BY <2>1 DEF Books, Cached
  <2>3. c.entry[h].refs # 0
    BY <2>2 DEF EntryBooks
  <2> QED
    BY <2>1, <2>2, <2>3 DEF EntryBooks
<1>2. IsFiniteSet(D) /\ \A s \in SUBSET D : IsFiniteSet(s) /\ Cardinality(s) \in Nat
  BY FS_Subset, FS_CardinalityType DEF Books
<1>3. \A s \in SUBSET D : s # {} =>
         /\ one(s) \in s /\ one(s) \in D
         /\ Cardinality(s) = 1 + Cardinality(s \ {one(s)})
  <2> SUFFICES ASSUME NEW s \in SUBSET D, s # {}
               PROVE  one(s) \in s /\ Cardinality(s) = 1 + Cardinality(s \ {one(s)})
    OBVIOUS
  <2>1. one(s) \in s
    OBVIOUS
  <2> HIDE DEF one
  <2>2. Cardinality(s \ {one(s)}) = Cardinality(s) - 1 /\ Cardinality(s) \in Nat
    BY <1>2, <2>1, FS_RemoveElement
  <2> QED
    BY <2>1, <2>2
<1> HIDE DEF one
<1>4. size = F(size)
  <2>1. \A s \in SUBSET D :
           Cardinality(s) = IF s = {} THEN 0
                            ELSE c.entry[c.table[one(s)]].charge + size[s \ {one(s)}]
    BY <1>1, <1>3, FS_EmptySet
  <2> QED
    BY <2>1
<1>5. MapThenSumSet(LAMBDA k : c.entry[c.table[k]].charge, D) = (CHOOSE it : it = F(it))[D]
  BY DEF MapThenSumSet, MapThenFoldSet, one
<1>6. PICK it : it = F(it) /\ MapThenSumSet(LAMBDA k : c.entry[c.table[k]].charge, D) = it[D]
  <2> HIDE DEF F, size, D
  <2> QED
    BY <1>4, <1>5
<1>7. \A s \in SUBSET D : it[s] = IF s = {} THEN 0 ELSE 1 + it[s \ {one(s)}]
  BY <1>1, <1>3, <1>6
<1> HIDE DEF F
<1> DEFINE Q == {s \in SUBSET D : it[s] = Cardinality(s)}
<1>8. ASSUME NEW s \in SUBSET D, \A r \in SUBSET s : r # s => r \in Q
      PROVE  s \in Q
  <2>1. CASE s = {}
    BY <1>7, <2>1, FS_EmptySet
  <2>2. CASE s # {}
    <3>1. s \ {one(s)} \in Q
      BY <1>3, <1>8, <2>2
    <3> QED
      BY <1>3, <1>7, <2>2, <3>1
  <2> QED
    BY <2>1, <2>2
<1> HIDE DEF Q, D
<1>9. D \in Q
  BY <1>2, <1>8, SubsetInduction
<1>10. c.usage = Cardinality(D)
  BY <1>2, FS_EmptySet DEF Books, D
<1> QED
  BY <1>6, <1>9, <1>10 DEF Q, D

-----------------------------------------------------------------------------
(* The inductive invariant: the books balance with what the readers hold,  *)
(* a reader that uses a table holds one entry, of that table, and the      *)
(* cache knows no table that does not exist.                               *)

ReadSound(x, c) ==
    /\ x.step = "use" => \E h \in CacheHandles : x.handle = {h}
    /\ x.step # "use" => x.handle = {}
    /\ x.step # "rest" => x.file \in FileNumbers
    /\ \A h \in x.handle : c.entry[h].key = x.file
ReaderSound(r) == ReadSound(get[r], tables)

TableCacheInv ==
    /\ Books(tables, HeldIn(get), {})
    /\ get \in [TableReaders -> Reads]
    /\ \A r \in TableReaders : ReaderSound(r)
    /\ disk \in SUBSET FileNumbers /\ IsFiniteSet(disk)
    /\ live \in SUBSET FileNumbers
    /\ DOMAIN tables.table \subseteq disk
    /\ tables.usage <= tables.capacity \/ tables.usage <= Cardinality(TableReaders)

LEMMA SoundWhileInvariant == TableCacheInv => TableHandlesSound
<1> SUFFICES ASSUME TableCacheInv PROVE TableHandlesSound
  OBVIOUS
<1>1. ASSUME NEW h \in CacheHandles
      PROVE  /\ tables.entry[h].refs = Cardinality({r \in TableReaders : h \in get[r].handle})
                                       + (IF tables.entry[h].in_cache THEN 1 ELSE 0)
             /\ tables.entry[h].in_cache <=> \E k \in DOMAIN tables.table : tables.table[k] = h
             /\ tables.entry[h].in_cache => tables.table[tables.entry[h].key] = h
             /\ h \in ToSet(tables.lru) <=> tables.entry[h].in_cache /\ tables.entry[h].refs = 1
             /\ h \in tables.in_use <=> tables.entry[h].in_cache /\ tables.entry[h].refs > 1
  <2>1. EntryBooks(tables, HeldIn(get), {}, h)
    BY DEF TableCacheInv, Books
  <2>2. HeldIn(get)[h] = Cardinality({r \in TableReaders : h \in get[r].handle})
    BY DEF HeldIn, Holders
  <2>3. tables.entry[h].in_cache <=> Cached(tables, h)
    BY <2>1 DEF EntryBooks
  <2>4. Cached(tables, h) => tables.table[tables.entry[h].key] = h
    BY DEF TableCacheInv, Books, Cached
  <2> QED
    BY <2>1, <2>2, <2>3, <2>4 DEF EntryBooks, Cached
<1>2. tables.usage = MapThenSumSet(LAMBDA k : tables.entry[tables.table[k]].charge, DOMAIN tables.table)
  BY HeldTyped, ChargeOfTable DEF TableCacheInv
<1>3. CacheAgrees(tables, LAMBDA h : Cardinality({r \in TableReaders : h \in get[r].handle}))
  BY <1>1, <1>2 DEF CacheAgrees
<1>4. \A r \in TableReaders : \A h \in get[r].handle : tables.entry[h].key = get[r].file
  BY DEF TableCacheInv, ReaderSound, ReadSound
<1> QED
  BY <1>3, <1>4 DEF TableHandlesSound, TableCacheInv

LEMMA TableCacheInitially == TableCacheInit => TableCacheInv
<1> SUFFICES ASSUME TableCacheInit PROVE TableCacheInv
  OBVIOUS
<1>1. PICK size \in Nat : tables = NewCache(size)
  BY TableCacheAssumption DEF TableCacheInit
<1>2. /\ tables.capacity = size /\ tables.usage = 0 /\ tables.lru = <<>> /\ tables.in_use = {}
      /\ tables.table = <<>> /\ tables.entry = [h \in CacheHandles |-> Free]
  BY <1>1 DEF NewCache
<1>3. <<>> \in Lists /\ ToSet(<<>>) = {}
  BY DEF Lists, IsInjective, ToSet
<1>4. <<>> \in HashTables /\ DOMAIN tables.table = {}
  <2>1. <<>> \in [{} -> CacheHandles] /\ DOMAIN <<>> = {}
    OBVIOUS
  <2> QED
    BY <1>2, <2>1 DEF HashTables
<1>5. tables \in Caches
  <2>1. Free \in CacheEntries
    BY DEF Free, CacheEntries
  <2>2. [h \in CacheHandles |-> Free] \in [CacheHandles -> CacheEntries]
    BY <2>1
  <2> QED
    BY <1>1, <1>3, <1>4, <2>2 DEF NewCache, Caches
<1>6. get \in [TableReaders -> Reads] /\ \A r \in TableReaders : get[r] = AtRest
  BY DEF TableCacheInit, AtRest, Reads
<1>7. \A h \in CacheHandles : HeldIn(get)[h] = 0
  <2>1. \A h \in CacheHandles : Holders(get, h) = {}
    BY <1>6 DEF Holders, AtRest
  <2> QED
    BY <2>1, FS_EmptySet DEF HeldIn
<1>8. \A h \in CacheHandles : EntryBooks(tables, HeldIn(get), {}, h)
  BY <1>2, <1>3, <1>4, <1>7 DEF EntryBooks, Cached, Free
<1>9. Books(tables, HeldIn(get), {})
  BY <1>2, <1>4, <1>5, <1>8, FS_EmptySet DEF Books
<1>10. \A r \in TableReaders : ReaderSound(r)
  BY <1>6 DEF ReaderSound, ReadSound, AtRest
<1>11. disk = {} /\ live = {} /\ IsFiniteSet(disk)
  BY FS_EmptySet DEF TableCacheInit
<1>12. tables.usage <= tables.capacity
  BY <1>2
<1> QED
  BY <1>4, <1>6, <1>9, <1>10, <1>11, <1>12 DEF TableCacheInv

-----------------------------------------------------------------------------
(* The steps. *)

(* A cache that has only lost entries is as good for everybody.            *)
LEMMA ShrunkSound ==
    ASSUME TableCacheInv, Shrunk(tables, tables', HeldIn(get)), get' = get, live' = live,
           disk' \in SUBSET disk, DOMAIN tables'.table \subseteq disk'
    PROVE  TableCacheInv'
<1>1. tables.usage \in Int /\ tables'.usage \in Int /\ tables.capacity \in Nat
  BY CacheFields DEF TableCacheInv, Shrunk, Books
<1>2. tables'.usage <= tables'.capacity \/ tables'.usage <= Cardinality(TableReaders)
  <2>1. tables'.usage <= tables.usage /\ tables'.capacity = tables.capacity
    BY DEF Shrunk
  <2>2. Cardinality(TableReaders) \in Nat
    BY TableCacheAssumption, FS_CardinalityType
  <2> QED
    BY <1>1, <2>1, <2>2 DEF TableCacheInv
<1>3. ASSUME NEW r \in TableReaders PROVE ReaderSound(r)'
  <2>1. ReaderSound(r)
    BY DEF TableCacheInv
  <2>2. ASSUME NEW h \in get[r].handle PROVE tables'.entry[h].key = tables.entry[h].key
    <3>1. h \in CacheHandles
      BY DEF TableCacheInv, Reads
    <3>2. r \in Holders(get, h)
      BY DEF Holders
    <3>3. HeldIn(get)[h] > 0
      BY <3>1, <3>2, HeldTyped, FS_EmptySet
    <3> QED
      BY <3>1, <3>3 DEF Shrunk
  <2> QED
    BY <2>1, <2>2 DEF ReaderSound, ReadSound
<1>4. IsFiniteSet(disk')
  BY FS_Subset DEF TableCacheInv
<1>5. Books(tables', HeldIn(get'), {})
  BY DEF Shrunk
<1> QED
  BY <1>2, <1>3, <1>4, <1>5 DEF TableCacheInv

LEMMA InstallStep == ASSUME TableCacheInv, Install PROVE TableCacheInv'
<1>1. PICK new \in FileNumbers, dropped \in SUBSET live :
         /\ disk' = disk \cup {new} /\ live' = (live \ dropped) \cup {new}
         /\ tables' = tables /\ get' = get
  BY DEF Install
<1>2. disk' \in SUBSET FileNumbers /\ IsFiniteSet(disk') /\ live' \in SUBSET FileNumbers
  BY <1>1, FS_AddElement DEF TableCacheInv
<1>3. DOMAIN tables'.table \subseteq disk'
  BY <1>1 DEF TableCacheInv
<1>4. \A r \in TableReaders : ReaderSound(r)'
  BY <1>1 DEF TableCacheInv, ReaderSound, ReadSound
<1>5. Books(tables', HeldIn(get'), {})
  BY <1>1 DEF TableCacheInv
<1> QED
  BY <1>1, <1>2, <1>3, <1>4, <1>5 DEF TableCacheInv

LEMMA DeleteStep == ASSUME TableCacheInv, DeleteObsolete PROVE TableCacheInv'
<1> DEFINE obsolete == disk \ Pinned
           seq == SetToSeq(obsolete)
<1>1. /\ tables' = FoldLeft(EraseKey, tables, seq) /\ disk' = disk \ obsolete
      /\ live' = live /\ get' = get
  BY DEF DeleteObsolete
<1>2. obsolete \in SUBSET FileNumbers /\ IsFiniteSet(obsolete)
  <2>1. obsolete \in SUBSET disk
    OBVIOUS
  <2> QED
    BY <2>1, FS_Subset DEF TableCacheInv
<1> HIDE DEF obsolete
<1>3. seq \in Seq(obsolete) /\ ToSet(seq) = obsolete
  BY <1>2, SetInOrder
<1>4. seq \in Seq(FileNumbers)
  BY <1>2, <1>3
<1> HIDE DEF seq
<1>5. /\ Shrunk(tables, FoldLeft(EraseKey, tables, seq), HeldIn(get))
      /\ DOMAIN FoldLeft(EraseKey, tables, seq).table \cap ToSet(seq) = {}
  BY <1>4, HeldTyped, EraseAllBooks DEF TableCacheInv
<1>6. Shrunk(tables, tables', HeldIn(get)) /\ DOMAIN tables'.table \cap obsolete = {}
  BY <1>1, <1>3, <1>5
<1>7. DOMAIN tables'.table \subseteq disk'
  BY <1>1, <1>6 DEF Shrunk, TableCacheInv
<1> QED
  BY <1>1, <1>6, <1>7, ShrunkSound

LEMMA PruneStep == ASSUME TableCacheInv, PruneTables PROVE TableCacheInv'
<1>1. tables' = Prune(tables) /\ disk' = disk /\ live' = live /\ get' = get
  BY DEF PruneTables
<1>2. Shrunk(tables, tables', HeldIn(get))
  BY <1>1, HeldTyped, PruneBooks DEF TableCacheInv
<1>3. DOMAIN tables'.table \subseteq disk'
  BY <1>1, <1>2 DEF Shrunk, TableCacheInv
<1> QED
  BY <1>1, <1>2, <1>3, ShrunkSound

(* The steps of one reader: r turns to x, the others keep their handles,   *)
(* whose entries keep their keys.                                          *)
LEMMA ReaderStep ==
    ASSUME TableCacheInv, NEW r \in TableReaders, NEW x \in Reads,
           get' = [get EXCEPT ![r] = x], disk' = disk, live' = live,
           Books(tables', HeldIn(get'), {}), DOMAIN tables'.table \subseteq disk,
           tables'.usage <= tables'.capacity \/ tables'.usage <= Cardinality(TableReaders),
           \A q \in TableReaders : q # r => \A h \in get[q].handle :
               tables'.entry[h].key = tables.entry[h].key,
           ReadSound(x, tables')
    PROVE  TableCacheInv'
<1>1. get' \in [TableReaders -> Reads] /\ get'[r] = x
  BY DEF TableCacheInv
<1>2. ReaderSound(r)'
  BY <1>1 DEF ReaderSound, ReadSound
<1>3. ASSUME NEW q \in TableReaders, q # r PROVE ReaderSound(q)'
  <2>1. get'[q] = get[q] /\ ReaderSound(q)
    BY <1>3 DEF TableCacheInv
  <2> QED
    BY <1>3, <2>1 DEF ReaderSound, ReadSound
<1>4. \A q \in TableReaders : ReaderSound(q)'
  BY <1>2, <1>3
<1> QED
  BY <1>1, <1>4 DEF TableCacheInv

(* A reader that holds an entry makes its count positive. *)
LEMMA HolderCounts ==
    ASSUME TableCacheInv, NEW q \in TableReaders, NEW h \in get[q].handle
    PROVE  h \in CacheHandles /\ HeldIn(get)[h] > 0
<1>1. h \in CacheHandles
  BY DEF TableCacheInv, Reads
<1>2. q \in Holders(get, h)
  BY DEF Holders
<1> QED
  BY <1>1, <1>2, HeldTyped, FS_EmptySet

LEMMA FindStep ==
    ASSUME TableCacheInv, NEW r \in TableReaders, FindTable(r)
    PROVE  TableCacheInv'
<1>1. get \in [TableReaders -> Reads] /\ get[r].step = "rest" /\ get[r].handle = {}
  BY DEF FindTable, TableCacheInv, ReaderSound, ReadSound
<1>2. PICK file \in live :
        /\ tables' = LookupRef(tables, file)
        /\ get' = [get EXCEPT ![r] =
              IF file \in DOMAIN tables.table
              THEN [step |-> "use", version |-> live, file |-> file, handle |-> {tables.table[file]}]
              ELSE [step |-> "open", version |-> live, file |-> file, handle |-> {}]]
        /\ disk' = disk /\ live' = live
  BY DEF FindTable
<1>3. file \in FileNumbers /\ file \in Nat /\ live \in SUBSET FileNumbers
  BY TableCacheAssumption DEF TableCacheInv
<1>4. CASE file \notin DOMAIN tables.table
  <2> DEFINE x == [step |-> "open", version |-> live, file |-> file, handle |-> {}]
  <2>1. x \in Reads /\ x.handle = {} /\ x.step = "open" /\ x.file = file
    BY <1>3 DEF Reads
  <2>2. tables' = tables /\ get' = [get EXCEPT ![r] = x]
    BY <1>2, <1>4 DEF LookupRef
  <2> HIDE DEF x
  <2>3. HeldIn(get') = HeldIn(get)
    <3>1. \A q \in TableReaders : get'[q].handle = get[q].handle
      BY <1>1, <2>1, <2>2
    <3> QED
      BY <3>1, HeldSame
  <2>4. /\ Books(tables', HeldIn(get'), {}) /\ DOMAIN tables'.table \subseteq disk
        /\ tables'.usage <= tables'.capacity \/ tables'.usage <= Cardinality(TableReaders)
    BY <2>2, <2>3 DEF TableCacheInv
  <2>5. ReadSound(x, tables')
    BY <1>3, <2>1 DEF ReadSound
  <2>6. \A q \in TableReaders : q # r => \A g \in get[q].handle :
           tables'.entry[g].key = tables.entry[g].key
    BY <2>2
  <2> QED
    BY <1>2, <2>1, <2>2, <2>4, <2>5, <2>6, ReaderStep
<1>5. CASE file \in DOMAIN tables.table
  <2>1. PICK h \in CacheHandles : h = tables.table[file] /\ tables.entry[h].key = file
    BY <1>5, CacheFields DEF TableCacheInv, Books
  <2> DEFINE x == [step |-> "use", version |-> live, file |-> file, handle |-> {h}]
  <2>2. x \in Reads /\ x.handle = {h} /\ x.step = "use" /\ x.file = file
    BY <1>3 DEF Reads
  <2>3. tables' = Ref(tables, h) /\ get' = [get EXCEPT ![r] = x]
    BY <1>2, <1>5, <2>1 DEF LookupRef
  <2> HIDE DEF x
  <2>4. More(HeldIn(get), HeldIn(get'), h)
    BY <1>1, <2>2, <2>3, HeldMore
  <2>5. Cached(tables, h)
    BY <1>5, <2>1 DEF Cached
  <2>6. /\ Books(tables', HeldIn(get'), {})
        /\ tables'.capacity = tables.capacity /\ tables'.table = tables.table
        /\ tables'.usage = tables.usage
        /\ \A g \in CacheHandles : tables'.entry[g].key = tables.entry[g].key
    <3>1. /\ Recounted(tables, Ref(tables, h), HeldIn(get'))
          /\ \A g \in CacheHandles : Ref(tables, h).entry[g].key = tables.entry[g].key
      BY <2>4, <2>5, HeldTyped, RefBooks DEF TableCacheInv
    <3> QED
      BY <2>3, <3>1 DEF Recounted
  <2>7. /\ DOMAIN tables'.table \subseteq disk
        /\ tables'.usage <= tables'.capacity \/ tables'.usage <= Cardinality(TableReaders)
    BY <2>6 DEF TableCacheInv
  <2>8. \A q \in TableReaders : q # r => \A g \in get[q].handle :
           tables'.entry[g].key = tables.entry[g].key
    BY <2>6, HolderCounts
  <2>9. ReadSound(x, tables')
    BY <1>3, <2>1, <2>2, <2>6 DEF ReadSound
  <2> QED
    BY <1>2, <2>2, <2>3, <2>6, <2>7, <2>8, <2>9, ReaderStep
<1> QED
  BY <1>4, <1>5

LEMMA OpenStep ==
    ASSUME TableCacheInv, NEW r \in TableReaders, OpenTable(r)
    PROVE  TableCacheInv'
<1>1. /\ get \in [TableReaders -> Reads] /\ get[r].step = "open" /\ get[r].handle = {}
      /\ get[r].file \in disk /\ get[r].file \in FileNumbers /\ get[r] \in Reads
  BY DEF OpenTable, TableCacheInv, ReaderSound, ReadSound
<1>2. PICK h \in CacheHandles :
        /\ tables.entry[h] = Free
        /\ tables' = CInsert(tables, get[r].file, 1, h)
        /\ get' = [get EXCEPT ![r].step = "use", ![r].handle = {h}]
        /\ disk' = disk /\ live' = live
  <2> DEFINE h == CHOOSE g \in CacheHandles : tables.entry[g] = Free
  <2>1. h \in CacheHandles /\ tables.entry[h] = Free
    BY DEF OpenTable
  <2>2. /\ tables' = CInsert(tables, get[r].file, 1, h)
        /\ get' = [get EXCEPT ![r].step = "use", ![r].handle = {h}]
        /\ disk' = disk /\ live' = live
    BY DEF OpenTable
  <2> HIDE DEF h
  <2> QED
    BY <2>1, <2>2
<1> DEFINE x == [get[r] EXCEPT !.step = "use", !.handle = {h}]
<1>3. get' = [get EXCEPT ![r] = x]
  BY <1>1, <1>2
<1>4. x \in Reads /\ x.handle = {h} /\ x.step = "use" /\ x.file = get[r].file
  BY <1>1 DEF Reads
<1> HIDE DEF x
<1>5. More(HeldIn(get), HeldIn(get'), h)
  BY <1>1, <1>3, <1>4, HeldMore
<1>6. HeldIn(get)[h] = 0
  <2>1. EntryBooks(tables, HeldIn(get), {}, h) /\ HeldIn(get)[h] \in Nat
    BY HeldTyped DEF TableCacheInv, Books
  <2> QED
    BY <1>2, <2>1 DEF EntryBooks, Free
<1>7. HeldIn(get') = [HeldIn(get) EXCEPT ![h] = 1]
  BY <1>5, <1>6 DEF More
<1>8. Inserted(tables, tables', HeldIn(get), HeldIn(get'), get[r].file, h)
  BY <1>1, <1>2, <1>7, HeldTyped, CInsertBooks DEF TableCacheInv
<1>9. ASSUME NEW q \in TableReaders, q # r, NEW g \in get[q].handle
      PROVE  tables'.entry[g].key = tables.entry[g].key
  <2>1. g \in CacheHandles /\ HeldIn(get)[g] > 0
    BY HolderCounts
  <2>2. g # h
    BY <1>6, <2>1
  <2> QED
    BY <1>8, <2>1, <2>2 DEF Inserted
<1>10. get' \in [TableReaders -> Reads] /\ \A q \in TableReaders : \A i, j \in get'[q].handle : i = j
  <2>1. get' \in [TableReaders -> Reads]
    BY <1>1, <1>3, <1>4
  <2>2. ASSUME NEW q \in TableReaders, NEW i \in get'[q].handle, NEW j \in get'[q].handle
        PROVE  i = j
    <3>1. CASE q = r
      BY <1>1, <1>3, <1>4, <3>1
    <3>2. CASE q # r
      <4>1. get'[q] = get[q] /\ ReaderSound(q)
        BY <1>1, <1>3, <3>2 DEF TableCacheInv
      <4> QED
        BY <4>1 DEF ReaderSound, ReadSound
    <3> QED
      BY <3>1, <3>2
  <2> QED
    BY <2>1, <2>2
<1>11. tables'.usage <= tables'.capacity \/ tables'.usage <= Cardinality(TableReaders)
  BY <1>8, <1>10, AllInUse DEF Inserted
<1>12. /\ Books(tables', HeldIn(get'), {}) /\ DOMAIN tables'.table \subseteq disk
       /\ tables'.entry[h].key = get[r].file
  BY <1>1, <1>8 DEF Inserted, TableCacheInv
<1>13. ReadSound(x, tables')
  BY <1>1, <1>4, <1>12 DEF ReadSound
<1> QED
  BY <1>2, <1>3, <1>4, <1>9, <1>11, <1>12, <1>13, ReaderStep

LEMMA FailStep ==
    ASSUME TableCacheInv, NEW r \in TableReaders, OpenFails(r)
    PROVE  TableCacheInv'
<1>1. /\ get \in [TableReaders -> Reads] /\ get[r].handle = {}
      /\ get' = [get EXCEPT ![r] = AtRest] /\ tables' = tables /\ disk' = disk /\ live' = live
  BY DEF OpenFails, TableCacheInv, ReaderSound, ReadSound
<1>2. AtRest \in Reads /\ AtRest.handle = {} /\ AtRest.step = "rest"
  BY DEF AtRest, Reads
<1>3. HeldIn(get') = HeldIn(get)
  <2>1. \A q \in TableReaders : get'[q].handle = get[q].handle
    BY <1>1, <1>2
  <2> QED
    BY <2>1, HeldSame
<1>4. /\ Books(tables', HeldIn(get'), {}) /\ DOMAIN tables'.table \subseteq disk
      /\ tables'.usage <= tables'.capacity \/ tables'.usage <= Cardinality(TableReaders)
  BY <1>1, <1>3 DEF TableCacheInv
<1>5. ReadSound(AtRest, tables')
  BY <1>2 DEF ReadSound
<1>6. \A q \in TableReaders : q # r => \A g \in get[q].handle :
         tables'.entry[g].key = tables.entry[g].key
  BY <1>1
<1> QED
  BY <1>1, <1>2, <1>4, <1>5, <1>6, ReaderStep

LEMMA ReleaseStep ==
    ASSUME TableCacheInv, NEW r \in TableReaders, ReleaseTable(r)
    PROVE  TableCacheInv'
<1>1. PICK h \in CacheHandles : get[r].handle = {h}
  BY DEF ReleaseTable, TableCacheInv, ReaderSound, ReadSound
<1>2. /\ get \in [TableReaders -> Reads] /\ tables' = Unref(tables, h)
      /\ get' = [get EXCEPT ![r] = AtRest] /\ disk' = disk /\ live' = live
  BY <1>1 DEF ReleaseTable, TableCacheInv
<1>3. AtRest \in Reads /\ AtRest.handle = {} /\ AtRest.step = "rest"
  BY DEF AtRest, Reads
<1>4. Less(HeldIn(get), HeldIn(get'), h)
  BY <1>1, <1>2, <1>3, HeldLess
<1>5. /\ Books(tables', HeldIn(get'), {})
      /\ tables'.capacity = tables.capacity /\ tables'.table = tables.table
      /\ tables'.usage = tables.usage
      /\ \A g \in CacheHandles : HeldIn(get')[g] > 0 => tables'.entry[g].key = tables.entry[g].key
  <2>1. Recounted(tables, Unref(tables, h), HeldIn(get'))
    BY <1>4, HeldTyped, UnrefBooks DEF TableCacheInv
  <2> QED
    BY <1>2, <2>1 DEF Recounted
<1>6. /\ DOMAIN tables'.table \subseteq disk
      /\ tables'.usage <= tables'.capacity \/ tables'.usage <= Cardinality(TableReaders)
  BY <1>5 DEF TableCacheInv
<1>7. ASSUME NEW q \in TableReaders, q # r, NEW g \in get[q].handle
      PROVE  tables'.entry[g].key = tables.entry[g].key
  <2>1. g \in CacheHandles
    BY HolderCounts
  <2>2. q \in Holders(get', g)
    BY <1>2, <1>7 DEF Holders
  <2>3. HeldIn(get')[g] > 0
    BY <2>1, <2>2, HeldTyped, FS_EmptySet
  <2> QED
    BY <1>5, <2>1, <2>3
<1>8. ReadSound(AtRest, tables')
  BY <1>3 DEF ReadSound
<1> QED
  BY <1>2, <1>3, <1>5, <1>6, <1>7, <1>8, ReaderStep

LEMMA TableCacheStep == TableCacheInv /\ [TableCacheNext]_tableVars => TableCacheInv'
<1> SUFFICES ASSUME TableCacheInv, [TableCacheNext]_tableVars PROVE TableCacheInv'
  OBVIOUS
<1>1. CASE Install
  BY <1>1, InstallStep
<1>2. CASE DeleteObsolete
  BY <1>2, DeleteStep
<1>3. CASE PruneTables
  BY <1>3, PruneStep
<1>4. ASSUME NEW r \in TableReaders, FindTable(r) PROVE TableCacheInv'
  BY <1>4, FindStep
<1>5. ASSUME NEW r \in TableReaders, OpenTable(r) PROVE TableCacheInv'
  BY <1>5, OpenStep
<1>6. ASSUME NEW r \in TableReaders, OpenFails(r) PROVE TableCacheInv'
  BY <1>6, FailStep
<1>7. ASSUME NEW r \in TableReaders, ReleaseTable(r) PROVE TableCacheInv'
  BY <1>7, ReleaseStep
<1>8. CASE UNCHANGED tableVars
  BY <1>8 DEF tableVars, TableCacheInv, ReaderSound, ReadSound
<1> QED
  BY <1>1, <1>2, <1>3, <1>4, <1>5, <1>6, <1>7, <1>8 DEF TableCacheNext

(* The table cache (table_cache.cc over cache.cc): whatever readers race   *)
(* to open a table, give back, or find evicted under them, the counts of   *)
(* references, the two lists, the hash table and the charge agree with     *)
(* what the readers hold; every reader's handle is an entry of the table   *)
(* it asked for; a table whose file was deleted is in the cache no more;   *)
(* and the cache exceeds its capacity only by what readers hold.           *)
THEOREM HandlesBalance == TableCacheSpec => []TableHandlesSound
<1>1. TableCacheInit => TableCacheInv
  BY TableCacheInitially
<1>2. TableCacheInv /\ [TableCacheNext]_tableVars => TableCacheInv'
  BY TableCacheStep
<1>3. TableCacheInv => TableHandlesSound
  BY SoundWhileInvariant
<1> QED
  BY <1>1, <1>2, <1>3, PTL DEF TableCacheSpec
=============================================================================
