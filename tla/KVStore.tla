------------------------------- MODULE KVStore -------------------------------
(***************************************************************************)
(* What leveldb promises about writes: a batch takes effect as a whole, in *)
(* the order of the sequence numbers, a process that is up never takes one *)
(* back, and one that was promised survives every restart.  Of the others  *)
(* a restart may lose some, and it may bring back one that failed.         *)
(***************************************************************************)
EXTENDS Naturals

VARIABLES
    up,         \* the database is open
    store,      \* the batches it stands for, as sets of entries
    promised    \* those a synced write has returned ok for

vars == <<up, store, promised>>

Numbers(batches) == {e.seq : e \in UNION batches}

(* No two batches of a store hold an entry of the same number. *)
Consistent(batches) ==
    \A b, c \in batches : b # c => Numbers({b}) \cap Numbers({c}) = {}

Init == up = FALSE /\ store = {} /\ promised = {}

Open == ~up /\ up' /\ UNCHANGED <<store, promised>>

Commit ==
    /\ up /\ up'
    /\ \E b \in store' :
        /\ store' = store \cup {b} /\ b # {}
        /\ \A n \in Numbers({b}), m \in Numbers(store) : m < n
        /\ promised' \in {promised, promised \cup {b}}

Stop ==
    /\ ~up'
    /\ promised' = promised /\ promised \subseteq store'
    /\ Consistent(store')

Spec == Init /\ [][Open \/ Commit \/ Stop]_vars
=============================================================================
