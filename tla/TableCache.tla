----------------------------- MODULE TableCache -----------------------------
(***************************************************************************)
(* leveldb's cache of open tables.  Readers open a table without the       *)
(* database's lock, between a lookup that misses and an insertion; the     *)
(* database evicts and deletes a table no version needs.                   *)
(***************************************************************************)
EXTENDS LRUCache

CONSTANTS
    TableReaders,
    FileNumbers,        \* bound: tables ever written
    CacheSizes          \* capacities to try: 0 turns the cache off

ASSUME TableCacheAssumption ==
    /\ IsFiniteSet(TableReaders)
    /\ CacheSizes \subseteq Nat
    /\ FileNumbers \subseteq Nat \ {0}

VARIABLES
    tables,     \* the cache
    disk,       \* tables that exist as files
    used,       \* numbers that were given to a table so far
    live,       \* tables of the current version
    get         \* readers: what version and table they read, with which handle
tableVars == <<tables, disk, used, live, get>>

AtRest == [step |-> "rest", version |-> {}, file |-> 0, handle |-> {}]

TableCacheInit ==
    /\ \E size \in CacheSizes : tables = NewCache(size)
    /\ disk = {} /\ used = {} /\ live = {}
    /\ get = [r \in TableReaders |-> AtRest]

Pinned == live \cup UNION {get[r].version : r \in TableReaders}

(* A flush or a compaction: new tables, some of the old ones go. *)
Install ==
    \E new \in FileNumbers \ used, dropped \in SUBSET live :
        /\ used' = used \cup {new}
        /\ disk' = disk \cup {new}
        /\ live' = (live \ dropped) \cup {new}
        /\ UNCHANGED <<tables, get>>

(* DeleteObsoleteFiles: Evict, then the file. *)
DeleteObsolete ==
    LET obsolete == disk \ Pinned
    IN /\ obsolete # {}
       /\ tables' = FoldLeft(EraseKey, tables, SetToSeq(obsolete))
       /\ disk' = disk \ obsolete
       /\ UNCHANGED <<used, live, get>>

(* FindTable: a lookup... *)
FindTable(r) ==
    /\ get[r].step = "rest"
    /\ \E file \in live :
        /\ tables' = LookupRef(tables, file)
        /\ get' = [get EXCEPT ![r] =
              IF file \in DOMAIN tables.table
              THEN [step |-> "use", version |-> live, file |-> file, handle |-> {tables.table[file]}]
              ELSE [step |-> "open", version |-> live, file |-> file, handle |-> {}]]
    /\ UNCHANGED <<disk, used, live>>

(* ...and if it missed, the file is opened and the table inserted; an      *)
(* error is not remembered.  Bound: an entry is left to allocate.          *)
OpenTable(r) ==
    /\ get[r].step = "open" /\ get[r].file \in disk
    /\ \E g \in CacheHandles : tables.entry[g] = Free
    /\ LET h == CHOOSE g \in CacheHandles : tables.entry[g] = Free
       IN /\ tables' = CInsert(tables, get[r].file, 1, h)
          /\ get' = [get EXCEPT ![r].step = "use", ![r].handle = {h}]
    /\ UNCHANGED <<disk, used, live>>

OpenFails(r) ==
    /\ get[r].step = "open"
    /\ get' = [get EXCEPT ![r] = AtRest]
    /\ UNCHANGED <<tables, disk, used, live>>

(* The end of a Get, or an iterator's cleanup, UnrefEntry. *)
ReleaseTable(r) ==
    /\ get[r].step = "use"
    /\ \E h \in get[r].handle : tables' = Unref(tables, h)
    /\ get' = [get EXCEPT ![r] = AtRest]
    /\ UNCHANGED <<disk, used, live>>

(* Cache::Prune, which a program may call. *)
PruneTables ==
    /\ tables' = Prune(tables) /\ tables' # tables
    /\ UNCHANGED <<disk, used, live, get>>

TableCacheNext ==
    \/ Install \/ DeleteObsolete \/ PruneTables
    \/ \E r \in TableReaders : FindTable(r) \/ OpenTable(r) \/ OpenFails(r) \/ ReleaseTable(r)

TableCacheSpec == TableCacheInit /\ [][TableCacheNext]_tableVars

(* The cache's books balance with the handles the readers hold, also when  *)
(* two opened the same table at once; every reader's handle is an entry of *)
(* the table it asked for, which has not been closed under it; and a table *)
(* that was deleted is not found in the cache again.                       *)
TableHandlesSound ==
    /\ CacheAgrees(tables, LAMBDA h : Cardinality({r \in TableReaders : h \in get[r].handle}))
    /\ \A r \in TableReaders : \A h \in get[r].handle : tables.entry[h].key = get[r].file
    /\ DOMAIN tables.table \subseteq disk
    /\ tables.usage <= tables.capacity \/ tables.usage <= Cardinality(TableReaders)
=============================================================================
