-------------------------------- MODULE MCDB --------------------------------
(* Scenarios small enough to explore, each aimed at some of the threads. *)
EXTENDS DB

P(k) == <<k, kTypeValue>>
D(k) == <<k, kTypeDeletion>>
Put(s, ops) == [batch |-> ops, sync |-> s]
Flush == Put(FALSE, <<>>)
RangeOf(level, b, e) == [level |-> level, begin |-> b, end |-> e]

Quiet == [created |-> TRUE, keys |-> {1, 2}, batches |-> <<>>, reads |-> 0, snapshots |-> 0,
          manuals |-> <<>>, closes |-> 0, crashes |-> 0, faults |-> {}]

(* Two threads write through two crashes, one of which may hit a recovery. *)
Crashing == [Quiet EXCEPT
    !.batches = <<Put(FALSE, <<P(1)>>), Put(TRUE, <<P(2), P(1)>>), Put(FALSE, <<D(1)>>), Flush>>,
    !.crashes = 2]

(* A reader and a snapshot while memtables and tables change under them. *)
Reading == [Quiet EXCEPT
    !.batches = <<Put(FALSE, <<P(1), P(2)>>), Put(FALSE, <<P(2), D(1)>>), Flush>>,
    !.reads = 2, !.snapshots = 1, !.closes = 1]

(* Somebody asks for the whole tree to be compacted. *)
Manually == [Quiet EXCEPT
    !.batches = <<Put(FALSE, <<P(1), P(2)>>), Put(TRUE, <<P(2), P(1)>>), Flush>>,
    !.reads = 1, !.manuals = <<RangeOf(0, {}, {}), RangeOf(1, {}, {})>>, !.closes = 1]

(* A new database, whose log and manifest fail to be synced. *)
Failing == [Quiet EXCEPT
    !.created = FALSE, !.closes = 1, !.faults = {"sync", "manifest"},
    !.batches = <<Put(TRUE, <<P(1), P(2)>>), Put(TRUE, <<P(2), P(1)>>), Put(TRUE, <<D(1)>>)>>]

(* A write that fails half-way, with no promises made after it. *)
HalfWay == [Quiet EXCEPT
    !.batches = <<Put(TRUE, <<P(1)>>), Put(FALSE, <<P(2)>>), Put(FALSE, <<D(1)>>)>>,
    !.crashes = 1, !.closes = 1, !.faults = {"append"}]

(* An error while a manual compaction is waited for. *)
Cancelled == [Quiet EXCEPT
    !.batches = <<Put(FALSE, <<P(1), P(2)>>), Put(TRUE, <<P(2)>>)>>,
    !.manuals = <<RangeOf(0, {}, {})>>, !.faults = {"sync"}]

Main == {Crashing, Reading, Manually, Failing, HalfWay, Cancelled}

(* What breaks a promise of the code: a synced write behind a failed one,  *)
(* a crash while the database is created, an error while the background    *)
(* thread is in a manual compaction, a memtable in a gap of one.           *)
Torn == {[HalfWay EXCEPT !.batches = <<Put(FALSE, <<P(1)>>), Put(TRUE, <<P(2)>>)>>]}
=============================================================================
