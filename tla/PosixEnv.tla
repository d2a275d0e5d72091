------------------------------ MODULE PosixEnv ------------------------------
(***************************************************************************)
(* What leveldb asks of the system: one thread for work in the background, *)
(* files to read that are limited in number, files to write that are       *)
(* buffered, and locks between processes.  The four do not interact; each  *)
(* has variables, an initial predicate and actions of its own.             *)
(***************************************************************************)
EXTENDS Integers, Sequences, FiniteSets

CONSTANTS
    WorkItems,          \* bound: calls of Schedule
    EnvThreads,         \* threads that open files to read
    Limits,             \* mmap_limiter_'s and fd_limiter_'s numbers
    BufferSize,         \* kWritableFileBufferSize
    MaxBytes,           \* bound: bytes appended to a file
    Processes,
    LockTries           \* bound: calls of LockFile

ASSUME PosixAssumption ==
    /\ WorkItems \in Nat /\ MaxBytes \in Nat /\ LockTries \in Nat
    /\ IsFiniteSet(EnvThreads)
    /\ Limits \in [{"mmap", "fd"} -> Nat]
    /\ BufferSize \in Nat \ {0}

-----------------------------------------------------------------------------
(* Background work. *)
VARIABLES
    work,           \* background_work_queue_
    thread,         \* the background thread: not started, waiting, ready, or at an item
    scheduled,      \* how many items there were so far
    ran             \* those that ran
workVars == <<work, thread, scheduled, ran>>

WorkInit == work = <<>> /\ thread = "none" /\ scheduled = 0 /\ ran = <<>>

(* Schedule holds background_work_mutex_: the item is in the queue before  *)
(* the thread, started or signalled, can look.                             *)
Schedule ==
    /\ scheduled < WorkItems
    /\ scheduled' = scheduled + 1
    /\ thread' = IF thread = "none" \/ (thread = "waiting" /\ work = <<>>) THEN "ready" ELSE thread
    /\ work' = Append(work, scheduled + 1)
    /\ UNCHANGED ran

(* BackgroundThreadMain: look under the mutex, run without it. *)
LookForWork ==
    /\ thread = "ready"
    /\ IF work = <<>> THEN thread' = "waiting" /\ UNCHANGED <<work, ran>>
       ELSE thread' = "running" /\ work' = Tail(work) /\ ran' = Append(ran, Head(work))
    /\ UNCHANGED scheduled
WorkDone == thread = "running" /\ thread' = "ready" /\ UNCHANGED <<work, scheduled, ran>>
SpuriousWakeup == thread = "waiting" /\ thread' = "ready" /\ UNCHANGED <<work, scheduled, ran>>

WorkNext == Schedule \/ LookForWork \/ WorkDone \/ SpuriousWakeup

(* Items run once each, in the order they were scheduled, and the thread   *)
(* does not sleep while there is one.                                      *)
WorkKept ==
    /\ ran \o work = [i \in 1..scheduled |-> i]
    /\ thread \in {"none", "waiting"} => work = <<>>

-----------------------------------------------------------------------------
(* Files to read. *)
VARIABLES
    allowed,        \* acquires_allowed_ of each limiter
    opening         \* where each thread is with its file
readableVars == <<allowed, opening>>

ReadableInit == allowed = Limits /\ opening = [t \in EnvThreads |-> "closed"]

To(t, place) == opening' = [opening EXCEPT ![t] = place]

(* Acquire subtracts first; if nothing was left it adds the one back. *)
Acquire(t, limiter, granted, refused) ==
    /\ allowed' = [allowed EXCEPT ![limiter] = @ - 1]
    /\ To(t, IF allowed[limiter] > 0 THEN granted ELSE refused)
Release(limiter) == allowed' = [allowed EXCEPT ![limiter] = @ + 1]

NewRandomAccessFile(t) == opening[t] = "closed" /\ Acquire(t, "mmap", "mapping", "no_mmap")
\* Mutant: what a refused Acquire has taken is not given back
NoMmapKept(t) == opening[t] = "no_mmap" /\ To(t, "limit_fd") /\ UNCHANGED allowed

NoMmap(t) == opening[t] = "no_mmap" /\ Release("mmap") /\ To(t, "limit_fd")
LimitFd(t) == opening[t] = "limit_fd" /\ Acquire(t, "fd", "fd", "no_fd")
NoFd(t) == opening[t] = "no_fd" /\ Release("fd") /\ To(t, "path")
Mapped(t) == opening[t] = "mapping" /\ To(t, "mmap") /\ UNCHANGED allowed
MapFails(t) == opening[t] = "mapping" /\ Release("mmap") /\ To(t, "closed")
CloseReadable(t) ==
    /\ opening[t] \in {"mmap", "fd", "path"}
    /\ IF opening[t] = "path" THEN UNCHANGED allowed ELSE Release(opening[t])
    /\ To(t, "closed")

ReadableNext ==
    \E t \in EnvThreads :
        \/ NewRandomAccessFile(t) \/ NoMmap(t) \/ LimitFd(t) \/ NoFd(t)
        \/ Mapped(t) \/ MapFails(t) \/ CloseReadable(t)

(* However the threads' counting interleaves, no more files are mapped or  *)
(* kept open than the limits say, and when all are closed or read by path  *)
(* every permission is back.                                               *)
At(places) == Cardinality({t \in EnvThreads : opening[t] \in places})
LimitsHold ==
    /\ At({"mapping", "mmap"}) <= Limits["mmap"] /\ At({"fd"}) <= Limits["fd"]
    /\ At({"closed", "path"}) = Cardinality(EnvThreads) => allowed = Limits

-----------------------------------------------------------------------------
(* A file to write.  Bytes are numbered as they are appended. *)
VARIABLES
    appended,       \* how many bytes there were so far
    buf,            \* buf_ up to pos_
    kernel,         \* what was written to the descriptor
    durable,        \* how much of that has reached the disk
    directory,      \* has the directory been synced?
    synced,         \* bytes that a Sync that succeeded promised
    failed,         \* has a call returned an error?
    manifest,       \* is_manifest_
    closed
writableVars == <<appended, buf, kernel, durable, directory, synced, failed, manifest, closed>>

WritableInit ==
    /\ appended = 0 /\ buf = <<>> /\ kernel = <<>> /\ durable = 0
    /\ directory = FALSE /\ synced = 0 /\ failed = FALSE
    /\ manifest \in BOOLEAN /\ closed = FALSE

(* WriteUnbuffered: all of it, or an error after some of it. *)
Writes(data, ok) ==
    /\ failed' = (failed \/ ~ok)
    /\ IF ok THEN kernel' = kernel \o data
       ELSE \E n \in 0..Len(data) - 1 : kernel' = kernel \o SubSeq(data, 1, n)

AppendData ==
    \E size \in 1..MaxBytes - appended, ok \in BOOLEAN :
        LET data == [i \in 1..size |-> appended + i]
            copy == IF size < BufferSize - Len(buf) THEN size ELSE BufferSize - Len(buf)
            full == buf \o SubSeq(data, 1, copy)
            rest == SubSeq(data, copy + 1, size)
        IN /\ appended' = appended + size
           /\ IF rest = <<>> THEN ok /\ buf' = full /\ UNCHANGED <<kernel, failed>>
              ELSE IF Len(rest) < BufferSize
              THEN Writes(full, ok) /\ buf' = IF ok THEN rest ELSE <<>>
              ELSE Writes(full \o rest, ok) /\ buf' = <<>>
           /\ UNCHANGED <<durable, directory, synced>>

FlushBuffer(ok) == Writes(buf, ok) /\ buf' = <<>>
FlushData ==
    /\ \E ok \in BOOLEAN : (buf = <<>> => ok) /\ FlushBuffer(ok)
    /\ UNCHANGED <<appended, durable, directory, synced>>

(* Sync: the directory first, if the file is a manifest. *)
SyncFails == failed' = TRUE /\ UNCHANGED <<durable, synced>>
SyncData ==
    /\ directory' \in {directory, directory \/ manifest}
    /\ UNCHANGED appended
    /\ IF manifest /\ ~directory' THEN SyncFails /\ UNCHANGED <<kernel, buf>>
       ELSE \/ Writes(buf, TRUE) /\ buf' = <<>> /\ durable' = Len(kernel') /\ synced' = appended
            \/ Writes(buf, FALSE) /\ buf' = <<>> /\ UNCHANGED <<durable, synced>>
            \/ kernel' = kernel \o buf /\ buf' = <<>> /\ SyncFails

(* The system writes back by itself. *)
WriteBack ==
    /\ durable < Len(kernel) /\ durable' \in durable + 1..Len(kernel)
    /\ UNCHANGED <<appended, buf, kernel, directory, synced, failed>>

WritableNext ==
    \/ ~closed /\ UNCHANGED <<manifest, closed>> /\ (AppendData \/ FlushData \/ SyncData)
    \/ UNCHANGED <<manifest, closed>> /\ WriteBack
    \/ ~closed /\ closed' = TRUE /\ UNCHANGED manifest /\ FlushData

(* Until a call fails the file holds what was appended, once and in order, *)
(* but for what is still in the buffer, which a closed file has emptied;   *)
(* after a Sync, all of it is on the disk, with the directory if the file  *)
(* is a manifest.  After a failure bytes may be missing, but none is       *)
(* written twice or before an earlier one.                                 *)
AppendsKept ==
    /\ ~failed => kernel \o buf = [i \in 1..appended |-> i] /\ synced <= durable
    /\ closed => buf = <<>>
    /\ manifest /\ synced > 0 => directory
    /\ \A i, j \in DOMAIN kernel : i < j => kernel[i] < kernel[j]

-----------------------------------------------------------------------------
(* Locks.  The kernel's belong to a process, and go when it closes any     *)
(* descriptor of the file; locks_ keeps a process from locking twice.      *)
VARIABLES
    owner,          \* the process the kernel has given the lock to, if any
    locked,         \* the processes whose locks_ has the file
    locking,        \* calls in progress and locks held: [process, step]
    tries,          \* calls of LockFile so far
    slipped         \* has a process closed a descriptor while it owned the lock?
lockVars == <<owner, locked, locking, tries, slipped>>

LockInit == owner = {} /\ locked = {} /\ locking = <<>> /\ tries = 0 /\ slipped = FALSE

LockStep(i, from, to) ==
    /\ locking[i].step = from
    /\ locking' = [locking EXCEPT ![i].step = to]
CloseFd(p) == owner' = owner \ {p} /\ slipped' = (slipped \/ p \in owner)

LockFile ==
    /\ tries < LockTries /\ tries' = tries + 1
    /\ \E p \in Processes : locking' = Append(locking, [process |-> p, step |-> "opened"])
    /\ UNCHANGED <<owner, locked, slipped>>

LockTable(i) ==
    LET p == locking[i].process
    IN /\ IF p \in locked
          THEN LockStep(i, "opened", "end") /\ CloseFd(p) /\ UNCHANGED locked
          ELSE LockStep(i, "opened", "listed") /\ locked' = locked \cup {p} /\ UNCHANGED <<owner, slipped>>
       /\ UNCHANGED tries

SetLock(i) ==
    LET p == locking[i].process
    IN /\ IF owner \subseteq {p}
          THEN LockStep(i, "listed", "held") /\ owner' = {p} /\ UNCHANGED slipped
          ELSE LockStep(i, "listed", "refused") /\ CloseFd(p)
       /\ UNCHANGED <<locked, tries>>
LockRefused(i) ==
    /\ LockStep(i, "refused", "end") /\ locked' = locked \ {locking[i].process}
    /\ UNCHANGED <<owner, tries, slipped>>

UnlockFile(i) ==
    /\ LockStep(i, "held", "unlocked") /\ owner' = owner \ {locking[i].process}
    /\ UNCHANGED <<locked, tries, slipped>>
UnlockTable(i) ==
    /\ LockStep(i, "unlocked", "unlisted") /\ locked' = locked \ {locking[i].process}
    /\ UNCHANGED <<owner, tries, slipped>>
UnlockClose(i) ==
    /\ LockStep(i, "unlisted", "end") /\ CloseFd(locking[i].process)
    /\ UNCHANGED <<locked, tries>>

LockNext ==
    \/ LockFile
    \/ \E i \in DOMAIN locking :
        \/ LockTable(i) \/ SetLock(i) \/ LockRefused(i)
        \/ UnlockFile(i) \/ UnlockTable(i) \/ UnlockClose(i)

(* A process never holds the lock twice; and no two processes do, unless   *)
(* one has closed a second descriptor of the file while it held the lock.  *)
Holding(p) == {i \in DOMAIN locking : locking[i].process = p /\ locking[i].step = "held"}
LocksExclude ==
    /\ \A p \in Processes : Cardinality(Holding(p)) <= 1
    /\ ~slipped => \A p, q \in Processes : Holding(p) # {} /\ Holding(q) # {} => p = q

(* The four together. *)
EnvSpec ==
    /\ WorkInit /\ [][WorkNext]_workVars
    /\ ReadableInit /\ [][ReadableNext]_readableVars
    /\ WritableInit /\ [][WritableNext]_writableVars
    /\ LockInit /\ [][LockNext]_lockVars

EnvSound == WorkKept /\ LimitsHold /\ AppendsKept /\ LocksExclude
=============================================================================
