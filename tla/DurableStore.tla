---------------------------- MODULE DurableStore ----------------------------
(***************************************************************************)
(* A durable Database: cloned handles used by several threads, the catalog  *)
(* behind a reader-writer lock, the write-ahead log, checkpoints, the I/O   *)
(* errors the code handles, and the end and restart of the process.         *)
(* (src/engine.rs Database, src/durable.rs PersistentStorage,               *)
(* src/storage.rs save.)                                                    *)
(*                                                                          *)
(* Each step is what one thread does between two points where another       *)
(* thread, or the end of the process, can come in between: taking a lock,   *)
(* one file operation, publishing.  The five write paths of the engine      *)
(* (staged batch, direct INSERT, direct DELETE, typed rows, graph           *)
(* transaction) share this skeleton; they differ in whether they stage a    *)
(* private catalog ("staged") or apply a prepared delta ("delta"), and in   *)
(* whether they carry an expected revision.                                 *)
(*                                                                          *)
(* The WAL mutex is not a variable: append runs under the catalog's write   *)
(* lock and checkpoint under its read lock, so it is never contended.       *)
(* File system assumptions: a rename either happened or not; after a power  *)
(* loss each file is in a state it passed through since it was last         *)
(* synchronized, a log append possibly cut short; with WriteBack, what a    *)
(* process left in the system's cache is on the disk before a later loss.   *)
(***************************************************************************)
EXTENDS Recovery, FiniteSets

CONSTANTS
    Threads,         \* the threads that use handles of the database
    NoThread,        \* the owner of a free lock
    BatchSize,       \* by how much one staged batch raises the private revision
    CheckpointEvery, \* log records that make a commit ask for a checkpoint
    MaxRequests,     \* bound: requests started
    MaxCrashes,      \* bound: ends of the process
    WriteBack,       \* is a file that a process left unsynchronized written
                     \* back before the power fails
    RenameFallback   \* can rename() fail over an existing snapshot

ASSUME DurableStoreAssumption ==
    /\ NoThread \notin Threads
    /\ BatchSize \in Nat \ {0}
    /\ CheckpointEvery \in Nat \ {0}
    /\ MaxRequests \in Nat
    /\ MaxCrashes \in Nat
    /\ WriteBack \in BOOLEAN
    /\ RenameFallback \in BOOLEAN

VARIABLES
    \* The data directory, as the system shows it and as power loss may leave it.
    ckpt,        \* vectors.vdb
    ckptImages,  \* the contents vectors.vdb may have after a power loss
    backup,      \* the sibling replace_file moves the old snapshot to
    wal,         \* vectors.wal
    walImages,   \* the contents vectors.wal may have after a power loss
    \* The process.
    status,      \* "down", "recovering", "open" or "refused"
    mem,         \* the catalog: history, durable sequence, revision
    writer,      \* the thread that holds the catalog's write lock
    readers,     \* the threads that hold its read lock across steps
    snapLock,    \* the thread that holds snapshot_lock
    failed,      \* WalFile.failed
    \* The threads.
    pc,          \* where each thread is
    job,         \* the request it serves
    copy,        \* its private catalog: staged, or captured for a snapshot
    \* Observers and bounds.
    fate,        \* what became of each mutation, as its client knows
    edit,        \* what a client that edits has read: a revision, its history
    requests,    \* requests started
    crashes      \* ends of the process

disk == <<ckpt, ckptImages, backup, wal, walImages>>
locks == <<writer, readers, snapLock>>
threads == <<pc, job, copy>>
observers == <<fate, edit>>
bounds == <<requests, crashes>>
vars == <<disk, status, mem, locks, failed, threads, observers, bounds>>

-----------------------------------------------------------------------------
Catalogs == [hist : Seq(Ops), seq : Nat, rev : Nat]

EmptyCatalog == [hist |-> << >>, seq |-> 0, rev |-> 0]

Jobs == [kind : {"none", "staged", "delta", "checkpoint", "save"},
         op : Ops \cup {NoOp}, guarded : BOOLEAN]

NoJob == [kind |-> "none", op |-> NoOp, guarded |-> FALSE]

Edits == [taken : BOOLEAN, rev : Nat, hist : Seq(Ops)]

NoEdit == [taken |-> FALSE, rev |-> 0, hist |-> << >>]

WritePcs == {"w_append", "w_sync", "w_publish"}

SavePcs == {"temporary", "rename", "backup", "install", "sync_directory",
            "truncate", "header"}

Pcs == {"idle", "w_lock", "c_snapshot", "c_read"} \cup WritePcs \cup SavePcs

Init ==
    /\ ckpt = Absent /\ ckptImages = {Absent} /\ backup = Absent
    /\ wal = ShortWal /\ walImages = {ShortWal}
    /\ status = "down" /\ mem = EmptyCatalog
    /\ writer = NoThread /\ readers = {} /\ snapLock = NoThread
    /\ failed = FALSE
    /\ pc = [t \in Threads |-> "idle"]
    /\ job = [t \in Threads |-> NoJob]
    /\ copy = [t \in Threads |-> EmptyCatalog]
    /\ fate = [op \in Ops |-> "unused"]
    /\ edit = NoEdit
    /\ requests = 0 /\ crashes = 0

-----------------------------------------------------------------------------
(* Opening the directory.                                                   *)

(***************************************************************************)
(* PersistentStorage::open: the checkpoint is loaded (a missing one is the  *)
(* default catalog), and open_wal repairs or refuses the log.  What it      *)
(* repairs is synchronized; what it only reads is not.                      *)
(***************************************************************************)
OpenDirectory ==
    /\ status = "down"
    /\ mem' = [hist |-> ckpt.hist, seq |-> ckpt.seq, rev |-> 0]
    /\ failed' = FALSE
    /\ status' = IF WellFormed(wal) THEN "recovering" ELSE "refused"
    /\ IF NeedsRepair(wal)
       THEN wal' = Repaired(wal) /\ walImages' = {wal'}
       ELSE UNCHANGED <<wal, walImages>>
    /\ UNCHANGED <<ckpt, ckptImages, backup, locks, threads, observers, bounds>>

\* reset_wal or truncate_tail fails: the directory is not opened.
OpenDirectoryFails ==
    /\ status = "down"
    /\ NeedsRepair(wal)
    /\ wal' \in {wal, Repaired(wal)}
    /\ walImages' = walImages \cup {wal'}
    /\ UNCHANGED <<ckpt, ckptImages, backup, status, mem, locks, failed,
                   threads, observers, bounds>>

\* Varies Recover: the revision stays what replaying the records made it.
RecoverKeepingCount ==
    /\ status = "recovering"
    /\ IF Replayable(ckpt, wal)
       THEN /\ mem' = [hist |-> Replayed(ckpt, wal),
                       seq |-> ReplayedSeq(ckpt, wal),
                       rev |-> ReplayedSeq(ckpt, wal) - ckpt.seq]
            /\ status' = "open"
       ELSE /\ status' = "refused" /\ mem' = mem
    /\ UNCHANGED <<disk, locks, failed, threads, observers, bounds>>

(***************************************************************************)
(* recover, then the handle is published.  While it replays, the revision   *)
(* counts changes since the checkpoint was loaded; the last step of         *)
(* open_persistent sets it to the durable sequence.                         *)
(***************************************************************************)
Recover ==
    /\ status = "recovering"
    /\ IF Replayable(ckpt, wal)
       THEN /\ mem' = [hist |-> Replayed(ckpt, wal),
                       seq |-> ReplayedSeq(ckpt, wal),
                       rev |-> ReplayedSeq(ckpt, wal)]
            /\ status' = "open"
       ELSE /\ status' = "refused" /\ mem' = mem
    /\ UNCHANGED <<disk, locks, failed, threads, observers, bounds>>

-----------------------------------------------------------------------------
(* Writes.                                                                  *)

InFlightGuard == \E t \in Threads : job[t].guarded

\* A client reads a table together with the revision (table_page).
ReadForEdit ==
    /\ status = "open" /\ writer = NoThread /\ ~InFlightGuard
    /\ edit' = [taken |-> TRUE, rev |-> mem.rev, hist |-> mem.hist]
    /\ UNCHANGED <<disk, status, mem, locks, failed, threads, fate, bounds>>

Start(t, request, first) ==
    /\ status = "open" /\ pc[t] = "idle" /\ requests < MaxRequests
    /\ job' = [job EXCEPT ![t] = request]
    /\ pc' = [pc EXCEPT ![t] = first]
    /\ requests' = requests + 1
    /\ UNCHANGED <<disk, status, mem, locks, failed, copy, edit, crashes>>

\* A write request; a guarded one carries the revision its client has read.
StartWrite(t) ==
    \E kind \in {"staged", "delta"}, guarded \in BOOLEAN,
       op \in {o \in Ops : fate[o] = "unused"} \cup {NoOp} :
        /\ guarded => kind = "staged" /\ edit.taken /\ ~InFlightGuard
        /\ Start(t, [kind |-> kind, op |-> op, guarded |-> guarded], "w_lock")
        /\ fate' = IF op = NoOp THEN fate ELSE [fate EXCEPT ![op] = "sent"]

\* The request ends, and its locks are dropped with its guards.
Finish(t) ==
    /\ pc' = [pc EXCEPT ![t] = "idle"]
    /\ job' = [job EXCEPT ![t] = NoJob]
    /\ copy' = [copy EXCEPT ![t] = EmptyCatalog]
    /\ writer' = IF writer = t THEN NoThread ELSE writer
    /\ readers' = readers \ {t}
    /\ snapLock' = IF snapLock = t THEN NoThread ELSE snapLock

\* The request ends with an error: its mutation is not in the catalog.
Reject(t) ==
    /\ Finish(t)
    /\ fate' = IF job[t].op = NoOp THEN fate
               ELSE [fate EXCEPT ![job[t].op] = "error"]
    /\ edit' = edit

\* Varies NextSequence: counts the wrong way.
PreviousSequence(sequence) == sequence - 1

NextSequence(sequence) == sequence + 1

Conflicts(t) == job[t].guarded /\ edit.rev # mem.rev

(***************************************************************************)
(* The write lock is taken; the expected revision is compared and the       *)
(* mutation validated under it, either of which may end the request.  A     *)
(* staged write works on a private catalog whose revision counts its        *)
(* statements.                                                              *)
(***************************************************************************)
LockCatalog(t) ==
    /\ status = "open" /\ pc[t] = "w_lock"
    /\ writer = NoThread /\ readers = {}
    /\ \/ Reject(t)
       \/ /\ ~Conflicts(t) /\ job[t].op = NoOp
          /\ Finish(t)
          /\ UNCHANGED observers
       \/ /\ ~Conflicts(t) /\ job[t].op # NoOp
          /\ writer' = t
          /\ copy' = [copy EXCEPT ![t] =
                IF job[t].kind = "staged"
                THEN [mem EXCEPT !.hist = Append(@, job[t].op),
                                 !.rev = @ + BatchSize]
                ELSE EmptyCatalog]
          /\ pc' = [pc EXCEPT ![t] = "w_append"]
          /\ UNCHANGED <<readers, snapLock, job, observers>>
    /\ UNCHANGED <<disk, status, mem, failed, bounds>>

\* Varies AppendRecord: an earlier failure is forgotten.
AppendAfterFailure(t) ==
    LET rec == Record(NextSequence(mem.seq), job[t].op) IN
    /\ status = "open" /\ pc[t] = "w_append"
    /\ \/ /\ wal' = Written(wal, rec)
          /\ walImages' = walImages \cup {Torn(wal), wal'}
          /\ pc' = [pc EXCEPT ![t] = "w_sync"]
          /\ UNCHANGED <<locks, job, copy, failed, observers>>
       \/ /\ wal' \in {wal, Torn(wal)}
          /\ walImages' = walImages \cup {wal'}
          /\ failed' = TRUE
          /\ Reject(t)
    /\ UNCHANGED <<ckpt, ckptImages, backup, status, mem, bounds>>

(***************************************************************************)
(* PersistentStorage::append up to the synchronization.  An earlier failure *)
(* refuses the record; a write that fails leaves the file as it was or with *)
(* an incomplete record, and no later record may be written behind it.      *)
(***************************************************************************)
AppendRecord(t) ==
    LET rec == Record(NextSequence(mem.seq), job[t].op) IN
    /\ status = "open" /\ pc[t] = "w_append"
    /\ \/ /\ failed
          /\ Reject(t)
          /\ UNCHANGED <<wal, walImages, failed>>
       \/ /\ ~failed
          /\ wal' = Written(wal, rec)
          /\ walImages' = walImages \cup {Torn(wal), wal'}
          /\ pc' = [pc EXCEPT ![t] = "w_sync"]
          /\ UNCHANGED <<locks, job, copy, failed, observers>>
       \/ /\ ~failed
          /\ wal' \in {wal, Torn(wal)}
          /\ walImages' = walImages \cup {wal'}
          /\ failed' = TRUE
          /\ Reject(t)
    /\ UNCHANGED <<ckpt, ckptImages, backup, status, mem, bounds>>

\* sync_data: the record is on the disk, or the log is unusable from now on.
SyncRecord(t) ==
    /\ status = "open" /\ pc[t] = "w_sync"
    /\ \/ /\ walImages' = {wal}
          /\ pc' = [pc EXCEPT ![t] = "w_publish"]
          /\ UNCHANGED <<locks, job, copy, failed, observers>>
       \/ /\ failed' = TRUE
          /\ Reject(t)
          /\ UNCHANGED walImages
    /\ UNCHANGED <<ckpt, ckptImages, backup, wal, status, mem, bounds>>

CheckpointNeeded == Len(wal.recs) >= CheckpointEvery

\* Varies Publish: the write lock is still held when the checkpoint starts.
PublishKeepingLock(t) ==
    LET hist == IF job[t].kind = "staged" THEN copy[t].hist
                ELSE Append(mem.hist, job[t].op) IN
    /\ status = "open" /\ pc[t] = "w_publish"
    /\ mem' = [hist |-> hist, seq |-> NextSequence(mem.seq),
                rev |-> NextSequence(mem.seq)]
    /\ fate' = [fate EXCEPT ![job[t].op] = "acked"]
    /\ copy' = [copy EXCEPT ![t] = EmptyCatalog]
    /\ IF CheckpointNeeded
       THEN /\ pc' = [pc EXCEPT ![t] = "c_snapshot"]
            /\ job' = [job EXCEPT ![t] = [NoJob EXCEPT !.kind = "checkpoint"]]
            /\ writer' = writer
       ELSE /\ pc' = [pc EXCEPT ![t] = "idle"]
            /\ job' = [job EXCEPT ![t] = NoJob]
            /\ writer' = NoThread
    /\ UNCHANGED <<disk, status, readers, snapLock, failed, edit, bounds>>

(***************************************************************************)
(* The catalog takes the mutation and the record's sequence number, as its  *)
(* revision too; the write lock is dropped.  The commit is acknowledged     *)
(* whatever becomes of the checkpoint it may ask for.                       *)
(***************************************************************************)
Publish(t) ==
    LET hist == IF job[t].kind = "staged" THEN copy[t].hist
                ELSE Append(mem.hist, job[t].op) IN
    /\ status = "open" /\ pc[t] = "w_publish"
    /\ mem' = [hist |-> hist, seq |-> NextSequence(mem.seq),
                rev |-> NextSequence(mem.seq)]
    /\ fate' = [fate EXCEPT ![job[t].op] = "acked"]
    /\ writer' = NoThread
    /\ copy' = [copy EXCEPT ![t] = EmptyCatalog]
    /\ IF CheckpointNeeded
       THEN /\ pc' = [pc EXCEPT ![t] = "c_snapshot"]
            /\ job' = [job EXCEPT ![t] = [NoJob EXCEPT !.kind = "checkpoint"]]
       ELSE /\ pc' = [pc EXCEPT ![t] = "idle"]
            /\ job' = [job EXCEPT ![t] = NoJob]
    /\ UNCHANGED <<disk, status, readers, snapLock, failed, edit, bounds>>

-----------------------------------------------------------------------------
(* Checkpoints, and public saves aimed at the managed checkpoint file.      *)

StartCheckpoint(t) ==
    Start(t, [NoJob EXCEPT !.kind = "checkpoint"], "c_snapshot") /\ fate' = fate

StartSave(t) ==
    Start(t, [NoJob EXCEPT !.kind = "save"], "c_snapshot") /\ fate' = fate

Checkpointing(t) == job[t].kind = "checkpoint"

\* Varies LockSnapshot: another snapshot may be under way.
SnapshotUnlocked(t) ==
    /\ status = "open" /\ pc[t] = "c_snapshot"
    /\ snapLock' = t
    /\ pc' = [pc EXCEPT ![t] = "c_read"]
    /\ UNCHANGED <<disk, status, mem, writer, readers, failed, job, copy,
                   observers, bounds>>

LockSnapshot(t) ==
    /\ status = "open" /\ pc[t] = "c_snapshot" /\ snapLock = NoThread
    /\ snapLock' = t
    /\ pc' = [pc EXCEPT ![t] = "c_read"]
    /\ UNCHANGED <<disk, status, mem, writer, readers, failed, job, copy,
                   observers, bounds>>

\* Varies CaptureCatalog: a checkpoint drops the read lock, as a save does.
CaptureAndUnlock(t) ==
    /\ status = "open" /\ pc[t] = "c_read" /\ writer = NoThread
    /\ IF Checkpointing(t) /\ failed
       THEN Finish(t)
       ELSE /\ copy' = [copy EXCEPT ![t] = mem]
            /\ pc' = [pc EXCEPT ![t] = "temporary"]
            /\ UNCHANGED <<locks, job>>
    /\ UNCHANGED <<disk, status, mem, failed, observers, bounds>>

(***************************************************************************)
(* The catalog is captured under the read lock.  A checkpoint keeps that    *)
(* lock until the log is reset, a save drops it before any disk I/O.        *)
(***************************************************************************)
CaptureCatalog(t) ==
    /\ status = "open" /\ pc[t] = "c_read" /\ writer = NoThread
    /\ IF Checkpointing(t) /\ failed
       THEN Finish(t)
       ELSE /\ copy' = [copy EXCEPT ![t] = mem]
            /\ readers' = IF Checkpointing(t) THEN readers \cup {t} ELSE readers
            /\ pc' = [pc EXCEPT ![t] = "temporary"]
            /\ UNCHANGED <<writer, snapLock, job>>
    /\ UNCHANGED <<disk, status, mem, failed, observers, bounds>>

Captured(t) == [exists |-> TRUE, seq |-> copy[t].seq, hist |-> copy[t].hist]

Goto(t, next) ==
    pc' = [pc EXCEPT ![t] = next] /\ UNCHANGED <<locks, job, copy>>

\* The temporary sibling is written and synchronized, or removed again.
WriteTemporary(t) ==
    /\ status = "open" /\ pc[t] = "temporary"
    /\ Goto(t, "rename") \/ Finish(t)
    /\ UNCHANGED <<disk, status, mem, failed, observers, bounds>>

SetSnapshot(file) ==
    ckpt' = file /\ ckptImages' = ckptImages \cup {file}

\* replace_file: the first rename.
InstallSnapshot(t) ==
    /\ status = "open" /\ pc[t] = "rename"
    /\ \/ SetSnapshot(Captured(t)) /\ Goto(t, "sync_directory")
       \/ /\ ~ckpt.exists
          /\ Finish(t)
          /\ UNCHANGED <<ckpt, ckptImages>>
       \/ /\ ckpt.exists /\ RenameFallback
          /\ Goto(t, "backup")
          /\ UNCHANGED <<ckpt, ckptImages>>
    /\ UNCHANGED <<backup, wal, walImages, status, mem, failed, observers, bounds>>

\* replace_file: the previous snapshot is moved away.
BackUpSnapshot(t) ==
    /\ status = "open" /\ pc[t] = "backup"
    /\ \/ /\ SetSnapshot(Absent) /\ backup' = ckpt
          /\ Goto(t, "install")
       \/ Finish(t) /\ UNCHANGED <<ckpt, ckptImages, backup>>
    /\ UNCHANGED <<wal, walImages, status, mem, failed, observers, bounds>>

\* replace_file: the second rename, or the previous snapshot is moved back,
\* which may fail as well: its result is dropped.
InstallOverBackup(t) ==
    /\ status = "open" /\ pc[t] = "install"
    /\ \/ SetSnapshot(Captured(t)) /\ backup' = Absent /\ Goto(t, "sync_directory")
       \/ SetSnapshot(backup) /\ backup' = Absent /\ Finish(t)
       \/ Finish(t) /\ UNCHANGED <<ckpt, ckptImages, backup>>
    /\ UNCHANGED <<wal, walImages, status, mem, failed, observers, bounds>>

\* Varies SyncDirectory: the directory is not synchronized.
SkipDirectorySync(t) ==
    /\ status = "open" /\ pc[t] = "sync_directory"
    /\ ckptImages' = ckptImages
    /\ IF Checkpointing(t) THEN Goto(t, "truncate") ELSE Finish(t)
    /\ UNCHANGED <<ckpt, backup, wal, walImages, status, mem, failed,
                   observers, bounds>>

\* sync_parent; a save is done, a checkpoint goes on to reset the log.
SyncDirectory(t) ==
    /\ status = "open" /\ pc[t] = "sync_directory"
    /\ \/ /\ ckptImages' = {ckpt}
          /\ IF Checkpointing(t) THEN Goto(t, "truncate") ELSE Finish(t)
       \/ Finish(t) /\ UNCHANGED ckptImages
    /\ UNCHANGED <<ckpt, backup, wal, walImages, status, mem, failed,
                   observers, bounds>>

\* reset_wal: set_len(0).
TruncateLog(t) ==
    /\ status = "open" /\ pc[t] = "truncate"
    /\ \/ /\ wal' = ShortWal /\ walImages' = walImages \cup {ShortWal}
          /\ Goto(t, "header")
          /\ UNCHANGED failed
       \/ /\ failed' = TRUE
          /\ Finish(t)
          /\ UNCHANGED <<wal, walImages>>
    /\ UNCHANGED <<ckpt, ckptImages, backup, status, mem, observers, bounds>>

\* reset_wal: the header, and sync_all.
WriteHeader(t) ==
    /\ status = "open" /\ pc[t] = "header"
    /\ \/ /\ wal' = EmptyWal /\ walImages' = {EmptyWal}
          /\ UNCHANGED failed
       \/ /\ wal' \in {ShortWal, EmptyWal} /\ walImages' = walImages \cup {wal'}
          /\ failed' = TRUE
    /\ Finish(t)
    /\ UNCHANGED <<ckpt, ckptImages, backup, status, mem, observers, bounds>>

-----------------------------------------------------------------------------
(* The end of the process.                                                  *)

EndProcess ==
    /\ status \in {"open", "recovering", "down"}
    /\ crashes < MaxCrashes
    /\ status' = "down"
    /\ mem' = EmptyCatalog
    /\ writer' = NoThread /\ readers' = {} /\ snapLock' = NoThread
    /\ failed' = FALSE
    /\ pc' = [t \in Threads |-> "idle"]
    /\ job' = [t \in Threads |-> NoJob]
    /\ copy' = [t \in Threads |-> EmptyCatalog]
    /\ backup' = Absent
    /\ crashes' = crashes + 1
    /\ UNCHANGED <<observers, requests>>

\* The process exits or is killed: the system keeps what it was given.
Kill ==
    /\ EndProcess
    /\ ckptImages' = IF WriteBack THEN {ckpt} ELSE ckptImages
    /\ walImages' = IF WriteBack THEN {wal} ELSE walImages
    /\ UNCHANGED <<ckpt, wal>>

\* The machine stops: only what was synchronized is sure to be there.
PowerLoss ==
    /\ EndProcess
    /\ ckpt' \in ckptImages /\ ckptImages' = {ckpt'}
    /\ wal' \in walImages /\ walImages' = {wal'}

-----------------------------------------------------------------------------
ThreadStep(t) ==
    \/ LockCatalog(t) \/ AppendRecord(t) \/ SyncRecord(t) \/ Publish(t)
    \/ LockSnapshot(t) \/ CaptureCatalog(t) \/ WriteTemporary(t)
    \/ InstallSnapshot(t) \/ BackUpSnapshot(t) \/ InstallOverBackup(t)
    \/ SyncDirectory(t) \/ TruncateLog(t) \/ WriteHeader(t)

Request(t) == StartWrite(t) \/ StartCheckpoint(t) \/ StartSave(t)

Next ==
    \/ OpenDirectory \/ OpenDirectoryFails \/ Recover \/ ReadForEdit
    \/ \E t \in Threads : Request(t) \/ ThreadStep(t)
    \/ Kill \/ PowerLoss

Spec == Init /\ [][Next]_vars

(***************************************************************************)
(* Every thread that has been started is scheduled again while it can take  *)
(* a step; nobody has to start a request, and no fault has to happen.       *)
(***************************************************************************)
FairSpec == Spec /\ \A t \in Threads : WF_vars(ThreadStep(t))

-----------------------------------------------------------------------------
(* Properties.                                                              *)

FilesOK ==
    /\ ckpt \in Snapshots /\ ckptImages \subseteq Snapshots
    /\ backup \in Snapshots
    /\ wal \in Wals /\ walImages \subseteq Wals

ProcessOK ==
    /\ status \in {"down", "recovering", "open", "refused"}
    /\ mem \in Catalogs
    /\ writer \in Threads \cup {NoThread}
    /\ readers \subseteq Threads
    /\ snapLock \in Threads \cup {NoThread}
    /\ failed \in BOOLEAN

ThreadsOK ==
    /\ pc \in [Threads -> Pcs]
    /\ job \in [Threads -> Jobs]
    /\ copy \in [Threads -> Catalogs]

ObserversOK ==
    /\ fate \in [Ops -> {"unused", "sent", "acked", "error"}]
    /\ edit \in Edits
    /\ requests \in Nat /\ crashes \in Nat

\* Every part of the state has its type, and a file is one of its own images.
TypeOK ==
    /\ FilesOK /\ ProcessOK /\ ThreadsOK /\ ObserversOK
    /\ ckpt \in ckptImages /\ wal \in walImages

(***************************************************************************)
(* The catalog as clients know it: what they read while the database is     *)
(* open, what the files give while it is not.                               *)
(***************************************************************************)
History == IF status = "open" THEN mem.hist ELSE Replayed(ckpt, wal)

(***************************************************************************)
(* Whatever happens to the machine now, the files it is left with can be    *)
(* opened, and the catalog they give holds everything a client could read,  *)
(* in order, from the beginning: a mutation is visible only once it is      *)
(* durable, and neither checkpoint nor log reset loses one.                 *)
(***************************************************************************)
VisibleIsDurable ==
    \A c \in ckptImages, w \in walImages :
        Recoverable(c, w) /\ IsPrefix(History, Replayed(c, w))

(***************************************************************************)
(* The directory is never refused as corrupt: no ordering of writes,        *)
(* checkpoints, I/O errors and restarts makes open_wal or recover fail.     *)
(***************************************************************************)
NeverRefused == status # "refused"

(***************************************************************************)
(* No mutation is applied twice by a recovery, whichever of a checkpoint    *)
(* and a log that overlap survive (docs/ARCHITECTURE.md:471-473).           *)
(***************************************************************************)
AppliedOnce ==
    /\ IsInjective(mem.hist)
    /\ \A c \in ckptImages, w \in walImages : IsInjective(Replayed(c, w))

(***************************************************************************)
(* A guarded write (execute_if_revision, graph_transaction) commits on the  *)
(* very catalog its client has read, also when the process was restarted in *)
(* between: equal revisions mean equal catalogs                             *)
(* (docs/ARCHITECTURE.md:296-299).                                          *)
(***************************************************************************)
GuardedEditIsCurrent ==
    \A t \in Threads :
        job[t].guarded /\ pc[t] \in WritePcs => mem.hist = edit.hist

(***************************************************************************)
(* While the process runs, vectors.vdb is never replaced by an older        *)
(* catalog, though saves and checkpoints capture and install it at          *)
(* different times (src/engine.rs:725-727).                                 *)
(***************************************************************************)
SnapshotNeverRegresses ==
    [][status = "open" /\ status' = "open" => ckpt'.seq >= ckpt.seq]_vars

(***************************************************************************)
(* A mutation whose client was told of a failure is in no catalog, live or  *)
(* recovered (README.md:425-426).                                           *)
(***************************************************************************)
FailedWritesStayOut ==
    \A i \in DOMAIN mem.hist : fate[mem.hist[i]] # "error"

\* Every request that was started ends: no two of the locks wait on each other.
EveryRequestEnds == \A t \in Threads : pc[t] # "idle" ~> pc[t] = "idle"

(***************************************************************************)
(* The store implements the committed log.                                  *)
(***************************************************************************)
Committed == INSTANCE CommittedLog WITH log <- History, up <- status = "open"

ImplementsCommittedLog == Committed!Spec
=============================================================================
