------------------------- MODULE DurableStoreProofs -------------------------
(* Facts about the operators of Recovery, for every pair of files, and the  *)
(* types of DurableStore, for every value of its constants.                 *)
EXTENDS DurableStore, SequenceTheorems, TLAPS

-----------------------------------------------------------------------------
(* Types of what recovery reads and gives. *)

\* An appended record leaves a log.
LEMMA WrittenType ==
    ASSUME NEW w \in Wals, NEW n \in Nat, NEW op \in Ops \cup {NoOp}
    PROVE  /\ Written(w, Record(n, op)) \in Wals
           /\ Torn(w) \in Wals
<1> DEFINE rec == Record(n, op)
           added == [rec EXCEPT !.sum = ~w.torn]
<1>1. w.torn \in BOOLEAN /\ w.recs \in Seq(Records) /\ w.header \in BOOLEAN
  BY DEF Wals
<1>2. added = [seq |-> n, op |-> op, sum |-> ~w.torn]
  BY DEF Record
<1>3. added \in Records
  BY <1>1, <1>2 DEF Records
<1>4. Append(w.recs, added) \in Seq(Records)
  BY <1>1, <1>3
<1>5. Written(w, rec) = [header |-> w.header, recs |-> Append(w.recs, added),
                         torn |-> FALSE]
  BY DEF Written
<1>6. Written(w, rec) \in Wals
  BY <1>1, <1>4, <1>5 DEF Wals
<1>7. Torn(w) \in Wals
  BY DEF Torn, Wals
<1> QED BY <1>6, <1>7

\* A repaired log is a log with the same records.
LEMMA RepairedType ==
    ASSUME NEW w \in Wals
    PROVE  /\ Repaired(w) \in Wals
           /\ Repaired(w).recs = w.recs
           /\ Repaired(w).torn = FALSE
BY DEF Wals, Records, Repaired

\* Recovery skips a part of the log.
LEMMA SkippedType ==
    ASSUME NEW c \in Snapshots, NEW w \in Wals
    PROVE  Skipped(c, w) \in 0 .. Len(w.recs)
<1>1. CASE w.recs = << >>
  BY <1>1 DEF Skipped, Wals
<1>2. CASE w.recs # << >>
  <2>1. w.recs \in Seq(Records) /\ c.seq \in Nat
    BY DEF Wals, Snapshots
  <2>2. Len(w.recs) \in Nat /\ w.recs[1] \in Records
    BY <1>2, <2>1
  <2>3. w.recs[1].seq \in Nat
    BY <2>2 DEF Records
  <2>4. \A n \in Int, high \in Nat : Bound(n, 0, high) \in 0 .. high
    BY DEF Bound
  <2>5. c.seq + 1 - w.recs[1].seq \in Int
    BY <2>1, <2>3
  <2> QED BY <1>2, <2>2, <2>4, <2>5 DEF Skipped
<1> QED BY <1>1, <1>2

\* What recovery builds from files it accepts is a history.
LEMMA ReplayedType ==
    ASSUME NEW c \in Snapshots, NEW w \in Wals, Replayable(c, w)
    PROVE  /\ Replayed(c, w) \in Seq(Ops)
           /\ ReplayedSeq(c, w) \in Nat
<1> DEFINE s == Skipped(c, w)
           tail == [i \in 1 .. Len(w.recs) - s |-> w.recs[s + i].op]
<1>1. s \in 0 .. Len(w.recs) /\ Len(w.recs) \in Nat /\ w.recs \in Seq(Records)
  BY SkippedType DEF Wals
<1>2. \A i \in s + 1 .. Len(w.recs) : w.recs[i].op \in Ops
  BY DEF Replayable
<1>3. tail \in Seq(Ops)
  <2>1. \A i \in 1 .. Len(w.recs) - s : s + i \in s + 1 .. Len(w.recs)
    BY <1>1
  <2>2. tail \in [1 .. Len(w.recs) - s -> Ops]
    BY <2>1, <1>2
  <2>3. Len(w.recs) - s \in Nat
    BY <1>1
  <2> QED BY <2>2, <2>3
<1>4. c.hist \in Seq(Ops) /\ c.seq \in Nat
  BY DEF Snapshots
<1>5. Replayed(c, w) = c.hist \o tail
  BY DEF Replayed
<1>6. Replayed(c, w) \in Seq(Ops)
  BY <1>3, <1>4, <1>5
<1>7. ReplayedSeq(c, w) \in Nat
  BY <1>1, <1>4 DEF ReplayedSeq
<1> QED BY <1>6, <1>7

-----------------------------------------------------------------------------
(* Files that agree with one history. *)

\* A snapshot of the first c.seq mutations of a history, at most n of them.
SnapshotOf(c, H, n) ==
    /\ c.seq = Len(c.hist)
    /\ c.seq <= n
    /\ \A i \in 1 .. c.seq : c.hist[i] = H[i]

\* A log of a history's mutations from the one after b, the first n covered.
LogFrom(w, H, n, b) ==
    /\ n <= b + Len(w.recs)
    /\ b + Len(w.recs) <= Len(H)
    /\ \A i \in 1 .. Len(w.recs) : /\ w.recs[i].seq = b + i
                                    /\ w.recs[i].op = H[b + i]
                                    /\ w.recs[i].sum

\* Recovery skips exactly the records the snapshot has already.
LEMMA SkipsOverlap ==
    ASSUME NEW c \in Snapshots, NEW w \in Wals, NEW H \in Seq(Ops),
           NEW n \in Nat, NEW b \in Nat,
           SnapshotOf(c, H, n), LogFrom(w, H, n, b), b <= c.seq
    PROVE  /\ Skipped(c, w) = c.seq - b
           /\ c.seq - b \in 0 .. Len(w.recs)
<1>1. /\ w.recs \in Seq(Records) /\ Len(w.recs) \in Nat /\ c.seq \in Nat
  BY DEF Wals, Snapshots
<1>2. c.seq <= n /\ n <= b + Len(w.recs)
  BY DEF SnapshotOf, LogFrom
<1>3. c.seq - b \in 0 .. Len(w.recs)
  BY <1>1, <1>2
<1>4. CASE w.recs = << >>
  <2>1. Len(w.recs) = 0
    BY <1>4
  <2>2. c.seq - b = 0
    BY <1>3, <2>1
  <2> QED BY <1>3, <1>4, <2>2 DEF Skipped
<1>5. CASE w.recs # << >>
  <2>1. 1 \in 1 .. Len(w.recs)
    BY <1>1, <1>5
  <2>2. w.recs[1].seq = b + 1
    BY <2>1 DEF LogFrom
  <2>3. c.seq + 1 - w.recs[1].seq = c.seq - b
    BY <1>1, <2>2
  <2>4. Bound(c.seq - b, 0, Len(w.recs)) = c.seq - b
    BY <1>1, <1>3 DEF Bound
  <2> QED BY <1>3, <1>5, <2>3, <2>4 DEF Skipped
<1> QED BY <1>4, <1>5

\* The two files are accepted, and together they give the history up to the
\* log's end.
LEMMA Recovered ==
    ASSUME NEW c \in Snapshots, NEW w \in Wals, NEW H \in Seq(Ops),
           NEW n \in Nat, NEW b \in Nat,
           SnapshotOf(c, H, n), LogFrom(w, H, n, b), b <= c.seq
    PROVE  /\ WellFormed(w)
           /\ Replayable(c, w)
           /\ ReplayedSeq(c, w) = b + Len(w.recs)
           /\ Replayed(c, w) \in Seq(Ops)
           /\ Len(Replayed(c, w)) = b + Len(w.recs)
           /\ \A i \in 1 .. b + Len(w.recs) : Replayed(c, w)[i] = H[i]
<1> DEFINE last == Len(w.recs)
           s == Skipped(c, w)
<1>1. /\ w.recs \in Seq(Records) /\ last \in Nat /\ c.seq \in Nat
      /\ c.hist \in Seq(Ops)
  BY DEF Wals, Snapshots
<1>2. s = c.seq - b /\ s \in 0 .. last
  BY SkipsOverlap
<1>3. /\ b + last <= Len(H) /\ Len(H) \in Nat
  BY DEF LogFrom
<1>4. \A i \in 1 .. last : /\ w.recs[i].sum /\ w.recs[i].seq = b + i
                           /\ w.recs[i].op = H[b + i]
  BY DEF LogFrom
<1>5. WellFormed(w)
  <2>1. DOMAIN w.recs = 1 .. last
    BY <1>1
  <2>2. \A i \in 2 .. last : i \in 1 .. last /\ i - 1 \in 1 .. last
    BY <1>1
  <2>3. \A i \in 2 .. last : w.recs[i].seq = w.recs[i - 1].seq + 1
    <3> TAKE i \in 2 .. last
    <3>1. w.recs[i].seq = b + i /\ w.recs[i - 1].seq = b + (i - 1)
      BY <1>4, <2>2
    <3> QED BY <3>1
  <2> QED BY <1>4, <2>1, <2>3 DEF WellFormed
<1>6. Replayable(c, w)
  <2>1. s + 1 <= last => w.recs[s + 1].seq = c.seq + 1
    <3> HAVE s + 1 <= last
    <3>1. s + 1 \in 1 .. last
      BY <1>1, <1>2
    <3>2. w.recs[s + 1].seq = b + (s + 1)
      BY <1>4, <3>1
    <3> QED BY <1>1, <1>2, <3>2
  <2>2. \A i \in s + 1 .. last : w.recs[i].op \in Ops
    <3> TAKE i \in s + 1 .. last
    <3>1. i \in 1 .. last /\ b + i \in 1 .. Len(H)
      BY <1>1, <1>2, <1>3
    <3>2. H[b + i] \in Ops
      BY <3>1
    <3> QED BY <1>4, <3>1, <3>2
  <2> QED BY <2>1, <2>2 DEF Replayable
<1>7. ReplayedSeq(c, w) = b + last
  BY <1>1, <1>2 DEF ReplayedSeq
<1>8. Replayed(c, w) \in Seq(Ops)
  BY <1>6, ReplayedType
<1> DEFINE tail == [i \in 1 .. last - s |-> w.recs[s + i].op]
<1>9. tail \in Seq(Ops) /\ Len(tail) = last - s
  <2>1. \A i \in 1 .. last - s : s + i \in s + 1 .. last
    BY <1>1, <1>2
  <2>2. \A i \in s + 1 .. last : w.recs[i].op \in Ops
    BY <1>6 DEF Replayable
  <2>3. tail \in [1 .. last - s -> Ops]
    BY <2>1, <2>2
  <2>4. last - s \in Nat
    BY <1>1, <1>2
  <2> HIDE DEF tail, last, s
  <2> QED BY <2>3, <2>4
<1>10. Replayed(c, w) = c.hist \o tail
  BY DEF Replayed
<1>11. \A j \in 1 .. last - s : tail[j] = w.recs[s + j].op
  OBVIOUS
<1> HIDE DEF tail, last, s
<1>12. Len(c.hist) = c.seq /\ \A i \in 1 .. c.seq : c.hist[i] = H[i]
  BY DEF SnapshotOf
<1>13. Len(Replayed(c, w)) = b + last
  <2>1. Len(c.hist \o tail) = Len(c.hist) + Len(tail)
    BY <1>1, <1>9, ConcatProperties
  <2>2. Len(Replayed(c, w)) = c.seq + (last - s)
    BY <1>9, <1>10, <1>12, <2>1
  <2> QED BY <1>1, <1>2, <2>2
<1>14. \A i \in 1 .. b + last : Replayed(c, w)[i] = H[i]
  <2> TAKE i \in 1 .. b + last
  <2>1. CASE i <= c.seq
    <3>1. Replayed(c, w)[i] = c.hist[i]
      BY <1>1, <1>9, <1>10, <1>12, <2>1
    <3> QED BY <1>1, <1>12, <2>1, <3>1
  <2>2. CASE i > c.seq
    <3>1. i - c.seq \in 1 .. last - s
      BY <1>1, <1>2, <2>2
    <3>2. i \in Len(c.hist) + 1 .. Len(c.hist) + Len(tail)
      BY <1>1, <1>2, <1>9, <1>12, <2>2
    <3>3. (c.hist \o tail)[i] = tail[i - Len(c.hist)]
      BY <1>1, <1>9, <3>2
    <3>4. Replayed(c, w)[i] = w.recs[s + (i - c.seq)].op
      BY <1>10, <1>12, <1>11, <3>1, <3>3
    <3>5. s + (i - c.seq) = i - b /\ i - b \in 1 .. last /\ b + (i - b) = i
      BY <1>1, <1>2, <2>2
    <3> QED BY <1>4, <3>4, <3>5
  <2> QED BY <1>1, <2>1, <2>2
<1> QED BY <1>5, <1>6, <1>7, <1>8, <1>13, <1>14 DEF last

-----------------------------------------------------------------------------
(* How the agreement is kept. *)

\* A snapshot agrees with every history that starts with what it covers.
LEMMA SnapshotStays ==
    ASSUME NEW c \in Snapshots, NEW H \in Seq(Ops), NEW G \in Seq(Ops),
           NEW n \in Nat, NEW m \in Nat,
           SnapshotOf(c, H, n), c.seq <= m,
           \A i \in 1 .. c.seq : G[i] = H[i]
    PROVE  SnapshotOf(c, G, m)
BY DEF SnapshotOf, Snapshots

\* A log agrees with a longer history.
LEMMA LogStays ==
    ASSUME NEW w \in Wals, NEW H \in Seq(Ops), NEW op \in Ops,
           NEW n \in Nat, NEW b \in Nat, LogFrom(w, H, n, b)
    PROVE  LogFrom(w, Append(H, op), n, b)
<1>1. Len(w.recs) \in Nat /\ Len(H) \in Nat /\ b + Len(w.recs) <= Len(H)
  BY DEF Wals, LogFrom
<1>2. /\ Len(Append(H, op)) = Len(H) + 1
      /\ \A i \in 1 .. Len(H) : Append(H, op)[i] = H[i]
  BY AppendProperties
<1>3. \A i \in 1 .. Len(w.recs) : Append(H, op)[b + i] = H[b + i]
  BY <1>1, <1>2
<1>4. b + Len(w.recs) <= Len(Append(H, op))
  BY <1>1, <1>2
<1> QED BY <1>3, <1>4 DEF LogFrom

\* The next record continues a log without a torn tail.
LEMMA LogGrows ==
    ASSUME NEW w \in Wals, NEW H \in Seq(Ops), NEW op \in Ops, NEW b \in Nat,
           ~w.torn, LogFrom(w, H, Len(H), b)
    PROVE  LogFrom(Written(w, Record(Len(H) + 1, op)), Append(H, op),
                   Len(H) + 1, b)
<1> DEFINE rec == Record(Len(H) + 1, op)
           v == Written(w, rec)
           G == Append(H, op)
           last == Len(w.recs)
<1>1. /\ w.recs \in Seq(Records) /\ last \in Nat /\ Len(H) \in Nat
      /\ w.torn \in BOOLEAN
  BY DEF Wals
<1>2. b + last = Len(H)
  BY <1>1 DEF LogFrom
<1>3. /\ Len(G) = Len(H) + 1 /\ G[Len(H) + 1] = op
      /\ \A i \in 1 .. Len(H) : G[i] = H[i]
  BY AppendProperties
<1>4. rec = [seq |-> Len(H) + 1, op |-> op, sum |-> TRUE]
  BY DEF Record
<1>5. [rec EXCEPT !.sum = ~w.torn] = rec
  <2>1. [rec EXCEPT !.sum = ~w.torn]
          = [seq |-> Len(H) + 1, op |-> op, sum |-> ~w.torn]
    BY DEF Record
  <2>2. (~w.torn) = TRUE
    OBVIOUS
  <2> QED BY <1>4, <2>1, <2>2
<1>6. rec \in Records
  BY <1>1 DEF Record, Records
<1>7. v.recs = Append(w.recs, rec)
  BY <1>5 DEF Written
<1>8. /\ Len(v.recs) = last + 1 /\ v.recs[last + 1] = rec
      /\ \A i \in 1 .. last : v.recs[i] = w.recs[i]
  BY <1>1, <1>6, <1>7, AppendProperties
<1>9. ASSUME NEW i \in 1 .. last + 1
      PROVE  v.recs[i].seq = b + i /\ v.recs[i].op = G[b + i] /\ v.recs[i].sum
  <2>1. CASE i \in 1 .. last
    <3>1. b + i \in 1 .. Len(H)
      BY <1>1, <1>2, <2>1
    <3>2. v.recs[i] = w.recs[i] /\ G[b + i] = H[b + i]
      BY <1>3, <1>8, <2>1, <3>1
    <3> QED BY <2>1, <3>2 DEF LogFrom
  <2>2. CASE i = last + 1
    <3>1. v.recs[i] = rec /\ b + i = Len(H) + 1
      BY <1>1, <1>2, <1>8, <2>2
    <3>2. G[b + i] = op
      BY <1>3, <3>1
    <3> QED BY <1>4, <3>1, <3>2
  <2>3. i \in 1 .. last \/ i = last + 1
    BY <1>1
  <2> QED BY <2>1, <2>2, <2>3
<1>10. Len(H) + 1 <= b + Len(v.recs) /\ b + Len(v.recs) <= Len(G)
  <2> HIDE DEF v, G, last
  <2> QED BY <1>1, <1>2, <1>3, <1>8
<1> HIDE DEF v, G
<1>11. LogFrom(v, G, Len(H) + 1, b)
  BY <1>8, <1>9, <1>10 DEF LogFrom
<1> QED BY <1>11 DEF v, G

\* A log gives exactly the part of the history that ends where it does.
LEMMA LogCut ==
    ASSUME NEW w \in Wals, NEW H \in Seq(Ops), NEW G \in Seq(Ops),
           NEW n \in Nat, NEW b \in Nat, LogFrom(w, H, n, b),
           Len(G) = b + Len(w.recs), \A i \in 1 .. Len(G) : G[i] = H[i]
    PROVE  LogFrom(w, G, Len(G), b)
<1>1. Len(w.recs) \in Nat /\ Len(G) \in Nat
  BY DEF Wals
<1>2. \A i \in 1 .. Len(w.recs) : b + i \in 1 .. Len(G)
  BY <1>1
<1>3. \A i \in 1 .. Len(w.recs) : G[b + i] = H[b + i]
  BY <1>2
<1> QED BY <1>1, <1>3 DEF LogFrom

\* An empty log follows a snapshot of everything.
LEMMA EmptyLogFrom ==
    ASSUME NEW w, NEW H \in Seq(Ops), NEW n \in Nat,
           w.recs = << >>, n <= Len(H)
    PROVE  LogFrom(w, H, n, n)
<1>1. Len(w.recs) = 0
  OBVIOUS
<1> QED BY <1>1 DEF LogFrom

USE DurableStoreAssumption, NoOpIsNoMutation

-----------------------------------------------------------------------------
(***************************************************************************)
(* Types.  A thread that writes a record has a mutation to write: without   *)
(* this TypeOK is not inductive, as Publish adds the mutation to the        *)
(* catalog.                                                                 *)
(***************************************************************************)
WritersHaveMutations ==
    \A t \in Threads : pc[t] \in WritePcs => job[t].op \in Ops

TypeInv == TypeOK /\ WritersHaveMutations

LocksOK ==
    /\ writer \in Threads \cup {NoThread}
    /\ readers \subseteq Threads
    /\ snapLock \in Threads \cup {NoThread}

LEMMA ConstantTypes ==
    /\ EmptyCatalog \in Catalogs /\ NoJob \in Jobs /\ NoEdit \in Edits
    /\ Absent \in Snapshots /\ ShortWal \in Wals /\ EmptyWal \in Wals
BY DEF EmptyCatalog, Catalogs, NoJob, Jobs, NoEdit, Edits, Absent, Snapshots,
       ShortWal, EmptyWal, Wals

LEMMA InitTyped == Init => TypeInv
<1> SUFFICES ASSUME Init PROVE TypeInv
  OBVIOUS
<1>1. FilesOK
  BY ConstantTypes DEF Init, FilesOK
<1>2. ProcessOK
  BY ConstantTypes DEF Init, ProcessOK
<1>3. ThreadsOK
  BY ConstantTypes DEF Init, ThreadsOK, Pcs
<1>4. ObserversOK
  BY ConstantTypes DEF Init, ObserversOK
<1>5. WritersHaveMutations
  BY DEF Init, WritersHaveMutations, WritePcs
<1> QED BY <1>1, <1>2, <1>3, <1>4, <1>5 DEF Init, TypeInv, TypeOK

\* What the end of a request does to the threads and the locks.
LEMMA FinishTyped ==
    ASSUME TypeInv, NEW t \in Threads, Finish(t)
    PROVE  ThreadsOK' /\ LocksOK' /\ WritersHaveMutations'
<1>1. ThreadsOK'
  BY ConstantTypes DEF TypeInv, TypeOK, ThreadsOK, Finish, Pcs
<1>2. LocksOK'
  BY DEF TypeInv, TypeOK, ProcessOK, Finish, LocksOK
<1>3. WritersHaveMutations'
  BY DEF TypeInv, TypeOK, ThreadsOK, WritersHaveMutations, Finish, WritePcs, Pcs
<1> QED BY <1>1, <1>2, <1>3

LEMMA GotoTyped ==
    ASSUME TypeInv, NEW t \in Threads, NEW next \in SavePcs, Goto(t, next)
    PROVE  ThreadsOK' /\ LocksOK' /\ WritersHaveMutations'
<1>1. ThreadsOK'
  BY DEF TypeInv, TypeOK, ThreadsOK, Goto, Pcs
<1>2. LocksOK'
  BY DEF TypeInv, TypeOK, ProcessOK, Goto, LocksOK, locks
<1>3. next \notin WritePcs
  BY DEF SavePcs, WritePcs
<1>4. WritersHaveMutations'
  BY <1>3 DEF TypeInv, TypeOK, ThreadsOK, WritersHaveMutations, Goto
<1> QED BY <1>1, <1>2, <1>4

LEMMA RejectTyped ==
    ASSUME TypeInv, NEW t \in Threads, Reject(t), UNCHANGED bounds
    PROVE  ThreadsOK' /\ LocksOK' /\ WritersHaveMutations' /\ ObserversOK'
<1>1. ThreadsOK' /\ LocksOK' /\ WritersHaveMutations'
  BY FinishTyped DEF Reject
<1>2. ObserversOK'
  BY DEF TypeInv, TypeOK, ObserversOK, Reject, bounds
<1> QED BY <1>1, <1>2

\* Opening the directory.
LEMMA OpeningTyped ==
    ASSUME TypeInv, OpenDirectory \/ OpenDirectoryFails \/ Recover \/ ReadForEdit
    PROVE  TypeInv'
<1> USE DEF TypeInv, TypeOK
<1>1. CASE OpenDirectory
  <2>1. FilesOK' /\ wal' \in walImages' /\ ckpt' \in ckptImages'
    <3>1. Repaired(wal) \in Wals
      BY RepairedType DEF FilesOK
    <3>2. wal' \in Wals /\ wal' \in walImages' /\ walImages' \subseteq Wals
      BY <1>1, <3>1 DEF OpenDirectory, FilesOK
    <3>3. UNCHANGED <<ckpt, ckptImages, backup>>
      BY <1>1 DEF OpenDirectory
    <3> QED BY <3>2, <3>3 DEF FilesOK
  <2>2. ProcessOK'
    BY <1>1 DEF OpenDirectory, FilesOK, ProcessOK, Snapshots, Catalogs, locks
  <2>3. ThreadsOK' /\ ObserversOK' /\ WritersHaveMutations'
    BY <1>1 DEF OpenDirectory, ThreadsOK, ObserversOK, WritersHaveMutations,
                threads, observers, bounds
  <2> QED BY <2>1, <2>2, <2>3
<1>2. CASE OpenDirectoryFails
  <2>1. FilesOK' /\ wal' \in walImages' /\ ckpt' \in ckptImages'
    BY <1>2, RepairedType DEF OpenDirectoryFails, FilesOK
  <2>2. ProcessOK' /\ ThreadsOK' /\ ObserversOK' /\ WritersHaveMutations'
    BY <1>2 DEF OpenDirectoryFails, ProcessOK, ThreadsOK, ObserversOK,
                WritersHaveMutations, locks, threads, observers, bounds
  <2> QED BY <2>1, <2>2
<1>3. CASE Recover
  <2>1. FilesOK' /\ wal' \in walImages' /\ ckpt' \in ckptImages'
    BY <1>3 DEF Recover, FilesOK, disk
  <2>2. mem' \in Catalogs /\ status' \in {"open", "refused"}
    <3>1. CASE Replayable(ckpt, wal)
      BY <1>3, <3>1, ReplayedType DEF Recover, FilesOK, Catalogs
    <3>2. CASE ~Replayable(ckpt, wal)
      BY <1>3, <3>2 DEF Recover, ProcessOK
    <3> QED BY <3>1, <3>2
  <2>3. ProcessOK'
    BY <1>3, <2>2 DEF Recover, ProcessOK, locks
  <2>4. ThreadsOK' /\ ObserversOK' /\ WritersHaveMutations'
    BY <1>3 DEF Recover, ThreadsOK, ObserversOK, WritersHaveMutations,
                threads, observers, bounds
  <2> QED BY <2>1, <2>3, <2>4
<1>4. CASE ReadForEdit
  <2>1. edit' \in Edits
    BY <1>4 DEF ReadForEdit, ProcessOK, Catalogs, Edits
  <2>2. FilesOK' /\ wal' \in walImages' /\ ckpt' \in ckptImages' /\ ProcessOK'
        /\ ThreadsOK' /\ WritersHaveMutations'
    BY <1>4 DEF ReadForEdit, FilesOK, ProcessOK, ThreadsOK,
                WritersHaveMutations, disk, locks, threads
  <2>3. ObserversOK'
    BY <1>4, <2>1 DEF ReadForEdit, ObserversOK, bounds
  <2> QED BY <2>2, <2>3
<1> QED BY <1>1, <1>2, <1>3, <1>4

\* Starting a request.
LEMMA RequestTyped ==
    ASSUME TypeInv, NEW t \in Threads, Request(t)
    PROVE  TypeInv'
<1> USE DEF TypeInv, TypeOK
<1>1. ASSUME NEW request \in Jobs, NEW first \in {"w_lock", "c_snapshot"},
             Start(t, request, first)
      PROVE  /\ FilesOK' /\ wal' \in walImages' /\ ckpt' \in ckptImages'
             /\ ProcessOK' /\ ThreadsOK' /\ WritersHaveMutations'
             /\ edit' \in Edits /\ requests' \in Nat /\ crashes' \in Nat
  <2>1. FilesOK' /\ wal' \in walImages' /\ ckpt' \in ckptImages' /\ ProcessOK'
    BY <1>1 DEF Start, FilesOK, ProcessOK, disk, locks
  <2>2. ThreadsOK'
    BY <1>1 DEF Start, ThreadsOK, Pcs
  <2>3. WritersHaveMutations'
    BY <1>1 DEF Start, ThreadsOK, WritersHaveMutations, WritePcs
  <2>4. edit' \in Edits /\ requests' \in Nat /\ crashes' \in Nat
    BY <1>1 DEF Start, ObserversOK
  <2> QED BY <2>1, <2>2, <2>3, <2>4
<1>2. CASE StartWrite(t)
  <2>1. PICK kind \in {"staged", "delta"}, guarded \in BOOLEAN,
             op \in {o \in Ops : fate[o] = "unused"} \cup {NoOp} :
          /\ Start(t, [kind |-> kind, op |-> op, guarded |-> guarded], "w_lock")
          /\ fate' = IF op = NoOp THEN fate ELSE [fate EXCEPT ![op] = "sent"]
    BY <1>2 DEF StartWrite
  <2>2. [kind |-> kind, op |-> op, guarded |-> guarded] \in Jobs
    BY DEF Jobs
  <2>3. fate' \in [Ops -> {"unused", "sent", "acked", "error"}]
    BY <2>1 DEF ObserversOK
  <2> QED BY <1>1, <2>1, <2>2, <2>3 DEF ObserversOK
<1>3. CASE StartCheckpoint(t) \/ StartSave(t)
  <2>1. /\ [NoJob EXCEPT !.kind = "checkpoint"] \in Jobs
        /\ [NoJob EXCEPT !.kind = "save"] \in Jobs
    BY DEF NoJob, Jobs
  <2>2. fate' = fate
    BY <1>3 DEF StartCheckpoint, StartSave
  <2> QED BY <1>1, <1>3, <2>1, <2>2 DEF StartCheckpoint, StartSave, ObserversOK
<1> QED BY <1>2, <1>3 DEF Request

\* The steps of a write.
LEMMA WriteTyped ==
    ASSUME TypeInv, NEW t \in Threads,
           LockCatalog(t) \/ AppendRecord(t) \/ SyncRecord(t) \/ Publish(t)
    PROVE  TypeInv'
<1> USE DEF TypeInv, TypeOK
<1>1. CASE LockCatalog(t)
  <2>1. FilesOK' /\ wal' \in walImages' /\ ckpt' \in ckptImages'
    BY <1>1 DEF LockCatalog, FilesOK, disk
  <2>2. UNCHANGED <<status, mem, failed, bounds>>
    BY <1>1 DEF LockCatalog
  <2>3. CASE Reject(t)
    BY <2>1, <2>2, <2>3, RejectTyped DEF ProcessOK, LocksOK
  <2>4. CASE Finish(t) /\ UNCHANGED observers
    <3>1. ObserversOK'
      BY <2>2, <2>4 DEF ObserversOK, observers, bounds
    <3> QED BY <2>1, <2>2, <2>4, <3>1, FinishTyped DEF ProcessOK, LocksOK
  <2>5. CASE /\ job[t].op # NoOp
             /\ writer' = t
             /\ copy' = [copy EXCEPT ![t] =
                  IF job[t].kind = "staged"
                  THEN [mem EXCEPT !.hist = Append(@, job[t].op),
                                   !.rev = @ + BatchSize]
                  ELSE EmptyCatalog]
             /\ pc' = [pc EXCEPT ![t] = "w_append"]
             /\ UNCHANGED <<readers, snapLock, job, observers>>
    <3>1. job[t].op \in Ops
      BY <2>5 DEF ThreadsOK, Jobs
    <3>2. [mem EXCEPT !.hist = Append(@, job[t].op), !.rev = @ + BatchSize]
             \in Catalogs
      <4>1. mem \in Catalogs /\ mem.hist \in Seq(Ops) /\ mem.rev \in Nat
        BY DEF ProcessOK, Catalogs
      <4>2. Append(mem.hist, job[t].op) \in Seq(Ops)
        BY <3>1, <4>1, AppendProperties
      <4>3. mem.rev + BatchSize \in Nat
        BY <4>1
      <4> QED BY <4>1, <4>2, <4>3 DEF Catalogs
    <3>3. ThreadsOK'
      BY <2>5, <3>2, ConstantTypes DEF ThreadsOK, Pcs, WritePcs
    <3>4. ProcessOK'
      BY <2>2, <2>5 DEF ProcessOK
    <3>5. WritersHaveMutations'
      BY <2>5, <3>1 DEF WritersHaveMutations, ThreadsOK
    <3>6. ObserversOK'
      BY <2>2, <2>5 DEF ObserversOK, observers, bounds
    <3> QED BY <2>1, <3>3, <3>4, <3>5, <3>6
  <2> QED BY <1>1, <2>3, <2>4, <2>5 DEF LockCatalog
<1>2. CASE AppendRecord(t)
  <2> DEFINE rec == Record(NextSequence(mem.seq), job[t].op)
  <2>1. UNCHANGED <<ckpt, ckptImages, backup, status, mem, bounds>>
    BY <1>2 DEF AppendRecord
  <2>2. Written(wal, rec) \in Wals /\ Torn(wal) \in Wals
    <3>1. NextSequence(mem.seq) \in Nat
      BY DEF ProcessOK, Catalogs, NextSequence
    <3>2. job[t].op \in Ops \cup {NoOp}
      BY DEF ThreadsOK, Jobs
    <3> QED BY <3>1, <3>2, WrittenType DEF FilesOK
  <2>3. CASE Reject(t) /\ UNCHANGED <<wal, walImages, failed>>
    <3>1. FilesOK' /\ wal' \in walImages' /\ ckpt' \in ckptImages'
      BY <2>1, <2>3 DEF FilesOK
    <3> QED BY <2>1, <2>3, <3>1, RejectTyped DEF ProcessOK, LocksOK
  <2>4. CASE /\ wal' = Written(wal, rec)
             /\ walImages' = walImages \cup {Torn(wal), wal'}
             /\ pc' = [pc EXCEPT ![t] = "w_sync"]
             /\ pc[t] = "w_append"
             /\ UNCHANGED <<locks, job, copy, failed, observers>>
    <3>1. FilesOK' /\ wal' \in walImages' /\ ckpt' \in ckptImages'
      BY <2>1, <2>2, <2>4 DEF FilesOK
    <3>2. ProcessOK'
      BY <2>1, <2>4 DEF ProcessOK, locks
    <3>3. ThreadsOK' /\ WritersHaveMutations'
      BY <2>4 DEF ThreadsOK, WritersHaveMutations, WritePcs, Pcs
    <3>4. ObserversOK'
      BY <2>1, <2>4 DEF ObserversOK, observers, bounds
    <3> QED BY <3>1, <3>2, <3>3, <3>4
  <2>5. CASE /\ wal' \in {wal, Torn(wal)}
             /\ walImages' = walImages \cup {wal'}
             /\ failed' = TRUE
             /\ Reject(t)
    <3>1. FilesOK' /\ wal' \in walImages' /\ ckpt' \in ckptImages'
      BY <2>1, <2>2, <2>5 DEF FilesOK
    <3> QED BY <2>1, <2>5, <3>1, RejectTyped DEF ProcessOK, LocksOK
  <2> QED BY <1>2, <2>3, <2>4, <2>5 DEF AppendRecord
<1>3. CASE SyncRecord(t)
  <2>1. UNCHANGED <<ckpt, ckptImages, backup, wal, status, mem, bounds>>
    BY <1>3 DEF SyncRecord
  <2>2. CASE /\ walImages' = {wal}
             /\ pc[t] = "w_sync"
             /\ pc' = [pc EXCEPT ![t] = "w_publish"]
             /\ UNCHANGED <<locks, job, copy, failed, observers>>
    <3>1. FilesOK' /\ wal' \in walImages' /\ ckpt' \in ckptImages'
      BY <2>1, <2>2 DEF FilesOK
    <3>2. ProcessOK'
      BY <2>1, <2>2 DEF ProcessOK, locks
    <3>3. ThreadsOK' /\ WritersHaveMutations'
      BY <2>2 DEF ThreadsOK, WritersHaveMutations, WritePcs, Pcs
    <3>4. ObserversOK'
      BY <2>1, <2>2 DEF ObserversOK, observers, bounds
    <3> QED BY <3>1, <3>2, <3>3, <3>4
  <2>3. CASE failed' = TRUE /\ Reject(t) /\ UNCHANGED walImages
    <3>1. FilesOK' /\ wal' \in walImages' /\ ckpt' \in ckptImages'
      BY <2>1, <2>3 DEF FilesOK
    <3> QED BY <2>1, <2>3, <3>1, RejectTyped DEF ProcessOK, LocksOK
  <2> QED BY <1>3, <2>2, <2>3 DEF SyncRecord
<1>4. CASE Publish(t)
  <2>1. job[t].op \in Ops /\ pc[t] = "w_publish"
    BY <1>4 DEF Publish, WritersHaveMutations, WritePcs
  <2>2. mem' \in Catalogs
    BY <1>4, <2>1 DEF Publish, ThreadsOK, ProcessOK, Catalogs, NextSequence
  <2>3. FilesOK' /\ wal' \in walImages' /\ ckpt' \in ckptImages'
    BY <1>4 DEF Publish, FilesOK, disk
  <2>4. ProcessOK'
    BY <1>4, <2>2 DEF Publish, ProcessOK
  <2>5. [NoJob EXCEPT !.kind = "checkpoint"] \in Jobs
    BY DEF NoJob, Jobs
  <2>6. ThreadsOK'
    BY <1>4, <2>5, ConstantTypes DEF Publish, ThreadsOK, Pcs
  <2>7. WritersHaveMutations'
    BY <1>4 DEF Publish, ThreadsOK, WritersHaveMutations, WritePcs
  <2>8. ObserversOK'
    BY <1>4, <2>1 DEF Publish, ObserversOK, bounds
  <2> QED BY <2>3, <2>4, <2>6, <2>7, <2>8
<1> QED BY <1>1, <1>2, <1>3, <1>4

\* The steps of a checkpoint or a save.
LEMMA SnapshotTyped ==
    ASSUME TypeInv, NEW t \in Threads,
           \/ LockSnapshot(t) \/ CaptureCatalog(t) \/ WriteTemporary(t)
           \/ InstallSnapshot(t) \/ BackUpSnapshot(t) \/ InstallOverBackup(t)
           \/ SyncDirectory(t) \/ TruncateLog(t) \/ WriteHeader(t)
    PROVE  TypeInv'
<1> USE DEF TypeInv, TypeOK
<1>1. CASE LockSnapshot(t)
  <2>1. FilesOK' /\ wal' \in walImages' /\ ckpt' \in ckptImages' /\ ObserversOK'
    BY <1>1 DEF LockSnapshot, FilesOK, ObserversOK, disk, observers, bounds
  <2>2. ProcessOK'
    BY <1>1 DEF LockSnapshot, ProcessOK
  <2>3. ThreadsOK' /\ WritersHaveMutations'
    BY <1>1 DEF LockSnapshot, ThreadsOK, WritersHaveMutations, WritePcs, Pcs
  <2> QED BY <2>1, <2>2, <2>3
<1>2. CASE CaptureCatalog(t)
  <2>1. FilesOK' /\ wal' \in walImages' /\ ckpt' \in ckptImages' /\ ObserversOK'
    BY <1>2 DEF CaptureCatalog, FilesOK, ObserversOK, disk, observers, bounds
  <2>2. UNCHANGED <<status, mem, failed>>
    BY <1>2 DEF CaptureCatalog
  <2>3. CASE Finish(t)
    BY <2>1, <2>2, <2>3, FinishTyped DEF ProcessOK, LocksOK
  <2>4. CASE /\ copy' = [copy EXCEPT ![t] = mem]
             /\ readers' = IF Checkpointing(t) THEN readers \cup {t} ELSE readers
             /\ pc' = [pc EXCEPT ![t] = "temporary"]
             /\ UNCHANGED <<writer, snapLock, job>>
    <3>1. ThreadsOK' /\ WritersHaveMutations'
      BY <2>4 DEF ThreadsOK, ProcessOK, WritersHaveMutations, WritePcs, SavePcs, Pcs
    <3>2. ProcessOK'
      BY <2>2, <2>4 DEF ProcessOK
    <3> QED BY <2>1, <3>1, <3>2
  <2> QED BY <1>2, <2>3, <2>4 DEF CaptureCatalog
<1>3. \/ UNCHANGED <<pc, job, copy, locks>>
      \/ Finish(t)
      \/ \E next \in SavePcs : Goto(t, next)
      => ThreadsOK' /\ LocksOK' /\ WritersHaveMutations'
  <2>1. UNCHANGED <<pc, job, copy, locks>>
        => ThreadsOK' /\ LocksOK' /\ WritersHaveMutations'
    BY DEF ProcessOK, ThreadsOK, LocksOK, WritersHaveMutations, locks
  <2> QED BY <2>1, FinishTyped, GotoTyped
<1>4. Captured(t) \in Snapshots
  BY DEF Captured, ThreadsOK, Catalogs, Snapshots
<1>5. CASE \/ WriteTemporary(t) \/ InstallSnapshot(t) \/ BackUpSnapshot(t)
           \/ InstallOverBackup(t) \/ SyncDirectory(t) \/ TruncateLog(t)
           \/ WriteHeader(t)
  <2>1. ThreadsOK' /\ LocksOK' /\ WritersHaveMutations'
    BY <1>3, <1>5 DEF WriteTemporary, InstallSnapshot, BackUpSnapshot,
                      InstallOverBackup, SyncDirectory, TruncateLog,
                      WriteHeader, SavePcs
  <2>2. status' = status /\ mem' = mem /\ failed' \in BOOLEAN
    BY <1>5 DEF WriteTemporary, InstallSnapshot, BackUpSnapshot,
                InstallOverBackup, SyncDirectory, TruncateLog, WriteHeader,
                ProcessOK
  <2>3. ProcessOK'
    BY <2>1, <2>2 DEF ProcessOK, LocksOK
  <2>4. ObserversOK'
    BY <1>5 DEF WriteTemporary, InstallSnapshot, BackUpSnapshot,
                InstallOverBackup, SyncDirectory, TruncateLog, WriteHeader,
                ObserversOK, observers, bounds
  <2>5. FilesOK' /\ wal' \in walImages' /\ ckpt' \in ckptImages'
    <3>1. CASE WriteTemporary(t)
      BY <3>1 DEF WriteTemporary, FilesOK, disk
    <3>2. CASE InstallSnapshot(t)
      BY <1>4, <3>2 DEF InstallSnapshot, SetSnapshot, FilesOK
    <3>3. CASE BackUpSnapshot(t)
      BY <3>3, ConstantTypes DEF BackUpSnapshot, SetSnapshot, FilesOK
    <3>4. CASE InstallOverBackup(t)
      BY <1>4, <3>4, ConstantTypes DEF InstallOverBackup, SetSnapshot, FilesOK
    <3>5. CASE SyncDirectory(t)
      BY <3>5 DEF SyncDirectory, FilesOK
    <3>6. CASE TruncateLog(t)
      BY <3>6, ConstantTypes DEF TruncateLog, FilesOK
    <3>7. CASE WriteHeader(t)
      BY <3>7, ConstantTypes DEF WriteHeader, FilesOK
    <3> QED BY <1>5, <3>1, <3>2, <3>3, <3>4, <3>5, <3>6, <3>7
  <2> QED BY <2>1, <2>3, <2>4, <2>5
<1> QED BY <1>1, <1>2, <1>5

\* The end of the process.
LEMMA EndTyped ==
    ASSUME TypeInv, Kill \/ PowerLoss
    PROVE  TypeInv'
<1> USE DEF TypeInv, TypeOK
<1>1. EndProcess
  BY DEF Kill, PowerLoss
<1>2. FilesOK' /\ wal' \in walImages' /\ ckpt' \in ckptImages'
  BY <1>1, ConstantTypes DEF EndProcess, Kill, PowerLoss, FilesOK
<1>3. ProcessOK'
  BY <1>1, ConstantTypes DEF EndProcess, ProcessOK
<1>4. ThreadsOK'
  BY <1>1, ConstantTypes DEF EndProcess, ThreadsOK, Pcs
<1>5. WritersHaveMutations'
  BY <1>1 DEF EndProcess, WritersHaveMutations, WritePcs
<1>6. ObserversOK'
  BY <1>1 DEF EndProcess, ObserversOK, observers
<1> QED BY <1>2, <1>3, <1>4, <1>5, <1>6

LEMMA TypeStep == TypeInv /\ [Next]_vars => TypeInv'
<1> SUFFICES ASSUME TypeInv, [Next]_vars PROVE TypeInv'
  OBVIOUS
<1>1. CASE UNCHANGED vars
  BY <1>1 DEF TypeInv, TypeOK, FilesOK, ProcessOK, ThreadsOK, ObserversOK,
              WritersHaveMutations, vars, disk, locks, threads, observers, bounds
<1>2. CASE Next
  BY <1>2, OpeningTyped, RequestTyped, WriteTyped, SnapshotTyped, EndTyped
     DEF Next, ThreadStep
<1> QED BY <1>1, <1>2

(***************************************************************************)
(* Every reachable state is well typed, whatever the threads, mutations and *)
(* bounds, and whatever the file system does.                               *)
(***************************************************************************)
THEOREM TypeCorrect == Spec => []TypeOK
<1>1. TypeInv => TypeOK
  BY DEF TypeInv
<1> QED BY InitTyped, TypeStep, <1>1, PTL DEF Spec

-----------------------------------------------------------------------------
(***************************************************************************)
(* Safety of DurableStore, for every value of its constants, on a file      *)
(* system that writes a dead process's cache back before the power fails    *)
(* (WriteBack) and renames over an existing file (not RenameFallback).      *)
(***************************************************************************)

USE DurableStoreAssumption, NoOpIsNoMutation

FileSystem == WriteBack = TRUE /\ RenameFallback = FALSE

-----------------------------------------------------------------------------
(***************************************************************************)
(* Who holds which lock.  A writer excludes a checkpoint, from its capture  *)
(* of the catalog to the reset of the log, and snapshots exclude each       *)
(* other.                                                                   *)
(***************************************************************************)
SnapshotPcs == {"c_read"} \cup SavePcs

LocksOf(t) ==
    /\ pc[t] \in WritePcs => writer = t
    /\ pc[t] \in SnapshotPcs => snapLock = t
    /\ pc[t] \in SavePcs /\ Checkpointing(t) => t \in readers
    /\ pc[t] \in {"truncate", "header"} => Checkpointing(t)
    /\ pc[t] \notin {"backup", "install"}
    /\ status # "open" => pc[t] = "idle"

LocksHeld ==
    /\ \A t \in Threads : LocksOf(t)
    /\ writer # NoThread => readers = {}

LEMMA LocksInit == Init => LocksHeld
BY DEF Init, LocksHeld, LocksOf, WritePcs, SnapshotPcs, SavePcs

\* A thread keeps its locks when another one's request ends.
LEMMA LocksAfterFinish ==
    ASSUME TypeInv, LocksHeld, NEW t \in Threads, Finish(t), status' = status,
           status = "open"
    PROVE  LocksHeld'
<1> USE DEF TypeInv, TypeOK, ThreadsOK, ProcessOK
<1>1. ASSUME NEW s \in Threads PROVE LocksOf(s)'
  <2>1. CASE s = t
    <3>1. pc'[s] = "idle"
      BY <2>1 DEF Finish
    <3> QED BY <3>1 DEF LocksOf, WritePcs, SnapshotPcs, SavePcs
  <2>2. CASE s # t
    <3>1. pc'[s] = pc[s] /\ job'[s] = job[s]
      BY <2>2 DEF Finish
    <3>2. /\ writer = s => writer' = s
          /\ snapLock = s => snapLock' = s
          /\ s \in readers => s \in readers'
      BY <2>2 DEF Finish
    <3> QED BY <3>1, <3>2 DEF LocksHeld, LocksOf, Checkpointing
  <2> QED BY <2>1, <2>2
<1>2. writer' # NoThread => readers' = {}
  BY DEF LocksHeld, Finish
<1> QED BY <1>1, <1>2 DEF LocksHeld

\* Moving on within a snapshot changes no lock.
LEMMA LocksAfterGoto ==
    ASSUME TypeInv, LocksHeld, NEW t \in Threads,
           NEW next \in SavePcs \ {"backup", "install"},
           pc[t] \in SavePcs, Goto(t, next), status' = status, status = "open",
           next \in {"truncate", "header"} => Checkpointing(t)
    PROVE  LocksHeld'
<1> USE DEF TypeInv, TypeOK, ThreadsOK
<1>1. ASSUME NEW s \in Threads PROVE LocksOf(s)'
  <2>1. CASE s = t
    <3>1. pc'[s] = next /\ job'[s] = job[s]
      BY <2>1 DEF Goto
    <3>2. next \notin WritePcs
      BY DEF WritePcs, SavePcs
    <3> QED BY <2>1, <3>1, <3>2
            DEF Goto, locks, LocksHeld, LocksOf, Checkpointing, SnapshotPcs
  <2>2. CASE s # t
    <3>1. pc'[s] = pc[s] /\ job'[s] = job[s]
      BY <2>2 DEF Goto
    <3> QED BY <3>1 DEF Goto, locks, LocksHeld, LocksOf, Checkpointing
  <2> QED BY <2>1, <2>2
<1>2. writer' # NoThread => readers' = {}
  BY DEF LocksHeld, Goto, locks
<1> QED BY <1>1, <1>2 DEF LocksHeld

LEMMA LocksStep ==
    ASSUME FileSystem, TypeInv, LocksHeld, [Next]_vars
    PROVE  LocksHeld'
<1> USE DEF TypeInv, TypeOK, ThreadsOK, ProcessOK
<1> DEFINE Same == UNCHANGED <<writer, readers, snapLock, pc, job>>
\* Steps of no thread.
<1>1. ASSUME Same, status' = "open" \/ status' = status \/ status # "open"
      PROVE  LocksHeld'
  BY <1>1 DEF LocksHeld, LocksOf, Checkpointing
<1>2. CASE \/ UNCHANGED vars
           \/ OpenDirectory \/ OpenDirectoryFails \/ Recover \/ ReadForEdit
  BY <1>1, <1>2 DEF vars, threads, locks, OpenDirectory, OpenDirectoryFails,
                    Recover, ReadForEdit
<1>3. CASE Kill \/ PowerLoss
  <2>1. EndProcess
    BY <1>3 DEF Kill, PowerLoss
  <2>2. writer' = NoThread /\ \A t \in Threads : pc'[t] = "idle"
    BY <2>1 DEF EndProcess
  <2> QED BY <2>2 DEF LocksHeld, LocksOf, WritePcs, SnapshotPcs, SavePcs
\* A thread goes where no further lock is needed than it takes or has.
<1>4. ASSUME NEW t \in Threads, status = "open", status' = status,
             \A s \in Threads \ {t} : pc'[s] = pc[s] /\ job'[s] = job[s],
             \A s \in Threads \ {t} :
                /\ writer = s => writer' = s
                /\ snapLock = s => snapLock' = s
                /\ s \in readers => s \in readers',
             writer' # NoThread => readers' = {},
             LocksOf(t)'
      PROVE  LocksHeld'
  <2>1. \A s \in Threads \ {t} : LocksOf(s)'
    BY <1>4 DEF LocksHeld, LocksOf, Checkpointing
  <2> QED BY <1>4, <2>1 DEF LocksHeld
<1>5. ASSUME NEW t \in Threads, Request(t) PROVE LocksHeld'
  <2>1. PICK request \in Jobs, first \in {"w_lock", "c_snapshot"} :
          Start(t, request, first)
    <3>1. /\ [NoJob EXCEPT !.kind = "checkpoint"] \in Jobs
          /\ [NoJob EXCEPT !.kind = "save"] \in Jobs
      BY DEF NoJob, Jobs
    <3>2. \A kind \in {"staged", "delta"}, guarded \in BOOLEAN, op \in Ops \cup {NoOp} :
            [kind |-> kind, op |-> op, guarded |-> guarded] \in Jobs
      BY DEF Jobs
    <3> QED BY <1>5, <3>1, <3>2 DEF Request, StartWrite, StartCheckpoint, StartSave
  <2>2. pc'[t] = first
    BY <2>1 DEF Start
  <2>3. LocksOf(t)'
    BY <2>1, <2>2 DEF Start, LocksOf, WritePcs, SnapshotPcs, SavePcs
  <2> QED BY <1>4, <2>1, <2>3 DEF Start, locks, LocksHeld
<1>6. ASSUME NEW t \in Threads, LockCatalog(t) PROVE LocksHeld'
  <2>1. CASE Finish(t)
    BY <1>6, <2>1, LocksAfterFinish DEF LockCatalog
  <2>2. CASE /\ writer' = t /\ pc' = [pc EXCEPT ![t] = "w_append"]
             /\ UNCHANGED <<readers, snapLock, job>>
    <3>1. writer = NoThread /\ readers = {} /\ status = "open" /\ status' = status
      BY <1>6 DEF LockCatalog
    <3>2. LocksOf(t)'
      BY <2>2, <3>1 DEF LocksOf, WritePcs, SnapshotPcs, SavePcs
    <3> QED BY <1>4, <2>2, <3>1, <3>2
  <2> QED BY <1>6, <2>1, <2>2 DEF LockCatalog, Reject
<1>7. ASSUME NEW t \in Threads, AppendRecord(t) \/ SyncRecord(t)
      PROVE  LocksHeld'
  <2>1. CASE Finish(t)
    BY <1>7, <2>1, LocksAfterFinish DEF AppendRecord, SyncRecord
  <2>2. CASE /\ pc[t] \in WritePcs /\ \E next \in WritePcs : pc' = [pc EXCEPT ![t] = next]
             /\ UNCHANGED <<locks, job>>
    <3>1. status = "open" /\ status' = status
      BY <1>7 DEF AppendRecord, SyncRecord
    <3>2. LocksOf(t)'
      BY <2>2, <3>1 DEF LocksHeld, LocksOf, WritePcs, SnapshotPcs, SavePcs, locks
    <3> QED BY <1>4, <2>2, <3>1, <3>2 DEF LocksHeld, locks
  <2> QED BY <1>7, <2>1, <2>2 DEF AppendRecord, SyncRecord, Reject, WritePcs
<1>8. ASSUME NEW t \in Threads, Publish(t) PROVE LocksHeld'
  <2>1. pc'[t] \in {"idle", "c_snapshot"} /\ writer = t
    BY <1>8 DEF Publish, LocksHeld, LocksOf, WritePcs
  <2>2. LocksOf(t)'
    BY <1>8, <2>1 DEF Publish, LocksOf, WritePcs, SnapshotPcs, SavePcs
  <2> QED BY <1>4, <1>8, <2>1, <2>2 DEF Publish
<1>9. ASSUME NEW t \in Threads, LockSnapshot(t) PROVE LocksHeld'
  <2>1. LocksOf(t)'
    BY <1>9 DEF LockSnapshot, LocksOf, WritePcs, SnapshotPcs, SavePcs
  <2> QED BY <1>4, <1>9, <2>1 DEF LockSnapshot, LocksHeld
<1>10. ASSUME NEW t \in Threads, CaptureCatalog(t) PROVE LocksHeld'
  <2>1. CASE Finish(t)
    BY <1>10, <2>1, LocksAfterFinish DEF CaptureCatalog
  <2>2. CASE /\ readers' = IF Checkpointing(t) THEN readers \cup {t} ELSE readers
             /\ pc' = [pc EXCEPT ![t] = "temporary"]
             /\ UNCHANGED <<writer, snapLock, job>>
    <3>1. status = "open" /\ status' = status /\ pc[t] = "c_read" /\ writer = NoThread
      BY <1>10 DEF CaptureCatalog
    <3>2. LocksOf(t)'
      BY <2>2, <3>1 DEF LocksHeld, LocksOf, WritePcs, SnapshotPcs, SavePcs,
                        Checkpointing
    <3> QED BY <1>4, <2>2, <3>1, <3>2
  <2> QED BY <1>10, <2>1, <2>2 DEF CaptureCatalog
<1>11. ASSUME NEW t \in Threads,
              \/ WriteTemporary(t) \/ InstallSnapshot(t) \/ SyncDirectory(t)
              \/ TruncateLog(t) \/ WriteHeader(t)
       PROVE  LocksHeld'
  <2>1. status = "open" /\ status' = status /\ pc[t] \in SavePcs
    BY <1>11 DEF WriteTemporary, InstallSnapshot, SyncDirectory, TruncateLog,
                 WriteHeader, SavePcs
  <2>2. CASE Finish(t)
    BY <2>1, <2>2, LocksAfterFinish
  <2>3. CASE \E next \in {"rename", "sync_directory"} : Goto(t, next)
    BY <2>1, <2>3, LocksAfterGoto DEF SavePcs
  <2>4. CASE Goto(t, "truncate") /\ Checkpointing(t)
    BY <2>1, <2>4, LocksAfterGoto DEF SavePcs
  <2>5. CASE Goto(t, "header") /\ pc[t] = "truncate"
    <3>1. Checkpointing(t)
      BY <2>5 DEF LocksHeld, LocksOf
    <3> QED BY <2>1, <2>5, <3>1, LocksAfterGoto DEF SavePcs
  <2> QED BY <1>11, <2>2, <2>3, <2>4, <2>5
          DEF WriteTemporary, InstallSnapshot, SyncDirectory, TruncateLog,
              WriteHeader, FileSystem
<1>12. ASSUME NEW t \in Threads PROVE ~BackUpSnapshot(t) /\ ~InstallOverBackup(t)
  BY DEF LocksHeld, LocksOf, BackUpSnapshot, InstallOverBackup
<1> QED BY <1>2, <1>3, <1>5, <1>6, <1>7, <1>8, <1>9, <1>10, <1>11, <1>12
        DEF Next, ThreadStep

-----------------------------------------------------------------------------
(***************************************************************************)
(* One history H explains everything: the catalog in memory is its          *)
(* beginning, every snapshot file covers a beginning of it, and every log   *)
(* a part that starts no later than any snapshot ends.  While the database  *)
(* is open H has at most one mutation that is not visible: the record that  *)
(* is being written, or whose synchronization failed.                       *)
(***************************************************************************)
Visible == Len(mem.hist)

Covers(w, images, H, n) ==
    \E b \in Nat : LogFrom(w, H, n, b) /\ \A c \in images : b <= c.seq

FilesAgree(H, n) ==
    /\ \A c \in ckptImages : SnapshotOf(c, H, n)
    /\ \A w \in walImages : Covers(w, ckptImages, H, n)

\* What a client has read is a beginning of the history, and its revision
\* says how long.
EditAgrees(H, n) ==
    /\ edit.rev = Len(edit.hist) /\ edit.rev <= n
    /\ \A i \in 1 .. edit.rev : edit.hist[i] = H[i]

MemoryAgrees(H) ==
    /\ mem.seq = Visible /\ mem.rev = Visible
    /\ Visible <= Len(H) /\ Len(H) <= Visible + 1
    /\ \A i \in 1 .. Visible : mem.hist[i] = H[i]

\* A log that may still be appended to has no incomplete record, and nothing
\* is in the files that is not visible.
Clean(H) ==
    ~failed => /\ ~wal.torn
               /\ \/ Len(H) = Visible
                  \/ \E t \in Threads : pc[t] \in {"w_sync", "w_publish"}

WriterAgrees(t) ==
    pc[t] \in WritePcs =>
        /\ job[t].kind = "staged" => copy[t].hist = Append(mem.hist, job[t].op)
        /\ job[t].guarded => edit.rev = Visible

RecordAgrees(t, H) ==
    /\ pc[t] \in {"w_sync", "w_publish"} =>
          /\ H = Append(mem.hist, job[t].op)
          /\ Covers(wal, ckptImages, H, Len(H))
    /\ pc[t] = "w_publish" => walImages = {wal}

SaverAgrees(t, H) ==
    /\ pc[t] \in SavePcs =>
          /\ SnapshotOf(Captured(t), H, Visible)
          /\ \A c \in ckptImages : c.seq <= copy[t].seq
          /\ Checkpointing(t) => copy[t].seq = Visible
    /\ pc[t] \in {"sync_directory", "truncate", "header"} =>
          ckpt.seq = copy[t].seq
    /\ pc[t] \in {"truncate", "header"} => ckptImages = {ckpt}

ThreadAgrees(t, H) == WriterAgrees(t) /\ RecordAgrees(t, H) /\ SaverAgrees(t, H)

AgreeOpen(H) ==
    /\ MemoryAgrees(H) /\ FilesAgree(H, Visible) /\ EditAgrees(H, Visible)
    /\ Clean(H)
    /\ \A t \in Threads : ThreadAgrees(t, H)

AgreeClosed(H) ==
    /\ FilesAgree(H, Len(H)) /\ EditAgrees(H, Len(H))
    /\ status = "recovering" => ~failed /\ ~wal.torn
    /\ status # "refused"

Agree(H) == IF status = "open" THEN AgreeOpen(H) ELSE AgreeClosed(H)

SafetyInv == TypeInv /\ LocksHeld /\ \E H \in Seq(Ops) : Agree(H)

\* A step cuts the history to a beginning of it, or adds the mutation of the
\* thread that writes its record.
Continues(G, H) ==
    \/ Len(G) \in 0 .. Len(H) /\ \A i \in 1 .. Len(G) : G[i] = H[i]
    \/ \E t \in Threads : /\ pc[t] = "w_append" /\ pc'[t] = "w_sync"
                          /\ G = Append(H, job[t].op)

LEMMA AgreeInit == Init => Agree(<< >>)
<1> SUFFICES ASSUME Init PROVE Agree(<< >>)
  OBVIOUS
<1>1. SnapshotOf(Absent, << >>, 0)
  BY DEF SnapshotOf, Absent
<1>2. LogFrom(ShortWal, << >>, 0, 0)
  BY DEF LogFrom, ShortWal
<1>3. 0 <= Absent.seq
  BY DEF Absent
<1>4. FilesAgree(<< >>, 0)
  BY <1>1, <1>2, <1>3 DEF Init, FilesAgree, Covers
<1>5. EditAgrees(<< >>, 0)
  BY DEF Init, EditAgrees, NoEdit
<1> QED BY <1>4, <1>5 DEF Init, Agree, AgreeClosed

-----------------------------------------------------------------------------
(* What the agreement says of the files, whatever happens to the machine. *)

\* Every pair of images gives a beginning of the history that has at least
\* the first n mutations.
LEMMA FilesGive ==
    ASSUME TypeInv, NEW H \in Seq(Ops), NEW n \in Nat, FilesAgree(H, n),
           NEW c \in ckptImages, NEW w \in walImages
    PROVE  /\ WellFormed(w) /\ Replayable(c, w)
           /\ Replayed(c, w) \in Seq(Ops)
           /\ ReplayedSeq(c, w) = Len(Replayed(c, w))
           /\ Len(Replayed(c, w)) \in n .. Len(H)
           /\ \A i \in 1 .. Len(Replayed(c, w)) : Replayed(c, w)[i] = H[i]
<1>1. c \in Snapshots /\ w \in Wals
  BY DEF TypeInv, TypeOK, FilesOK
<1>2. PICK b \in Nat : LogFrom(w, H, n, b) /\ b <= c.seq
  BY DEF FilesAgree, Covers
<1>3. SnapshotOf(c, H, n)
  BY DEF FilesAgree
<1>4. /\ WellFormed(w) /\ Replayable(c, w)
      /\ ReplayedSeq(c, w) = b + Len(w.recs)
      /\ Replayed(c, w) \in Seq(Ops)
      /\ Len(Replayed(c, w)) = b + Len(w.recs)
      /\ \A i \in 1 .. b + Len(w.recs) : Replayed(c, w)[i] = H[i]
  BY <1>1, <1>2, <1>3, Recovered
<1>5. n <= b + Len(w.recs) /\ b + Len(w.recs) <= Len(H)
  BY <1>2 DEF LogFrom
<1>6. Len(w.recs) \in Nat /\ Len(H) \in Nat
  BY <1>1 DEF Wals
<1>7. Len(Replayed(c, w)) \in n .. Len(H)
  BY <1>4, <1>5, <1>6
<1>8. \A i \in 1 .. Len(Replayed(c, w)) : Replayed(c, w)[i] = H[i]
  BY <1>4
<1>9. ReplayedSeq(c, w) = Len(Replayed(c, w))
  BY <1>4
<1> QED BY <1>4, <1>7, <1>8, <1>9

\* When the process is gone, any two images that are left agree on a history
\* of their own.
LEMMA FilesAlone ==
    ASSUME TypeInv, NEW H \in Seq(Ops), NEW n \in Nat, FilesAgree(H, n),
           NEW c \in ckptImages, NEW w \in walImages
    PROVE  LET G == Replayed(c, w) IN
           SnapshotOf(c, G, Len(G)) /\ Covers(w, {c}, G, Len(G))
<1> DEFINE G == Replayed(c, w)
<1>1. c \in Snapshots /\ w \in Wals
  BY DEF TypeInv, TypeOK, FilesOK
<1>2. PICK b \in Nat : LogFrom(w, H, n, b) /\ b <= c.seq
  BY DEF FilesAgree, Covers
<1>3. SnapshotOf(c, H, n)
  BY DEF FilesAgree
<1>4. /\ G \in Seq(Ops) /\ Len(G) \in n .. Len(H)
      /\ \A i \in 1 .. Len(G) : G[i] = H[i]
  BY FilesGive
<1>5. Len(G) = b + Len(w.recs)
  BY <1>1, <1>2, <1>3, Recovered
<1>6. Len(G) \in Nat /\ c.seq \in Nat /\ c.seq <= Len(G)
  BY <1>1, <1>3, <1>4 DEF SnapshotOf, Snapshots
<1> HIDE DEF G
<1>7. \A i \in 1 .. c.seq : G[i] = H[i]
  BY <1>4, <1>6
<1>8. SnapshotOf(c, G, Len(G))
  BY <1>1, <1>3, <1>4, <1>6, <1>7, SnapshotStays
<1>9. LogFrom(w, G, Len(G), b)
  BY <1>1, <1>2, <1>4, <1>5, LogCut
<1>10. Covers(w, {c}, G, Len(G))
  BY <1>2, <1>9 DEF Covers
<1> QED BY <1>8, <1>10 DEF G

-----------------------------------------------------------------------------
(* Steps of no thread. *)

\* The files a dead process leaves agree on a history of their own, which has
\* everything that was visible.
LEMMA EndAgrees ==
    ASSUME FileSystem, TypeInv, NEW H \in Seq(Ops), Agree(H), Kill \/ PowerLoss
    PROVE  \E G \in Seq(Ops) : Agree(G)' /\ Continues(G, H)
<1> DEFINE n == IF status = "open" THEN Visible ELSE Len(H)
<1>1. n \in Nat /\ FilesAgree(H, n) /\ EditAgrees(H, n)
  <2>1. Visible \in Nat
    BY DEF TypeInv, TypeOK, ProcessOK, Catalogs, Visible
  <2> QED BY <2>1 DEF Agree, AgreeOpen, AgreeClosed
<1>2. /\ ckpt' \in ckptImages /\ ckptImages' = {ckpt'}
      /\ wal' \in walImages /\ walImages' = {wal'}
      /\ status' = "down" /\ edit' = edit
  BY DEF Kill, PowerLoss, EndProcess, FileSystem, TypeInv, TypeOK, observers
<1> HIDE DEF n
<1>3. PICK G \in Seq(Ops) : G = Replayed(ckpt', wal')
  BY <1>1, <1>2, FilesGive
<1>4. Len(G) \in n .. Len(H) /\ \A i \in 1 .. Len(G) : G[i] = H[i]
  BY <1>1, <1>2, <1>3, FilesGive
<1>5. SnapshotOf(ckpt', G, Len(G)) /\ Covers(wal', {ckpt'}, G, Len(G))
  BY <1>1, <1>2, <1>3, FilesAlone
<1>6. FilesAgree(G, Len(G))'
  BY <1>2, <1>5 DEF FilesAgree, Covers
<1>7. EditAgrees(G, Len(G))'
  <2>1. edit.rev \in Nat
    BY DEF TypeInv, TypeOK, ObserversOK, Edits
  <2>2. edit.rev <= Len(G)
    BY <1>1, <1>4, <2>1 DEF EditAgrees
  <2>3. \A i \in 1 .. edit.rev : edit.hist[i] = G[i]
    BY <1>1, <1>4, <2>1, <2>2 DEF EditAgrees
  <2> QED BY <1>1, <1>2, <2>2, <2>3 DEF EditAgrees
<1>8. Agree(G)'
  BY <1>2, <1>6, <1>7 DEF Agree, AgreeClosed
<1>9. Continues(G, H)
  BY <1>1, <1>4 DEF Continues
<1> QED BY <1>8, <1>9

\* A repair changes no record.
LEMMA RepairCovers ==
    ASSUME NEW w \in Wals, NEW images, NEW H, NEW n, Covers(w, images, H, n)
    PROVE  Covers(Repaired(w), images, H, n)
BY RepairedType DEF Covers, LogFrom

LEMMA OpeningAgrees ==
    ASSUME TypeInv, LocksHeld, NEW H \in Seq(Ops), Agree(H),
           OpenDirectory \/ OpenDirectoryFails \/ Recover
    PROVE  Agree(H)'
<1>1. /\ status # "open" /\ FilesAgree(H, Len(H)) /\ EditAgrees(H, Len(H))
      /\ status = "recovering" => ~failed /\ ~wal.torn
      /\ Len(H) \in Nat
  BY DEF OpenDirectory, OpenDirectoryFails, Recover, Agree, AgreeClosed
<1>2. wal \in Wals /\ wal \in walImages /\ ckpt \in ckptImages
  BY DEF TypeInv, TypeOK, FilesOK
<1>3. /\ WellFormed(wal) /\ Replayable(ckpt, wal)
      /\ Replayed(ckpt, wal) \in Seq(Ops)
      /\ ReplayedSeq(ckpt, wal) = Len(Replayed(ckpt, wal))
      /\ Len(Replayed(ckpt, wal)) = Len(H)
      /\ \A i \in 1 .. Len(H) : Replayed(ckpt, wal)[i] = H[i]
  BY <1>1, <1>2, FilesGive
<1>4. Repaired(wal).torn = FALSE /\ Covers(Repaired(wal), ckptImages, H, Len(H))
  BY <1>1, <1>2, RepairedType, RepairCovers DEF FilesAgree
<1>5. CASE OpenDirectory
  <2>1. /\ status' = "recovering" /\ failed' = FALSE
        /\ edit' = edit /\ ckpt' = ckpt /\ ckptImages' = ckptImages
    BY <1>3, <1>5 DEF OpenDirectory, observers
  <2>2. FilesAgree(H, Len(H))'
    BY <1>1, <1>4, <1>5, <2>1 DEF OpenDirectory, FilesAgree, Covers
  <2>3. ~wal'.torn
    <3>1. wal.torn \in BOOLEAN
      BY <1>2 DEF Wals
    <3> QED BY <1>3, <1>4, <1>5, <3>1 DEF OpenDirectory, NeedsRepair
  <2>4. EditAgrees(H, Len(H))'
    BY <1>1, <2>1 DEF EditAgrees
  <2> QED BY <2>1, <2>2, <2>3, <2>4 DEF Agree, AgreeClosed
<1>6. CASE OpenDirectoryFails
  <2>1. /\ status' = "down" /\ edit' = edit /\ ckptImages' = ckptImages
    BY <1>6 DEF OpenDirectoryFails, observers
  <2>2. FilesAgree(H, Len(H))'
    BY <1>1, <1>2, <1>4, <1>6, <2>1 DEF OpenDirectoryFails, FilesAgree, Covers
  <2>3. EditAgrees(H, Len(H))'
    BY <1>1, <2>1 DEF EditAgrees
  <2> QED BY <2>1, <2>2, <2>3 DEF Agree, AgreeClosed
<1>7. CASE Recover
  <2>1. /\ status = "recovering" /\ status' = "open"
        /\ mem' = [hist |-> Replayed(ckpt, wal), seq |-> ReplayedSeq(ckpt, wal),
                   rev |-> ReplayedSeq(ckpt, wal)]
        /\ UNCHANGED <<disk, failed, threads, edit>>
    BY <1>3, <1>7 DEF Recover, observers
  <2>2. Visible' = Len(H) /\ mem'.seq = Len(H) /\ mem'.rev = Len(H)
        /\ mem'.hist = Replayed(ckpt, wal)
    BY <1>3, <2>1 DEF Visible
  <2>3. MemoryAgrees(H)'
    BY <1>1, <1>3, <2>2 DEF MemoryAgrees
  <2>4. FilesAgree(H, Visible)'
    BY <1>1, <2>1, <2>2 DEF FilesAgree, Covers, disk
  <2>5. EditAgrees(H, Visible)'
    BY <1>1, <2>1, <2>2 DEF EditAgrees
  <2>6. Clean(H)'
    BY <1>1, <2>1, <2>2 DEF Clean, disk
  <2>7. \A t \in Threads : ThreadAgrees(t, H)'
    <3> TAKE t \in Threads
    <3>1. pc'[t] = "idle"
      BY <1>1, <2>1 DEF LocksHeld, LocksOf, threads
    <3> QED BY <3>1 DEF ThreadAgrees, WriterAgrees, RecordAgrees, SaverAgrees,
                        WritePcs, SavePcs
  <2> QED BY <2>1, <2>3, <2>4, <2>5, <2>6, <2>7 DEF Agree, AgreeOpen
<1> QED BY <1>5, <1>6, <1>7

LEMMA ReadAgrees ==
    ASSUME TypeInv, NEW H \in Seq(Ops), Agree(H), ReadForEdit
    PROVE  Agree(H)'
<1>1. AgreeOpen(H) /\ status' = "open"
  BY DEF ReadForEdit, Agree
<1>2. UNCHANGED <<disk, mem, failed, threads>>
  BY DEF ReadForEdit
<1>3. edit'.rev = mem.rev /\ edit'.hist = mem.hist
  BY DEF ReadForEdit
<1>4. EditAgrees(H, Visible)'
  <2>1. Visible \in Nat
    BY DEF TypeInv, TypeOK, ProcessOK, Catalogs, Visible
  <2> QED BY <1>1, <1>2, <1>3, <2>1 DEF EditAgrees, AgreeOpen, MemoryAgrees, Visible
<1>5. MemoryAgrees(H)' /\ FilesAgree(H, Visible)' /\ Clean(H)'
  BY <1>1, <1>2 DEF AgreeOpen, MemoryAgrees, FilesAgree, Covers, Clean, Visible,
                    disk, threads
<1>6. \A t \in Threads : ThreadAgrees(t, H)'
  <2> TAKE t \in Threads
  <2>1. WriterAgrees(t)'
    BY <1>1, <1>2 DEF ReadForEdit, InFlightGuard, AgreeOpen, ThreadAgrees,
                      WriterAgrees, threads
  <2>2. RecordAgrees(t, H)' /\ SaverAgrees(t, H)'
    BY <1>1, <1>2 DEF AgreeOpen, ThreadAgrees, RecordAgrees, SaverAgrees, Covers,
                      Captured, Checkpointing, Visible, disk, threads
  <2> QED BY <2>1, <2>2 DEF ThreadAgrees
<1> QED BY <1>1, <1>4, <1>5, <1>6 DEF Agree, AgreeOpen

-----------------------------------------------------------------------------
(* Steps of one thread that change no file and not the catalog. *)

\* Another thread's agreement rests on nothing such a step changes.
LEMMA LocalAgrees ==
    ASSUME TypeInv, NEW H \in Seq(Ops), AgreeOpen(H), NEW t \in Threads,
           UNCHANGED <<disk, mem, edit>>,
           \A s \in Threads \ {t} :
                pc'[s] = pc[s] /\ job'[s] = job[s] /\ copy'[s] = copy[s],
           ThreadAgrees(t, H)',
           Clean(H)'
    PROVE  AgreeOpen(H)'
<1>1. MemoryAgrees(H)' /\ FilesAgree(H, Visible)' /\ EditAgrees(H, Visible)'
  BY DEF AgreeOpen, MemoryAgrees, FilesAgree, EditAgrees, Covers, Visible, disk
<1>2. ASSUME NEW s \in Threads \ {t} PROVE ThreadAgrees(s, H)'
  <2>1. ThreadAgrees(s, H) /\ pc'[s] = pc[s] /\ job'[s] = job[s] /\ copy'[s] = copy[s]
    BY DEF AgreeOpen
  <2>2. WriterAgrees(s)'
    BY <2>1 DEF ThreadAgrees, WriterAgrees, Visible
  <2>3. RecordAgrees(s, H)'
    BY <2>1 DEF ThreadAgrees, RecordAgrees, Covers, disk
  <2>4. SaverAgrees(s, H)'
    BY <2>1 DEF ThreadAgrees, SaverAgrees, Captured, Checkpointing, Visible, disk
  <2> QED BY <2>2, <2>3, <2>4 DEF ThreadAgrees
<1> QED BY <1>1, <1>2 DEF AgreeOpen

\* The log stays clean if it was, or cannot be written any more.
LEMMA StaysClean ==
    ASSUME TypeInv, NEW H \in Seq(Ops), Clean(H), NEW t \in Threads,
           UNCHANGED <<wal, mem>>,
           \A s \in Threads \ {t} : pc'[s] = pc[s],
           \/ failed'
           \/ failed' = failed /\ pc[t] \notin {"w_sync", "w_publish"}
           \/ failed' = failed /\ pc'[t] \in {"w_sync", "w_publish"}
    PROVE  Clean(H)'
BY DEF Clean, Visible

LEMMA IdleAgrees ==
    ASSUME NEW H, NEW t \in Threads, pc'[t] \in {"idle", "w_lock", "c_snapshot", "c_read"}
    PROVE  ThreadAgrees(t, H)'
BY DEF ThreadAgrees, WriterAgrees, RecordAgrees, SaverAgrees, WritePcs, SavePcs

\* The end of a request that changed nothing.
LEMMA FinishAgrees ==
    ASSUME TypeInv, NEW H \in Seq(Ops), AgreeOpen(H), NEW t \in Threads,
           Finish(t), UNCHANGED <<disk, mem, edit>>,
           \/ failed'
           \/ failed' = failed /\ pc[t] \notin {"w_sync", "w_publish"}
    PROVE  AgreeOpen(H)'
<1>1. \A s \in Threads \ {t} :
        pc'[s] = pc[s] /\ job'[s] = job[s] /\ copy'[s] = copy[s]
  BY DEF TypeInv, TypeOK, ThreadsOK, Finish
<1>2. pc'[t] = "idle"
  BY DEF TypeInv, TypeOK, ThreadsOK, Finish
<1>3. Clean(H)'
  BY <1>1, StaysClean DEF AgreeOpen, disk
<1>4. ThreadAgrees(t, H)'
  BY <1>2, IdleAgrees
<1> QED BY <1>1, <1>3, <1>4, LocalAgrees

LEMMA RequestAgrees ==
    ASSUME TypeInv, NEW H \in Seq(Ops), AgreeOpen(H), NEW t \in Threads, Request(t)
    PROVE  AgreeOpen(H)'
<1>1. /\ UNCHANGED <<disk, mem, edit, failed, copy>> /\ pc[t] = "idle"
      /\ pc'[t] \in {"w_lock", "c_snapshot"}
      /\ \A s \in Threads \ {t} : pc'[s] = pc[s] /\ job'[s] = job[s]
  BY DEF Request, StartWrite, StartCheckpoint, StartSave, Start, TypeInv, TypeOK,
         ThreadsOK
<1>2. Clean(H)'
  BY <1>1, StaysClean DEF AgreeOpen, disk
<1>3. ThreadAgrees(t, H)'
  BY <1>1, IdleAgrees
<1> QED BY <1>1, <1>2, <1>3, LocalAgrees

LEMMA LockCatalogAgrees ==
    ASSUME TypeInv, NEW H \in Seq(Ops), AgreeOpen(H), NEW t \in Threads, LockCatalog(t)
    PROVE  AgreeOpen(H)'
<1>1. UNCHANGED <<disk, mem, failed, edit>> /\ pc[t] = "w_lock"
  BY DEF LockCatalog, Reject, observers
<1>2. CASE Finish(t)
  BY <1>1, <1>2, FinishAgrees
<1>3. CASE /\ ~Conflicts(t)
           /\ copy' = [copy EXCEPT ![t] =
                IF job[t].kind = "staged"
                THEN [mem EXCEPT !.hist = Append(@, job[t].op),
                                 !.rev = @ + BatchSize]
                ELSE EmptyCatalog]
           /\ pc' = [pc EXCEPT ![t] = "w_append"]
           /\ job' = job
  <2>1. /\ \A s \in Threads \ {t} :
             pc'[s] = pc[s] /\ job'[s] = job[s] /\ copy'[s] = copy[s]
        /\ pc'[t] = "w_append"
    BY <1>3 DEF TypeInv, TypeOK, ThreadsOK
  <2>2. Clean(H)'
    BY <1>1, <2>1, StaysClean DEF AgreeOpen, disk
  <2>3. job[t].kind = "staged" => copy'[t].hist = Append(mem.hist, job[t].op)
    BY <1>3 DEF TypeInv, TypeOK, ThreadsOK, ProcessOK, Catalogs
  <2>4. job[t].guarded => edit.rev = Visible
    BY <1>3 DEF Conflicts, AgreeOpen, MemoryAgrees
  <2>5. WriterAgrees(t)'
    BY <1>1, <1>3, <2>3, <2>4 DEF WriterAgrees, Visible
  <2>6. ThreadAgrees(t, H)'
    BY <2>1, <2>5 DEF ThreadAgrees, RecordAgrees, SaverAgrees, SavePcs
  <2> QED BY <1>1, <2>1, <2>2, <2>6, LocalAgrees
<1> QED BY <1>2, <1>3 DEF LockCatalog, Reject

LEMMA CaptureAgrees ==
    ASSUME TypeInv, NEW H \in Seq(Ops), AgreeOpen(H), NEW t \in Threads,
           LockSnapshot(t) \/ CaptureCatalog(t) \/ WriteTemporary(t)
    PROVE  AgreeOpen(H)'
<1>1. /\ UNCHANGED <<disk, mem, failed, edit>>
      /\ pc[t] \notin {"w_sync", "w_publish"}
  BY DEF LockSnapshot, CaptureCatalog, WriteTemporary, observers
<1>2. CASE Finish(t)
  BY <1>1, <1>2, FinishAgrees
<1>3. CASE LockSnapshot(t)
  <2>1. /\ \A s \in Threads \ {t} : pc'[s] = pc[s]
        /\ job' = job /\ copy' = copy /\ pc'[t] = "c_read"
    BY <1>3 DEF LockSnapshot, TypeInv, TypeOK, ThreadsOK
  <2>2. Clean(H)'
    BY <1>1, <2>1, StaysClean DEF AgreeOpen, disk
  <2>3. ThreadAgrees(t, H)'
    BY <2>1, IdleAgrees
  <2> QED BY <1>1, <2>1, <2>2, <2>3, LocalAgrees
<1>4. CASE /\ copy' = [copy EXCEPT ![t] = mem]
           /\ pc' = [pc EXCEPT ![t] = "temporary"]
           /\ job' = job
  <2>1. /\ \A s \in Threads \ {t} :
             pc'[s] = pc[s] /\ job'[s] = job[s] /\ copy'[s] = copy[s]
        /\ pc'[t] = "temporary" /\ copy'[t] = mem
    BY <1>4 DEF TypeInv, TypeOK, ThreadsOK
  <2>2. Clean(H)'
    BY <1>1, <2>1, StaysClean DEF AgreeOpen, disk
  <2>3. mem.seq = Visible /\ mem.hist \in Seq(Ops) /\ Visible \in Nat
        /\ \A i \in 1 .. Visible : mem.hist[i] = H[i]
    BY DEF AgreeOpen, MemoryAgrees, TypeInv, TypeOK, ProcessOK, Catalogs, Visible
  <2>4. Captured(t)'.seq = mem.seq /\ Captured(t)'.hist = mem.hist
    BY <2>1 DEF Captured
  <2>5. SnapshotOf(Captured(t)', H, Visible)
    BY <2>3, <2>4 DEF SnapshotOf, Visible
  <2>6. \A c \in ckptImages : c.seq <= mem.seq
    BY <2>3 DEF AgreeOpen, FilesAgree, SnapshotOf
  <2>7. SaverAgrees(t, H)'
    BY <1>1, <2>1, <2>3, <2>5, <2>6 DEF SaverAgrees, Visible, disk
  <2>8. ThreadAgrees(t, H)'
    BY <2>1, <2>7 DEF ThreadAgrees, WriterAgrees, RecordAgrees, WritePcs
  <2> QED BY <1>1, <2>1, <2>2, <2>8, LocalAgrees
<1>5. CASE WriteTemporary(t) /\ Goto(t, "rename")
  <2>1. /\ \A s \in Threads \ {t} : pc'[s] = pc[s]
        /\ job' = job /\ copy' = copy /\ pc'[t] = "rename" /\ pc[t] = "temporary"
    BY <1>5 DEF WriteTemporary, Goto, TypeInv, TypeOK, ThreadsOK
  <2>2. Clean(H)'
    BY <1>1, <2>1, StaysClean DEF AgreeOpen, disk
  <2>3. SaverAgrees(t, H)
    BY DEF AgreeOpen, ThreadAgrees
  <2>4. SaverAgrees(t, H)'
    BY <1>1, <2>1, <2>3 DEF SaverAgrees, SavePcs, Captured, Checkpointing, Visible,
                            disk
  <2>5. ThreadAgrees(t, H)'
    BY <2>1, <2>4 DEF ThreadAgrees, WriterAgrees, RecordAgrees, WritePcs
  <2> QED BY <1>1, <2>1, <2>2, <2>5, LocalAgrees
<1> QED BY <1>2, <1>3, <1>4, <1>5 DEF CaptureCatalog, WriteTemporary

-----------------------------------------------------------------------------
(* Steps of a writer: it holds the write lock, so no other thread writes, and *)
(* no checkpoint is past its capture of the catalog.                          *)

LEMMA WriterAlone ==
    ASSUME TypeInv, LocksHeld, NEW t \in Threads, pc[t] \in WritePcs
    PROVE  /\ \A s \in Threads \ {t} : pc[s] \notin WritePcs
           /\ \A s \in Threads : pc[s] \in SavePcs => ~Checkpointing(s)
BY DEF LocksHeld, LocksOf

LEMMA AppendAgrees ==
    ASSUME TypeInv, LocksHeld, NEW H \in Seq(Ops), AgreeOpen(H), NEW t \in Threads,
           AppendRecord(t)
    PROVE  \E G \in Seq(Ops) : AgreeOpen(G)' /\ Continues(G, H)
<1> DEFINE op == job[t].op
           rec == Record(NextSequence(mem.seq), op)
<1>0. Continues(H, H)
  BY DEF Continues
<1>1. /\ UNCHANGED <<ckpt, ckptImages, backup, mem, edit>>
      /\ pc[t] = "w_append"
  BY DEF AppendRecord, Reject, observers
<1>2. pc[t] \in WritePcs
  BY <1>1 DEF WritePcs
<1>3. /\ wal \in Wals /\ mem.hist \in Seq(Ops) /\ Visible \in Nat
      /\ Visible = Len(mem.hist) /\ mem.seq = Visible /\ op \in Ops
      /\ walImages \subseteq Wals /\ wal \in walImages /\ ckptImages \subseteq Snapshots
  BY <1>2 DEF TypeInv, TypeOK, FilesOK, ProcessOK, Catalogs, Visible,
              WritersHaveMutations, AgreeOpen, MemoryAgrees
<1>4. CASE Reject(t) /\ UNCHANGED <<wal, walImages, failed>>
  BY <1>0, <1>1, <1>4, FinishAgrees DEF Reject, disk
<1>5. CASE /\ wal' \in {wal, Torn(wal)}
           /\ walImages' = walImages \cup {wal'}
           /\ failed' = TRUE
           /\ Reject(t)
  <2>1. Covers(wal', ckptImages, H, Visible)
    <3>1. Covers(wal, ckptImages, H, Visible)
      BY <1>3 DEF AgreeOpen, FilesAgree
    <3>2. wal'.recs = wal.recs
      BY <1>3, <1>5 DEF Torn, Wals
    <3> QED BY <3>1, <3>2 DEF Covers, LogFrom
  <2>2. FilesAgree(H, Visible)'
    BY <1>1, <1>5, <2>1 DEF AgreeOpen, FilesAgree, Covers, Visible
  <2>3. MemoryAgrees(H)' /\ EditAgrees(H, Visible)' /\ Clean(H)'
    BY <1>1, <1>5 DEF AgreeOpen, MemoryAgrees, EditAgrees, Clean, Visible
  <2>4. ASSUME NEW s \in Threads PROVE ThreadAgrees(s, H)'
    <3>1. CASE s = t
      <4>1. pc'[s] = "idle"
        BY <1>5, <3>1 DEF Reject, Finish, TypeInv, TypeOK, ThreadsOK
      <4> QED BY <4>1, IdleAgrees
    <3>2. CASE s # t
      <4>1. pc'[s] = pc[s] /\ job'[s] = job[s] /\ copy'[s] = copy[s]
        BY <1>5, <3>2 DEF Reject, Finish, TypeInv, TypeOK, ThreadsOK
      <4>2. pc[s] \notin WritePcs
        BY <1>2, <3>2, WriterAlone
      <4>3. SaverAgrees(s, H)'
        BY <1>1, <4>1 DEF AgreeOpen, ThreadAgrees, SaverAgrees, Captured,
                          Checkpointing, Visible
      <4> QED BY <4>1, <4>2, <4>3 DEF ThreadAgrees, WriterAgrees, RecordAgrees,
                                      WritePcs
    <3> QED BY <3>1, <3>2
  <2> QED BY <1>0, <2>2, <2>3, <2>4 DEF AgreeOpen
<1>6. CASE /\ ~failed
           /\ wal' = Written(wal, rec)
           /\ walImages' = walImages \cup {Torn(wal), wal'}
           /\ pc' = [pc EXCEPT ![t] = "w_sync"]
           /\ UNCHANGED <<locks, job, copy, failed, observers>>
  <2>1. /\ pc'[t] = "w_sync"
        /\ \A s \in Threads \ {t} : pc'[s] = pc[s] /\ pc[s] \notin WritePcs
    BY <1>2, <1>6, WriterAlone DEF TypeInv, TypeOK, ThreadsOK
  \* Before the record is written, what is visible is all there is.
  <2>2. Len(H) = Visible /\ ~wal.torn
    BY <1>1, <1>2, <1>6, WriterAlone DEF AgreeOpen, Clean, WritePcs
  <2>3. H = mem.hist
    <3>1. \A i \in 1 .. Len(H) : mem.hist[i] = H[i]
      BY <2>2 DEF AgreeOpen, MemoryAgrees
    <3> QED BY <1>3, <2>2, <3>1, SeqEqual
  <2>4. PICK G \in Seq(Ops) : G = Append(mem.hist, op)
    BY <1>3, AppendProperties
  <2>5. Len(G) = Visible + 1 /\ \A i \in 1 .. Visible : G[i] = H[i]
    BY <1>3, <2>3, <2>4, AppendProperties
  <2>6. rec = Record(Len(H) + 1, op)
    BY <1>3, <2>2 DEF NextSequence
  <2>7. PICK b \in Nat : LogFrom(wal, H, Visible, b) /\ \A c \in ckptImages : b <= c.seq
    BY <1>3 DEF AgreeOpen, FilesAgree, Covers
  <2>8. LogFrom(wal', G, Visible + 1, b)
    BY <1>3, <1>6, <2>2, <2>3, <2>4, <2>6, <2>7, LogGrows
  <2> HIDE DEF rec, op
  <2>9. Covers(wal', ckptImages, G, Len(G))
    BY <2>5, <2>7, <2>8 DEF Covers
  <2>10. LogFrom(wal', G, Visible, b)
    BY <1>3, <2>8 DEF LogFrom, Wals
  <2>11. \A w \in walImages : Covers(w, ckptImages, G, Visible)
    <3> TAKE w \in walImages
    <3>1. PICK d \in Nat : LogFrom(w, H, Visible, d) /\ \A c \in ckptImages : d <= c.seq
      BY DEF AgreeOpen, FilesAgree, Covers
    <3>2. LogFrom(w, G, Visible, d)
      BY <1>3, <2>3, <2>4, <3>1, LogStays
    <3> QED BY <3>1, <3>2 DEF Covers
  <2>12. Covers(Torn(wal), ckptImages, G, Visible)
    <3>1. Torn(wal).recs = wal.recs
      BY <1>3 DEF Torn, Wals
    <3>2. Covers(wal, ckptImages, G, Visible)
      BY <1>3, <2>11
    <3> QED BY <3>1, <3>2 DEF Covers, LogFrom
  <2>13. \A c \in Snapshots : SnapshotOf(c, H, Visible) => SnapshotOf(c, G, Visible)
    <3> SUFFICES ASSUME NEW c \in Snapshots, SnapshotOf(c, H, Visible)
                 PROVE  SnapshotOf(c, G, Visible)
      OBVIOUS
    <3>1. c.seq \in Nat /\ c.seq <= Visible
      BY DEF SnapshotOf, Snapshots
    <3>2. \A i \in 1 .. c.seq : G[i] = H[i]
      BY <1>3, <2>5, <3>1
    <3> QED BY <1>3, <2>5, <3>1, <3>2, SnapshotStays
  <2>14. FilesAgree(G, Visible)'
    <3>1. \A c \in ckptImages : SnapshotOf(c, G, Visible)
      BY <1>3, <2>13 DEF AgreeOpen, FilesAgree
    <3>2. \A w \in walImages' : Covers(w, ckptImages, G, Visible)
      BY <1>6, <2>7, <2>10, <2>11, <2>12 DEF Covers
    <3> QED BY <1>1, <3>1, <3>2 DEF FilesAgree, Covers, Visible
  <2>15. MemoryAgrees(G)'
    <3>1. \A i \in 1 .. Visible : mem.hist[i] = G[i]
      BY <2>3, <2>5
    <3>2. Visible <= Len(G) /\ Len(G) <= Visible + 1
      BY <1>3, <2>5
    <3> QED BY <1>1, <1>6, <3>1, <3>2 DEF AgreeOpen, MemoryAgrees, Visible
  <2>16. EditAgrees(G, Visible)'
    <3>1. edit.rev \in Nat
      BY DEF TypeInv, TypeOK, ObserversOK, Edits
    <3>2. \A i \in 1 .. edit.rev : edit.hist[i] = G[i]
      BY <1>3, <2>5, <3>1 DEF AgreeOpen, EditAgrees
    <3> QED BY <1>1, <1>6, <3>2 DEF AgreeOpen, EditAgrees, Visible
  <2>17. Clean(G)'
    <3>1. wal'.torn = FALSE
      BY <1>6 DEF Written
    <3> QED BY <2>1, <3>1 DEF Clean
  <2>18. ASSUME NEW s \in Threads PROVE SaverAgrees(s, G)'
    <3>1. CASE s = t
      BY <2>1, <3>1 DEF SaverAgrees, SavePcs
    <3>2. CASE s # t
      <4>1. pc'[s] = pc[s] /\ job'[s] = job[s] /\ copy'[s] = copy[s]
        BY <1>6, <2>1, <3>2
      <4>2. Captured(s) \in Snapshots /\ SaverAgrees(s, H)
        BY DEF Captured, TypeInv, TypeOK, ThreadsOK, Catalogs, Snapshots, AgreeOpen,
               ThreadAgrees
      <4>3. pc[s] \in SavePcs => SnapshotOf(Captured(s), G, Visible)
        BY <2>13, <4>2 DEF SaverAgrees
      <4> QED BY <1>1, <1>6, <4>1, <4>2, <4>3
              DEF SaverAgrees, Captured, Checkpointing, Visible
    <3> QED BY <3>1, <3>2
  <2>19. ASSUME NEW s \in Threads PROVE WriterAgrees(s)' /\ RecordAgrees(s, G)'
    <3>1. CASE s = t
      <4>1. WriterAgrees(t)'
        BY <1>1, <1>2, <1>6, <2>1
           DEF AgreeOpen, ThreadAgrees, WriterAgrees, Visible, observers, WritePcs
      <4>2. RecordAgrees(t, G)'
        BY <1>1, <1>6, <2>1, <2>4, <2>9 DEF RecordAgrees, Covers, op
      <4> QED BY <3>1, <4>1, <4>2
    <3>2. CASE s # t
      BY <2>1, <3>2 DEF WriterAgrees, RecordAgrees, WritePcs
    <3> QED BY <3>1, <3>2
  <2>20. AgreeOpen(G)'
    BY <2>14, <2>15, <2>16, <2>17, <2>18, <2>19 DEF AgreeOpen, ThreadAgrees
  <2>21. Continues(G, H)
    BY <1>1, <2>1, <2>3, <2>4 DEF Continues, op
  <2> QED BY <2>20, <2>21
<1> QED BY <1>4, <1>5, <1>6 DEF AppendRecord

LEMMA SyncAgrees ==
    ASSUME TypeInv, LocksHeld, NEW H \in Seq(Ops), AgreeOpen(H), NEW t \in Threads,
           SyncRecord(t)
    PROVE  AgreeOpen(H)'
<1>1. /\ UNCHANGED <<ckpt, ckptImages, backup, wal, mem, edit>>
      /\ pc[t] = "w_sync" /\ wal \in walImages
  BY DEF SyncRecord, Reject, observers, TypeInv, TypeOK
<1>2. CASE failed' = TRUE /\ Reject(t) /\ UNCHANGED walImages
  BY <1>1, <1>2, FinishAgrees DEF Reject, disk
<1>3. CASE /\ walImages' = {wal}
           /\ pc' = [pc EXCEPT ![t] = "w_publish"]
           /\ UNCHANGED <<job, copy, failed>>
  <2>1. /\ pc'[t] = "w_publish"
        /\ \A s \in Threads \ {t} : pc'[s] = pc[s] /\ pc[s] \notin WritePcs
    BY <1>1, <1>3, WriterAlone DEF WritePcs, TypeInv, TypeOK, ThreadsOK
  <2>2. MemoryAgrees(H)' /\ EditAgrees(H, Visible)'
    BY <1>1 DEF AgreeOpen, MemoryAgrees, EditAgrees, Visible
  <2>3. FilesAgree(H, Visible)'
    BY <1>1, <1>3 DEF AgreeOpen, FilesAgree, Covers, Visible
  <2>4. Clean(H)'
    BY <1>1, <1>3, <2>1 DEF AgreeOpen, Clean
  <2>5. ASSUME NEW s \in Threads PROVE SaverAgrees(s, H)'
    BY <1>1, <1>3, <2>1
       DEF AgreeOpen, ThreadAgrees, SaverAgrees, Captured, Checkpointing, Visible,
           SavePcs
  <2>6. ASSUME NEW s \in Threads PROVE WriterAgrees(s)' /\ RecordAgrees(s, H)'
    <3>1. CASE s = t
      <4>1. WriterAgrees(t) /\ RecordAgrees(t, H)
        BY DEF AgreeOpen, ThreadAgrees
      <4> QED BY <1>1, <1>3, <2>1, <3>1, <4>1
              DEF WriterAgrees, RecordAgrees, Covers, Visible, WritePcs
    <3>2. CASE s # t
      BY <2>1, <3>2 DEF WriterAgrees, RecordAgrees, WritePcs
    <3> QED BY <3>1, <3>2
  <2> QED BY <2>2, <2>3, <2>4, <2>5, <2>6 DEF AgreeOpen, ThreadAgrees
<1> QED BY <1>2, <1>3 DEF SyncRecord

\* What is published is what the log holds.
LEMMA PublishAgrees ==
    ASSUME TypeInv, LocksHeld, NEW H \in Seq(Ops), AgreeOpen(H), NEW t \in Threads,
           Publish(t)
    PROVE  AgreeOpen(H)' /\ mem'.hist = Append(mem.hist, job[t].op)
<1>1. /\ UNCHANGED <<disk, failed, edit>> /\ pc[t] = "w_publish" /\ pc[t] \in WritePcs
      /\ pc'[t] \in {"idle", "c_snapshot"}
      /\ \A s \in Threads \ {t} :
            pc'[s] = pc[s] /\ job'[s] = job[s] /\ copy'[s] = copy[s]
  BY DEF Publish, WritePcs, TypeInv, TypeOK, ThreadsOK
<1>2. /\ mem.hist \in Seq(Ops) /\ Visible \in Nat /\ Visible = Len(mem.hist)
      /\ mem.seq = Visible /\ job[t].op \in Ops
      /\ ckptImages \subseteq Snapshots
  BY <1>1 DEF TypeInv, TypeOK, FilesOK, ProcessOK, Catalogs, Visible,
              WritersHaveMutations, AgreeOpen, MemoryAgrees
<1>3. H = Append(mem.hist, job[t].op) /\ Covers(wal, ckptImages, H, Len(H))
      /\ walImages = {wal}
  BY <1>1 DEF AgreeOpen, ThreadAgrees, RecordAgrees
<1>4. Len(H) = Visible + 1
  BY <1>2, <1>3, AppendProperties
<1>5. mem'.hist = H /\ mem'.seq = Visible + 1 /\ mem'.rev = Visible + 1
  <2>1. job[t].kind = "staged" => copy[t].hist = H
    BY <1>1, <1>3 DEF AgreeOpen, ThreadAgrees, WriterAgrees
  <2> QED BY <1>2, <1>3, <2>1 DEF Publish, NextSequence
<1>6. Visible' = Len(H)
  BY <1>5 DEF Visible
<1>7. MemoryAgrees(H)'
  BY <1>4, <1>5, <1>6 DEF MemoryAgrees
<1>8. ASSUME NEW c \in Snapshots, SnapshotOf(c, H, Visible)
      PROVE  SnapshotOf(c, H, Len(H))
  BY <1>2, <1>4, <1>8 DEF SnapshotOf, Snapshots
<1>9. FilesAgree(H, Visible)'
  <2>1. \A c \in ckptImages : SnapshotOf(c, H, Len(H))
    BY <1>2, <1>8 DEF AgreeOpen, FilesAgree
  <2> QED BY <1>1, <1>3, <1>6, <2>1 DEF FilesAgree, Covers, disk
<1>10. EditAgrees(H, Visible)'
  <2>1. edit.rev \in Nat /\ edit.rev <= Visible
    BY DEF AgreeOpen, EditAgrees, TypeInv, TypeOK, ObserversOK, Edits
  <2>2. edit.rev <= Len(H)
    BY <1>2, <1>4, <2>1
  <2> QED BY <1>1, <1>6, <2>2 DEF AgreeOpen, EditAgrees
<1>11. Clean(H)'
  BY <1>1, <1>6 DEF AgreeOpen, Clean, disk
<1>12. ASSUME NEW s \in Threads PROVE ThreadAgrees(s, H)'
  <2>1. CASE s = t
    BY <1>1, <2>1, IdleAgrees
  <2>2. CASE s # t
    <3>1. pc[s] \notin WritePcs /\ (pc[s] \in SavePcs => ~Checkpointing(s))
      BY <1>1, <2>2, WriterAlone
    <3>2. Captured(s) \in Snapshots /\ SaverAgrees(s, H)
      BY DEF Captured, TypeInv, TypeOK, ThreadsOK, Catalogs, Snapshots, AgreeOpen,
             ThreadAgrees
    <3>3. pc[s] \in SavePcs => SnapshotOf(Captured(s), H, Len(H))
      BY <1>8, <3>2 DEF SaverAgrees
    <3>4. SaverAgrees(s, H)'
      BY <1>1, <1>6, <2>2, <3>1, <3>2, <3>3
         DEF SaverAgrees, Captured, Checkpointing, disk
    <3> QED BY <1>1, <2>2, <3>1, <3>4
            DEF ThreadAgrees, WriterAgrees, RecordAgrees, WritePcs
  <2> QED BY <2>1, <2>2
<1> QED BY <1>3, <1>5, <1>7, <1>9, <1>10, <1>11, <1>12 DEF AgreeOpen

-----------------------------------------------------------------------------
(* Steps of a snapshot: its thread holds snapshot_lock, so no other thread is *)
(* between its capture of the catalog and the end of its request.             *)

LEMMA SaverAlone ==
    ASSUME TypeInv, LocksHeld, NEW t \in Threads, pc[t] \in SavePcs
    PROVE  \A s \in Threads \ {t} : pc[s] \notin SavePcs
BY DEF LocksHeld, LocksOf, SnapshotPcs

\* A checkpoint holds the read lock, so nobody writes.
LEMMA CheckpointAlone ==
    ASSUME TypeInv, LocksHeld, NEW t \in Threads, pc[t] \in SavePcs, Checkpointing(t)
    PROVE  \A s \in Threads : pc[s] \notin WritePcs
BY DEF LocksHeld, LocksOf

\* The captured catalog is at least as recent as any snapshot file.
LEMMA InstallAgrees ==
    ASSUME FileSystem, TypeInv, LocksHeld, NEW H \in Seq(Ops), AgreeOpen(H),
           NEW t \in Threads, InstallSnapshot(t)
    PROVE  AgreeOpen(H)' /\ ckpt'.seq >= ckpt.seq
<1>1. /\ UNCHANGED <<backup, wal, walImages, mem, failed, edit>>
      /\ pc[t] = "rename" /\ pc[t] \in SavePcs
  BY DEF InstallSnapshot, observers, SavePcs
<1>2. /\ ckpt \in Snapshots /\ ckpt \in ckptImages /\ ckptImages \subseteq Snapshots
      /\ Captured(t) \in Snapshots /\ Captured(t).seq = copy[t].seq
      /\ walImages \subseteq Wals /\ wal \in walImages
  BY DEF TypeInv, TypeOK, FilesOK, ThreadsOK, Catalogs, Snapshots, Captured
<1>3. CASE Finish(t) /\ UNCHANGED <<ckpt, ckptImages>>
  <2>1. AgreeOpen(H)'
    BY <1>1, <1>3, FinishAgrees DEF disk
  <2> QED BY <1>2, <1>3, <2>1 DEF Snapshots
<1>4. CASE SetSnapshot(Captured(t)) /\ Goto(t, "sync_directory")
  <2>1. /\ SnapshotOf(Captured(t), H, Visible)
        /\ \A c \in ckptImages : c.seq <= Captured(t).seq
        /\ Checkpointing(t) => Captured(t).seq = Visible
    BY <1>1, <1>2 DEF AgreeOpen, ThreadAgrees, SaverAgrees
  <2>2. /\ ckpt' = Captured(t) /\ ckptImages' = ckptImages \cup {Captured(t)}
        /\ job' = job /\ copy' = copy /\ pc'[t] = "sync_directory"
        /\ \A s \in Threads \ {t} : pc'[s] = pc[s]
    BY <1>4 DEF SetSnapshot, Goto, TypeInv, TypeOK, ThreadsOK
  \* A log that starts no later than the current snapshot ends starts no later
  \* than the new one.
  <2>3. ASSUME NEW w \in Wals, NEW G, NEW n, Covers(w, ckptImages, G, n)
        PROVE  Covers(w, ckptImages', G, n)
    <3>1. PICK b \in Nat : LogFrom(w, G, n, b) /\ \A c \in ckptImages : b <= c.seq
      BY <2>3 DEF Covers
    <3>2. b <= Captured(t).seq
      <4>1. b <= ckpt.seq /\ ckpt.seq <= Captured(t).seq
        BY <1>2, <2>1, <3>1
      <4>2. ckpt.seq \in Nat /\ Captured(t).seq \in Nat
        BY <1>2 DEF Snapshots
      <4> QED BY <4>1, <4>2
    <3> QED BY <2>2, <3>1, <3>2 DEF Covers
  <2>4. MemoryAgrees(H)' /\ EditAgrees(H, Visible)'
    BY <1>1 DEF AgreeOpen, MemoryAgrees, EditAgrees, Visible
  <2>5. FilesAgree(H, Visible)'
    <3>1. \A w \in walImages : Covers(w, ckptImages', H, Visible)
      BY <1>2, <2>3 DEF AgreeOpen, FilesAgree
    <3>2. \A c \in ckptImages' : SnapshotOf(c, H, Visible)
      BY <2>1, <2>2 DEF AgreeOpen, FilesAgree
    <3> QED BY <1>1, <3>1, <3>2 DEF FilesAgree, Covers, Visible
  <2>6. Clean(H)'
    BY <1>1, <2>2, StaysClean DEF AgreeOpen
  <2>7. SaverAgrees(t, H)'
    <3>1. \A c \in ckptImages' : c.seq <= copy[t].seq
      <4>1. copy[t].seq \in Nat
        BY <1>2 DEF Snapshots
      <4> QED BY <1>2, <2>1, <2>2, <4>1
    <3> QED BY <1>1, <1>2, <2>1, <2>2, <3>1
            DEF SaverAgrees, Captured, Checkpointing, Visible
  <2>8. ASSUME NEW s \in Threads \ {t} PROVE ThreadAgrees(s, H)'
    <3>1. ThreadAgrees(s, H) /\ pc'[s] = pc[s]
      BY <2>2 DEF AgreeOpen
    <3>2. pc[s] \notin SavePcs
      BY <1>1, SaverAlone
    <3>3. WriterAgrees(s)'
      BY <1>1, <2>2, <3>1 DEF ThreadAgrees, WriterAgrees, Visible
    <3>4. Covers(wal, ckptImages, H, Len(H)) => Covers(wal, ckptImages', H, Len(H))
      BY <1>2, <2>3
    <3>5. RecordAgrees(s, H)'
      BY <1>1, <2>2, <3>1, <3>4 DEF ThreadAgrees, RecordAgrees, Covers
    <3>6. SaverAgrees(s, H)'
      BY <3>1, <3>2 DEF SaverAgrees, SavePcs
    <3> QED BY <3>3, <3>5, <3>6 DEF ThreadAgrees
  <2>9. ThreadAgrees(t, H)'
    BY <2>2, <2>7 DEF ThreadAgrees, WriterAgrees, RecordAgrees, WritePcs
  <2>10. AgreeOpen(H)'
    BY <2>4, <2>5, <2>6, <2>8, <2>9 DEF AgreeOpen
  <2>11. ckpt'.seq >= ckpt.seq
    BY <1>2, <2>1, <2>2 DEF Snapshots
  <2> QED BY <2>10, <2>11
<1> QED BY <1>3, <1>4 DEF InstallSnapshot, FileSystem

LEMMA SyncDirectoryAgrees ==
    ASSUME TypeInv, LocksHeld, NEW H \in Seq(Ops), AgreeOpen(H), NEW t \in Threads,
           SyncDirectory(t)
    PROVE  AgreeOpen(H)'
<1>1. /\ UNCHANGED <<ckpt, backup, wal, walImages, mem, failed, edit>>
      /\ pc[t] = "sync_directory" /\ pc[t] \in SavePcs /\ ckpt \in ckptImages
  BY DEF SyncDirectory, observers, SavePcs, TypeInv, TypeOK
<1>2. CASE Finish(t) /\ UNCHANGED ckptImages
  BY <1>1, <1>2, FinishAgrees DEF disk
<1>3. CASE /\ ckptImages' = {ckpt}
           /\ \/ Goto(t, "truncate") /\ Checkpointing(t)
              \/ Finish(t)
  <2>1. \A s \in Threads \ {t} :
          pc'[s] = pc[s] /\ job'[s] = job[s] /\ copy'[s] = copy[s]
    BY <1>3 DEF Finish, Goto, TypeInv, TypeOK, ThreadsOK
  <2>2. MemoryAgrees(H)' /\ EditAgrees(H, Visible)'
    BY <1>1 DEF AgreeOpen, MemoryAgrees, EditAgrees, Visible
  <2>3. FilesAgree(H, Visible)'
    BY <1>1, <1>3 DEF AgreeOpen, FilesAgree, Covers, Visible
  <2>4. Clean(H)'
    BY <1>1, <2>1, StaysClean DEF AgreeOpen
  <2>5. ASSUME NEW s \in Threads \ {t} PROVE ThreadAgrees(s, H)'
    <3>1. ThreadAgrees(s, H) /\ pc[s] \notin SavePcs
      BY <1>1, SaverAlone DEF AgreeOpen
    <3>2. WriterAgrees(s)'
      BY <1>1, <2>1, <3>1 DEF ThreadAgrees, WriterAgrees, Visible
    <3>3. RecordAgrees(s, H)'
      BY <1>1, <1>3, <2>1, <3>1 DEF ThreadAgrees, RecordAgrees, Covers
    <3>4. SaverAgrees(s, H)'
      BY <2>1, <3>1 DEF SaverAgrees, SavePcs
    <3> QED BY <3>2, <3>3, <3>4 DEF ThreadAgrees
  <2>6. ThreadAgrees(t, H)'
    <3>1. CASE Finish(t)
      <4>1. pc'[t] = "idle"
        BY <3>1 DEF Finish, TypeInv, TypeOK, ThreadsOK
      <4> QED BY <4>1, IdleAgrees
    <3>2. CASE Goto(t, "truncate")
      <4>1. pc'[t] = "truncate" /\ job' = job /\ copy' = copy
        BY <3>2 DEF Goto, TypeInv, TypeOK, ThreadsOK
      <4>2. SaverAgrees(t, H)
        BY DEF AgreeOpen, ThreadAgrees
      <4>3. SaverAgrees(t, H)'
        BY <1>1, <1>3, <4>1, <4>2
           DEF SaverAgrees, Captured, Checkpointing, Visible
      <4> QED BY <4>1, <4>3 DEF ThreadAgrees, WriterAgrees, RecordAgrees, WritePcs
    <3> QED BY <1>3, <3>1, <3>2
  <2> QED BY <2>2, <2>3, <2>4, <2>5, <2>6 DEF AgreeOpen
<1> QED BY <1>2, <1>3 DEF SyncDirectory

\* The log is emptied only when the one snapshot there is has everything.
LEMMA ResetAgrees ==
    ASSUME TypeInv, LocksHeld, NEW H \in Seq(Ops), AgreeOpen(H), NEW t \in Threads,
           TruncateLog(t) \/ WriteHeader(t)
    PROVE  AgreeOpen(H)'
<1>1. /\ UNCHANGED <<ckpt, ckptImages, backup, mem, edit>>
      /\ pc[t] \in {"truncate", "header"} /\ pc[t] \in SavePcs
      /\ pc[t] \notin {"w_sync", "w_publish"}
  BY DEF TruncateLog, WriteHeader, observers, SavePcs
<1>2. /\ wal' \in walImages'
      /\ \A w \in walImages' : w \in walImages \/ w.recs = << >>
      /\ failed' = TRUE \/ (failed' = failed /\ wal'.torn = FALSE)
  BY DEF TruncateLog, WriteHeader, TypeInv, TypeOK, ShortWal, EmptyWal
<1>3. \/ Finish(t)
      \/ Goto(t, "header") /\ pc[t] = "truncate"
  BY DEF TruncateLog, WriteHeader
<1>4. Checkpointing(t)
  BY <1>1 DEF LocksHeld, LocksOf
<1>5. /\ \A s \in Threads \ {t} :
           pc'[s] = pc[s] /\ job'[s] = job[s] /\ copy'[s] = copy[s]
      /\ \A s \in Threads : pc[s] \notin WritePcs
      /\ \A s \in Threads \ {t} : pc[s] \notin SavePcs
      /\ pc'[t] \in {"idle", "header"}
  BY <1>1, <1>3, <1>4, SaverAlone, CheckpointAlone
     DEF Finish, Goto, TypeInv, TypeOK, ThreadsOK
<1>6. \A c \in ckptImages : c.seq = Visible
  BY <1>1, <1>4 DEF AgreeOpen, ThreadAgrees, SaverAgrees
<1>7. Visible \in Nat /\ Visible <= Len(H)
  BY DEF AgreeOpen, MemoryAgrees, TypeInv, TypeOK, ProcessOK, Catalogs, Visible
<1>8. \A w \in walImages' : Covers(w, ckptImages, H, Visible)
  <2> TAKE w \in walImages'
  <2>1. CASE w \in walImages
    BY <2>1 DEF AgreeOpen, FilesAgree
  <2>2. CASE w.recs = << >>
    <3>1. LogFrom(w, H, Visible, Visible)
      BY <1>7, <2>2, EmptyLogFrom
    <3> QED BY <1>6, <1>7, <3>1 DEF Covers
  <2> QED BY <1>2, <2>1, <2>2
<1>9. FilesAgree(H, Visible)'
  BY <1>1, <1>8 DEF AgreeOpen, FilesAgree, Covers, Visible
<1>10. MemoryAgrees(H)' /\ EditAgrees(H, Visible)'
  BY <1>1 DEF AgreeOpen, MemoryAgrees, EditAgrees, Visible
<1>11. Clean(H)'
  <2>1. \A s \in Threads : pc[s] \notin {"w_sync", "w_publish"}
    BY <1>5 DEF WritePcs
  <2>2. ~failed => Len(H) = Visible
    BY <2>1 DEF AgreeOpen, Clean
  <2>3. Visible' = Visible
    BY <1>1 DEF Visible
  <2> QED BY <1>2, <2>2, <2>3 DEF Clean
<1>12. ASSUME NEW s \in Threads PROVE ThreadAgrees(s, H)'
  <2>1. CASE s # t
    BY <1>5, <2>1 DEF ThreadAgrees, WriterAgrees, RecordAgrees, SaverAgrees,
                      WritePcs, SavePcs
  <2>2. CASE Finish(t) /\ s = t
    <3>1. pc'[t] = "idle"
      BY <2>2 DEF Finish, TypeInv, TypeOK, ThreadsOK
    <3> QED BY <2>2, <3>1, IdleAgrees
  <2>3. CASE Goto(t, "header") /\ s = t
    <3>1. pc'[t] = "header" /\ job' = job /\ copy' = copy
      BY <2>3 DEF Goto, TypeInv, TypeOK, ThreadsOK
    <3>2. SaverAgrees(t, H)
      BY DEF AgreeOpen, ThreadAgrees
    <3>3. SaverAgrees(t, H)'
      BY <1>1, <3>1, <3>2 DEF SaverAgrees, Captured, Checkpointing, Visible
    <3> QED BY <2>3, <3>1, <3>3 DEF ThreadAgrees, WriterAgrees, RecordAgrees, WritePcs
  <2> QED BY <1>3, <2>1, <2>2, <2>3
<1> QED BY <1>9, <1>10, <1>11, <1>12 DEF AgreeOpen

-----------------------------------------------------------------------------
(* The invariant, and what follows from it. *)

LEMMA AgreeStep ==
    ASSUME FileSystem, TypeInv, LocksHeld, NEW H \in Seq(Ops), Agree(H), [Next]_vars
    PROVE  \E G \in Seq(Ops) : Agree(G)' /\ Continues(G, H)
<1>0. Continues(H, H)
  BY DEF Continues
<1>1. CASE UNCHANGED vars
  <2>1. Agree(H)'
    BY <1>1 DEF vars, disk, locks, threads, observers, bounds, Agree, AgreeOpen,
                AgreeClosed, FilesAgree, EditAgrees, MemoryAgrees, Clean, Covers,
                Visible, ThreadAgrees, WriterAgrees, RecordAgrees, SaverAgrees,
                Captured, Checkpointing
  <2> QED BY <1>0, <2>1
<1>2. CASE Kill \/ PowerLoss
  BY <1>2, EndAgrees
<1>3. CASE OpenDirectory \/ OpenDirectoryFails \/ Recover
  BY <1>0, <1>3, OpeningAgrees
<1>4. CASE ReadForEdit
  BY <1>0, <1>4, ReadAgrees
<1>5. ASSUME NEW t \in Threads, Request(t) \/ ThreadStep(t)
      PROVE  status = "open" /\ status' = "open"
  BY <1>5 DEF Request, StartWrite, StartCheckpoint, StartSave, Start, ThreadStep,
              LockCatalog, AppendRecord, SyncRecord, Publish, LockSnapshot,
              CaptureCatalog, WriteTemporary, InstallSnapshot, BackUpSnapshot,
              InstallOverBackup, SyncDirectory, TruncateLog, WriteHeader, disk
<1>6. ASSUME NEW t \in Threads, Request(t) \/ ThreadStep(t)
      PROVE  \E G \in Seq(Ops) : AgreeOpen(G)' /\ Continues(G, H)
  <2>1. AgreeOpen(H)
    BY <1>5, <1>6 DEF Agree
  <2>2. ~BackUpSnapshot(t) /\ ~InstallOverBackup(t)
    BY DEF LocksHeld, LocksOf, BackUpSnapshot, InstallOverBackup
  <2>3. CASE AppendRecord(t)
    BY <2>1, <2>3, AppendAgrees
  <2>4. CASE ~AppendRecord(t)
    <3>1. AgreeOpen(H)'
      BY <1>6, <2>1, <2>2, <2>4, RequestAgrees, LockCatalogAgrees, SyncAgrees,
         PublishAgrees, CaptureAgrees, InstallAgrees, SyncDirectoryAgrees, ResetAgrees
         DEF ThreadStep
    <3> QED BY <1>0, <3>1
  <2> QED BY <2>3, <2>4
<1>7. ASSUME NEW t \in Threads, Request(t) \/ ThreadStep(t)
      PROVE  \E G \in Seq(Ops) : Agree(G)' /\ Continues(G, H)
  BY <1>5, <1>6, <1>7 DEF Agree
<1> QED BY <1>1, <1>2, <1>3, <1>4, <1>7 DEF Next

LEMMA SafetyInductive ==
    ASSUME FileSystem
    PROVE  /\ Init => SafetyInv
           /\ SafetyInv /\ [Next]_vars => SafetyInv'
<1>1. Init => SafetyInv
  <2>1. << >> \in Seq(Ops)
    OBVIOUS
  <2> QED BY <2>1, InitTyped, LocksInit, AgreeInit DEF SafetyInv
<1>2. ASSUME SafetyInv, [Next]_vars PROVE SafetyInv'
  <2>1. PICK H \in Seq(Ops) : Agree(H)
    BY <1>2 DEF SafetyInv
  <2>2. TypeInv' /\ LocksHeld'
    BY <1>2, TypeStep, LocksStep DEF SafetyInv
  <2>3. \E G \in Seq(Ops) : Agree(G)'
    BY <1>2, <2>1, AgreeStep DEF SafetyInv
  <2> QED BY <2>2, <2>3 DEF SafetyInv
<1> QED BY <1>1, <1>2

THEOREM SafetyInvariant ==
    ASSUME FileSystem
    PROVE  Spec => []SafetyInv
BY SafetyInductive, PTL DEF Spec

\* Sequences that agree on the shorter one's length are prefixes.
LEMMA PrefixFrom ==
    ASSUME NEW s \in Seq(Ops), NEW t \in Seq(Ops), Len(s) <= Len(t),
           \A i \in 1 .. Len(s) : s[i] = t[i]
    PROVE  IsPrefix(s, t)
<1>1. Len(s) \in Nat /\ Len(t) \in Nat
  OBVIOUS
<1>2. \A i \in 1 .. Len(s) : s[i] \in Ops /\ t[i] \in Ops
  BY <1>1
<1>3. SubSeq(s, 1, Len(s)) \in Seq(Ops) /\ SubSeq(t, 1, Len(s)) \in Seq(Ops)
  BY <1>1, <1>2, SubSeqProperties
<1>4. Len(SubSeq(s, 1, Len(s))) = Len(s) /\ Len(SubSeq(t, 1, Len(s))) = Len(s)
  BY <1>1, <1>2, SubSeqProperties
<1>5. \A i \in 1 .. Len(s) : SubSeq(s, 1, Len(s))[i] = SubSeq(t, 1, Len(s))[i]
  BY <1>1, <1>2, SubSeqProperties
<1>6. SubSeq(s, 1, Len(s)) = SubSeq(t, 1, Len(s))
  BY <1>3, <1>4, <1>5, SeqEqual
<1> QED BY <1>6 DEF IsPrefix

LEMMA SafetyGivesDurability == SafetyInv => VisibleIsDurable
<1> SUFFICES ASSUME SafetyInv, NEW c \in ckptImages, NEW w \in walImages
             PROVE  Recoverable(c, w) /\ IsPrefix(History, Replayed(c, w))
  BY DEF VisibleIsDurable
<1>1. PICK H \in Seq(Ops) : Agree(H)
  BY DEF SafetyInv
<1>2. TypeInv /\ ckpt \in ckptImages /\ wal \in walImages
  BY DEF SafetyInv, TypeInv, TypeOK
<1>3. CASE status = "open"
  <2>1. /\ Visible \in Nat /\ mem.hist \in Seq(Ops) /\ Visible = Len(mem.hist)
        /\ FilesAgree(H, Visible)
        /\ \A i \in 1 .. Visible : mem.hist[i] = H[i]
    BY <1>1, <1>2, <1>3 DEF Agree, AgreeOpen, MemoryAgrees, TypeInv, TypeOK,
                            ProcessOK, Catalogs, Visible
  <2>2. /\ Recoverable(c, w) /\ Replayed(c, w) \in Seq(Ops)
        /\ Len(Replayed(c, w)) \in Visible .. Len(H)
        /\ \A i \in 1 .. Len(Replayed(c, w)) : Replayed(c, w)[i] = H[i]
    BY <1>2, <2>1, FilesGive DEF Recoverable
  <2>3. Len(mem.hist) <= Len(Replayed(c, w))
    BY <2>1, <2>2
  <2>4. \A i \in 1 .. Len(mem.hist) : mem.hist[i] = Replayed(c, w)[i]
    BY <2>1, <2>2, <2>3
  <2>5. IsPrefix(mem.hist, Replayed(c, w))
    BY <2>1, <2>2, <2>3, <2>4, PrefixFrom
  <2> QED BY <1>3, <2>2, <2>5 DEF History
<1>4. CASE status # "open"
  <2>1. FilesAgree(H, Len(H)) /\ Len(H) \in Nat
    BY <1>1, <1>4 DEF Agree, AgreeClosed
  <2>2. ASSUME NEW d \in ckptImages, NEW v \in walImages
        PROVE  /\ Recoverable(d, v) /\ Replayed(d, v) \in Seq(Ops)
               /\ Len(Replayed(d, v)) = Len(H)
               /\ \A i \in 1 .. Len(H) : Replayed(d, v)[i] = H[i]
    BY <1>2, <2>1, FilesGive DEF Recoverable
  <2>3. IsPrefix(Replayed(ckpt, wal), Replayed(c, w))
    BY <1>2, <2>1, <2>2, PrefixFrom
  <2> QED BY <1>4, <2>2, <2>3 DEF History
<1> QED BY <1>3, <1>4

(***************************************************************************)
(* Durability: whatever happens to the machine, what a client could read is *)
(* in every pair of files it may be left with, and they can be opened.      *)
(***************************************************************************)
THEOREM Durability ==
    ASSUME FileSystem
    PROVE  Spec => []VisibleIsDurable
BY SafetyInvariant, SafetyGivesDurability, PTL

(***************************************************************************)
(* Availability: no order of writes, checkpoints, failures and restarts     *)
(* leaves files that open_wal or recover refuses.                           *)
(***************************************************************************)
THEOREM Availability ==
    ASSUME FileSystem
    PROVE  Spec => []NeverRefused
<1>1. SafetyInv => NeverRefused
  BY DEF SafetyInv, Agree, AgreeClosed, NeverRefused
<1> QED BY <1>1, SafetyInvariant, PTL

LEMMA SafetyGivesCurrency == SafetyInv => GuardedEditIsCurrent
<1> SUFFICES ASSUME SafetyInv, NEW t \in Threads, job[t].guarded, pc[t] \in WritePcs
             PROVE  mem.hist = edit.hist
  BY DEF GuardedEditIsCurrent
<1>1. PICK H \in Seq(Ops) : Agree(H)
  BY DEF SafetyInv
<1>2. AgreeOpen(H)
  BY <1>1 DEF SafetyInv, LocksHeld, LocksOf, Agree, WritePcs
<1>3. edit.rev = Len(mem.hist) /\ edit.rev = Len(edit.hist)
  BY <1>2 DEF AgreeOpen, ThreadAgrees, WriterAgrees, EditAgrees, Visible
<1>4. \A i \in 1 .. Len(mem.hist) : mem.hist[i] = edit.hist[i]
  BY <1>2, <1>3 DEF AgreeOpen, MemoryAgrees, EditAgrees, Visible
<1>5. mem.hist \in Seq(Ops) /\ edit.hist \in Seq(Ops)
  BY DEF SafetyInv, TypeInv, TypeOK, ProcessOK, ObserversOK, Catalogs, Edits
<1> QED BY <1>3, <1>4, <1>5, SeqEqual

(***************************************************************************)
(* Compare-and-write: a write guarded by a revision commits on the catalog  *)
(* that its client has read, across restarts too.                           *)
(***************************************************************************)
THEOREM Currency ==
    ASSUME FileSystem
    PROVE  Spec => []GuardedEditIsCurrent
BY SafetyInvariant, SafetyGivesCurrency, PTL

(***************************************************************************)
(* While the process runs, vectors.vdb is only ever replaced by a catalog   *)
(* that is at least as recent.                                              *)
(***************************************************************************)
THEOREM Progression ==
    ASSUME FileSystem
    PROVE  Spec => SnapshotNeverRegresses
<1> DEFINE Step == status = "open" /\ status' = "open" => ckpt'.seq >= ckpt.seq
<1>1. SafetyInv /\ [Next]_vars => [Step]_vars
  <2> SUFFICES ASSUME SafetyInv, Next, status = "open", status' = "open"
               PROVE  ckpt'.seq >= ckpt.seq
    OBVIOUS
  <2>1. PICK H \in Seq(Ops) : AgreeOpen(H)
    BY DEF SafetyInv, Agree
  <2>2. TypeInv /\ LocksHeld /\ ckpt.seq \in Nat
    BY DEF SafetyInv, TypeInv, TypeOK, FilesOK, Snapshots
  <2>3. \A t \in Threads : ~BackUpSnapshot(t) /\ ~InstallOverBackup(t)
    BY <2>2 DEF LocksHeld, LocksOf, BackUpSnapshot, InstallOverBackup
  <2>4. CASE ckpt' = ckpt
    BY <2>2, <2>4
  <2>5. CASE \E t \in Threads : InstallSnapshot(t)
    BY <2>1, <2>2, <2>5, InstallAgrees
  <2> QED BY <2>3, <2>4, <2>5
          DEF Next, OpenDirectory, OpenDirectoryFails, Recover, ReadForEdit, Kill,
              PowerLoss, EndProcess, Request, StartWrite, StartCheckpoint, StartSave,
              Start, ThreadStep, LockCatalog, AppendRecord, SyncRecord, Publish,
              LockSnapshot, CaptureCatalog, WriteTemporary, SyncDirectory,
              TruncateLog, WriteHeader, disk
<1> QED BY <1>1, SafetyInvariant, PTL DEF Spec, SnapshotNeverRegresses
-----------------------------------------------------------------------------
(***************************************************************************)
(* The mutations of the history differ.  Those it holds, and those of the   *)
(* threads that have yet to write a record, have been sent, so a client     *)
(* that sends a new mutation sends none of them.                            *)
(***************************************************************************)
Waiting(t) == pc[t] \in {"w_lock", "w_append"} /\ job[t].op # NoOp

Fresh(H) ==
    /\ \A i, j \in 1 .. Len(H) : H[i] = H[j] => i = j
    /\ \A i \in 1 .. Len(H) : fate[H[i]] # "unused"
    /\ \A t \in Threads : Waiting(t) =>
          /\ fate[job[t].op] # "unused"
          /\ \A i \in 1 .. Len(H) : H[i] # job[t].op
    /\ \A s, t \in Threads :
          Waiting(s) /\ Waiting(t) /\ s # t => job[s].op # job[t].op

\* While the database is not open, its catalog is empty or the snapshot's.
ClosedMemory == status # "open" => mem.hist \in {<< >>, ckpt.hist}

OnceInv ==
    /\ TypeInv /\ LocksHeld /\ ClosedMemory
    /\ \E H \in Seq(Ops) : Agree(H) /\ Fresh(H)

LEMMA ClosedMemoryStep ==
    ASSUME TypeInv, LocksHeld, ClosedMemory, [Next]_vars
    PROVE  ClosedMemory'
<1>1. CASE UNCHANGED vars
  BY <1>1 DEF ClosedMemory, vars, disk
<1>2. CASE OpenDirectory \/ OpenDirectoryFails
  BY <1>2 DEF ClosedMemory, OpenDirectory, OpenDirectoryFails
<1>3. CASE Recover
  BY <1>3 DEF ClosedMemory, Recover, disk
<1>4. CASE Kill \/ PowerLoss
  <2>1. mem' = EmptyCatalog
    BY <1>4 DEF Kill, PowerLoss, EndProcess
  <2> QED BY <2>1 DEF ClosedMemory, EmptyCatalog
<1>5. CASE ReadForEdit \/ \E t \in Threads : Request(t) \/ ThreadStep(t)
  BY <1>5 DEF ClosedMemory, ReadForEdit, Request, StartWrite, StartCheckpoint,
              StartSave, Start, ThreadStep, LockCatalog, AppendRecord, SyncRecord,
              Publish, LockSnapshot, CaptureCatalog, WriteTemporary,
              InstallSnapshot, BackUpSnapshot, InstallOverBackup, SyncDirectory,
              TruncateLog, WriteHeader
<1> QED BY <1>1, <1>2, <1>3, <1>4, <1>5 DEF Next

\* A mutation that has been sent stays so, and who waits to write a record has
\* waited before.
Settles ==
    /\ \A op \in Ops : fate[op] # "unused" => fate'[op] # "unused"
    /\ \A t \in Threads : Waiting(t)' => Waiting(t) /\ job'[t].op = job[t].op

\* Other than that, one thread starts with a mutation nobody has sent.
Sends(t) ==
    /\ fate[job'[t].op] = "unused" /\ job'[t].op \in Ops
    /\ \A op \in Ops :
          op = job'[t].op \/ fate[op] # "unused" => fate'[op] # "unused"
    /\ \A s \in Threads \ {t} : pc'[s] = pc[s] /\ job'[s] = job[s]
    /\ pc'[t] = "w_lock"

LEMMA FateStep ==
    ASSUME TypeInv, [Next]_vars
    PROVE  Settles \/ \E t \in Threads : Sends(t)
<1> USE DEF TypeInv, TypeOK, ThreadsOK, ObserversOK
<1>1. CASE fate' = fate /\ pc' = pc /\ job' = job
  BY <1>1 DEF Settles, Waiting
<1>2. CASE EndProcess
  BY <1>2 DEF EndProcess, observers, Settles, Waiting
<1>3. ASSUME NEW t \in Threads, pc' = [pc EXCEPT ![t] = pc'[t]],
             job' = [job EXCEPT ![t] = job'[t]],
             Waiting(t)' => Waiting(t) /\ job'[t].op = job[t].op,
             NEW key, NEW value \in {"error", "acked"},
             fate' = [fate EXCEPT ![key] = value]
      PROVE  Settles
  BY <1>3 DEF Settles, Waiting
<1>4. ASSUME NEW t \in Threads, pc' = [pc EXCEPT ![t] = pc'[t]],
             job' = [job EXCEPT ![t] = job'[t]], fate' = fate,
             Waiting(t)' => Waiting(t) /\ job'[t].op = job[t].op
      PROVE  Settles
  BY <1>4 DEF Settles, Waiting
<1>5. ASSUME NEW t \in Threads, StartWrite(t)
      PROVE  Settles \/ Sends(t)
  <2>1. PICK kind \in {"staged", "delta"}, guarded \in BOOLEAN,
             op \in {o \in Ops : fate[o] = "unused"} \cup {NoOp} :
          /\ Start(t, [kind |-> kind, op |-> op, guarded |-> guarded], "w_lock")
          /\ fate' = IF op = NoOp THEN fate ELSE [fate EXCEPT ![op] = "sent"]
    BY <1>5 DEF StartWrite
  <2>2. /\ job' = [job EXCEPT ![t] = job'[t]] /\ job'[t].op = op
        /\ pc' = [pc EXCEPT ![t] = pc'[t]] /\ pc'[t] = "w_lock"
    BY <2>1 DEF Start
  <2>3. CASE op = NoOp
    <3>1. ~Waiting(t)'
      BY <2>2, <2>3 DEF Waiting
    <3> QED BY <1>4, <2>1, <2>2, <2>3, <3>1
  <2>4. CASE op # NoOp
    <3>1. fate' = [fate EXCEPT ![op] = "sent"] /\ op \in Ops /\ fate[op] = "unused"
      BY <2>1, <2>4
    <3> QED BY <2>2, <3>1 DEF Sends
  <2> QED BY <2>3, <2>4
<1>6. ASSUME NEW t \in Threads, StartCheckpoint(t) \/ StartSave(t)
      PROVE  Settles
  <2>1. /\ job' = [job EXCEPT ![t] = job'[t]] /\ fate' = fate
        /\ pc' = [pc EXCEPT ![t] = pc'[t]] /\ pc'[t] = "c_snapshot"
    BY <1>6 DEF StartCheckpoint, StartSave, Start
  <2> QED BY <1>4, <2>1 DEF Waiting
<1>7. ASSUME NEW t \in Threads, Finish(t)
      PROVE  /\ job' = [job EXCEPT ![t] = job'[t]]
             /\ pc' = [pc EXCEPT ![t] = pc'[t]] /\ ~Waiting(t)'
  BY <1>7 DEF Finish, Waiting
<1>8. ASSUME NEW t \in Threads, Reject(t) PROVE Settles
  <2>1. CASE fate' = fate
    BY <1>4, <1>7, <1>8, <2>1 DEF Reject
  <2>2. CASE fate' = [fate EXCEPT ![job[t].op] = "error"]
    BY <1>3, <1>7, <1>8, <2>2 DEF Reject
  <2> QED BY <1>8, <2>1, <2>2 DEF Reject
<1>9. ASSUME NEW t \in Threads, LockCatalog(t) PROVE Settles
  <2>1. CASE Finish(t) /\ fate' = fate
    BY <1>4, <1>7, <2>1
  <2>2. CASE pc' = [pc EXCEPT ![t] = "w_append"] /\ job' = job /\ fate' = fate
    <3>1. Waiting(t)' => Waiting(t)
      BY <1>9, <2>2 DEF LockCatalog, Waiting
    <3> QED BY <1>4, <2>2, <3>1
  <2> QED BY <1>8, <1>9, <2>1, <2>2 DEF LockCatalog, observers
<1>10. ASSUME NEW t \in Threads, AppendRecord(t) \/ SyncRecord(t) PROVE Settles
  <2>1. CASE /\ \E next \in {"w_sync", "w_publish"} : pc' = [pc EXCEPT ![t] = next]
             /\ job' = job /\ fate' = fate
    <3>1. ~Waiting(t)' /\ pc' = [pc EXCEPT ![t] = pc'[t]]
      BY <2>1 DEF Waiting
    <3> QED BY <1>4, <2>1, <3>1
  <2> QED BY <1>8, <1>10, <2>1 DEF AppendRecord, SyncRecord, observers
<1>11. ASSUME NEW t \in Threads, Publish(t) PROVE Settles
  <2>1. /\ job' = [job EXCEPT ![t] = job'[t]]
        /\ pc' = [pc EXCEPT ![t] = pc'[t]] /\ ~Waiting(t)'
        /\ fate' = [fate EXCEPT ![job[t].op] = "acked"]
    BY <1>11 DEF Publish, Waiting
  <2> QED BY <1>3, <2>1
<1>12. ASSUME NEW t \in Threads,
              \/ LockSnapshot(t) \/ CaptureCatalog(t) \/ WriteTemporary(t)
              \/ InstallSnapshot(t) \/ BackUpSnapshot(t) \/ InstallOverBackup(t)
              \/ SyncDirectory(t) \/ TruncateLog(t) \/ WriteHeader(t)
       PROVE  Settles
  <2>1. fate' = fate
    BY <1>12 DEF LockSnapshot, CaptureCatalog, WriteTemporary, InstallSnapshot,
                 BackUpSnapshot, InstallOverBackup, SyncDirectory, TruncateLog,
                 WriteHeader, observers
  <2>2. \/ Finish(t)
        \/ /\ \E next \in SavePcs \cup {"c_read"} : pc' = [pc EXCEPT ![t] = next]
           /\ job' = job
    BY <1>12 DEF LockSnapshot, CaptureCatalog, WriteTemporary, InstallSnapshot,
                 BackUpSnapshot, InstallOverBackup, SyncDirectory, TruncateLog,
                 WriteHeader, Goto, SavePcs
  <2>3. ASSUME NEW next \in SavePcs \cup {"c_read"}, pc' = [pc EXCEPT ![t] = next],
               job' = job
        PROVE  Settles
    <3>1. ~Waiting(t)' /\ pc' = [pc EXCEPT ![t] = pc'[t]]
      BY <2>3 DEF Waiting, SavePcs
    <3> QED BY <1>4, <2>1, <2>3, <3>1
  <2> QED BY <1>4, <1>7, <2>1, <2>2, <2>3
<1>13. CASE \/ UNCHANGED vars
            \/ OpenDirectory \/ OpenDirectoryFails \/ Recover \/ ReadForEdit
  BY <1>1, <1>13 DEF vars, threads, observers, OpenDirectory, OpenDirectoryFails,
                     Recover, ReadForEdit
<1> QED BY <1>2, <1>5, <1>6, <1>9, <1>10, <1>11, <1>12, <1>13
        DEF Next, Request, ThreadStep, Kill, PowerLoss

LEMMA FreshStep ==
    ASSUME TypeInv, [Next]_vars, NEW H \in Seq(Ops), NEW G \in Seq(Ops), Fresh(H),
           Continues(G, H)
    PROVE  Fresh(G)'
<1>1. /\ Len(H) \in Nat /\ Len(G) \in Nat
      /\ \A i \in 1 .. Len(H) : H[i] \in Ops
      /\ \A i \in 1 .. Len(G) : G[i] \in Ops
  OBVIOUS
<1>2. \A t \in Threads : Waiting(t) => job[t].op \in Ops
  BY DEF Waiting, TypeInv, TypeOK, ThreadsOK, Jobs
<1>3. CASE Settles
  <2>1. CASE Len(G) \in 0 .. Len(H) /\ \A i \in 1 .. Len(G) : G[i] = H[i]
    <3>1. \A i, j \in 1 .. Len(G) : G[i] = G[j] => i = j
      BY <1>1, <2>1 DEF Fresh
    <3>2. \A i \in 1 .. Len(G) : fate'[G[i]] # "unused"
      BY <1>1, <1>3, <2>1 DEF Fresh, Settles
    <3>3. \A t \in Threads : Waiting(t)' =>
            fate'[job'[t].op] # "unused" /\ \A i \in 1 .. Len(G) : G[i] # job'[t].op
      <4> TAKE t \in Threads
      <4> HAVE Waiting(t)'
      <4>1. Waiting(t) /\ job'[t].op = job[t].op /\ job[t].op \in Ops
        BY <1>2, <1>3 DEF Settles
      <4>2. /\ fate[job[t].op] # "unused"
            /\ \A i \in 1 .. Len(H) : H[i] # job[t].op
        BY <4>1 DEF Fresh
      <4>3. fate'[job[t].op] # "unused"
        BY <1>3, <4>1, <4>2 DEF Settles
      <4>4. \A i \in 1 .. Len(G) : G[i] # job[t].op
        BY <1>1, <2>1, <4>2
      <4> QED BY <4>1, <4>3, <4>4
    <3>4. \A s, t \in Threads :
            Waiting(s)' /\ Waiting(t)' /\ s # t => job'[s].op # job'[t].op
      BY <1>3 DEF Fresh, Settles
    <3> QED BY <3>1, <3>2, <3>3, <3>4 DEF Fresh
  <2>2. ASSUME NEW t \in Threads, pc[t] = "w_append", pc'[t] = "w_sync",
               G = Append(H, job[t].op)
        PROVE  Fresh(G)'
    <3> DEFINE op == job[t].op
    <3>1. Waiting(t) /\ ~Waiting(t)' /\ op \in Ops
      BY <1>2, <2>2 DEF Waiting, TypeInv, WritersHaveMutations, WritePcs
    <3> HIDE DEF op
    <3>2. /\ Len(G) = Len(H) + 1 /\ G[Len(G)] = op
          /\ \A i \in 1 .. Len(H) : G[i] = H[i]
      BY <2>2, <3>1, AppendProperties DEF op
    <3>3. /\ fate[op] # "unused" /\ \A i \in 1 .. Len(H) : H[i] # op
          /\ \A s \in Threads : Waiting(s) /\ s # t => job[s].op # op
      BY <3>1 DEF Fresh, op
    <3>4. \A i \in 1 .. Len(G) : i \in 1 .. Len(H) \/ i = Len(G)
      BY <1>1, <3>2
    <3>5. \A i, j \in 1 .. Len(G) : G[i] = G[j] => i = j
      BY <3>2, <3>3, <3>4 DEF Fresh
    <3>6. \A i \in 1 .. Len(G) : fate'[G[i]] # "unused"
      BY <1>1, <1>3, <3>1, <3>2, <3>3, <3>4 DEF Fresh, Settles
    <3>7. \A s \in Threads : Waiting(s)' =>
            fate'[job'[s].op] # "unused" /\ \A i \in 1 .. Len(G) : G[i] # job'[s].op
      <4> TAKE s \in Threads
      <4> HAVE Waiting(s)'
      <4>1. Waiting(s) /\ job'[s].op = job[s].op /\ job[s].op \in Ops /\ s # t
        BY <1>2, <1>3, <3>1 DEF Settles
      <4>2. /\ fate[job[s].op] # "unused"
            /\ \A i \in 1 .. Len(H) : H[i] # job[s].op
        BY <4>1 DEF Fresh
      <4>3. fate'[job[s].op] # "unused"
        BY <1>3, <4>1, <4>2 DEF Settles
      <4>4. \A i \in 1 .. Len(G) : G[i] # job[s].op
        BY <3>2, <3>3, <3>4, <4>1, <4>2
      <4> QED BY <4>1, <4>3, <4>4
    <3>8. \A r, s \in Threads :
            Waiting(r)' /\ Waiting(s)' /\ r # s => job'[r].op # job'[s].op
      BY <1>3 DEF Fresh, Settles
    <3> QED BY <3>5, <3>6, <3>7, <3>8 DEF Fresh
  <2> QED BY <2>1, <2>2 DEF Continues
<1>4. ASSUME NEW t \in Threads, Sends(t)
      PROVE  Fresh(G)'
  <2> DEFINE op == job'[t].op
  <2>1. /\ pc'[t] = "w_lock" /\ op \in Ops /\ fate[op] = "unused"
        /\ \A s \in Threads \ {t} : pc'[s] = pc[s] /\ job'[s] = job[s]
    BY <1>4 DEF Sends
  <2>2. Len(G) \in 0 .. Len(H) /\ \A i \in 1 .. Len(G) : G[i] = H[i]
    BY <2>1 DEF Continues
  <2>3. /\ fate'[op] # "unused"
        /\ \A o \in Ops : fate[o] # "unused" => fate'[o] # "unused"
    BY <1>4, <2>1 DEF Sends
  <2>4. \A s \in Threads \ {t} : Waiting(s)' => Waiting(s) /\ job'[s].op = job[s].op
    BY <2>1 DEF Waiting
  <2> HIDE DEF op
  <2>5. \A i, j \in 1 .. Len(G) : G[i] = G[j] => i = j
    BY <1>1, <2>2 DEF Fresh
  <2>6. \A i \in 1 .. Len(G) : fate'[G[i]] # "unused"
    BY <1>1, <2>2, <2>3 DEF Fresh
  <2>7. \A i \in 1 .. Len(G) : G[i] # op
    BY <1>1, <2>1, <2>2 DEF Fresh
  <2>8. \A s \in Threads \ {t} : Waiting(s)' =>
          /\ fate'[job'[s].op] # "unused" /\ job'[s].op # op
          /\ \A i \in 1 .. Len(G) : G[i] # job'[s].op
    <3> TAKE s \in Threads \ {t}
    <3> HAVE Waiting(s)'
    <3>1. Waiting(s) /\ job'[s].op = job[s].op /\ job[s].op \in Ops
      BY <1>2, <2>4
    <3>2. /\ fate[job[s].op] # "unused"
          /\ \A i \in 1 .. Len(H) : H[i] # job[s].op
      BY <3>1 DEF Fresh
    <3>3. fate'[job[s].op] # "unused" /\ job[s].op # op
      BY <2>1, <2>3, <3>1, <3>2
    <3>4. \A i \in 1 .. Len(G) : G[i] # job[s].op
      BY <1>1, <2>2, <3>2
    <3> QED BY <3>1, <3>3, <3>4
  <2>9. \A s \in Threads : Waiting(s)' =>
          fate'[job'[s].op] # "unused" /\ \A i \in 1 .. Len(G) : G[i] # job'[s].op
    BY <2>3, <2>7, <2>8 DEF op
  <2>10. \A r, s \in Threads :
          Waiting(r)' /\ Waiting(s)' /\ r # s => job'[r].op # job'[s].op
    <3>1. \A r, s \in Threads \ {t} :
            Waiting(r)' /\ Waiting(s)' /\ r # s => job'[r].op # job'[s].op
      BY <2>4 DEF Fresh
    <3> QED BY <2>8, <3>1 DEF op
  <2> QED BY <2>5, <2>6, <2>9, <2>10 DEF Fresh
<1> QED BY <1>3, <1>4, FateStep

LEMMA OnceInductive ==
    ASSUME FileSystem
    PROVE  /\ Init => OnceInv
           /\ OnceInv /\ [Next]_vars => OnceInv'
<1>1. ASSUME Init PROVE OnceInv
  <2>1. Agree(<< >>) /\ << >> \in Seq(Ops)
    BY <1>1, AgreeInit
  <2>2. Fresh(<< >>)
    BY <1>1 DEF Init, Fresh, Waiting, NoJob
  <2>3. ClosedMemory
    BY <1>1 DEF Init, ClosedMemory, EmptyCatalog
  <2> QED BY <1>1, <2>1, <2>2, <2>3, InitTyped, LocksInit DEF OnceInv
<1>2. ASSUME OnceInv, [Next]_vars PROVE OnceInv'
  <2>1. PICK H \in Seq(Ops) : Agree(H) /\ Fresh(H)
    BY <1>2 DEF OnceInv
  <2>2. PICK G \in Seq(Ops) : Agree(G)' /\ Continues(G, H)
    BY <1>2, <2>1, AgreeStep DEF OnceInv
  <2>3. Fresh(G)'
    BY <1>2, <2>1, <2>2, FreshStep DEF OnceInv
  <2> QED BY <1>2, <2>2, <2>3, TypeStep, LocksStep, ClosedMemoryStep DEF OnceInv
<1> QED BY <1>1, <1>2

LEMMA OnceGivesInjective == OnceInv => AppliedOnce
<1> SUFFICES ASSUME OnceInv PROVE AppliedOnce
  OBVIOUS
<1>1. PICK H \in Seq(Ops) : Agree(H) /\ Fresh(H)
  BY DEF OnceInv
<1>2. TypeInv /\ ckpt \in ckptImages /\ mem.hist \in Seq(Ops)
  BY DEF OnceInv, TypeInv, TypeOK, ProcessOK, Catalogs
<1> DEFINE n == IF status = "open" THEN Visible ELSE Len(H)
<1>3. n \in Nat /\ FilesAgree(H, n)
  BY <1>1, <1>2 DEF Agree, AgreeOpen, AgreeClosed, Visible
<1> HIDE DEF n
\* A beginning of the history has no mutation twice.
<1>4. ASSUME NEW s \in Seq(Ops), Len(s) <= Len(H), \A i \in 1 .. Len(s) : s[i] = H[i]
      PROVE  IsInjective(s)
  <2>1. DOMAIN s = 1 .. Len(s) /\ Len(s) \in Nat /\ Len(H) \in Nat
    OBVIOUS
  <2> QED BY <1>1, <1>4, <2>1 DEF Fresh, IsInjective
<1>5. ASSUME NEW c \in ckptImages, NEW w \in walImages
      PROVE  IsInjective(Replayed(c, w))
  <2>1. /\ Replayed(c, w) \in Seq(Ops)
        /\ Len(Replayed(c, w)) \in n .. Len(H)
        /\ \A i \in 1 .. Len(Replayed(c, w)) : Replayed(c, w)[i] = H[i]
    BY <1>2, <1>3, FilesGive
  <2> QED BY <1>3, <1>4, <2>1
<1>6. IsInjective(mem.hist)
  <2>1. CASE status = "open"
    BY <1>1, <1>2, <1>4, <2>1 DEF Agree, AgreeOpen, MemoryAgrees, Visible
  <2>2. CASE status # "open" /\ mem.hist = << >>
    BY <2>2 DEF IsInjective
  <2>3. CASE status # "open" /\ mem.hist = ckpt.hist
    <3>1. SnapshotOf(ckpt, H, n) /\ n <= Len(H)
      <4>1. n = Len(H)
        BY <2>3 DEF n
      <4> QED BY <1>2, <1>3, <4>1 DEF FilesAgree
    <3>2. Len(mem.hist) <= Len(H) /\ \A i \in 1 .. Len(mem.hist) : mem.hist[i] = H[i]
      BY <1>2, <1>3, <2>3, <3>1 DEF SnapshotOf
    <3> QED BY <1>2, <1>4, <3>2
  <2> QED BY <2>1, <2>2, <2>3 DEF OnceInv, ClosedMemory
<1> QED BY <1>5, <1>6 DEF AppliedOnce

(***************************************************************************)
(* No recovery applies a mutation twice, whichever of a checkpoint and a    *)
(* log that overlap survive.                                                *)
(***************************************************************************)
THEOREM SingleApplication ==
    ASSUME FileSystem
    PROVE  Spec => []AppliedOnce
BY OnceInductive, OnceGivesInjective, PTL DEF Spec
-----------------------------------------------------------------------------
(***************************************************************************)
(* DurableStore implements CommittedLog: every step of the threads, of the  *)
(* failing file system and of the restarts is a step of the one sequence of *)
(* committed mutations, or changes it not at all.                           *)
(***************************************************************************)

\* While the database is closed, its history is the whole of H.
LEMMA ClosedHistory ==
    ASSUME TypeInv, NEW H \in Seq(Ops), Agree(H), status # "open"
    PROVE  History = H
<1>1. FilesAgree(H, Len(H)) /\ Len(H) \in Nat
  BY DEF Agree, AgreeClosed
<1>2. ckpt \in ckptImages /\ wal \in walImages
  BY DEF TypeInv, TypeOK
<1>3. /\ Replayed(ckpt, wal) \in Seq(Ops)
      /\ Len(Replayed(ckpt, wal)) = Len(H)
      /\ \A i \in 1 .. Len(H) : Replayed(ckpt, wal)[i] = H[i]
  BY <1>1, <1>2, FilesGive
<1>4. Replayed(ckpt, wal) = H
  BY <1>1, <1>3, SeqEqual
<1> QED BY <1>4 DEF History

LEMMA RefinesInit == Init => Committed!Init
<1> SUFFICES ASSUME Init PROVE Committed!Init
  OBVIOUS
<1>1. Replayed(Absent, ShortWal) = << >>
  BY DEF Replayed, Absent, ShortWal, Skipped
<1> QED BY <1>1 DEF Init, Committed!Init, History

\* The end of the process keeps what was visible, with at most one mutation more.
LEMMA EndRefines ==
    ASSUME FileSystem, TypeInv, NEW H \in Seq(Ops), Agree(H), Kill \/ PowerLoss
    PROVE  Committed!Stop
<1>1. /\ ckpt' \in ckptImages /\ wal' \in walImages /\ status' = "down"
  BY DEF Kill, PowerLoss, EndProcess, FileSystem, TypeInv, TypeOK
<1> DEFINE n == IF status = "open" THEN Visible ELSE Len(H)
<1>2. n \in Nat /\ FilesAgree(H, n) /\ Len(H) \in Nat
  <2>1. Visible \in Nat
    BY DEF TypeInv, TypeOK, ProcessOK, Catalogs, Visible
  <2> QED BY <2>1 DEF Agree, AgreeOpen, AgreeClosed
<1> HIDE DEF n
<1>3. PICK G \in Seq(Ops) : G = Replayed(ckpt', wal')
  BY <1>1, <1>2, FilesGive
<1>4. Len(G) \in n .. Len(H) /\ \A i \in 1 .. Len(G) : G[i] = H[i]
  BY <1>1, <1>2, <1>3, FilesGive
<1>5. History' = G
  BY <1>1, <1>3 DEF History
<1>6. G = History \/ \E op \in Ops : G = Append(History, op)
  <2>1. CASE status # "open"
    <3>1. Len(G) = Len(H)
      BY <1>2, <1>4, <2>1 DEF n
    <3>2. G = H
      BY <1>4, <3>1, SeqEqual
    <3> QED BY <2>1, <3>2, ClosedHistory
  <2>2. CASE status = "open"
    <3>1. /\ History = mem.hist /\ mem.hist \in Seq(Ops) /\ n = Len(mem.hist)
          /\ Len(H) <= n + 1
          /\ \A i \in 1 .. n : mem.hist[i] = H[i]
      BY <2>2 DEF History, Agree, AgreeOpen, MemoryAgrees, TypeInv, TypeOK,
                  ProcessOK, Catalogs, Visible, n
    <3>2. CASE Len(G) = n
      <4>1. \A i \in 1 .. n : G[i] = mem.hist[i]
        BY <1>4, <3>1, <3>2
      <4>2. G = mem.hist
        BY <3>1, <3>2, <4>1, SeqEqual
      <4> QED BY <3>1, <4>2
    <3>3. CASE Len(G) = n + 1
      <4>1. PICK op \in Ops : op = G[n + 1]
        BY <1>2, <3>3
      <4>2. PICK A \in Seq(Ops) : A = Append(mem.hist, op)
        BY <3>1, AppendProperties
      <4>3. /\ Len(A) = n + 1 /\ A[n + 1] = op
            /\ \A i \in 1 .. n : A[i] = mem.hist[i]
        BY <3>1, <4>2, AppendProperties
      <4>4. \A i \in 1 .. n + 1 : G[i] = A[i]
        <5> TAKE i \in 1 .. n + 1
        <5>1. CASE i \in 1 .. n
          BY <1>2, <1>4, <3>1, <3>3, <4>3, <5>1
        <5>2. CASE i = n + 1
          BY <4>1, <4>3, <5>2
        <5>3. i \in 1 .. n \/ i = n + 1
          BY <1>2
        <5> QED BY <5>1, <5>2, <5>3
      <4>5. G = A
        BY <3>3, <4>3, <4>4, SeqEqual
      <4> QED BY <3>1, <4>2, <4>5
    <3>4. Len(G) = n \/ Len(G) = n + 1
      BY <1>2, <1>4, <3>1
    <3> QED BY <3>2, <3>3, <3>4
  <2> QED BY <2>1, <2>2
<1> QED BY <1>1, <1>5, <1>6 DEF Committed!Stop, Committed!Extended

\* Opening shows what the files hold.
LEMMA OpeningRefines ==
    ASSUME TypeInv, NEW H \in Seq(Ops), Agree(H),
           OpenDirectory \/ OpenDirectoryFails \/ Recover
    PROVE  Committed!Restart \/ UNCHANGED Committed!vars
<1>1. wal \in Wals /\ ckpt \in ckptImages /\ wal \in walImages
  BY DEF TypeInv, TypeOK, FilesOK
<1>2. CASE OpenDirectory \/ OpenDirectoryFails
  <2>1. /\ ckpt' = ckpt /\ wal' \in {wal, Repaired(wal)}
        /\ status # "open" /\ status' # "open"
    BY <1>2 DEF OpenDirectory, OpenDirectoryFails
  <2>2. wal'.recs = wal.recs
    BY <1>1, <2>1, RepairedType
  <2>3. History' = History
    BY <2>1, <2>2 DEF History, Replayed, Skipped
  <2> QED BY <2>1, <2>3 DEF Committed!vars
<1>3. CASE Recover
  <2>1. FilesAgree(H, Len(H)) /\ Len(H) \in Nat /\ status = "recovering"
    BY <1>3 DEF Recover, Agree, AgreeClosed
  <2>2. Replayable(ckpt, wal)
    BY <1>1, <2>1, FilesGive
  <2>3. status' = "open" /\ mem'.hist = Replayed(ckpt, wal)
    BY <1>3, <2>2 DEF Recover
  <2> QED BY <2>1, <2>3 DEF History, Committed!Restart
<1> QED BY <1>2, <1>3

\* A thread commits when it publishes, and only then.
LEMMA ThreadRefines ==
    ASSUME TypeInv, LocksHeld, NEW H \in Seq(Ops), Agree(H), NEW t \in Threads,
           Request(t) \/ ThreadStep(t)
    PROVE  Committed!Commit \/ UNCHANGED Committed!vars
<1>1. status = "open" /\ status' = "open" /\ (Publish(t) \/ mem' = mem)
  BY DEF Request, StartWrite, StartCheckpoint, StartSave, Start, ThreadStep,
         LockCatalog, AppendRecord, SyncRecord, Publish, LockSnapshot,
         CaptureCatalog, WriteTemporary, InstallSnapshot, BackUpSnapshot,
         InstallOverBackup, SyncDirectory, TruncateLog, WriteHeader, disk
<1>2. History = mem.hist /\ History' = mem'.hist
  BY <1>1 DEF History
<1>3. CASE mem' = mem
  BY <1>1, <1>2, <1>3 DEF Committed!vars
<1>4. CASE Publish(t)
  <2>1. mem'.hist = Append(mem.hist, job[t].op)
    BY <1>1, <1>4, PublishAgrees DEF Agree
  <2>2. job[t].op \in Ops
    BY <1>4 DEF Publish, TypeInv, WritersHaveMutations, WritePcs
  <2> QED BY <1>1, <1>2, <2>1, <2>2 DEF Committed!Commit, Committed!Extended
<1> QED BY <1>1, <1>3, <1>4

LEMMA RefinesNext ==
    ASSUME FileSystem, SafetyInv, [Next]_vars
    PROVE  [Committed!Next]_(Committed!vars)
<1>1. PICK H \in Seq(Ops) : Agree(H)
  BY DEF SafetyInv
<1>2. TypeInv /\ LocksHeld
  BY DEF SafetyInv
<1>3. CASE UNCHANGED vars \/ ReadForEdit
  BY <1>3 DEF vars, disk, ReadForEdit, History, Committed!vars
<1>4. CASE Kill \/ PowerLoss
  BY <1>1, <1>2, <1>4, EndRefines DEF Committed!Next
<1>5. CASE OpenDirectory \/ OpenDirectoryFails \/ Recover
  BY <1>1, <1>2, <1>5, OpeningRefines DEF Committed!Next
<1>6. ASSUME NEW t \in Threads, Request(t) \/ ThreadStep(t)
      PROVE  [Committed!Next]_(Committed!vars)
  BY <1>1, <1>2, <1>6, ThreadRefines DEF Committed!Next
<1> QED BY <1>3, <1>4, <1>5, <1>6 DEF Next

(***************************************************************************)
(* The store is one sequence of committed mutations: committed one at a     *)
(* time, kept by every stop and shown again by every restart.               *)
(***************************************************************************)
THEOREM Refinement ==
    ASSUME FileSystem
    PROVE  Spec => ImplementsCommittedLog
BY RefinesInit, RefinesNext, SafetyInvariant, PTL
   DEF Spec, ImplementsCommittedLog, Committed!Spec
=============================================================================
