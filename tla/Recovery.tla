------------------------------ MODULE Recovery ------------------------------
(***************************************************************************)
(* The two files of a durable data directory, vectors.vdb (the checkpoint)  *)
(* and vectors.wal (the write-ahead log), and what the program makes of     *)
(* them when it opens the directory (src/durable.rs open_wal, src/engine.rs *)
(* recover).                                                                *)
(*                                                                          *)
(* A catalog is the effect of the mutations applied to the empty catalog,   *)
(* in order, so its content is modelled by that sequence of mutations, its  *)
(* history.  Every mutation is an element of Ops; NoOp stands for any       *)
(* mutation that affects no row, which the program never logs.              *)
(*                                                                          *)
(* Bytes are abstracted to what recovery can tell apart: a complete header  *)
(* or less, complete records with a right or a wrong checksum, and an       *)
(* incomplete last record (torn).                                           *)
(***************************************************************************)
EXTENDS Integers, Sequences, SequencesExt, Functions

CONSTANTS Ops,   \* the mutations that change the catalog
          NoOp   \* a mutation that changes nothing

ASSUME NoOpIsNoMutation == NoOp \notin Ops

(***************************************************************************)
(* A snapshot file holds a catalog and its durable sequence.  A missing     *)
(* file is read as the default catalog, whose sequence is zero.             *)
(***************************************************************************)
Snapshots == [exists : BOOLEAN, seq : Nat, hist : Seq(Ops)]

Absent == [exists |-> FALSE, seq |-> 0, hist |-> << >>]

Records == [seq : Nat, op : Ops \cup {NoOp}, sum : BOOLEAN]

Wals == [header : BOOLEAN, recs : Seq(Records), torn : BOOLEAN]

EmptyWal == [header |-> TRUE, recs |-> << >>, torn |-> FALSE]

\* A log cut below its header: set_len(0), or a file just created.
ShortWal == [header |-> FALSE, recs |-> << >>, torn |-> FALSE]

Record(sequence, op) == [seq |-> sequence, op |-> op, sum |-> TRUE]

(***************************************************************************)
(* A record written behind the remains of an incomplete one: the reader     *)
(* takes its first bytes for the end of the incomplete record, whose        *)
(* checksum then fails.                                                     *)
(***************************************************************************)
Written(w, rec) ==
    [header |-> w.header,
     recs |-> Append(w.recs, [rec EXCEPT !.sum = ~w.torn]),
     torn |-> FALSE]

Torn(w) == [w EXCEPT !.torn = TRUE]

(***************************************************************************)
(* open_wal accepts the log: every complete record has its checksum and     *)
(* carries the sequence number after its predecessor's.  The torn tail is   *)
(* not part of this: it is cut off, never refused.                          *)
(***************************************************************************)
WellFormed(w) ==
    /\ \A i \in DOMAIN w.recs : w.recs[i].sum
    /\ \A i \in 2 .. Len(w.recs) : w.recs[i].seq = w.recs[i - 1].seq + 1

(***************************************************************************)
(* open_wal writes the header of a log that has none, and cuts the torn     *)
(* tail off a well-formed one, before the database may append to it.        *)
(***************************************************************************)
NeedsRepair(w) == ~w.header \/ (w.torn /\ WellFormed(w))

Repaired(w) == [w EXCEPT !.header = TRUE, !.torn = FALSE]

Bound(n, low, high) == IF n < low THEN low ELSE IF n > high THEN high ELSE n

\* Varies Skipped: every record is replayed, whatever the checkpoint holds.
SkippedNone(c, w) == 0

(***************************************************************************)
(* The records recovery skips: those a well-formed log holds up to the      *)
(* checkpoint's sequence.                                                   *)
(***************************************************************************)
Skipped(c, w) ==
    IF w.recs = << >> THEN 0
    ELSE Bound(c.seq + 1 - w.recs[1].seq, 0, Len(w.recs))

(***************************************************************************)
(* recover accepts the two files: the first record it replays carries the   *)
(* sequence number after the checkpoint's (the next ones follow, as the log *)
(* is well formed), and every record it replays changes the catalog.        *)
(***************************************************************************)
Replayable(c, w) ==
    LET first == Skipped(c, w) + 1 IN
    /\ first <= Len(w.recs) => w.recs[first].seq = c.seq + 1
    /\ \A i \in first .. Len(w.recs) : w.recs[i].op \in Ops

\* The history of the catalog that recovery builds.
Replayed(c, w) ==
    c.hist \o [i \in 1 .. Len(w.recs) - Skipped(c, w) |->
                    w.recs[Skipped(c, w) + i].op]

\* The sequence number recovery ends with.
ReplayedSeq(c, w) == c.seq + Len(w.recs) - Skipped(c, w)

Recoverable(c, w) == WellFormed(w) /\ Replayable(c, w)
=============================================================================
