---------------------------- MODULE ServerProofs ----------------------------
(***************************************************************************)
(* Proofs about the server process, for any set of lives, any number of     *)
(* slots and any bounds: its permits match its tasks, and a clean stop      *)
(* leaves everything it acknowledged in the snapshot.                       *)
(*                                                                          *)
(* The inductive invariant adds to the types what keeps the snapshot file   *)
(* monotonic (Copies: whoever holds the lock holds a copy at least as new   *)
(* as the file) and what ties the main task to its last save (Stops).       *)
(***************************************************************************)
EXTENDS Server, FiniteSetTheorems, TLAPS

Listings == [revision : Nat, schema : Nat]
Tasks == [at : {"free", "queued", "running", "schema", "checked", "revision", "done"},
          kind : Kinds \cup {"none"}, client : BOOLEAN, expected : Listings \cup {NoView},
          schema : Nat \cup {NoView}, commit : Nat]

Types ==
    /\ task \in [Slots -> Tasks]
    /\ \A s \in Slots : task[s].at = "revision" => task[s].expected \in Listings
    /\ view \in Listings \cup {NoView}
    /\ {acked, revision, schema, disk, saved} \subseteq Nat
    /\ snapshot \in [owner : {"none", "saver", "main"}, revision : Nat]
    /\ failed \in BOOLEAN
    /\ main \in {"preparing", "binding", "serving", "draining", "dropping", "cleaning",
                 "stopped", "joining", "saving", "writing", "ended"}
    /\ saver \in {"waiting", "saving", "writing", "returned"}
    /\ revision <= MaxRevision

Permits == IsFiniteSet(Busy) /\ inFlight = Cardinality(Busy) /\ inFlight <= life.limit

\* Nothing known to a client or a file is newer than the catalog.
Known ==
    /\ acked <= revision
    /\ \A s \in Slots : task[s].commit <= revision
    /\ life \in Lives

Copies ==
    /\ snapshot.owner = "saver" <=> saver = "writing"
    /\ snapshot.owner = "main" <=> main = "writing"
    /\ saved <= disk /\ disk <= revision
    /\ snapshot.owner # "none" => disk <= snapshot.revision /\ snapshot.revision <= revision

Stops ==
    /\ main \in {"saving", "writing", "ended"} => saver = "returned"
    /\ main = "writing" => acked <= snapshot.revision
    /\ main = "ended" /\ ~failed => acked <= disk

IInv == Types /\ Known /\ Copies /\ Stops

-----------------------------------------------------------------------------
(* What a change of one task does to the number of tasks that hold permits. *)

Holding == {"queued", "running", "schema", "checked", "revision"}

\* One task comes to hold a permit: acquire() in Admit.
LEMMA BusyGrows ==
    ASSUME NEW s \in Slots, task \in [Slots -> Tasks], task' \in [Slots -> Tasks],
           \A t \in Slots \ {s} : task'[t].at = task[t].at,
           task[s].at \notin Holding, task'[s].at \in Holding, IsFiniteSet(Busy)
    PROVE  IsFiniteSet(Busy') /\ Cardinality(Busy') = Cardinality(Busy) + 1
<1>1. Busy' = Busy \cup {s} /\ s \notin Busy
  BY DEF Busy, Holding
<1>2. QED
  BY <1>1, FS_AddElement

\* One task gives its permit back: the closure returned or was dropped.
LEMMA BusyShrinks ==
    ASSUME NEW s \in Slots, task \in [Slots -> Tasks], task' \in [Slots -> Tasks],
           \A t \in Slots \ {s} : task'[t].at = task[t].at,
           task[s].at \in Holding, task'[s].at \notin Holding, IsFiniteSet(Busy)
    PROVE  /\ IsFiniteSet(Busy')
           /\ Cardinality(Busy) \in Nat \ {0}
           /\ Cardinality(Busy') = Cardinality(Busy) - 1
<1>1. Busy' = Busy \ {s} /\ s \in Busy
  BY DEF Busy, Holding
<1>2. Cardinality(Busy) \in Nat /\ Cardinality(Busy) # 0
  BY <1>1, FS_CardinalityType, FS_EmptySet
<1>3. QED
  BY <1>1, <1>2, FS_RemoveElement

\* Any other change of a task leaves them as they are.
LEMMA BusyStays ==
    ASSUME task \in [Slots -> Tasks], task' \in [Slots -> Tasks],
           \A t \in Slots : task'[t].at \in Holding <=> task[t].at \in Holding
    PROVE  Busy' = Busy
  BY DEF Busy, Holding

-----------------------------------------------------------------------------
(* The invariant holds initially and is kept by every action.               *)

LEMMA InvInit == Init => IInv
<1> SUFFICES ASSUME Init PROVE IInv
  OBVIOUS
<1> USE ServerAssumption, LivesAssumption DEF Init
<1>1. Types
  <2>1. Free \in Tasks /\ Free.at = "free"
    BY DEF Free, Tasks
  <2>2. snapshot \in [owner : {"none", "saver", "main"}, revision : Nat]
    BY DEF Unlocked
  <2>3. saver \in {"waiting", "returned"}
    OBVIOUS
  <2>4. task \in [Slots -> Tasks] /\ \A s \in Slots : task[s].at = "free"
    BY <2>1
  <2>5. view \in Listings \cup {NoView} /\ failed \in BOOLEAN
    BY Zenon
  <2>7. revision <= MaxRevision
    <3>1. MaxRevision \in Nat /\ revision = 0
      OBVIOUS
    <3>2. QED
      BY <3>1
  <2>6. QED
    BY <2>2, <2>3, <2>4, <2>5, <2>7 DEF Types
<1>2. Known
  BY DEF Known, Free
<1>3. Copies
  BY DEF Copies, Unlocked
<1>4. Stops
  BY DEF Stops
<1>5. QED
  BY <1>1, <1>2, <1>3, <1>4 DEF IInv

\* What the actions of requests have in common: one task becomes r, the catalog
\* may gain a commit, and only a server that answers tells anybody of one.
Moves(s, r) ==
    /\ r \in Tasks /\ (r.at = "revision" => r.expected \in Listings)
    /\ task' = [task EXCEPT ![s] = r]
    /\ revision' \in Nat /\ revision <= revision' /\ revision' <= MaxRevision /\ schema' \in Nat
    /\ r.commit <= revision'
    /\ \/ acked' = acked
       \/ acked' \in Nat /\ acked' <= revision' /\ main \in {"serving", "draining"}
    /\ view' \in Listings \cup {NoView}
    /\ UNCHANGED <<server, autosave, storage>>

LEMMA TaskStep == ASSUME IInv, NEW s \in Slots, NEW r, Moves(s, r) PROVE IInv'
<1> USE DEF Moves
<1> USE ServerAssumption DEF IInv, server, autosave, storage
<1>1. Types'
  <2>1. task' \in [Slots -> Tasks]
    BY DEF Types
  <2>2. \A x \in Slots : task'[x].at = "revision" => task'[x].expected \in Listings
    BY DEF Types
  <2>3. acked' \in Nat
    BY DEF Types
  <2>4. QED
    BY <2>1, <2>2, <2>3 DEF Types
<1>2. Known'
  <2>1. acked' <= revision'
    BY DEF Types, Known
  <2>2. \A x \in Slots : task'[x].commit <= revision'
    <3> TAKE x \in Slots
    <3>1. CASE x = s
      BY <3>1 DEF Types
    <3>2. CASE x # s
      <4>1. task'[x] = task[x] /\ task[x].commit \in Nat /\ task[x].commit <= revision
        BY <3>2 DEF Types, Known, Tasks
      <4>2. QED
        BY <4>1 DEF Types
    <3>3. QED
      BY <3>1, <3>2
  <2>3. QED
    BY <2>1, <2>2 DEF Known
<1>3. Copies'
  BY DEF Types, Copies
<1>4. Stops'
  BY DEF Types, Stops
<1>5. QED
  BY <1>1, <1>2, <1>3, <1>4

-----------------------------------------------------------------------------
(* Every action keeps the invariant.                                         *)

LEMMA AdmitMoves ==
    ASSUME IInv, NEW s \in Slots, NEW kind \in Kinds, Admit(s, kind) PROVE IInv'
<1> DEFINE r == [Free EXCEPT !.at = "queued", !.kind = kind, !.client = TRUE,
                             !.expected = IF kind = "edit" THEN view ELSE NoView]
<1>1. r \in Tasks /\ r.at = "queued" /\ r.commit = 0
  BY DEF IInv, Types, Free, Tasks
<1>2. Moves(s, r)
  BY <1>1 DEF Moves, Admit, IInv, Types, Known, catalog
<1>3. QED
  BY <1>2, TaskStep

\* A task moves and nobody is told anything.
LEMMA QuietStep ==
    ASSUME IInv, NEW s \in Slots, NEW r \in Tasks, r.commit <= revision,
           r.at = "revision" => r.expected \in Listings,
           task' = [task EXCEPT ![s] = r],
           UNCHANGED <<acked, view, server, catalog, autosave, storage>>
    PROVE  IInv'
<1>1. Moves(s, r)
  BY DEF Moves, catalog, IInv, Types
<1>2. QED
  BY <1>1, TaskStep

\* What a task is before it moves, and when its closure has returned.
LEMMA TaskType ==
    ASSUME IInv, NEW s \in Slots
    PROVE  /\ task[s] \in Tasks /\ task[s].commit <= revision
           /\ Done(s) \in Tasks /\ Done(s).at = "done" /\ Done(s).commit = 0
           /\ {revision, schema, acked} \subseteq Nat /\ revision <= MaxRevision
           /\ view \in Listings \cup {NoView}
<1>1. task[s] \in Tasks /\ task[s].commit <= revision
  BY DEF IInv, Types, Known
<1>2. task[s].client \in BOOLEAN
  BY <1>1 DEF Tasks
<1>3. Done(s) \in Tasks /\ Done(s).at = "done" /\ Done(s).commit = 0
  BY <1>2 DEF Done, Free, Tasks
<1>4. QED
  BY <1>1, <1>3 DEF IInv, Types

\* A closure returns with nothing committed.
LEMMA DoneStep ==
    ASSUME IInv, NEW s \in Slots, task' = [task EXCEPT ![s] = Done(s)],
           UNCHANGED <<acked, view, server, catalog, autosave, storage>>
    PROVE  IInv'
<1> DEFINE r == Done(s)
<1>1. r \in Tasks /\ r.commit <= revision /\ r.at = "done" /\ task' = [task EXCEPT ![s] = r]
  BY TaskType
<1> HIDE DEF r
<1>2. QED
  BY <1>1, QuietStep

LEMMA LeaveMoves == ASSUME IInv, NEW s \in Slots, Leave(s) PROVE IInv'
<1> DEFINE r == [task[s] EXCEPT !.client = FALSE]
<1>1. r \in Tasks /\ r.commit <= revision /\ (r.at = "revision" => r.expected \in Listings)
  BY TaskType DEF IInv, Types, Tasks
<1>2. task' = [task EXCEPT ![s] = r] /\ UNCHANGED <<acked, view, server, catalog, autosave, storage>>
  BY TaskType DEF Leave, Returns, Tasks
<1> HIDE DEF r
<1>3. QED
  BY <1>1, <1>2, QuietStep

LEMMA BeginMoves == ASSUME IInv, NEW s \in Slots, Begin(s) PROVE IInv'
<1> DEFINE r == [task[s] EXCEPT !.at = "running"]
<1>1. r \in Tasks /\ r.commit <= revision /\ (r.at = "revision" => r.expected \in Listings)
  BY TaskType DEF Tasks
<1>2. task' = [task EXCEPT ![s] = r] /\ UNCHANGED <<acked, view, server, catalog, autosave, storage>>
  BY TaskType DEF Begin, Returns, Tasks
<1> HIDE DEF r
<1>3. QED
  BY <1>1, <1>2, QuietStep

LEMMA ReadSchemaMoves == ASSUME IInv, NEW s \in Slots, ReadSchema(s) PROVE IInv'
<1> DEFINE r == [task[s] EXCEPT !.at = "schema", !.schema = schema]
<1>1. r \in Tasks /\ r.commit <= revision /\ (r.at = "revision" => r.expected \in Listings)
  BY TaskType DEF Tasks
<1>2. task' = [task EXCEPT ![s] = r] /\ UNCHANGED <<acked, view, server, catalog, autosave, storage>>
  BY TaskType DEF ReadSchema, Returns, Tasks
<1> HIDE DEF r
<1>3. QED
  BY <1>1, <1>2, QuietStep

LEMMA ListRevisionMoves == ASSUME IInv, NEW s \in Slots, ListRevision(s) PROVE IInv'
<1> DEFINE r == [task[s] EXCEPT !.at = "revision", !.expected = [revision |-> revision, schema |-> schema]]
<1>1. r \in Tasks /\ r.commit <= revision /\ (r.at = "revision" => r.expected \in Listings)
  BY TaskType DEF Tasks, Listings
<1>2. task' = [task EXCEPT ![s] = r] /\ UNCHANGED <<acked, view, server, catalog, autosave, storage>>
  BY TaskType DEF ListRevision, Returns, Tasks
<1> HIDE DEF r
<1>3. QED
  BY <1>1, <1>2, QuietStep

LEMMA ListTablesMoves == ASSUME IInv, NEW s \in Slots, ListTables(s) PROVE IInv'
<1> DEFINE r == [Done(s) EXCEPT !.kind = "list", !.expected = [task[s].expected EXCEPT !.schema = schema]]
<1>1. r \in Tasks /\ r.commit <= revision /\ (r.at = "revision" => r.expected \in Listings)
  <2>1. task[s].expected \in Listings /\ schema \in Nat
    BY DEF ListTables, IInv, Types
  <2>2. [task[s].expected EXCEPT !.schema = schema] \in Listings
    BY <2>1 DEF Listings
  <2>3. Done(s) \in Tasks /\ Done(s).at = "done" /\ Done(s).commit = 0 /\ revision \in Nat
    BY TaskType
  <2> DEFINE e == [task[s].expected EXCEPT !.schema = schema]
  <2>4. e \in Listings
    BY <2>2
  <2> HIDE DEF e
  <2>5. [Done(s) EXCEPT !.kind = "list", !.expected = e] \in Tasks
    BY <2>3, <2>4 DEF Tasks, Kinds
  <2>6. r = [Done(s) EXCEPT !.kind = "list", !.expected = e]
    BY DEF e
  <2>7. r.at = "done" /\ r.commit = 0
    BY <2>3, <2>6 DEF Tasks
  <2>8. QED
    BY <2>3, <2>5, <2>6, <2>7
<1>2. task' = [task EXCEPT ![s] = r] /\ UNCHANGED <<acked, view, server, catalog, autosave, storage>>
  BY TaskType DEF ListTables, Returns, Tasks
<1> HIDE DEF r
<1>3. QED
  BY <1>1, <1>2, QuietStep

LEMMA CancelMoves == ASSUME IInv, NEW s \in Slots, Cancel(s) PROVE IInv'
<1> DEFINE r == Free
<1>1. r \in Tasks /\ r.commit <= revision /\ (r.at = "revision" => r.expected \in Listings)
  BY TaskType DEF Free, Tasks
<1>2. task' = [task EXCEPT ![s] = r] /\ UNCHANGED <<acked, view, server, catalog, autosave, storage>>
  BY TaskType DEF Cancel, Returns, Tasks
<1> HIDE DEF r
<1>3. QED
  BY <1>1, <1>2, QuietStep

LEMMA CheckRevisionMoves == ASSUME IInv, NEW s \in Slots, CheckRevision(s) PROVE IInv'
<1>1. UNCHANGED <<acked, view, server, catalog, autosave, storage>>
  BY DEF CheckRevision, Returns
<1>2. CASE task' = [task EXCEPT ![s] = Done(s)]
  BY <1>1, <1>2, DoneStep
<1>3. CASE task' = [task EXCEPT ![s].at = "checked"]
  <2> DEFINE r == [task[s] EXCEPT !.at = "checked"]
  <2>1. r \in Tasks /\ r.commit <= revision /\ r.at # "revision"
    BY TaskType DEF Tasks
  <2>2. task' = [task EXCEPT ![s] = r]
    BY <1>3
  <2> HIDE DEF r
  <2>3. QED
    BY <1>1, <2>1, <2>2, QuietStep
<1>4. QED
  BY <1>2, <1>3 DEF CheckRevision, Returns

\* A commit is one more revision, and its answer is still to be given.
LEMMA CommitMoves ==
    ASSUME IInv, NEW s \in Slots, Committing(s), schema' \in {schema, revision'},
           UNCHANGED <<server, autosave, storage>>
    PROVE  IInv'
<1> DEFINE r == [Done(s) EXCEPT !.commit = revision']
<1>1. revision' = revision + 1 /\ revision < MaxRevision /\ revision \in Nat /\ MaxRevision \in Nat
  BY TaskType, ServerAssumption DEF Committing
<1>2. r \in Tasks /\ r.at = "done" /\ r.commit = revision'
  BY <1>1, TaskType DEF Tasks
<1>3. task' = [task EXCEPT ![s] = r] /\ acked' = acked /\ view' = view
  BY DEF Committing, Returns
<1> HIDE DEF r
<1>4. Moves(s, r)
  BY <1>1, <1>2, <1>3, TaskType DEF Moves
<1>5. QED
  BY <1>4, TaskStep

LEMMA ExecuteMoves == ASSUME IInv, NEW s \in Slots, Execute(s) PROVE IInv'
<1>1. CASE Returns(s, Done(s)) /\ UNCHANGED catalog
  BY <1>1, DoneStep DEF Execute, Returns
<1>2. CASE Committing(s) /\ schema' = IF task[s].kind = "define" THEN revision' ELSE schema
  BY <1>2, CommitMoves DEF Execute
<1>3. QED
  BY <1>1, <1>2 DEF Execute

LEMMA ExecuteIfRevisionMoves == ASSUME IInv, NEW s \in Slots, ExecuteIfRevision(s) PROVE IInv'
<1>1. CASE Returns(s, Done(s)) /\ UNCHANGED catalog
  BY <1>1, DoneStep DEF ExecuteIfRevision, Returns
<1>2. CASE Committing(s) /\ UNCHANGED schema
  BY <1>2, CommitMoves DEF ExecuteIfRevision
<1>3. QED
  BY <1>1, <1>2 DEF ExecuteIfRevision

\* Only a server that still serves or drains tells a client of a commit.
LEMMA AnswerMoves == ASSUME IInv, NEW s \in Slots, Answer(s) PROVE IInv'
<1>1. Free \in Tasks /\ Free.commit = 0 /\ Free.at = "free"
  BY DEF Free, Tasks
<1>2. acked' = acked \/ (acked' = task[s].commit /\ main \in {"serving", "draining"})
  BY DEF Answer
<1>3. view' \in Listings \cup {NoView}
  BY TaskType DEF Answer, IInv, Types, Tasks
<1>4. task' = [task EXCEPT ![s] = Free] /\ UNCHANGED <<server, catalog, autosave, storage>>
  BY DEF Answer
<1>5. task[s].commit \in Nat /\ task[s].commit <= revision
  BY TaskType DEF Tasks
<1>6. Moves(s, Free)
  BY <1>1, <1>2, <1>3, <1>4, <1>5, TaskType DEF Moves, catalog
<1>7. QED
  BY <1>6, TaskStep

LEMMA DropKeeps == ASSUME IInv, DropConnections PROVE IInv'
<1>1. /\ task' = [x \in Slots |-> [task[x] EXCEPT !.client = FALSE]]
      /\ main \in {"draining", "dropping"} /\ main' = "cleaning"
      /\ UNCHANGED <<life, failed, acked, view, revision, schema, saver, saved, disk, snapshot>>
  BY DEF DropConnections, Goto, catalog, autosave, storage
<1>2. ASSUME NEW x \in Slots
      PROVE  /\ task'[x] \in Tasks /\ task'[x].commit <= revision
             /\ task'[x].at = "revision" => task'[x].expected \in Listings
  BY <1>1, TaskType DEF IInv, Types, Tasks
<1>3. Types'
  <2>1. task' \in [Slots -> Tasks] /\ \A x \in Slots : task'[x].at = "revision" => task'[x].expected \in Listings
    BY <1>1, <1>2
  <2>2. QED
    BY <1>1, <2>1 DEF IInv, Types
<1>4. Known'
  BY <1>1, <1>2 DEF IInv, Known
<1>5. Copies' /\ Stops'
  BY <1>1 DEF IInv, Copies, Stops
<1>6. QED
  BY <1>3, <1>4, <1>5 DEF IInv

\* The copy that is installed is at least as new as the file and as anything
\* acknowledged: whoever made it held the lock since.
LEMMA FinalSaveEndsKeeps == ASSUME IInv, FinalSaveEnds PROVE IInv'
<1>1. /\ main = "writing" /\ main' = "ended" /\ saver = "returned" /\ snapshot.owner = "main"
      /\ snapshot' = Unlocked /\ failed' \in BOOLEAN
      /\ disk' = snapshot.revision \/ (disk' = disk /\ failed' = TRUE)
      /\ UNCHANGED <<life, task, acked, view, revision, schema, saver, saved>>
  BY DEF FinalSaveEnds, Goto, Installs, Fails, IInv, Types, Copies, Stops, requests, catalog, autosave
<1>2. Types'
  BY <1>1 DEF IInv, Types, Unlocked
<1>3. Known'
  BY <1>1 DEF IInv, Known
<1>4. Copies'
  BY <1>1 DEF IInv, Types, Copies, Unlocked
<1>5. Stops'
  BY <1>1 DEF IInv, Stops
<1>6. QED
  BY <1>2, <1>3, <1>4, <1>5 DEF IInv

LEMMA SaveEndsKeeps == ASSUME IInv, SaveEnds PROVE IInv'
<1>1. /\ saver = "writing" /\ saver' = "waiting" /\ snapshot.owner = "saver" /\ snapshot' = Unlocked
      /\ \/ disk' = snapshot.revision /\ saved' = snapshot.revision
         \/ disk' = disk /\ saved' = saved
      /\ UNCHANGED <<life, main, failed, task, acked, view, revision, schema>>
  BY DEF SaveEnds, Installs, Fails, IInv, Copies, server, requests, catalog
<1>2. Types'
  BY <1>1 DEF IInv, Types, Unlocked
<1>3. Known'
  BY <1>1 DEF IInv, Known
<1>4. Copies'
  BY <1>1 DEF IInv, Types, Copies, Stops, Unlocked
<1>5. Stops'
  BY <1>1 DEF IInv, Copies, Stops
<1>6. QED
  BY <1>2, <1>3, <1>4, <1>5 DEF IInv

LEMMA InvNext == IInv /\ [Next]_vars => IInv'
<1> SUFFICES ASSUME IInv, [Next]_vars PROVE IInv'
  OBVIOUS
<1>1. ASSUME NEW s \in Slots, NEW kind \in Kinds, Admit(s, kind) PROVE IInv'
  BY <1>1, AdmitMoves
<1>2. ASSUME NEW s \in Slots, Leave(s) \/ Work(s) PROVE IInv'
  BY <1>2, LeaveMoves, BeginMoves, ExecuteMoves, ReadSchemaMoves, CheckRevisionMoves, ExecuteIfRevisionMoves,
     ListRevisionMoves, ListTablesMoves, AnswerMoves, CancelMoves DEF Work
<1>3. CASE TimedOut
  BY <1>3, SMTT(20) DEF IInv, Types, Known, Copies, Stops, server, requests, catalog, autosave, storage, TimedOut, Wake
<1>4. CASE Notified
  BY <1>4, SMTT(20) DEF IInv, Types, Known, Copies, Stops, server, requests, catalog, autosave, storage, Notified
<1>5. CASE SaveIfChanged
  BY <1>5, SMTT(20) DEF IInv, Types, Known, Copies, Stops, server, requests, catalog, autosave, storage, SaveIfChanged, Capture, Unlocked
<1>6. CASE SaveEnds
  BY <1>6, SaveEndsKeeps
<1>7. CASE Prepare
  BY <1>7, SMTT(20) DEF IInv, Types, Known, Copies, Stops, server, requests, catalog, autosave, storage, Prepare
<1>8. CASE Bind
  <2>1. /\ main = "binding" /\ main' \in {"serving", "stopped"} /\ failed' \in BOOLEAN
        /\ UNCHANGED <<life, requests, catalog, autosave, storage>>
    BY <1>8 DEF Bind, Goto, IInv, Types
  <2>2. Types' /\ Known'
    BY <2>1 DEF IInv, Types, Known, requests, catalog, autosave, storage
  <2>3. Copies' /\ Stops'
    BY <2>1 DEF IInv, Copies, Stops, requests, catalog, autosave, storage
  <2>4. QED
    BY <2>2, <2>3 DEF IInv
<1>9. CASE Drained
  BY <1>9, SMTT(20) DEF IInv, Types, Known, Copies, Stops, server, requests, catalog, autosave, storage, Drained, Goto
<1>10. CASE DropConnections
  BY <1>10, DropKeeps
<1>11. CASE CleanUp
  BY <1>11, SMTT(20) DEF IInv, Types, Known, Copies, Stops, server, requests, catalog, autosave, storage, CleanUp, Goto
<1>12. CASE StopSaver
  BY <1>12, SMTT(20) DEF IInv, Types, Known, Copies, Stops, server, requests, catalog, autosave, storage, StopSaver, Goto
<1>13. CASE Join
  BY <1>13, SMTT(20) DEF IInv, Types, Known, Copies, Stops, server, requests, catalog, autosave, storage, Join, Goto
<1>14. CASE FinalSave
  BY <1>14, SMTT(20) DEF IInv, Types, Known, Copies, Stops, server, requests, catalog, autosave, storage, FinalSave, Capture, Unlocked, Goto
<1>15. CASE FinalSaveEnds
  BY <1>15, FinalSaveEndsKeeps
<1>16. CASE Watch
  BY <1>16, SMTT(20) DEF IInv, Types, Known, Copies, Stops, server, requests, catalog, autosave, storage, Watch, Goto
<1>17. CASE Signal
  BY <1>17, SMTT(20) DEF IInv, Types, Known, Copies, Stops, server, requests, catalog, autosave, storage, Signal, Goto
<1>18. CASE MakeFile
  BY <1>18, SMTT(20) DEF IInv, Types, Known, Copies, Stops, server, requests, catalog, autosave, storage, MakeFile
<1>19. CASE RemoveOther
  BY <1>19, SMTT(20) DEF IInv, Types, Known, Copies, Stops, server, requests, catalog, autosave, storage, RemoveOther
<1>20. CASE UNCHANGED vars
  BY <1>20, SMTT(20) DEF IInv, Types, Known, Copies, Stops, server, requests, catalog, autosave, storage, vars
<1>21. QED
  BY <1>1, <1>2, <1>3, <1>4, <1>5, <1>6, <1>7, <1>8, <1>9, <1>10, <1>11, <1>12, <1>13, <1>14, <1>15, <1>16, <1>17, <1>18, <1>19, <1>20 DEF Next, Saver, Main

-----------------------------------------------------------------------------
(* The theorems.                                                            *)

\* A clean stop loses nothing: when run() of src/bin/vectors-server.rs returns
\* without an error, the snapshot holds every commit a client was told of,
\* whatever the autosave thread did before.
THEOREM CleanStop == Spec => []CleanStopKeepsAcknowledged
<1>1. IInv => CleanStopKeepsAcknowledged
  BY DEF IInv, Stops, CleanStopKeepsAcknowledged
<1>2. QED
  BY <1>1, InvInit, InvNext, PTL DEF Spec

\* The permits taken are those of the tasks, and the limit is kept: the part of
\* PermitsMatchTasks that is kept beside the invariant.
LEMMA PermitsInit == Init => Permits
<1> SUFFICES ASSUME Init PROVE Permits
  OBVIOUS
<1>1. Busy = {}
  BY DEF Init, Busy, Free
<1>2. inFlight = 0 /\ life.limit \in Nat
  BY LivesAssumption DEF Init
<1>3. QED
  BY <1>1, <1>2, FS_EmptySet DEF Permits

\* A task that only goes on, or has given its permit back, changes no count.
LEMMA PermitsStay ==
    ASSUME IInv, IInv', Permits, UNCHANGED <<inFlight, life>>,
           \A t \in Slots : task'[t].at \in Holding <=> task[t].at \in Holding
    PROVE  Permits'
<1>1. Busy' = Busy
  BY BusyStays DEF IInv, Types
<1>2. QED
  BY <1>1 DEF Permits

LEMMA PermitsShrink ==
    ASSUME IInv, IInv', Permits, NEW s \in Slots, inFlight' = inFlight - 1, UNCHANGED life,
           \A t \in Slots \ {s} : task'[t].at = task[t].at,
           task[s].at \in Holding, task'[s].at \notin Holding
    PROVE  Permits'
<1>1. IsFiniteSet(Busy') /\ Cardinality(Busy') = Cardinality(Busy) - 1 /\ Cardinality(Busy) \in Nat \ {0}
  BY BusyShrinks DEF IInv, Types, Permits
<1>2. life.limit \in Nat
  BY LivesAssumption DEF IInv, Known
<1>3. QED
  BY <1>1, <1>2 DEF Permits

LEMMA PermitsNext == IInv /\ IInv' /\ Permits /\ [Next]_vars => Permits'
<1> SUFFICES ASSUME IInv, IInv', Permits, [Next]_vars PROVE Permits'
  OBVIOUS
<1>1. ASSUME NEW s \in Slots, NEW kind \in Kinds, Admit(s, kind) PROVE Permits'
  <2>1. /\ task[s].at = "free" /\ task'[s].at = "queued" /\ inFlight < life.limit
        /\ inFlight' = inFlight + 1 /\ life' = life
        /\ \A t \in Slots \ {s} : task'[t].at = task[t].at
    BY <1>1 DEF Admit, server, IInv, Types, Free
  <2>2. IsFiniteSet(Busy') /\ Cardinality(Busy') = Cardinality(Busy) + 1
    BY <2>1, BusyGrows DEF IInv, Types, Permits, Holding
  <2>3. Cardinality(Busy) \in Nat /\ life.limit \in Nat
    BY LivesAssumption, FS_CardinalityType DEF Permits, IInv, Known
  <2>4. QED
    BY <2>1, <2>2, <2>3 DEF Permits
<1>2. ASSUME NEW s \in Slots, Leave(s) \/ Begin(s) \/ ReadSchema(s) \/ ListRevision(s) \/ Answer(s)
      PROVE  Permits'
  <2>1. UNCHANGED <<inFlight, life>>
    BY <1>2 DEF Leave, Begin, ReadSchema, ListRevision, Answer, server
  <2>2. \A t \in Slots : task'[t].at \in Holding <=> task[t].at \in Holding
    <3>1. CASE Leave(s)
      BY <3>1 DEF Leave, Holding, IInv, Types, Tasks
    <3>2. CASE Begin(s)
      BY <3>2 DEF Begin, Holding, IInv, Types, Tasks
    <3>3. CASE ReadSchema(s)
      BY <3>3 DEF ReadSchema, Holding, IInv, Types, Tasks
    <3>4. CASE ListRevision(s)
      BY <3>4 DEF ListRevision, Holding, IInv, Types, Tasks
    <3>5. CASE Answer(s)
      <4>1. Free.at = "free" /\ task[s].at = "done" /\ task' = [task EXCEPT ![s] = Free]
        BY <3>5 DEF Answer, Free
      <4>2. QED
        BY <4>1 DEF Holding, IInv, Types
    <3>6. QED
      BY <1>2, <3>1, <3>2, <3>3, <3>4, <3>5
  <2>3. QED
    BY <2>1, <2>2, PermitsStay
<1>3. ASSUME NEW s \in Slots, NEW r, r.at \in {"free", "done"}, task[s].at \in Holding,
             Returns(s, r), UNCHANGED life
      PROVE  Permits'
  <2>1. task'[s].at \notin Holding /\ \A t \in Slots \ {s} : task'[t].at = task[t].at
    BY <1>3 DEF IInv, Types, Holding, Returns
  <2>2. inFlight' = inFlight - 1
    BY <1>3 DEF Returns
  <2>3. QED
    BY <1>3, <2>1, <2>2, PermitsShrink
<1>4. ASSUME NEW s \in Slots, task[s].at \in Holding, Committing(s), UNCHANGED life PROVE Permits'
  <2> DEFINE r == [Done(s) EXCEPT !.commit = revision']
  <2>1. r.at = "done" /\ Returns(s, r)
    BY <1>4, TaskType DEF Committing, Tasks
  <2> HIDE DEF r
  <2>2. QED
    BY <1>3, <1>4, <2>1
<1>5. ASSUME NEW s \in Slots, task[s].at \in Holding, Returns(s, Done(s)), UNCHANGED life PROVE Permits'
  <2> DEFINE r == Done(s)
  <2>1. r.at = "done" /\ Returns(s, r)
    BY <1>5, TaskType
  <2> HIDE DEF r
  <2>2. QED
    BY <1>3, <1>5, <2>1
<1>6. ASSUME NEW s \in Slots, Execute(s) \/ ExecuteIfRevision(s) PROVE Permits'
  <2>1. task[s].at \in Holding /\ life' = life /\ (Committing(s) \/ Returns(s, Done(s)))
    BY <1>6 DEF Execute, ExecuteIfRevision, Holding, server
  <2>2. QED
    BY <1>4, <1>5, <2>1
<1>7. ASSUME NEW s \in Slots, ListTables(s) PROVE Permits'
  <2> DEFINE r == [Done(s) EXCEPT !.kind = "list", !.expected = [task[s].expected EXCEPT !.schema = schema]]
  <2>1. r.at = "done" /\ Returns(s, r) /\ task[s].at \in Holding /\ life' = life
    BY <1>7, TaskType DEF ListTables, Tasks, Holding, server
  <2> HIDE DEF r
  <2>2. QED
    BY <1>3, <2>1
<1>8. ASSUME NEW s \in Slots, CheckRevision(s) PROVE Permits'
  <2>1. task[s].at \in Holding /\ life' = life
    BY <1>8 DEF CheckRevision, Holding, server
  <2>2. CASE Returns(s, Done(s))
    BY <2>1, <2>2, <1>5
  <2>3. CASE task' = [task EXCEPT ![s].at = "checked"] /\ UNCHANGED inFlight
    <3>1. \A t \in Slots : task'[t].at \in Holding <=> task[t].at \in Holding
      BY <2>1, <2>3 DEF Holding, IInv, Types, Tasks
    <3>2. QED
      BY <2>1, <2>3, <3>1, PermitsStay
  <2>4. QED
    BY <1>8, <2>2, <2>3 DEF CheckRevision
<1>9. ASSUME NEW s \in Slots, Cancel(s) PROVE Permits'
  <2>1. Free.at = "free" /\ task[s].at \in Holding /\ Returns(s, Free) /\ life' = life
    BY <1>9 DEF Cancel, Free, Holding, Returns, server
  <2>2. QED
    BY <2>1, <1>3
<1>10. CASE DropConnections
  <2>1. UNCHANGED <<inFlight, life>> /\ \A t \in Slots : task'[t].at = task[t].at
    BY <1>10, TaskType DEF DropConnections, Goto, Tasks
  <2>2. QED
    BY <2>1, PermitsStay
<1>11. CASE UNCHANGED <<task, inFlight, life>>
  BY <1>11, PermitsStay
<1>12. CASE Main /\ ~DropConnections
  <2>1. UNCHANGED <<task, inFlight, life>>
    BY <1>12 DEF Main, Prepare, Bind, Drained, CleanUp, StopSaver, Join, FinalSave, FinalSaveEnds, Goto, requests
  <2>2. QED
    BY <1>11, <2>1
<1>13. CASE Saver \/ Watch \/ Signal \/ MakeFile \/ RemoveOther \/ UNCHANGED vars
  <2>1. UNCHANGED <<task, inFlight, life>>
    BY <1>13 DEF Saver, TimedOut, Notified, SaveIfChanged, SaveEnds, Watch, Signal, MakeFile, RemoveOther,
       Goto, requests, server, vars
  <2>2. QED
    BY <1>11, <2>1
<1>14. QED
  BY <1>1, <1>2, <1>6, <1>7, <1>8, <1>9, <1>10, <1>12, <1>13 DEF Next, Work

\* Permits are neither lost nor kept: for any limit and any number of requests,
\* DatabaseTaskState counts exactly the closures that hold a permit, with a
\* client or without, and is never beyond the limit (src/api.rs).
THEOREM PermitsAreTasks == Spec => []PermitsMatchTasks
<1>1. Permits => PermitsMatchTasks
  BY DEF Permits, PermitsMatchTasks
<1>2. Spec => []IInv
  BY InvInit, InvNext, PTL DEF Spec
<1>3. QED
  BY <1>1, <1>2, PermitsInit, PermitsNext, PTL DEF Spec

-----------------------------------------------------------------------------
(* An edit of a row is made for the columns it was checked against.  The      *)
(* columns, the revision and the statement are each read under a lock of      *)
(* their own, and a listing is not read under one lock either; what holds     *)
(* them together is that a listing whose revision is still that of the        *)
(* catalog shows the catalog's columns.                                       *)

Fresh(listing) ==
    listing \in Listings => /\ listing.revision <= revision
                            /\ listing.revision = revision => listing.schema = schema

Current ==
    /\ Fresh(view)
    /\ \A s \in Slots : /\ Fresh(task[s].expected)
                        /\ task[s].kind = "edit" => task[s].expected \in Listings
                        /\ task[s].at \in {"schema", "checked"} =>
                              /\ task[s].kind = "edit"
                              /\ task[s].expected.revision = revision => task[s].schema = schema

LEMMA CurrentInit == Init => Current
  BY NoViewAssumption DEF Init, Current, Fresh, Free, Listings

\* The listing is fresh after the step.
StaysFresh(listing) ==
    listing \in Listings => /\ listing.revision <= revision'
                            /\ listing.revision = revision' => listing.schema = schema'

\* A listing stays fresh: a change of the catalog is a new revision.
LEMMA FreshStays ==
    ASSUME IInv, NEW listing, Fresh(listing), UNCHANGED catalog \/ revision' = revision + 1
    PROVE  StaysFresh(listing)
  BY DEF Fresh, StaysFresh, Listings, catalog, IInv, Types

\* One task becomes r, and what r knows of the catalog is fresh.
LEMMA CurrentStep ==
    ASSUME IInv, Current, NEW s \in Slots, NEW r, task' = [task EXCEPT ![s] = r],
           UNCHANGED catalog \/ revision' = revision + 1,
           StaysFresh(r.expected), StaysFresh(view'),
           r.kind = "edit" => r.expected \in Listings,
           r.at \in {"schema", "checked"} =>
               r.kind = "edit" /\ (r.expected.revision = revision' => r.schema = schema')
    PROVE  Current'
<1>1. Fresh(view)'
  BY DEF Fresh, StaysFresh
<1>2. ASSUME NEW t \in Slots
      PROVE  /\ Fresh(task[t].expected)'
             /\ task'[t].kind = "edit" => task'[t].expected \in Listings
             /\ task'[t].at \in {"schema", "checked"} =>
                    /\ task'[t].kind = "edit"
                    /\ task'[t].expected.revision = revision' => task'[t].schema = schema'
  <2>1. CASE t = s
    <3>1. task'[t] = r
      BY <2>1 DEF IInv, Types
    <3>2. QED
      BY <3>1 DEF Fresh, StaysFresh
  <2>2. CASE t # s
    <3>1. task'[t] = task[t]
      BY <2>2 DEF IInv, Types
    <3>2. Fresh(task[t].expected)'
      <4>1. StaysFresh(task[t].expected)
        BY FreshStays DEF Current
      <4>2. QED
        BY <3>1, <4>1 DEF Fresh, StaysFresh
    <3>3. ASSUME task[t].at \in {"schema", "checked"}, task[t].expected.revision = revision'
          PROVE  task[t].schema = schema'
      <4>1. task[t].expected \in Listings /\ task[t].expected.revision <= revision
        BY <3>3 DEF Current, Fresh
      <4>2. revision' # revision + 1
        BY <3>3, <4>1 DEF Listings, IInv, Types
      <4>3. QED
        BY <3>3, <4>2 DEF Current, catalog
    <3>4. QED
      BY <3>1, <3>2, <3>3 DEF Current
  <2>3. QED
    BY <2>1, <2>2
<1>3. QED
  BY <1>1, <1>2 DEF Current

LEMMA CurrentNext == IInv /\ Current /\ [Next]_vars => Current'
<1> SUFFICES ASSUME IInv, Current, [Next]_vars PROVE Current'
  OBVIOUS
<1>1. ASSUME UNCHANGED catalog \/ revision' = revision + 1, view' = view PROVE StaysFresh(view')
  BY <1>1, FreshStays DEF Current
<1>2. ASSUME NEW s \in Slots, NEW kind \in Kinds, Admit(s, kind) PROVE Current'
  <2> DEFINE r == [Free EXCEPT !.at = "queued", !.kind = kind, !.client = TRUE,
                               !.expected = IF kind = "edit" THEN view ELSE NoView]
  <2>1. /\ task' = [task EXCEPT ![s] = r] /\ UNCHANGED catalog /\ view' = view
        /\ kind = "edit" => view # NoView
    BY <1>2 DEF Admit
  <2>2. r.at = "queued" /\ r.kind = kind /\ r.expected = IF kind = "edit" THEN view ELSE NoView
    BY DEF Free
  <2> HIDE DEF r
  <2>3. StaysFresh(r.expected) /\ (r.kind = "edit" => r.expected \in Listings)
    BY <2>1, <2>2, <1>1, NoViewAssumption, TaskType DEF StaysFresh, Listings
  <2>4. QED
    BY <2>1, <2>2, <2>3, <1>1, CurrentStep
\* A task that has nothing more to do with a listing.
<1>3. ASSUME NEW s \in Slots, NEW r \in Tasks, r.at \in {"free", "done"}, r.kind = "none", r.expected = NoView,
             task' = [task EXCEPT ![s] = r], UNCHANGED catalog \/ revision' = revision + 1,
             StaysFresh(view')
      PROVE  Current'
  <2>1. StaysFresh(r.expected)
    BY <1>3, NoViewAssumption DEF StaysFresh, Listings
  <2>2. QED
    BY <1>3, <2>1, CurrentStep
\* A task that keeps its listing, in the same catalog.
<1>4. ASSUME NEW s \in Slots, NEW r \in Tasks, r.kind = task[s].kind, r.expected = task[s].expected,
             task' = [task EXCEPT ![s] = r], UNCHANGED <<catalog, view>>,
             r.at \in {"schema", "checked"} =>
                 r.kind = "edit" /\ (r.expected.revision = revision => r.schema = schema)
      PROVE  Current'
  <2>1. StaysFresh(r.expected) /\ (r.kind = "edit" => r.expected \in Listings)
    BY <1>4, FreshStays DEF Current
  <2>2. QED
    BY <1>1, <1>4, <2>1, CurrentStep DEF catalog
<1>5. ASSUME NEW s \in Slots, Leave(s) PROVE Current'
  <2> DEFINE r == [task[s] EXCEPT !.client = FALSE]
  <2>1. r \in Tasks /\ r.kind = task[s].kind /\ r.expected = task[s].expected
    BY TaskType DEF Tasks
  <2>2. task' = [task EXCEPT ![s] = r] /\ UNCHANGED <<catalog, view>>
    BY <1>5 DEF Leave
  <2>3. r.at \in {"schema", "checked"} =>
            r.kind = "edit" /\ (r.expected.revision = revision => r.schema = schema)
    BY <1>5, TaskType DEF Leave, Current, Tasks
  <2> HIDE DEF r
  <2>4. QED
    BY <2>1, <2>2, <2>3, <1>4
<1>6. ASSUME NEW s \in Slots, Begin(s) PROVE Current'
  <2> DEFINE r == [task[s] EXCEPT !.at = "running"]
  <2>1. r \in Tasks /\ r.kind = task[s].kind /\ r.expected = task[s].expected
    BY TaskType DEF Tasks
  <2>2. task' = [task EXCEPT ![s] = r] /\ UNCHANGED <<catalog, view>>
    BY <1>6 DEF Begin
  <2>3. r.at \in {"schema", "checked"} =>
            r.kind = "edit" /\ (r.expected.revision = revision => r.schema = schema)
    BY <1>6, TaskType DEF Begin, Current, Tasks
  <2> HIDE DEF r
  <2>4. QED
    BY <2>1, <2>2, <2>3, <1>4
<1>7. ASSUME NEW s \in Slots, ReadSchema(s) PROVE Current'
  <2> DEFINE r == [task[s] EXCEPT !.at = "schema", !.schema = schema]
  <2>1. r \in Tasks /\ r.kind = task[s].kind /\ r.expected = task[s].expected
    BY TaskType DEF Tasks
  <2>2. task' = [task EXCEPT ![s] = r] /\ UNCHANGED <<catalog, view>>
    BY <1>7 DEF ReadSchema
  <2>3. r.at \in {"schema", "checked"} =>
            r.kind = "edit" /\ (r.expected.revision = revision => r.schema = schema)
    BY <1>7, TaskType DEF ReadSchema, Current, Tasks
  <2> HIDE DEF r
  <2>4. QED
    BY <2>1, <2>2, <2>3, <1>4
<1>8. ASSUME NEW s \in Slots, Returns(s, Done(s)), UNCHANGED catalog PROVE Current'
  <2> DEFINE r == Done(s)
  <2>1. r \in Tasks /\ r.at = "done" /\ r.kind = "none" /\ r.expected = NoView
    BY TaskType DEF Done, Free
  <2>2. task' = [task EXCEPT ![s] = r] /\ StaysFresh(view')
    BY <1>1, <1>8 DEF Returns
  <2> HIDE DEF r
  <2>3. QED
    BY <1>3, <1>8, <2>1, <2>2
<1>9. ASSUME NEW s \in Slots, Committing(s) PROVE Current'
  <2> DEFINE r == [Done(s) EXCEPT !.commit = revision']
  <2>1. r.at = "done" /\ r.kind = "none" /\ r.expected = NoView
    BY DEF Done, Free
  <2>2. r \in Tasks
    BY <1>9, TaskType DEF Committing, Tasks
  <2>3. task' = [task EXCEPT ![s] = r] /\ StaysFresh(view') /\ revision' = revision + 1
    BY <1>1, <1>9 DEF Committing, Returns
  <2> HIDE DEF r
  <2>4. QED
    BY <1>3, <2>1, <2>2, <2>3
<1>10. ASSUME NEW s \in Slots, Execute(s) \/ ExecuteIfRevision(s) PROVE Current'
  <2>1. Committing(s) \/ (Returns(s, Done(s)) /\ UNCHANGED catalog)
    BY <1>10 DEF Execute, ExecuteIfRevision
  <2>2. QED
    BY <1>8, <1>9, <2>1
<1>11. ASSUME NEW s \in Slots, CheckRevision(s) PROVE Current'
  <2>1. UNCHANGED <<catalog, view>> /\ task[s].at = "schema"
    BY <1>11 DEF CheckRevision, Returns
  <2>2. CASE Returns(s, Done(s))
    BY <1>8, <2>1, <2>2
  <2>3. CASE task' = [task EXCEPT ![s].at = "checked"]
    <3> DEFINE r == [task[s] EXCEPT !.at = "checked"]
    <3>1. /\ r \in Tasks /\ r.kind = task[s].kind /\ r.expected = task[s].expected
          /\ r.schema = task[s].schema /\ task' = [task EXCEPT ![s] = r]
      BY <2>3, TaskType DEF Tasks
    <3>2. r.kind = "edit" /\ (r.expected.revision = revision => r.schema = schema)
      BY <2>1, <3>1 DEF Current
    <3> HIDE DEF r
    <3>3. QED
      BY <2>1, <3>1, <3>2, <1>4
  <2>4. QED
    BY <1>11, <2>2, <2>3 DEF CheckRevision
<1>12. ASSUME NEW s \in Slots, ListRevision(s) PROVE Current'
  <2> DEFINE e == [revision |-> revision, schema |-> schema]
             r == [task[s] EXCEPT !.at = "revision", !.expected = e]
  <2>1. e \in Listings /\ StaysFresh(e) /\ UNCHANGED catalog /\ view' = view
    BY <1>12, TaskType DEF ListRevision, Listings, StaysFresh, catalog
  <2>2. r.at = "revision" /\ r.expected = e /\ task' = [task EXCEPT ![s] = r]
    BY <1>12, TaskType DEF ListRevision, Tasks
  <2> HIDE DEF e, r
  <2>3. QED
    BY <1>1, <2>1, <2>2, CurrentStep
<1>13. ASSUME NEW s \in Slots, ListTables(s) PROVE Current'
  <2> DEFINE e == [task[s].expected EXCEPT !.schema = schema]
             r == [Done(s) EXCEPT !.kind = "list", !.expected = e]
  <2>1. UNCHANGED catalog /\ view' = view
    BY <1>13 DEF ListTables, Returns
  <2>2. task[s].expected \in Listings /\ task[s].expected.revision <= revision
    BY <1>13 DEF ListTables, Current, Fresh, IInv, Types
  <2>3. e.revision = task[s].expected.revision /\ e.schema = schema
    BY <2>2 DEF Listings
  <2>4. StaysFresh(e)
    BY <2>1, <2>2, <2>3 DEF StaysFresh, catalog
  <2>5. r.at = "done" /\ r.kind = "list" /\ r.expected = e /\ task' = [task EXCEPT ![s] = r]
    BY <1>13 DEF ListTables, Returns, Done, Free
  <2> HIDE DEF e, r
  <2>6. QED
    BY <1>1, <2>1, <2>4, <2>5, CurrentStep
<1>14. ASSUME NEW s \in Slots, Answer(s) \/ Cancel(s) PROVE Current'
  <2>1. Free \in Tasks /\ Free.at = "free" /\ Free.kind = "none" /\ Free.expected = NoView
    BY TaskType DEF Free, Tasks
  <2>2. UNCHANGED catalog /\ task' = [task EXCEPT ![s] = Free] /\ view' \in {view, task[s].expected}
    BY <1>14 DEF Answer, Cancel
  <2>3. StaysFresh(view')
    BY <2>2, FreshStays DEF Current
  <2>4. QED
    BY <1>3, <2>1, <2>2, <2>3
<1>15. CASE DropConnections
  <2>1. UNCHANGED <<catalog, view>> /\ task' = [x \in Slots |-> [task[x] EXCEPT !.client = FALSE]]
    BY <1>15 DEF DropConnections
  <2>2. ASSUME NEW t \in Slots
        PROVE  task'[t].at = task[t].at /\ task'[t].kind = task[t].kind
               /\ task'[t].expected = task[t].expected /\ task'[t].schema = task[t].schema
    BY <2>1, TaskType DEF Tasks
  <2>3. QED
    BY <2>1, <2>2 DEF Current, Fresh, catalog
<1>16. CASE UNCHANGED <<task, catalog, view>>
  BY <1>16 DEF Current, Fresh, catalog
<1>17. CASE (Main /\ ~DropConnections) \/ Saver \/ Watch \/ Signal \/ MakeFile \/ RemoveOther \/ UNCHANGED vars
  <2>1. UNCHANGED <<task, catalog, view>>
    BY <1>17 DEF Main, Prepare, Bind, Drained, CleanUp, StopSaver, Join, FinalSave, FinalSaveEnds, Saver, TimedOut,
       Notified, SaveIfChanged, SaveEnds, Watch, Signal, MakeFile, RemoveOther, requests, catalog, vars
  <2>2. QED
    BY <1>16, <2>1
<1>18. QED
  BY <1>2, <1>5, <1>6, <1>7, <1>10, <1>11, <1>12, <1>13, <1>14, <1>15, <1>17 DEF Next, Work

\* A row is edited for the table its client saw: the statement that
\* execute_if_revision runs commits only if the columns update_row or
\* delete_row read, and those of the client's listing, are the table's columns
\* at that moment, though the three were read under three locks (src/api.rs).
THEOREM EditsCurrent == Spec => EditsAreCurrent
<1> DEFINE A == \A s \in Slots : Commits(s) => /\ task[s].schema = schema
                                               /\ task[s].expected.schema = schema
<1>1. IInv /\ Current /\ [Next]_vars => [A]_vars
  <2> SUFFICES ASSUME IInv, Current, [Next]_vars, NEW s \in Slots, Commits(s)
               PROVE  task[s].schema = schema /\ task[s].expected.schema = schema
    OBVIOUS
  <2>1. /\ task[s].at = "checked" /\ task'[s].at = "done" /\ revision' # revision
        /\ task[s].expected \in Listings
    BY DEF Commits, Current
  <2>2. ASSUME NEW t \in Slots, Execute(t) \/ ExecuteIfRevision(t) PROVE t = s
    BY <2>1, <2>2 DEF Execute, ExecuteIfRevision, Committing, Returns, IInv, Types, catalog
  <2>3. ExecuteIfRevision(s)
    <3>1. ASSUME NEW t \in Slots, Work(t), ~Execute(t), ~ExecuteIfRevision(t) PROVE revision' = revision
      BY <3>1 DEF Work, Begin, ReadSchema, CheckRevision, ListRevision, ListTables, Answer, Cancel, catalog
    <3>2. ASSUME NEW t \in Slots, Leave(t) PROVE revision' = revision
      BY <3>2 DEF Leave, catalog
    <3>3. ASSUME NEW t \in Slots, NEW kind \in Kinds, Admit(t, kind) PROVE revision' = revision
      BY <3>3 DEF Admit, catalog
    <3>4. Main \/ Saver \/ Watch \/ Signal \/ MakeFile \/ RemoveOther \/ UNCHANGED vars => revision' = revision
      BY DEF Main, Prepare, Bind, Drained, DropConnections, CleanUp, StopSaver, Join, FinalSave, FinalSaveEnds, Saver,
         TimedOut, Notified, SaveIfChanged, SaveEnds, Watch, Signal, MakeFile, RemoveOther, catalog, vars
    <3>5. ~Execute(s)
      BY <2>1 DEF Execute
    <3>6. QED
      BY <2>1, <2>2, <3>1, <3>2, <3>3, <3>4, <3>5 DEF Next
  <2>4. task[s].expected.revision = revision
    BY <2>1, <2>3 DEF ExecuteIfRevision, catalog
  <2>5. QED
    BY <2>1, <2>4 DEF Current, Fresh
<1>2. Spec => [](IInv /\ Current)
  BY InvInit, InvNext, CurrentInit, CurrentNext, PTL DEF Spec
<1>3. QED
  BY <1>1, <1>2, PTL DEF Spec, EditsAreCurrent

=============================================================================
