------------------------------- MODULE Server -------------------------------
(***************************************************************************)
(* The server process in snapshot mode: src/bin/vectors-server.rs around    *)
(* the HTTP server of src/api.rs.  The main task opens the database, starts *)
(* the autosave thread, clears an old shutdown request, serves, drains,     *)
(* joins the thread and saves once more.  Requests run as tasks on blocking *)
(* threads under a limit of permits; a client may leave at any time.        *)
(*                                                                          *)
(* One life of the process.  The catalog is reduced to its revision, which  *)
(* counts the commits since the start, and to the revision that last        *)
(* changed the table's columns, "schema".  "disk" is the revision in the    *)
(* snapshot file.  A thread, an interval, a poll and a grace period may     *)
(* begin and end at any moment.                                             *)
(***************************************************************************)
EXTENDS Integers, FiniteSets

CONSTANTS
    Lives,        \* options: autosave, max_concurrent_database_tasks; bounds: is
                  \* the process stopped, what is requested of it
    Slots,        \* requests under way, with a client or without
    NoFile, OtherFile, OldRequest, NewRequest,  \* states of the shutdown file
    NoView,       \* the client has seen no listing of this process
    MaxRevision,  \* bound: commits
    MaxFailures   \* bound: snapshots that fail

ASSUME ServerAssumption ==
    /\ IsFiniteSet(Slots)
    /\ {MaxRevision, MaxFailures} \subseteq Nat

ASSUME NoViewAssumption == NoView \notin [revision : Nat, schema : Nat]

Kinds == {"write", "define", "edit", "list"}
ASSUME LivesAssumption == 
    \A l \in Lives : l.autosave \in BOOLEAN /\ l.limit \in Nat \ {0} /\ l.stops \in BOOLEAN
                        /\ l.kinds \subseteq Kinds

VARIABLES
    life,      \* the kind of life this is
    main,      \* where run() is
    failed,    \* run() will return, or has returned, an error
    file,      \* the shutdown file: none, no regular file, or a request made
               \* before the start or since
    task,      \* the requests and their tasks
    inFlight,  \* DatabaseTaskState::in_flight
    revision, schema,  \* the catalog
    disk,      \* the snapshot file
    acked,     \* the newest commit a client was told of
    view,      \* the last listing answered: revision and schema
    saver,     \* the autosave thread
    saved,     \* its last_saved_revision
    stopping,  \* its control flag
    notified,  \* it was woken while it waited
    snapshot,  \* who holds snapshot_lock, and the revision it captured
    failures

server == <<life, main, failed, file>>
requests == <<task, inFlight, acked, view>>
catalog == <<revision, schema>>
autosave == <<saver, saved, stopping, notified>>
storage == <<disk, snapshot, failures>>
vars == <<server, requests, catalog, autosave, storage>>

Free == [at |-> "free", kind |-> "none", client |-> FALSE,
         expected |-> NoView, schema |-> NoView, commit |-> 0]

-----------------------------------------------------------------------------
(* Permits and tasks.                                                        *)

\* Closures that own a permit.
Busy == {s \in Slots : task[s].at \in {"queued", "running", "schema", "checked", "revision"}}

\* acquire() and web::block: refused, without a trace, at the limit.
Admit(s, kind) ==
    /\ main = "serving"
    /\ task[s].at = "free"
    /\ inFlight < life.limit
    /\ kind \in life.kinds
    /\ kind = "edit" => view # NoView
    /\ inFlight' = inFlight + 1
    /\ task' = [task EXCEPT ![s] = [Free EXCEPT !.at = "queued", !.kind = kind, !.client = TRUE,
                                                !.expected = IF kind = "edit" THEN view ELSE NoView]]
    /\ UNCHANGED <<acked, view, server, catalog, autosave, storage>>

\* A mutant of Leave: the permit goes with the request.
LeaveReleasing(s) ==
    /\ task[s].client
    /\ task' = [task EXCEPT ![s].client = FALSE]
    /\ inFlight' = IF s \in Busy THEN inFlight - 1 ELSE inFlight
    /\ UNCHANGED <<acked, view, server, catalog, autosave, storage>>

\* The connection ends: the request is dropped, its task stays.
Leave(s) ==
    /\ task[s].client
    /\ task' = [task EXCEPT ![s].client = FALSE]
    /\ UNCHANGED <<inFlight, acked, view, server, catalog, autosave, storage>>

Begin(s) ==
    /\ task[s].at = "queued"
    /\ task' = [task EXCEPT ![s].at = "running"]
    /\ UNCHANGED <<inFlight, acked, view, server, catalog, autosave, storage>>

\* The closure returns and drops its permit; the request is yet to be answered.
Returns(s, result) ==
    /\ task' = [task EXCEPT ![s] = result]
    /\ inFlight' = inFlight - 1
    /\ UNCHANGED <<acked, view>>
Done(s) == [Free EXCEPT !.at = "done", !.client = task[s].client]

Committing(s) ==
    /\ revision < MaxRevision
    /\ revision' = revision + 1
    /\ Returns(s, [Done(s) EXCEPT !.commit = revision'])

\* execute: a change of rows, or of the table's columns; or it fails.
Execute(s) ==
    /\ task[s].at = "running"
    /\ task[s].kind \in {"write", "define"}
    /\ \/ Committing(s) /\ schema' = IF task[s].kind = "define" THEN revision' ELSE schema
       \/ Returns(s, Done(s)) /\ UNCHANGED catalog
    /\ UNCHANGED <<server, autosave, storage>>

\* update_row and delete_row: the columns, the revision, then the statement,
\* each under a lock of its own.
ReadSchema(s) ==
    /\ task[s].at = "running" /\ task[s].kind = "edit"
    /\ task' = [task EXCEPT ![s].at = "schema", ![s].schema = schema]
    /\ UNCHANGED <<inFlight, acked, view, server, catalog, autosave, storage>>

CheckRevision(s) ==
    /\ task[s].at = "schema"
    /\ IF revision = task[s].expected.revision
       THEN task' = [task EXCEPT ![s].at = "checked"] /\ UNCHANGED <<inFlight, acked, view>>
       ELSE Returns(s, Done(s))
    /\ UNCHANGED <<server, catalog, autosave, storage>>

\* A mutant of ExecuteIfRevision: execute.
ExecuteAnyway(s) ==
    /\ task[s].at = "checked"
    /\ Committing(s) /\ UNCHANGED schema
    /\ UNCHANGED <<server, autosave, storage>>

ExecuteIfRevision(s) ==
    /\ task[s].at = "checked"
    /\ \/ revision = task[s].expected.revision /\ Committing(s) /\ UNCHANGED schema
       \/ revision # task[s].expected.revision /\ Returns(s, Done(s)) /\ UNCHANGED catalog
    /\ UNCHANGED <<server, autosave, storage>>

\* tables: the revision, then the listing.
ListRevision(s) ==
    /\ task[s].at = "running" /\ task[s].kind = "list"
    /\ task' = [task EXCEPT ![s].at = "revision",
                            ![s].expected = [revision |-> revision, schema |-> schema]]
    /\ UNCHANGED <<inFlight, acked, view, server, catalog, autosave, storage>>

ListTables(s) ==
    /\ task[s].at = "revision"
    /\ Returns(s, [Done(s) EXCEPT !.kind = "list", !.expected = [task[s].expected EXCEPT !.schema = schema]])
    /\ UNCHANGED <<server, catalog, autosave, storage>>

\* The answer reaches the client, if it is still there.
Answer(s) ==
    /\ task[s].at = "done"
    /\ main \in {"serving", "draining"} \/ ~task[s].client
    /\ acked' = IF task[s].client /\ task[s].commit > acked THEN task[s].commit ELSE acked
    /\ view' = IF task[s].client /\ task[s].kind = "list" THEN task[s].expected ELSE view
    /\ task' = [task EXCEPT ![s] = Free]
    /\ UNCHANGED <<inFlight, server, catalog, autosave, storage>>

\* The runtime of a worker that has stopped drops what it has not begun.
Cancel(s) ==
    /\ task[s].at = "queued" /\ ~task[s].client
    /\ main \notin {"serving", "draining"}
    /\ task' = [task EXCEPT ![s] = Free]
    /\ inFlight' = inFlight - 1
    /\ UNCHANGED <<acked, view, server, catalog, autosave, storage>>

-----------------------------------------------------------------------------
(* save_snapshot: the lock, a copy of the catalog, the file.                 *)

Unlocked == [owner |-> "none", revision |-> 0]

Capture(owner) ==
    /\ snapshot = Unlocked
    /\ snapshot' = [owner |-> owner, revision |-> revision]
    /\ UNCHANGED <<disk, failures>>

Installs(owner) ==
    /\ snapshot.owner = owner
    /\ disk' = snapshot.revision
    /\ snapshot' = Unlocked
    /\ UNCHANGED failures

Fails(owner) ==
    /\ snapshot.owner = owner
    /\ failures < MaxFailures
    /\ failures' = failures + 1
    /\ snapshot' = Unlocked
    /\ UNCHANGED disk

-----------------------------------------------------------------------------
(* The autosave thread.  It holds the flag's mutex except while it waits or  *)
(* saves, and looks at the flag only when it wakes.                          *)

Wake == IF stopping THEN "returned" ELSE "saving"

\* A mutant of TimedOut: only a notification ends the thread.
TimedOutToSave ==
    /\ saver = "waiting"
    /\ ~stopping
    /\ saver' = "saving"
    /\ notified' = FALSE
    /\ UNCHANGED <<saved, stopping, server, requests, catalog, storage>>

TimedOut ==
    /\ saver = "waiting"
    /\ saver' = Wake
    /\ notified' = FALSE
    /\ UNCHANGED <<saved, stopping, server, requests, catalog, storage>>

\* Woken by stop(); a wake without reason waits again, and is no step.
Notified ==
    /\ saver = "waiting" /\ notified /\ stopping
    /\ saver' = "returned"
    /\ notified' = FALSE
    /\ UNCHANGED <<saved, stopping, server, requests, catalog, storage>>

SaveIfChanged ==
    /\ saver = "saving"
    /\ IF revision = saved
       THEN snapshot = Unlocked /\ saver' = "waiting" /\ UNCHANGED storage
       ELSE Capture("saver") /\ saver' = "writing"
    /\ UNCHANGED <<saved, stopping, notified, server, requests, catalog>>

\* A mutant of SaveEnds: the revision is read again after the save.
SaveEndsReading ==
    /\ saver = "writing"
    /\ \/ Installs("saver") /\ saved' = revision
       \/ Fails("saver") /\ UNCHANGED saved
    /\ saver' = "waiting"
    /\ UNCHANGED <<stopping, notified, server, requests, catalog>>

SaveEnds ==
    /\ saver = "writing"
    /\ \/ Installs("saver") /\ saved' = snapshot.revision
       \/ Fails("saver") /\ UNCHANGED saved
    /\ saver' = "waiting"
    /\ UNCHANGED <<stopping, notified, server, requests, catalog>>

-----------------------------------------------------------------------------
(* The main task.                                                            *)

Goto(place) == main' = place /\ UNCHANGED <<life, failed>>

\* A mutant of Prepare: a request that is there stays.
PrepareKeeping ==
    /\ main = "preparing"
    /\ main' = IF file = OtherFile THEN "stopped" ELSE "binding"
    /\ failed' = (file = OtherFile)
    /\ UNCHANGED life
    /\ UNCHANGED <<file, requests, catalog, autosave, storage>>

\* prepare_shutdown_file: an old request is removed; anything else is an error.
Prepare ==
    /\ main = "preparing"
    /\ main' = IF file = OtherFile THEN "stopped" ELSE "binding"
    /\ failed' = (file = OtherFile)
    /\ UNCHANGED life
    /\ file' = IF file = OtherFile THEN file ELSE NoFile
    /\ UNCHANGED <<requests, catalog, autosave, storage>>

\* Settings, the address, the workers and the watcher; or an error.
Bind ==
    /\ main = "binding"
    /\ \/ Goto("serving")
       \/ main' = "stopped" /\ failed' = TRUE /\ UNCHANGED life
    /\ UNCHANGED <<file, requests, catalog, autosave, storage>>

\* watch_shutdown_file: only a regular file is a request.
Watch ==
    /\ main \in {"serving", "draining"}
    /\ file \in {OldRequest, NewRequest}
    /\ file' = NoFile
    /\ Goto("draining")
    /\ UNCHANGED <<requests, catalog, autosave, storage>>

\* SIGTERM drains, SIGINT and SIGQUIT do not wait.
Signal ==
    /\ main = "serving"
    /\ life.stops
    /\ Goto("draining") \/ Goto("dropping")
    /\ UNCHANGED <<file, requests, catalog, autosave, storage>>

Drained ==
    /\ main = "draining"
    /\ \A s \in Slots : ~task[s].client
    /\ Goto("cleaning")
    /\ UNCHANGED <<file, requests, catalog, autosave, storage>>

\* The grace period ends, or there was none: connections are dropped, and with
\* them the requests; tasks that run go on.
DropConnections ==
    /\ main \in {"draining", "dropping"}
    /\ task' = [s \in Slots |-> [task[s] EXCEPT !.client = FALSE]]
    /\ Goto("cleaning")
    /\ UNCHANGED <<file, inFlight, acked, view, catalog, autosave, storage>>

\* The watcher is aborted and a late request removed.
CleanUp ==
    /\ main = "cleaning"
    /\ file' = IF file = OtherFile THEN file ELSE NoFile
    /\ Goto("stopped")
    /\ UNCHANGED <<requests, catalog, autosave, storage>>

\* AutosaveWorker::stop
StopSaver ==
    /\ main = "stopped"
    /\ stopping' = TRUE
    /\ notified' = (saver = "waiting")
    /\ Goto("joining")
    /\ UNCHANGED <<file, saver, saved, requests, catalog, storage>>

\* A mutant of Join: the thread has saved, main does not.
JoinAndEnd ==
    /\ main = "joining"
    /\ saver = "returned"
    /\ Goto("ended")
    /\ UNCHANGED <<file, requests, catalog, autosave, storage>>

Join ==
    /\ main = "joining"
    /\ saver = "returned"
    /\ Goto(IF failed THEN "ended" ELSE "saving")
    /\ UNCHANGED <<file, requests, catalog, autosave, storage>>

FinalSave ==
    /\ main = "saving"
    /\ Capture("main")
    /\ Goto("writing")
    /\ UNCHANGED <<file, requests, catalog, autosave>>

FinalSaveEnds ==
    /\ main = "writing"
    /\ \/ Installs("main") /\ Goto("ended")
       \/ Fails("main") /\ main' = "ended" /\ failed' = TRUE /\ UNCHANGED life
    /\ UNCHANGED <<file, requests, catalog, autosave>>

\* An installer asks for a stop, or something else takes the file's name.
MakeFile ==
    /\ life.stops
    /\ file = NoFile
    /\ main # "ended"
    /\ file' \in {NewRequest, OtherFile}
    /\ UNCHANGED <<life, main, failed, requests, catalog, autosave, storage>>

RemoveOther ==
    /\ file = OtherFile
    /\ file' = NoFile
    /\ UNCHANGED <<life, main, failed, requests, catalog, autosave, storage>>

-----------------------------------------------------------------------------
Init ==
    /\ life \in Lives
    /\ main = "preparing" /\ failed = FALSE
    /\ file \in IF life.stops THEN {NoFile, OtherFile, OldRequest} ELSE {NoFile}
    /\ task = [s \in Slots |-> Free] /\ inFlight = 0
    /\ acked = 0 /\ view = NoView
    /\ revision = 0 /\ schema = 0
    /\ disk = 0 /\ snapshot = Unlocked /\ failures = 0
    /\ saver = IF life.autosave THEN "waiting" ELSE "returned"
    /\ saved = 0 /\ stopping = FALSE /\ notified = FALSE

Work(s) ==
    \/ Begin(s)
    \/ Execute(s)
    \/ ReadSchema(s)
    \/ CheckRevision(s)
    \/ ExecuteIfRevision(s)
    \/ ListRevision(s)
    \/ ListTables(s)
    \/ Answer(s)
    \/ Cancel(s)

Saver == TimedOut \/ Notified \/ SaveIfChanged \/ SaveEnds

Main ==
    \/ Prepare
    \/ Bind
    \/ Drained
    \/ DropConnections
    \/ CleanUp
    \/ StopSaver
    \/ Join
    \/ FinalSave
    \/ FinalSaveEnds

Next ==
    \/ \E s \in Slots, kind \in Kinds : Admit(s, kind)
    \/ \E s \in Slots : Leave(s) \/ Work(s)
    \/ Saver
    \/ Main
    \/ Watch
    \/ Signal
    \/ MakeFile
    \/ RemoveOther

\* Threads and the runtime are scheduled, intervals, polls and the grace period
\* end.  Nobody has to start the server, ask it anything or stop it.
Fairness == WF_vars(Saver) /\ WF_vars(Main) /\ WF_vars(Watch) /\ \A s \in Slots : WF_vars(Work(s))

Spec == Init /\ [][Next]_vars /\ Fairness

-----------------------------------------------------------------------------
(* Properties.                                                               *)

\* Every permit belongs to a closure that is queued or runs, with a client or
\* without, and there are never more of them than the limit.
PermitsMatchTasks == inFlight = Cardinality(Busy) /\ inFlight <= life.limit

\* When run() returns without an error, the snapshot holds every commit of this
\* process a client was told of.
CleanStopKeepsAcknowledged == main = "ended" /\ ~failed => acked <= disk

\* An edit of a row that commits was made for the columns the table has, and
\* for the listing its client saw.
Commits(s) == task[s].kind = "edit" /\ task[s].at = "checked" /\ revision' # revision /\ task'[s].at = "done"
EditsAreCurrent ==
    [][\A s \in Slots : Commits(s) => /\ task[s].schema = schema
                                      /\ task[s].expected.schema = schema]_vars

\* A request made before this process started never stops it.
RequestsAreFresh == [][main = "serving" /\ main' = "draining" /\ file' # file
                        => file = NewRequest]_vars

\* A serving process with a request in the file ends, whatever runs, whoever
\* waits and whatever the autosave thread is doing.
RequestEnds == main = "serving" /\ file = NewRequest ~> main = "ended"

\* What is committed reaches the snapshot without a stop, if no save fails
\* for ever.
AutosaveCatchesUp ==
    \A r \in 1..MaxRevision :
        life.autosave /\ main = "serving" /\ revision = r ~> disk >= r \/ main # "serving"
=============================================================================
