----------------------------- MODULE GenerationWork -----------------------------
(* The work a session generation leaves behind.  Event callbacks and jobs run  *)
(* on several threads; when the session ends the generation is retired, its    *)
(* registered jobs are aborted, and after a logout the account's rows, files   *)
(* and markers are removed before the next generation begins.  An abort        *)
(* reaches a job at its next await; it does not reach the blocking thread that *)
(* writes a history payload, nor a job registered after it.                    *)
EXTENDS Integers

CONSTANTS
    Tasks,          \* slots for the callbacks and jobs alive at one time
    Conversations,  \* conversations of a history payload
    WorkEvents,     \* bound: events delivered in a behaviour
    LastGeneration  \* bound: generations in a behaviour

ASSUME WorkAssumption ==
    Conversations \in Nat \ {0} /\ WorkEvents \in Nat /\ LastGeneration \in Nat \ {0}

VARIABLES
    loop,       \* where the loop of run_daemon is
    begun,      \* the generations begun
    current,    \* the generation that is current; 0 once it is retired
    logout,     \* the session ended by a logout: the account is removed
    account,    \* accounts removed so far: the number of the present one
    tasks,      \* per slot, a callback or job and the ingest thread it started
    kept,     \* rows, files and markers: what, of which account, by a loose job
    delivered   \* bound: events so far

workVars == <<loop, begun, current, logout, account, tasks, kept, delivered>>

LoopSteps == {"running", "retired", "aborted", "files", "markers", "resting"}
Rows == {"conversation", "name", "book"}
Files == {"avatar", "document"}
Markers == {"contact_sync", "contact_history"}

\* A task that is not awake waits at the await "at"; one that is runs from there
\* to its next await.  "left": conversations its ingest thread has still to write.
\* "doomed": aborted while awake.  "loose": history, abort_all did not end it.
NoTask == [kind |-> "none", gen |-> 0, acct |-> 0, at |-> "done", awake |-> FALSE,
           registered |-> FALSE, doomed |-> FALSE, loose |-> FALSE, left |-> 0]

WorkInit ==
    /\ loop = "running" /\ begun = 1 /\ current = 1 /\ logout = FALSE /\ account = 0
    /\ tasks = [t \in Tasks |-> NoTask]
    /\ kept = {} /\ delivered = 0

IsCurrent(t) == tasks[t].gen = current
Free(t) == tasks[t] = NoTask
FreeSlot == CHOOSE t \in Tasks : Free(t)
WasAborted(g) == g < begun \/ loop \notin {"running", "retired"}

Holds(what) == \E x \in kept : x.what = what
Stores(t, what) ==
    kept' = kept \cup {[what |-> what, acct |-> tasks[t].acct, loose |-> tasks[t].loose]}

\* The end of a task; its ingest thread, if it has one, goes on.
Ended(task) == IF task.left = 0 THEN NoTask
               ELSE [task EXCEPT !.at = "done", !.awake = FALSE]
Awaiting(task, at) == IF task.doomed THEN Ended(task)
                      ELSE [task EXCEPT !.at = at, !.awake = FALSE]

\* GenerationJobs::spawn: the task runs before its handle is registered.
Spawned(kind, at, gen, acct) ==
    [NoTask EXCEPT !.kind = kind, !.gen = gen, !.acct = acct, !.at = at,
                   !.loose = WasAborted(gen)]

Becomes(t, task) == tasks' = [tasks EXCEPT ![t] = task]
Session == <<loop, begun, current, logout, account>>
Runs(t, at) == tasks[t].awake /\ tasks[t].at = at

-----------------------------------------------------------------------------
(* Callbacks and jobs *)

\* A callback finds its generation current and spawns a job, or, on_connected,
\* goes on to await the client's lock and the reducer's queue.
Callback(t, kind, at) ==
    /\ Free(t) /\ t = FreeSlot /\ current # 0 /\ delivered < WorkEvents
    /\ Becomes(t, Spawned(kind, at, current, account))
    /\ delivered' = delivered + 1
    /\ UNCHANGED <<Session, kept>>

\* The handle is pushed into the registry: too late, if that was drained.
Register(t) ==
    /\ ~Free(t) /\ ~tasks[t].registered /\ tasks[t].kind # "connected"
    /\ tasks[t].at # "done"
    /\ Becomes(t, [tasks[t] EXCEPT !.registered = TRUE])
    /\ UNCHANGED <<Session, kept, delivered>>

\* What the task awaits is there.
Wake(t) ==
    /\ tasks[t].at # "done" /\ ~tasks[t].awake
    /\ tasks[t].at = "ingest" => tasks[t].left = 0
    /\ Becomes(t, [tasks[t] EXCEPT !.awake = TRUE])
    /\ UNCHANGED <<Session, kept, delivered>>

\* on_connected spawns its jobs; the one that writes names and a marker is kept.
Settle(t) ==
    /\ Runs(t, "settle")
    /\ Becomes(t, Spawned("names", "ask", tasks[t].gen, tasks[t].acct))
    /\ UNCHANGED <<Session, kept, delivered>>

\* process_history_event: the identities are scanned; then the aliases resolved.
Scanned(t) ==
    /\ Runs(t, "scan")
    /\ Becomes(t, IF IsCurrent(t) THEN Awaiting(tasks[t], "alias") ELSE Ended(tasks[t]))
    /\ UNCHANGED <<Session, kept, delivered>>

\* The thread of ingest_history starts; the last lookup is not followed by a check.
Aliased(t) ==
    /\ Runs(t, "alias")
    /\ Becomes(t, Awaiting([tasks[t] EXCEPT !.left = Conversations], "ingest"))
    /\ UNCHANGED <<Session, kept, delivered>>

\* insert_history_conversation, one commit each; or the payload ends early.
Conversation(t) ==
    /\ tasks[t].left > 0
    /\ LET rest == [tasks[t] EXCEPT !.left = @ - 1]
       IN  Becomes(t, IF rest.at = "done" THEN Ended(rest) ELSE rest)
    /\ Stores(t, "conversation")
    /\ UNCHANGED <<Session, delivered>>

Malformed(t) ==
    /\ tasks[t].left > 0
    /\ LET rest == [tasks[t] EXCEPT !.left = 0]
       IN  Becomes(t, IF rest.at = "done" THEN Ended(rest) ELSE rest)
    /\ UNCHANGED <<Session, kept, delivered>>

\* What was ingested is announced, and avatars are fetched for it.
Ingested(t) ==
    /\ Runs(t, "ingest")
    /\ Becomes(t, IF IsCurrent(t) THEN Awaiting(tasks[t], "avatars") ELSE Ended(tasks[t]))
    /\ UNCHANGED <<Session, kept, delivered>>

AvatarStored(t) ==
    /\ Runs(t, "avatars") /\ Holds("conversation")
    /\ Stores(t, "avatar")
    /\ Becomes(t, Awaiting(tasks[t], "avatars"))
    /\ UNCHANGED <<Session, delivered>>

AvatarsDone(t) ==
    /\ Runs(t, "avatars")
    /\ Becomes(t, IF IsCurrent(t) THEN [tasks[t] EXCEPT !.at = "spawn"] ELSE Ended(tasks[t]))
    /\ UNCHANGED <<Session, kept, delivered>>

\* The jobs that follow, for names and, in a slot u, for documents: after the
\* check, and not before an await.
SpawnFollowing(t, u) ==
    /\ Runs(t, "spawn") /\ (u = t \/ (Free(u) /\ u = FreeSlot))
    /\ LET task == tasks[t]
           names == Spawned("names", "ask", task.gen, task.acct)
       IN  tasks' = [tasks EXCEPT
                        ![u] = Spawned("documents", "transfer", task.gen, task.acct),
                        ![t] = names]
    /\ UNCHANGED <<Session, kept, delivered>>

\* download_pending_media
DocumentStored(t) ==
    /\ Runs(t, "transfer")
    /\ Stores(t, "document")
    /\ Becomes(t, Ended(tasks[t]))
    /\ UNCHANGED <<Session, delivered>>

\* sync_missing_contact_names
NamesStored(t) ==
    /\ Runs(t, "ask")
    /\ IF Holds("conversation") THEN Stores(t, "name") ELSE UNCHANGED kept
    /\ Becomes(t, [tasks[t] EXCEPT !.at = "select"])
    /\ UNCHANGED <<Session, delivered>>

\* request_missing_contact_history: nothing to recover, or cursors to ask about.
NothingToRecover(t) ==
    /\ Runs(t, "select")
    /\ IF Holds("conversation") /\ ~Holds("contact_history")
       THEN Stores(t, "contact_history") ELSE UNCHANGED kept
    /\ Becomes(t, Ended(tasks[t]))
    /\ UNCHANGED <<Session, delivered>>

CursorsSelected(t) ==
    /\ Runs(t, "select") /\ Holds("conversation") /\ ~Holds("contact_history")
    /\ Becomes(t, Awaiting(tasks[t], "request"))
    /\ UNCHANGED <<Session, kept, delivered>>

CursorsRequested(t, all) ==
    /\ Runs(t, "request")
    /\ IF all THEN Stores(t, "contact_history") ELSE UNCHANGED kept
    /\ Becomes(t, Ended(tasks[t]))
    /\ UNCHANGED <<Session, delivered>>

\* process_contact_event: a check, and without an await in between the write.
ContactChecked(t) ==
    /\ Runs(t, "begin")
    /\ Becomes(t, IF IsCurrent(t) THEN [tasks[t] EXCEPT !.at = "book"] ELSE Ended(tasks[t]))
    /\ UNCHANGED <<Session, kept, delivered>>

BookStored(t) ==
    /\ Runs(t, "book")
    /\ Stores(t, "book")
    /\ Becomes(t, [tasks[t] EXCEPT !.at = "marker"])
    /\ UNCHANGED <<Session, delivered>>

\* ingest_contact_name: mark_contact_sync_complete, when a full sync brought it.
SyncMarked(t, full) ==
    /\ Runs(t, "marker")
    /\ IF full /\ ~Holds("contact_sync") THEN Stores(t, "contact_sync") ELSE UNCHANGED kept
    /\ Becomes(t, Ended(tasks[t]))
    /\ UNCHANGED <<Session, delivered>>

-----------------------------------------------------------------------------
(* The loop of run_daemon *)

Work == <<tasks, kept, delivered>>

Retire(out) ==
    /\ loop = "running"
    /\ loop' = "retired" /\ current' = 0 /\ logout' = out
    /\ UNCHANGED <<begun, account, Work>>

\* Mutation: the handles are dropped, which lets the tasks run on.
Detached(task) == task

\* What abort_all does to a task: one that waits is gone, one that runs goes on
\* to its next await, one that is not (yet) in this registry is not reached.
Aborted(task) ==
    IF task = NoTask THEN NoTask
    ELSE IF task.gen # begun \/ ~task.registered THEN [task EXCEPT !.loose = TRUE]
    ELSE IF task.awake THEN [task EXCEPT !.loose = TRUE, !.doomed = TRUE]
    ELSE Ended([task EXCEPT !.loose = TRUE])

AbortAll ==
    /\ loop = "retired"
    /\ loop' = "aborted"
    /\ tasks' = [t \in Tasks |-> Aborted(tasks[t])]
    /\ UNCHANGED <<begun, current, logout, account, kept, delivered>>

Keeping(S) == {x \in kept : x.what \notin S}

\* clear_local_account_data, in its order.
ClearRows ==
    /\ loop = "aborted" /\ logout
    /\ loop' = "files" /\ account' = account + 1 /\ kept' = Keeping(Rows)
    /\ UNCHANGED <<begun, current, logout, tasks, delivered>>

ClearFiles ==
    /\ loop = "files"
    /\ loop' = "markers" /\ kept' = Keeping(Files)
    /\ UNCHANGED <<begun, current, logout, account, tasks, delivered>>

ClearMarkers ==
    /\ loop = "markers"
    /\ loop' = "resting" /\ kept' = Keeping(Markers)
    /\ UNCHANGED <<begun, current, logout, account, tasks, delivered>>

KeepAccount ==
    /\ loop = "aborted" /\ ~logout
    /\ loop' = "resting"
    /\ UNCHANGED <<begun, current, logout, account, Work>>

NextGeneration ==
    /\ loop = "resting" /\ begun < LastGeneration
    /\ loop' = "running" /\ begun' = begun + 1 /\ current' = begun + 1 /\ logout' = FALSE
    /\ UNCHANGED <<account, Work>>

WorkNext ==
    \/ \E t \in Tasks :
          \/ Callback(t, "history", "scan") \/ Callback(t, "contact", "begin")
          \/ Callback(t, "connected", "settle")
          \/ Register(t) \/ Wake(t) \/ Settle(t)
          \/ Scanned(t) \/ Aliased(t) \/ Conversation(t) \/ Malformed(t) \/ Ingested(t)
          \/ AvatarStored(t) \/ AvatarsDone(t) \/ \E u \in Tasks : SpawnFollowing(t, u)
          \/ DocumentStored(t) \/ NamesStored(t) \/ NothingToRecover(t) \/ CursorsSelected(t)
          \/ ContactChecked(t) \/ BookStored(t)
          \/ \E yes \in BOOLEAN : CursorsRequested(t, yes) \/ SyncMarked(t, yes)
    \/ \E out \in BOOLEAN : Retire(out)
    \/ AbortAll \/ ClearRows \/ ClearFiles \/ ClearMarkers \/ KeepAccount \/ NextGeneration

WorkSpec == WorkInit /\ [][WorkNext]_workVars

-----------------------------------------------------------------------------
(* What must hold *)

\* What clear_local_account_data has got round to removing.
Removed(what) ==
    \/ what \in Rows
    \/ what \in Files /\ loop # "files"
    \/ what \in Markers /\ loop \notin {"files", "markers"}

\* After a logout nothing of the former account is left in the history, the caches
\* or the markers, but for what was written by work abort_all could not end: an
\* ingest thread, a job between two awaits, a job not yet registered and what these
\* spawn.  And the one-time recovery of contact names is spent on an account only
\* once a chat is there to recover (run_daemon, GenerationJobs, process_history_event,
\* request_missing_contact_history).
FormerAccountIsExplained ==
    /\ \A x \in kept : Removed(x.what) => x.acct = account \/ x.loose
    /\ \A x \in kept :
          x.what = "contact_history" /\ x.acct = account /\ ~x.loose => Holds("conversation")

=============================================================================
