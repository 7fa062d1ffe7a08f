------------------------------ MODULE MediaJobs ------------------------------
(* Media downloads: the command that queues one, the background job that runs  *)
(* it outside any connection (start_media_download and perform_media_download, *)
(* commands.rs), the private files it writes (assets.rs), and what takes the   *)
(* ground from under it: a deletion by another device (events.rs) and the wipe *)
(* of a logout (clear_local_account_data, main.rs), which clears the set of    *)
(* pending downloads but stops no job.  One action is one await point, one     *)
(* SQLite transaction or one change of the directory.                          *)
EXTENDS Naturals, FiniteSets

CONSTANTS
    Media,          \* downloadable messages
    Tasks,          \* bound: jobs at a time
    MaxPending,     \* MAX_PENDING_MEDIA_DOWNLOADS, 64 in the code
    MaxParallel,    \* MAX_PARALLEL_MEDIA_DOWNLOADS, 3 in the code
    NoMedia         \* the medium of a task that does not exist

ASSUME MediaAssumption == NoMedia \notin Media
ASSUME MediaLimits == MaxPending \in Nat \ {0} /\ MaxParallel \in Nat \ {0}

VARIABLES
    rows,       \* the messages' rows: none, without or with their media_download
    files,      \* media whose file is in media_dir
    pending,    \* shared.media_downloads
    tasks,      \* the spawned jobs
    temps,      \* jobs whose temporary file exists
    erasing,    \* deleted messages whose files are about to be removed
    linked,     \* whether shared.client holds a transport
    wipe,       \* where clear_local_account_data stands
    waiting,    \* history: accepted requests whose outcome is not published
    overtaken,  \* history: media whose row went while a job carried them, or
                \* whose files the deletion was told to keep
    forgotten   \* history: media the wipe forgot while a job carried them

mediaVars == <<rows, files, pending, tasks, temps, erasing, linked, wipe,
               waiting, overtaken, forgotten>>

NoTask == [step |-> "none", of |-> NoMedia]
Transfers == {"payload", "recover", "update", "transfer"}   \* under the deadline
Steps == Transfers \cup {"none", "permit", "remove", "publish"}

At(steps) == {t \in Tasks : tasks[t].step \in steps}
Carried == {tasks[t].of : t \in At(Transfers \cup {"permit", "remove"})}
Present == {m \in Media : rows[m] # "none"}

Move(t, step) == tasks' = [tasks EXCEPT ![t].step = step]

MediaInit ==
    /\ rows = [m \in Media |-> "none"]
    /\ files = {} /\ pending = {} /\ temps = {} /\ erasing = {}
    /\ tasks = [t \in Tasks |-> NoTask]
    /\ linked = FALSE /\ wipe = "idle"
    /\ waiting = {} /\ overtaken = {} /\ forgotten = {}

-----------------------------------------------------------------------------
(* start_media_download *)

Spawn(t, m) ==
    /\ tasks[t] = NoTask
    /\ tasks' = [tasks EXCEPT ![t] = [step |-> "permit", of |-> m]]

\* A new download: acked once it is in the set and its job is spawned.
StartDownload(t, m) ==
    /\ linked /\ rows[m] # "none" /\ m \notin pending
    /\ Cardinality(pending) < MaxPending
    /\ pending' = pending \cup {m}
    /\ waiting' = waiting \cup {m}
    /\ Spawn(t, m)
    /\ UNCHANGED <<rows, files, temps, erasing, linked, wipe, overtaken, forgotten>>

\* "The pending job for this message broadcasts the outcome."
JoinDownload(m) ==
    /\ linked /\ rows[m] # "none" /\ m \in pending
    /\ waiting' = waiting \cup {m}
    /\ UNCHANGED <<rows, files, pending, tasks, temps, erasing, linked, wipe,
                   overtaken, forgotten>>

-----------------------------------------------------------------------------
(* The job *)

TakeMediaPermit(t) ==
    /\ tasks[t].step = "permit"
    /\ Cardinality(At(Transfers)) < MaxParallel
    /\ Move(t, "payload")
    /\ UNCHANGED <<rows, files, pending, temps, erasing, linked, wipe,
                   waiting, overtaken, forgotten>>

\* media_download_payload: the stored keys, else a request to the phone.
ReadPayload(t) ==
    /\ tasks[t].step = "payload"
    /\ Move(t, CASE rows[tasks[t].of] = "keyed" -> "update"
                 [] rows[tasks[t].of] = "bare" -> "recover"
                 [] OTHER -> "remove")
    /\ UNCHANGED <<rows, files, pending, temps, erasing, linked, wipe,
                   waiting, overtaken, forgotten>>

\* One of the forty looks at the row.
FindPayload(t) ==
    /\ tasks[t].step = "recover" /\ rows[tasks[t].of] = "keyed"
    /\ Move(t, "update")
    /\ UNCHANGED <<rows, files, pending, temps, erasing, linked, wipe,
                   waiting, overtaken, forgotten>>

\* update_message_media, whose "no such row" is not looked at; then nothing is
\* left to do, or the temporary file is created.
UpdateMedia(t) ==
    /\ tasks[t].step = "update"
    /\ IF tasks[t].of \in files
       THEN Move(t, "remove") /\ UNCHANGED temps
       ELSE Move(t, "transfer") /\ temps' = temps \cup {t}
    /\ UNCHANGED <<rows, files, pending, erasing, linked, wipe,
                   waiting, overtaken, forgotten>>

\* The transfer succeeded: the temporary file, if it is still there, takes its
\* final name, and the cache drops what exceeds its budget.
CommitFile(t, evicted) ==
    /\ tasks[t].step = "transfer"
    /\ files' = IF t \in temps THEN (files \ evicted) \cup {tasks[t].of} ELSE files
    /\ temps' = temps \ {t}
    /\ Move(t, "remove")
    /\ UNCHANGED <<rows, pending, erasing, linked, wipe, waiting, overtaken, forgotten>>

\* Mutation: the deadline returns before the job takes itself from the set.
GiveUpWithoutOutcome(t) ==
    /\ tasks[t].step \in Transfers
    /\ temps' = temps \ {t}
    /\ tasks' = [tasks EXCEPT ![t] = NoTask]
    /\ UNCHANGED <<rows, files, pending, erasing, linked, wipe,
                   waiting, overtaken, forgotten>>

\* An error, or the deadline over everything behind the permit; dropping the
\* temporary file removes it.
GiveUp(t) ==
    /\ tasks[t].step \in Transfers
    /\ temps' = temps \ {t}
    /\ Move(t, "remove")
    /\ UNCHANGED <<rows, files, pending, erasing, linked, wipe,
                   waiting, overtaken, forgotten>>

RemovePending(t) ==
    /\ tasks[t].step = "remove"
    /\ pending' = pending \ {tasks[t].of}
    /\ Move(t, "publish")
    /\ UNCHANGED <<rows, files, temps, erasing, linked, wipe,
                   waiting, overtaken, forgotten>>

\* media_downloaded or media_download_failed.
PublishOutcome(t) ==
    /\ tasks[t].step = "publish"
    /\ waiting' = waiting \ {tasks[t].of}
    /\ tasks' = [tasks EXCEPT ![t] = NoTask]
    /\ UNCHANGED <<rows, files, pending, temps, erasing, linked, wipe,
                   overtaken, forgotten>>

-----------------------------------------------------------------------------
(* Events, the connection and the wipe *)

\* A message with media arrives, with or without the keys of its download, or
\* the keys arrive for a row that lacks them.
StoreMessage(m, row) ==
    /\ linked
    /\ \/ rows[m] = "none" /\ m \notin erasing
       \/ rows[m] = "bare" /\ row = "keyed"
    /\ rows' = [rows EXCEPT ![m] = row]
    /\ overtaken' = IF rows[m] = "none" THEN overtaken \ {m} ELSE overtaken
    /\ UNCHANGED <<files, pending, tasks, temps, erasing, linked, wipe,
                   waiting, forgotten>>

\* DeleteMessageForMeUpdate, DeleteChatUpdate or ClearChatUpdate: the row goes,
\* then the files, which the last two may be told to keep.
DeleteRow(m, keep) ==
    /\ linked /\ rows[m] # "none"
    /\ rows' = [rows EXCEPT ![m] = "none"]
    /\ erasing' = IF keep THEN erasing ELSE erasing \cup {m}
    /\ overtaken' = IF keep \/ m \in Carried THEN overtaken \cup {m} ELSE overtaken
    /\ UNCHANGED <<files, pending, tasks, temps, linked, wipe, waiting, forgotten>>

\* Mutation: the handler does not call remove_message_media.
EraseNothing(m) ==
    /\ m \in erasing
    /\ erasing' = erasing \ {m}
    /\ UNCHANGED <<rows, files, pending, tasks, temps, linked, wipe, waiting,
                   overtaken, forgotten>>

\* remove_message_media, or remove_chat_media: what goes by prefix (videos,
\* audios, a whole chat) takes the temporary files with it.
EraseFiles(m) ==
    /\ m \in erasing
    /\ files' = files \ {m}
    /\ \E byPrefix \in BOOLEAN :
          temps' = IF byPrefix THEN {t \in temps : tasks[t].of # m} ELSE temps
    /\ erasing' = erasing \ {m}
    /\ UNCHANGED <<rows, pending, tasks, linked, wipe, waiting, overtaken, forgotten>>

Link ==
    /\ ~linked /\ wipe = "idle"
    /\ linked' = TRUE
    /\ UNCHANGED <<rows, files, pending, tasks, temps, erasing, wipe,
                   waiting, overtaken, forgotten>>

\* The client is gone, and perhaps the account with it.
Unlink(logout) ==
    /\ linked
    /\ linked' = FALSE
    /\ wipe' = IF logout THEN "database" ELSE "idle"
    /\ UNCHANGED <<rows, files, pending, tasks, temps, erasing,
                   waiting, overtaken, forgotten>>

\* clear_local_account_data: the database, the directories, the sets.
WipeDatabase ==
    /\ wipe = "database"
    /\ rows' = [m \in Media |-> "none"]
    /\ overtaken' = overtaken \cup (Carried \cap Present)
    /\ wipe' = "directories"
    /\ UNCHANGED <<files, pending, tasks, temps, erasing, linked, waiting, forgotten>>

WipeDirectories ==
    /\ wipe = "directories"
    /\ files' = {} /\ temps' = {}
    /\ wipe' = "sets"
    /\ UNCHANGED <<rows, pending, tasks, erasing, linked, waiting, overtaken, forgotten>>

WipeSets ==
    /\ wipe = "sets"
    /\ pending' = {}
    /\ forgotten' = forgotten \cup Carried
    /\ wipe' = "idle"
    /\ UNCHANGED <<rows, files, tasks, temps, erasing, linked, waiting, overtaken>>

-----------------------------------------------------------------------------
JobStep(t) ==
    \/ TakeMediaPermit(t) \/ ReadPayload(t) \/ FindPayload(t) \/ UpdateMedia(t)
    \/ \E evicted \in SUBSET (files \ {tasks[t].of}) : CommitFile(t, evicted)
    \/ GiveUp(t) \/ RemovePending(t) \/ PublishOutcome(t)

MediaNext ==
    \/ \E m \in Media :
          \/ \E t \in Tasks : StartDownload(t, m)
          \/ JoinDownload(m)
          \/ \E row \in {"bare", "keyed"} : StoreMessage(m, row)
          \/ \E keep \in BOOLEAN : DeleteRow(m, keep)
          \/ EraseFiles(m)
    \/ \E t \in Tasks : JobStep(t)
    \/ Link \/ (\E logout \in BOOLEAN : Unlink(logout))
    \/ WipeDatabase \/ WipeDirectories \/ WipeSets

MediaSpec == MediaInit /\ [][MediaNext]_mediaVars

\* A spawned job runs, its deadline fires, and a semaphore serves its waiters
\* in order, so a job that waits for a permit gets one.
MediaFairness ==
    \A t \in Tasks :
        /\ SF_mediaVars(TakeMediaPermit(t))
        /\ WF_mediaVars(GiveUp(t))
        /\ WF_mediaVars(RemovePending(t) \/ PublishOutcome(t))

MediaFairSpec == MediaSpec /\ MediaFairness

-----------------------------------------------------------------------------
(* Properties *)

\* The type of every variable; only a transfer has a temporary file, and no
\* more transfers run and no more downloads are pending than the limits allow.
MediaTypeOK ==
    /\ rows \in [Media -> {"none", "bare", "keyed"}]
    /\ files \subseteq Media /\ erasing \subseteq Media
    /\ pending \subseteq Media /\ Cardinality(pending) <= MaxPending
    /\ tasks \in [Tasks -> [step : Steps, of : Media \cup {NoMedia}]]
    /\ \A t \in Tasks : tasks[t].of = NoMedia <=> tasks[t].step = "none"
    /\ Cardinality(At(Transfers)) <= MaxParallel
    /\ temps \subseteq At({"transfer"})
    /\ linked \in BOOLEAN /\ wipe \in {"idle", "database", "directories", "sets"}
    /\ waiting \subseteq Media /\ overtaken \subseteq Media /\ forgotten \subseteq Media

\* Every accepted download, joined ones included, has its outcome published,
\* whatever the transfer, a deletion or a wipe does to it.
OutcomeFollowsAck == \A m \in Media : m \in waiting ~> m \notin waiting

\* Two jobs carry one medium only after a wipe forgot the first of them (the
\* media_downloads set).
OneJobPerMedium ==
    \A t, u \in At(Transfers \cup {"permit", "remove"}) :
        t # u /\ tasks[t].of = tasks[u].of => tasks[t].of \in forgotten

\* A file of a message that is gone is about to be removed, was kept on
\* request, or belongs to a download that the deletion or the wipe overtook.
OrphansAreExplained ==
    wipe = "idle" => files \ Present \subseteq erasing \cup overtaken

\* What downloads leave behind, and how many carry one medium, is what the
\* deletions and the wipe that overtook them account for.
DownloadsAreAccounted == OneJobPerMedium /\ OrphansAreExplained
=============================================================================
