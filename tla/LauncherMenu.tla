----------------------------- MODULE LauncherMenu -----------------------------
(* The command-line client's block of conversations in the launcher's menu     *)
(* file (crates/ctl/src/main.rs), and the shell that keeps it up to date       *)
(* (Service.qml).  A run asks the daemon for the list, reads the file, finds   *)
(* its block by the two markers and renames a new file over the old one.  The  *)
(* file is the user's own: edits and other runs come between these steps.      *)
(* A text is a sequence of tokens: braces, line ends, markers, the rows of a   *)
(* list of conversations and the user's words.                                 *)
EXTENDS Naturals, Sequences, FiniteSetsExt, SequencesExt

CONSTANTS
    Listings,           \* the daemon's lists of conversations, oldest first
    MenuEvents      \* bound: edits, runs by hand and runs that fail

ASSUME MenuAssumption == Listings # <<>> /\ MenuEvents \in Nat

VARIABLES
    menu,       \* the text of the file, NoFile if there is none
    listed,     \* the daemon's newest list
    notices,    \* chats events on their way to the shell
    timer,      \* launcherSyncDebounce is running
    pending,    \* launcherSyncPending
    syncs,      \* the runs of the client: at most the shell's and one by hand
    happened,   \* bound: edits, runs by hand and runs that failed so far
    saved,      \* history: the user's own text as the user last left it
    newest,     \* history: the newest list a run has written
    behind     \* history: the block may be old although nothing is under way

menuVars == <<menu, listed, notices, timer, pending, syncs, happened, saved, newest, behind>>

NoFile == <<>>
EmptyMenu == <<"{", "nl", "}", "nl">>
Written == <<"//", "nl", "{", "nl", "own", "nl", "}">>

\* read_menu_or_default
TextOf(file) == IF file = NoFile THEN EmptyMenu ELSE file

At(text, token) == {i \in DOMAIN text : text[i] = token}
RowsIn(text) == {k \in DOMAIN Listings : At(text, Listings[k]) # {}}

\* What is left of a text without line ends, markers, rows and what the user
\* wrote onto a marker's line.
UsersOwn(text) ==
    SelectSeq(text, LAMBDA t : t \notin ({"nl", "BEGIN", "END", "begin", "end", "squeezed"}
                                            \cup ToSet(Listings)))

-----------------------------------------------------------------------------
(* The block *)

\* generated_block_span refuses: an end without a begin, a begin without an end
\* behind it, or more than one of either.
BlockBroken(text) ==
    \/ At(text, "BEGIN") = {} /\ At(text, "END") # {}
    \/ Cardinality(At(text, "BEGIN")) > 1
    \/ \E b \in At(text, "BEGIN") : Cardinality({e \in At(text, "END") : e > b}) # 1

\* The span from the line end before the begin marker to the end marker.
LineEnds(text, b) == {i \in At(text, "nl") : i < b}

\* Mutation: the first line end instead of the last.
SpanFromTheTop(text) ==
    LET b == Min(At(text, "BEGIN"))
    IN  [from |-> Min(LineEnds(text, b)), to |-> Min({e \in At(text, "END") : e > b})]

SpanOf(text) ==
    LET b == Min(At(text, "BEGIN"))
    IN  [from |-> IF LineEnds(text, b) = {} THEN b ELSE Max(LineEnds(text, b)),
         to   |-> Min({e \in At(text, "END") : e > b})]

Replaced(text, span, by) ==
    SubSeq(text, 1, span.from - 1) \o by \o SubSeq(text, span.to + 1, Len(text))

\* root_object_open: the brace behind nothing but blanks and comments.
Roots(text) == {i \in At(text, "{") : \A j \in 1..(i - 1) : text[j] \in {"nl", "//"}}

\* render_menu_block
Block(k) == <<"nl", "BEGIN", "nl", Listings[k], "nl", "END">>

\* upsert_menu_block
Upserted(text, k) ==
    IF At(text, "BEGIN") # {} THEN Replaced(text, SpanOf(text), Block(k))
    ELSE LET root == Min(Roots(text))
         IN  Replaced(text, [from |-> root + 1, to |-> root], Block(k))

\* remove_launcher_menu
Without(text) ==
    IF At(text, "BEGIN") = {} THEN text ELSE Replaced(text, SpanOf(text), <<>>)

Refuses(run, text) ==
    BlockBroken(text) \/ (run.task = "sync" /\ At(text, "BEGIN") = {} /\ Roots(text) = {})

\* A run: who started it, launcher-sync or launcher-remove, the list it was
\* given and the file it read.
Run(who, task) == [who |-> who, task |-> task, rows |-> 0, read |-> FALSE, file |-> NoFile]

-----------------------------------------------------------------------------
MenuInit ==
    /\ menu \in {NoFile, Written}
    /\ listed = 1 /\ notices = 1 /\ timer = FALSE /\ pending = FALSE
    /\ syncs = {} /\ happened = 0
    /\ saved = UsersOwn(TextOf(menu)) /\ newest = 0 /\ behind = FALSE

\* The conversations changed and the shell is sent the list.
ChatsChange ==
    /\ listed < Len(Listings)
    /\ listed' = listed + 1 /\ notices' = notices + 1
    /\ UNCHANGED <<menu, timer, pending, syncs, happened, saved, newest, behind>>

ShellRuns == \E run \in syncs : run.who = "shell"

\* Mutation: a change during a run does not ask for another.
OnlyWhenIdle == timer' = (timer \/ ~ShellRuns) /\ UNCHANGED pending

\* scheduleLauncherSync
ScheduleSync ==
    /\ pending' = (pending \/ ShellRuns)
    /\ timer' = (timer \/ ~ShellRuns)

HearOfChats ==
    /\ notices > 0
    /\ notices' = notices - 1
    /\ ScheduleSync
    /\ UNCHANGED <<menu, listed, syncs, happened, saved, newest, behind>>

\* The timer fires; it never runs beside the process it starts.
StartSync ==
    /\ timer
    /\ timer' = FALSE /\ pending' = FALSE
    /\ syncs' = syncs \cup {Run("shell", "sync")}
    /\ UNCHANGED <<menu, listed, notices, happened, saved, newest, behind>>

\* Somebody runs the client, or the uninstaller does.
RunByHand(task) ==
    /\ happened < MenuEvents /\ \A run \in syncs : run.who = "shell"
    /\ happened' = happened + 1
    /\ syncs' = syncs \cup {Run("hand", task)}
    /\ UNCHANGED <<menu, listed, notices, timer, pending, saved, newest, behind>>

\* The shell starts another run if it was asked to meanwhile (onExited); it
\* does not look at how the run ended.
Exit(run) ==
    /\ syncs' = syncs \ {run}
    /\ IF run.who = "shell" THEN timer' = (timer \/ pending) /\ pending' = FALSE
       ELSE UNCHANGED <<timer, pending>>

Goes(run, next) == syncs' = (syncs \ {run}) \cup {next} /\ UNCHANGED <<timer, pending>>

\* request_inner: the answer to list_chats.
GetChats(run) ==
    /\ run.task = "sync" /\ run.rows = 0
    /\ Goes(run, [run EXCEPT !.rows = listed])
    /\ UNCHANGED <<menu, listed, notices, happened, saved, newest, behind>>

\* The daemon is away or late, or a file operation fails.
FailRun(run) ==
    /\ happened < MenuEvents
    /\ happened' = happened + 1
    /\ Exit(run)
    /\ behind' = TRUE
    /\ UNCHANGED <<menu, listed, notices, saved, newest>>

ReadMenu(run) ==
    /\ ~run.read /\ run.task = "sync" => run.rows # 0
    /\ Goes(run, [run EXCEPT !.read = TRUE, !.file = menu])
    /\ UNCHANGED <<menu, listed, notices, happened, saved, newest, behind>>

RefuseMenu(run) ==
    /\ run.read /\ Refuses(run, TextOf(run.file))
    /\ Exit(run)
    /\ behind' = TRUE
    /\ UNCHANGED <<menu, listed, notices, happened, saved, newest>>

\* write_if_changed: nothing, or a new file under the old name.  What somebody
\* else wrote since the file was read is gone, and the user's text is what
\* stood in the file that was read.
Update(run, text) ==
    /\ menu' = IF text = TextOf(run.file) THEN menu ELSE text
    /\ saved' = IF text # TextOf(run.file) /\ menu # run.file
                THEN UsersOwn(TextOf(run.file)) ELSE saved

WriteBlock(run) ==
    /\ run.read /\ run.task = "sync" /\ ~Refuses(run, TextOf(run.file))
    /\ Update(run, Upserted(TextOf(run.file), run.rows))
    /\ newest' = Max({newest, run.rows})
    /\ behind' = (menu' # Upserted(TextOf(run.file), run.rows)
                    \/ At(menu', "begin") # {}
                    \/ (run.rows < listed /\ (behind \/ run.rows < newest)))
    /\ Exit(run)
    /\ UNCHANGED <<listed, notices, happened>>

RemoveBlock(run) ==
    /\ run.read /\ run.task = "remove" /\ ~Refuses(run, TextOf(run.file))
    /\ Update(run, Without(TextOf(run.file)))
    /\ behind' = TRUE
    /\ Exit(run)
    /\ UNCHANGED <<listed, notices, happened, newest>>

-----------------------------------------------------------------------------
(* The user's edits *)

Inserted(token, i) == InsertAt(TextOf(menu), i, token)

Edit ==
    \/ \E i \in Roots(TextOf(menu)) : menu' = Inserted("more", i + 1)
    \/ \E i \in At(menu, "BEGIN") : menu' = Inserted("squeezed", i)     \* on the marker's line
    \/ \E i \in At(menu, "END") : menu' = Inserted("tail", i + 1)
    \/ \E i \in At(menu, "END") : menu' = RemoveAt(menu, i)
    \/ /\ At(menu, "BEGIN") # {}                                   \* indented anew
       /\ menu' = [i \in DOMAIN menu |-> CASE menu[i] = "BEGIN" -> "begin"
                                           [] menu[i] = "END" -> "end"
                                           [] OTHER -> menu[i]]
    \/ menu # NoFile /\ menu' \in {NoFile, <<"[", "]">>}

EditMenu ==
    /\ happened < MenuEvents
    /\ happened' = happened + 1
    /\ Edit
    /\ saved' = UsersOwn(TextOf(menu'))
    /\ behind' = (behind \/ At(menu', "BEGIN") = {} \/ At(menu', "END") = {})
    /\ UNCHANGED <<listed, notices, timer, pending, syncs, newest>>

MenuNext ==
    \/ ChatsChange \/ HearOfChats \/ StartSync \/ EditMenu
    \/ \E task \in {"sync", "remove"} : RunByHand(task)
    \/ \E run \in syncs :
          \/ GetChats(run) \/ FailRun(run) \/ ReadMenu(run) \/ RefuseMenu(run)
          \/ WriteBlock(run) \/ RemoveBlock(run)

MenuSpec == MenuInit /\ [][MenuNext]_menuVars

-----------------------------------------------------------------------------
\* Whatever the runs do, the user's own text around the block stays as the user
\* left it, in order and once.  Exceptions: what stands on a marker's line goes
\* with the block, and what was written between a run's reading and its rename
\* is undone, to the text the run read.
TextStaysTheUsers == UsersOwn(TextOf(menu)) = saved

\* Once nothing is under way the block is there, once, and lists the
\* conversations of the newest list.  Exceptions: since the last such run, one
\* failed or refused the file (the shell does not look at how a run ended), the
\* user damaged or removed the block, or a run that was given an older
\* list finished later.
BlockIsCurrent ==
    notices = 0 /\ ~timer /\ ~pending /\ syncs = {} /\ ~behind
        => RowsIn(menu) = {listed} /\ Cardinality(At(menu, "BEGIN")) = 1

MenuIsKept == TextStaysTheUsers /\ BlockIsCurrent
=============================================================================
