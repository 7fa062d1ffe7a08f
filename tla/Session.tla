-------------------------------- MODULE Session --------------------------------
(* The daemon's generation loop (main.rs) with the two commands that end a     *)
(* generation: Logout, which wipes the account when the client has stopped,    *)
(* and ResyncChatState, which restarts the client, resets the app-state        *)
(* cursors and waits for their replay (commands.rs, events.rs, sync.rs).  Both *)
(* hold the "global-session" gate, so at most one of them is under way.        *)
EXTENDS Naturals

CONSTANTS
    Waiters,        \* await_app_state_sync tasks that may exist at once
    Generations,    \* bound: client generations of one run of the daemon
    Faults          \* whether files and databases may fail

ASSUME BoundsAssumption == Generations \in Nat
ASSUME FaultsAssumption == Faults \in BOOLEAN

VARIABLES
    clock,      \* RevisionClock.generation: odd while a client runs
    loop,       \* where the generation loop is
    client,     \* whether shared.client holds a client
    connected,  \* whether shared.status is Connected
    command,    \* the Logout or ResyncChatState under way
    trigger,    \* the generation whose logout_trigger is installed, 0 if none
    signalled,  \* whether the trigger of the running generation was used or dropped
    flag,       \* logout_requested
    permit,     \* the permit chat_state_resync_notify stores
    requested,  \* chat_state_resync_requested
    status,     \* chat_state_resync
    marker,     \* event_sync_marker exists
    complete,   \* regular_app_state_is_complete
    failed,     \* app_state_failed
    waiter,     \* the await_app_state_sync tasks
    flagged,    \* history: the generation the logout was meant for
    owed,       \* history: a logout was accepted and the account not yet wiped
    reset       \* history: the cursors were reset since the last accepted resync

stop == <<trigger, signalled, flag, flagged, owed>>
link == <<client, connected>>
replay == <<permit, requested, status, marker, complete, failed, waiter, reset>>
vars == <<clock, loop, client, connected, command, trigger, signalled, flag, permit,
          requested, status, marker, complete, failed, waiter, flagged, owed, reset>>

Stages == {"idle", "prepare", "running", "stopping", "retired", "swap"}
Statuses == {"Idle", "Requested", "Syncing", "Succeeded", "Failed"}
Outcomes == {"Succeeded", "Failed"}

Commands == [step : {"none", "cloned", "took", "calling", "armed", "report"}, gen : Nat]
NoCommand == [step |-> "none", gen |-> 0]
At(step, gen) == [step |-> step, gen |-> gen]

Tasks == [step : {"none", "waiting", "mark", "swap", "report"}, gen : Nat, outcome : Outcomes]
NoTask == [step |-> "none", gen |-> 0, outcome |-> "Failed"]
Task(step, gen, outcome) == [step |-> step, gen |-> gen, outcome |-> outcome]

Init ==
    /\ clock = 0 /\ loop = "idle" /\ client = FALSE /\ connected = FALSE
    /\ command = NoCommand /\ trigger = 0 /\ signalled = FALSE /\ flag = FALSE
    /\ permit = FALSE /\ requested = FALSE /\ status = "Idle"
    /\ marker = FALSE /\ complete = FALSE /\ failed = FALSE
    /\ waiter = [w \in Waiters |-> NoTask]
    /\ flagged = 0 /\ owed = FALSE /\ reset = FALSE

IsCurrent(gen) == gen # 0 /\ gen = clock

\* A pending resync request is answered with this outcome.
Answer(outcome) ==
    /\ requested' = FALSE
    /\ status' = IF requested THEN outcome ELSE status

-----------------------------------------------------------------------------
(* The generation loop *)

\* begin_generation and arm_logout.
BeginGeneration ==
    /\ loop = "idle" /\ clock < 2 * Generations
    /\ clock' = clock + 1
    /\ loop' = "prepare"
    /\ trigger' = clock + 1 /\ signalled' = FALSE
    /\ failed' = FALSE
    /\ UNCHANGED <<link, command, flag, flagged, owed, permit, requested, status,
                   marker, complete, waiter, reset>>

\* prepare_event_state_resync: without the marker the cursors are reset.
Prepare ==
    /\ loop = "prepare"
    /\ loop' = "running"
    /\ \/ /\ complete' = (marker /\ complete)
          /\ reset' = (reset \/ ~marker)
          /\ UNCHANGED <<requested, status>>
       \/ /\ Faults /\ ~marker
          /\ Answer("Failed")
          /\ UNCHANGED <<complete, reset>>
    /\ UNCHANGED <<clock, link, command, stop, permit, marker, failed, waiter>>

\* on_connected: without the marker a task waits for the replay.
OnConnected ==
    /\ loop = "running" /\ ~client
    /\ client' = TRUE /\ connected' = TRUE
    /\ \/ marker /\ UNCHANGED waiter
       \/ /\ ~marker
          /\ \E w \in Waiters :
                /\ waiter[w].step = "none"
                /\ waiter' = [waiter EXCEPT ![w] = Task("waiting", clock, "Failed")]
    /\ UNCHANGED <<clock, loop, command, stop, permit, requested, status, marker,
                   complete, failed, reset>>

Disconnect ==
    /\ loop \in {"running", "stopping"} /\ client
    /\ client' = FALSE /\ connected' = FALSE
    /\ UNCHANGED <<clock, loop, command, stop, replay>>

\* The logout signal is resolved, by its trigger or by dropping it.
StopForLogout ==
    /\ loop = "running" /\ signalled
    /\ loop' = "stopping"
    /\ UNCHANGED <<clock, link, command, stop, replay>>

\* chat_state_resync_notify; the client keeps running until it has shut down.
StopForResync ==
    /\ loop = "running" /\ permit
    /\ permit' = FALSE
    /\ status' = "Syncing"
    /\ connected' = FALSE
    /\ loop' = "stopping"
    /\ UNCHANGED <<clock, client, command, stop, requested, marker, complete,
                   failed, waiter, reset>>

\* The client has stopped, asked to or not: retire_generation and abort_all,
\* which ends a task only where it waits.
RetireGeneration ==
    /\ loop \in {"running", "stopping"}
    /\ clock' = clock + 1
    /\ loop' = "retired"
    /\ waiter' = [w \in Waiters |-> IF waiter[w].step = "waiting" THEN NoTask ELSE waiter[w]]
    /\ UNCHANGED <<link, command, stop, permit, requested, status, marker, complete,
                   failed, reset>>

\* Behind the reducer's barrier the client is dropped.
DropClient ==
    /\ loop = "retired"
    /\ client' = FALSE
    /\ loop' = "swap"
    /\ UNCHANGED <<clock, connected, command, stop, replay>>

\* Mutation: the flag is read and not taken.
WipeKeepsFlag ==
    /\ loop = "swap" /\ flag
    /\ owed' = (command.step = "took")
    /\ marker' = FALSE /\ complete' = FALSE /\ reset' = TRUE
    /\ connected' = FALSE
    /\ loop' = "idle"
    /\ UNCHANGED <<clock, client, command, trigger, signalled, flag, flagged, permit,
                   requested, status, failed, waiter>>

\* logout_requested.swap and clear_local_account_data.
WipeAccount ==
    /\ loop = "swap" /\ flag
    /\ flag' = FALSE /\ owed' = (command.step = "took")
    /\ marker' = FALSE /\ complete' = FALSE /\ reset' = TRUE
    /\ connected' = FALSE
    /\ loop' = "idle"
    /\ UNCHANGED <<clock, client, command, trigger, signalled, flagged, permit,
                   requested, status, failed, waiter>>

\* The session ended, or restarts for a resync, which leaves the status alone.
KeepAccount ==
    /\ loop = "swap" /\ ~flag
    /\ connected' = (connected /\ requested)
    /\ loop' = "idle"
    /\ UNCHANGED <<clock, client, command, stop, replay>>

\* Only files outlive the process.
Forget ==
    /\ clock' = 0 /\ loop' = "idle" /\ client' = FALSE /\ connected' = FALSE
    /\ command' = NoCommand /\ trigger' = 0 /\ signalled' = FALSE /\ flag' = FALSE
    /\ permit' = FALSE /\ requested' = FALSE /\ status' = "Idle" /\ failed' = FALSE
    /\ waiter' = [w \in Waiters |-> NoTask]
    /\ flagged' = 0 /\ owed' = FALSE

\* The daemon stops or crashes and is started again.
Restart ==
    /\ clock # 0
    /\ Forget
    /\ UNCHANGED <<marker, complete, reset>>

\* A crash or an error in the middle of the wipe ends the daemon: the session
\* store goes before the markers.
WipeIsCut ==
    /\ Faults /\ loop = "swap" /\ flag
    /\ Forget
    /\ complete' = FALSE /\ reset' = TRUE
    /\ UNCHANGED marker

-----------------------------------------------------------------------------
(* Logout *)

Logout ==
    /\ command.step = "none" /\ client
    /\ command' = At("cloned", 0)
    /\ UNCHANGED <<clock, loop, link, stop, replay>>

\* take_logout_trigger; without a trigger the command is refused.
TakeTrigger ==
    /\ command.step = "cloned"
    /\ command' = IF trigger = 0 THEN NoCommand ELSE At("took", trigger)
    /\ trigger' = 0
    /\ owed' = (owed \/ trigger # 0)
    /\ UNCHANGED <<clock, loop, link, signalled, flag, flagged, replay>>

StoreFlag ==
    /\ command.step = "took"
    /\ flag' = TRUE
    /\ flagged' = command.gen
    /\ command' = At("calling", command.gen)
    /\ UNCHANGED <<clock, loop, link, trigger, signalled, owed, replay>>

\* Mutation: a command dropped in client.logout() leaves its trigger armed.
LogoutForgotten ==
    /\ command.step = "calling"
    /\ command' = NoCommand
    /\ UNCHANGED <<clock, loop, link, stop, replay>>

\* client.logout() returned and the trigger is sent, or the command was dropped
\* there and the trigger with it: either resolves its generation's signal.
LogoutEnds ==
    /\ command.step = "calling"
    /\ signalled' = (signalled \/ command.gen = clock)
    /\ command' = NoCommand
    /\ UNCHANGED <<clock, loop, link, trigger, flag, flagged, owed, replay>>

-----------------------------------------------------------------------------
(* ResyncChatState *)

ResyncChatState ==
    /\ command.step = "none" /\ connected /\ ~requested
    /\ requested' = TRUE
    /\ reset' = FALSE
    /\ command' = At("armed", 0)
    /\ UNCHANGED <<clock, loop, link, stop, permit, status, marker, complete,
                   failed, waiter>>

\* Mutation: a failed removal leaves the request standing.
RemoveMarkerFailsSilently ==
    /\ command.step = "armed"
    /\ \/ marker' = FALSE /\ command' = At("report", 0)
       \/ Faults /\ marker /\ command' = NoCommand /\ UNCHANGED marker
    /\ UNCHANGED <<clock, loop, link, stop, permit, requested, status, complete,
                   failed, waiter, reset>>

\* Removing the marker arms the replay; if it cannot be removed the request ends.
RemoveMarker ==
    /\ command.step = "armed"
    /\ \/ /\ marker' = FALSE
          /\ command' = At("report", 0)
          /\ UNCHANGED <<requested, status>>
       \/ /\ Faults /\ marker
          /\ requested' = FALSE /\ status' = "Failed"
          /\ command' = NoCommand
          /\ UNCHANGED marker
    /\ UNCHANGED <<clock, loop, link, stop, permit, complete, failed, waiter, reset>>

\* The status is published and the generation loop told, unless the command is
\* dropped while it waits for the status.
ReportRequested ==
    /\ command.step = "report"
    /\ command' = NoCommand
    /\ \/ status' = "Requested" /\ permit' = TRUE
       \/ UNCHANGED <<status, permit>>
    /\ UNCHANGED <<clock, loop, link, stop, requested, marker, complete, failed,
                   waiter, reset>>

-----------------------------------------------------------------------------
(* The replay *)

\* The library has fetched the three regular collections.
ReplayArrives ==
    /\ client /\ ~complete /\ loop \in {"running", "stopping"}
    /\ complete' = TRUE
    /\ UNCHANGED <<clock, loop, link, command, stop, permit, requested, status,
                   marker, failed, waiter, reset>>

\* AppStateSyncFailed
AppStateSyncFailed ==
    /\ loop \in {"running", "stopping"} /\ client
    /\ failed' = TRUE
    /\ marker' = FALSE
    /\ Answer("Failed")
    /\ UNCHANGED <<clock, loop, link, command, stop, permit, complete, waiter, reset>>

\* await_app_state_sync returns: its generation is over, or the replay failed.
GiveUp(w) ==
    /\ waiter[w].step = "waiting"
    /\ ~IsCurrent(waiter[w].gen) \/ failed
    /\ waiter' = [waiter EXCEPT ![w] = NoTask]
    /\ UNCHANGED <<clock, loop, link, command, stop, permit, requested, status,
                   marker, complete, failed, reset>>

\* A quiet period ends with every collection there and the counters are
\* reconciled, or they cannot be, or the deadline passes.
Settle(w) ==
    /\ waiter[w].step = "waiting" /\ IsCurrent(waiter[w].gen) /\ ~failed
    /\ \/ complete /\ waiter' = [waiter EXCEPT ![w] = Task("mark", clock, "Succeeded")]
       \/ /\ ~complete \/ Faults
          /\ waiter' = [waiter EXCEPT ![w] = Task("swap", clock, "Failed")]
    /\ UNCHANGED <<clock, loop, link, command, stop, permit, requested, status,
                   marker, complete, failed, reset>>

\* mark_event_sync_complete
MarkEventSyncComplete(w) ==
    /\ waiter[w].step = "mark"
    /\ \/ marker' = (marker \/ complete)
       \/ Faults /\ UNCHANGED marker
    /\ waiter' = [waiter EXCEPT ![w] = Task("swap", waiter[w].gen, waiter[w].outcome)]
    /\ UNCHANGED <<clock, loop, link, command, stop, permit, requested, status,
                   complete, failed, reset>>

\* chat_state_resync_requested.swap
TakeRequest(w) ==
    /\ waiter[w].step = "swap"
    /\ requested' = FALSE
    /\ waiter' = [waiter EXCEPT ![w] =
                    IF requested THEN Task("report", waiter[w].gen, waiter[w].outcome)
                    ELSE NoTask]
    /\ UNCHANGED <<clock, loop, link, command, stop, permit, status, marker,
                   complete, failed, reset>>

\* set_chat_state_resync, the one place where abort_all may end the task.
ReportOutcome(w) ==
    /\ waiter[w].step = "report"
    /\ \/ status' = waiter[w].outcome
       \/ ~IsCurrent(waiter[w].gen) /\ UNCHANGED status
    /\ waiter' = [waiter EXCEPT ![w] = NoTask]
    /\ UNCHANGED <<clock, loop, link, command, stop, permit, requested, marker,
                   complete, failed, reset>>

-----------------------------------------------------------------------------
LoopStep ==
    \/ BeginGeneration \/ Prepare \/ StopForLogout \/ StopForResync
    \/ RetireGeneration \/ DropClient \/ WipeAccount \/ KeepAccount
LogoutStep == TakeTrigger \/ StoreFlag \/ LogoutEnds
ResyncStep == RemoveMarker \/ ReportRequested
TaskStep(w) ==
    GiveUp(w) \/ Settle(w) \/ MarkEventSyncComplete(w) \/ TakeRequest(w) \/ ReportOutcome(w)

Next ==
    \/ LoopStep \/ LogoutStep \/ ResyncStep
    \/ OnConnected \/ Disconnect \/ Logout \/ ResyncChatState
    \/ ReplayArrives \/ AppStateSyncFailed
    \/ Restart \/ WipeIsCut
    \/ \E w \in Waiters : TaskStep(w)

Spec == Init /\ [][Next]_vars

\* A generation that begins comes to run, the loop takes a signal, a stopping
\* client stops, the reducer answers its barrier, and a command ends by its
\* deadline.  Nothing else is promised.
Fairness ==
    /\ WF_vars(Prepare) /\ WF_vars(StopForLogout)
    /\ WF_vars(loop = "stopping" /\ RetireGeneration)
    /\ WF_vars(DropClient) /\ WF_vars(WipeAccount)
    /\ WF_vars(LogoutStep)

FairSpec == Spec /\ Fairness

-----------------------------------------------------------------------------
(* Properties *)

\* The type of every variable.
TypeOK ==
    /\ clock \in Nat /\ loop \in Stages
    /\ client \in BOOLEAN /\ connected \in BOOLEAN
    /\ command \in Commands
    /\ trigger \in 0 .. clock /\ signalled \in BOOLEAN /\ flag \in BOOLEAN
    /\ permit \in BOOLEAN /\ requested \in BOOLEAN /\ status \in Statuses
    /\ marker \in BOOLEAN /\ complete \in BOOLEAN /\ failed \in BOOLEAN
    /\ waiter \in [Waiters -> Tasks]
    /\ flagged \in Nat /\ owed \in BOOLEAN /\ reset \in BOOLEAN

\* An armed wipe answers a logout that was accepted and not yet carried out
\* (state.rs:442: a second logout arms no second wipe).
WipeIsOwed == flag => owed

\* While the generation a logout was meant for runs, its flag waits for a stop
\* that is under way: the trigger is in the command's hands or has fired.
FlagStopsItsGeneration ==
    (flag /\ flagged = clock /\ loop \in {"prepare", "running"}) =>
        signalled \/ command = At("calling", clock)

\* A logout wipes once and on time: no wipe without an accepted logout, and no
\* stored logout whose generation runs on without a stop under way.
LogoutIsExact == WipeIsOwed /\ FlagStopsItsGeneration

\* A resync request that stands is armed on disk, so that every later connection
\* waits for the replay and every start resets the cursors; only a command that
\* has yet to arm it and a task about to take it are in between.
RequestStaysArmed ==
    requested => \/ ~marker
                 \/ command.step = "armed"
                 \/ \E w \in Waiters : waiter[w].step = "swap"

\* A logout takes effect: the flag its command stored is taken by the wipe, or
\* the daemon ends.
LogoutTakesEffect == (flag /\ flagged = clock) ~> ~flag

\* commands.rs:1624: the armed flag does not outlive its request: the account
\* wipe happens now or not at all.  (A late logout breaks it.)
WipeIsNowOrNever == flag => clock <= flagged + 1

\* ARCHITECTURE.md:214: a resync resets the app-state cursors and rebuilds the
\* projection from the replay, so one that was acknowledged does not succeed
\* without having reset them.  (A task of an earlier replay breaks it.)
ResyncReplays ==
    [][(status' = "Succeeded" /\ status # "Succeeded" /\ command.step = "none") => reset]_vars
=============================================================================
