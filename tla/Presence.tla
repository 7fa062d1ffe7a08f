------------------------------- MODULE Presence -------------------------------
(* Presence of the linked device: the intents of the IPC connections           *)
(* (connections.rs), their reconciliation with WhatsApp (presence.rs), and the *)
(* switch that keeps a client unavailable during its offline catch-up          *)
(* (state.rs, main.rs, events.rs).  Commands reconcile under the               *)
(* "connection-intent" gate; a closing connection, on_connected and the app-   *)
(* event reducer, which handles one event after the other, do not.  All        *)
(* connections of a generation are of one client (main.rs).                    *)
EXTENDS Naturals, FiniteSets

CONSTANTS
    Panels,         \* IPC connections
    Chats,          \* direct chats a panel may open
    NoChat,         \* no chat
    NoPanel,        \* the owner of a reconciliation that is no command
    Connects,       \* bound: connections to WhatsApp
    Generations,    \* bound: client generations
    CallFaults      \* whether a call may fail, time out, or lack a push name

ASSUME PanelsAssumption ==
    /\ NoChat \notin Chats /\ NoPanel \notin Panels
    /\ Panels \cap {"command", "connected", "appevent"} = {}
ASSUME BoundsAssumption == Connects \in Nat /\ Generations \in Nat
ASSUME CallFaultsAssumption == CallFaults \in BOOLEAN

VARIABLES
    clock,      \* RevisionClock.generation: odd while a client runs
    syncing,    \* presence_sync_generation
    link,       \* whether shared.client holds a connected client
    connects,   \* connections made so far
    open,       \* connected panels
    chat,       \* ConnectionIntent.active_chat
    available,  \* ConnectionIntent.available
    jobs,       \* reconciliations in flight
    caughtUp,   \* whether OfflineSyncCompleted of this connection was handled
    advertised, \* the presence WhatsApp last heard on this connection
    subscribed, \* presence subscriptions of this connection
    overlapped  \* history: two reconciliations overlapped, or a call failed

intents == <<open, chat, available>>
session == <<clock, syncing, link, connects>>
remote == <<caughtUp, advertised, subscribed>>
vars == <<clock, syncing, link, connects, open, chat, available, jobs,
          caughtUp, advertised, subscribed, overlapped>>

Slots == {"command", "connected", "appevent"} \cup Panels

States == [available : BOOLEAN, chats : SUBSET Chats]
NoState == [available |-> FALSE, chats |-> {}]

\* ConnectionIntents::state
StateOf(o, c, a) ==
    [available |-> \E p \in o : a[p],
     chats |-> {c[p] : p \in o} \ {NoChat}]
State == StateOf(open, chat, available)

\* A reconciliation: whether it tells the presence and which, whether its clone is
\* of the running client, and the chats it unsubscribes and subscribes.
Jobs == [step : {"idle", "read", "client", "presence", "chats"},
         tell : BOOLEAN, want : BOOLEAN, via : BOOLEAN,
         drop : SUBSET Chats, add : SUBSET Chats, owner : Panels \cup {NoPanel}]
Idle == [step |-> "idle", tell |-> FALSE, want |-> FALSE, via |-> FALSE,
         drop |-> {}, add |-> {}, owner |-> NoPanel]
Spawned == [Idle EXCEPT !.step = "read"]

Reconcile(before, after, force, p) ==
    [step |-> "client", tell |-> force \/ before.available # after.available,
     want |-> after.available, via |-> FALSE,
     drop |-> before.chats \ after.chats, add |-> after.chats \ before.chats,
     owner |-> p]

\* A reconciliation that has read its intents and has calls to make.
Busy(s) == jobs[s].step \in {"client", "presence", "chats"}
Overlaps(s) == \E t \in Slots \ {s} : Busy(t)

\* presence_sync_pending and effective_presence_available
SyncPending == syncing # 0 /\ syncing = clock
EffectiveAlways(requested) == requested
Effective(requested) == requested /\ ~SyncPending

Init ==
    /\ clock = 0 /\ syncing = 0 /\ link = FALSE /\ connects = 0
    /\ open = {} /\ chat = [p \in Panels |-> NoChat]
    /\ available = [p \in Panels |-> FALSE]
    /\ jobs = [s \in Slots |-> Idle]
    /\ caughtUp = FALSE /\ advertised = FALSE /\ subscribed = {}
    /\ overlapped = FALSE

-----------------------------------------------------------------------------
(* Generations and connections *)

\* begin_generation and begin_presence_sync, while there is no client.
BeginGeneration ==
    /\ clock % 2 = 0 /\ clock < 2 * Generations
    /\ clock' = clock + 1
    /\ syncing' = clock + 1
    /\ UNCHANGED <<link, connects, intents, jobs, remote, overlapped>>

\* The connection is gone, and with it what WhatsApp knew of it.
Cut == /\ link' = FALSE /\ caughtUp' = FALSE /\ advertised' = FALSE /\ subscribed' = {}

\* retire_generation, abort_all and client = None.
RetireGeneration ==
    /\ clock % 2 = 1
    /\ clock' = clock + 1
    /\ Cut
    /\ jobs' = [s \in Slots |-> IF s \in {"connected", "appevent"} THEN Idle
                              ELSE [jobs[s] EXCEPT !.via = FALSE]]
    /\ UNCHANGED <<syncing, connects, intents, overlapped>>

\* on_connected: the reconciliation is spawned and reads the intents later.
OnConnected ==
    /\ clock % 2 = 1 /\ ~link /\ connects < Connects
    /\ jobs["connected"].step = "idle"
    /\ connects' = connects + 1
    /\ link' = TRUE
    /\ jobs' = [jobs EXCEPT !["connected"] = Spawned]
    /\ overlapped' = \E s \in Slots : Busy(s)
    /\ UNCHANGED <<clock, syncing, intents, remote>>

\* The library loses the connection, and its event clears shared.client.
Disconnect ==
    /\ link
    /\ Cut
    /\ UNCHANGED <<clock, syncing, connects, intents, jobs, overlapped>>

\* finish_presence_sync; only its success reconciles.
OfflineSyncCompleted ==
    /\ link /\ ~caughtUp
    /\ jobs["appevent"].step = "idle"
    /\ caughtUp' = TRUE
    /\ syncing' = IF SyncPending THEN 0 ELSE syncing
    /\ jobs' = IF SyncPending
               THEN [jobs EXCEPT !["appevent"] = Spawned]
               ELSE jobs
    /\ UNCHANGED <<clock, link, connects, intents, advertised, subscribed,
                   overlapped>>

\* The handler of the own profile's name tells a presence that was deferred for
\* want of a name: it reads the intents itself and reconciles nothing else.
SelfPushNameUpdated ==
    /\ clock % 2 = 1
    /\ jobs["appevent"].step = "idle"
    /\ Effective(State.available)
    /\ jobs' = [jobs EXCEPT !["appevent"] =
                   [Idle EXCEPT !.step = "presence", !.tell = TRUE, !.want = TRUE,
                                !.via = TRUE]]
    /\ overlapped' = (overlapped \/ Overlaps("appevent"))
    /\ UNCHANGED <<session, intents, remote>>

\* connection_state, then a forced reconciliation from the default state.
ReadIntents(s) ==
    /\ jobs[s].step = "read"
    /\ jobs' = [jobs EXCEPT ![s] = Reconcile(NoState, State, TRUE, NoPanel)]
    /\ overlapped' = (overlapped \/ Overlaps(s))
    /\ UNCHANGED <<session, intents, remote>>

-----------------------------------------------------------------------------
(* Panels *)

OpenConnection(p) ==
    /\ p \notin open /\ jobs[p].step = "idle"
    /\ open' = open \cup {p}
    /\ UNCHANGED <<session, chat, available, jobs, remote, overlapped>>

\* An intent changes and its command reconciles the two states.
Command(p) ==
    /\ jobs' = [jobs EXCEPT !["command"] =
                   Reconcile(State, StateOf(open, chat', available'), FALSE, p)]
    /\ overlapped' = (overlapped \/ Overlaps("command"))
    /\ UNCHANGED <<session, open, remote>>

SetPresence(p, value) ==
    /\ p \in open /\ jobs["command"].step = "idle"
    /\ available' = [available EXCEPT ![p] = value]
    /\ chat' = chat
    /\ Command(p)

SetActiveChat(p, c) ==
    /\ p \in open /\ jobs["command"].step = "idle"
    /\ chat' = [chat EXCEPT ![p] = c]
    /\ available' = available
    /\ Command(p)

\* A timeout drops a command in the middle of its calls.
CommandTimesOut ==
    /\ CallFaults /\ jobs["command"].step # "idle"
    /\ jobs' = [jobs EXCEPT !["command"] = Idle]
    /\ overlapped' = TRUE
    /\ UNCHANGED <<session, intents, remote>>

\* ConnectionIntents::disconnect
Forget(p) ==
    /\ open' = open \ {p}
    /\ chat' = [chat EXCEPT ![p] = NoChat]
    /\ available' = [available EXCEPT ![p] = FALSE]

\* Mutation: a closing connection is not reconciled.
CloseSilently(p) ==
    /\ p \in open /\ jobs["command"].step = "idle"
    /\ Forget(p)
    /\ UNCHANGED <<session, jobs, remote, overlapped>>

\* serve_connection ends: its command is dropped, its intent is removed.
CloseConnection(p) ==
    /\ p \in open /\ jobs[p].step = "idle"
    /\ Forget(p)
    /\ jobs' = [jobs EXCEPT
                  !["command"] = IF @.owner = p THEN Idle ELSE @,
                  ![p] = Reconcile(State, StateOf(open \ {p}, chat, available), FALSE, NoPanel)]
    /\ overlapped' = (overlapped \/ Overlaps(p))
    /\ UNCHANGED <<session, remote>>

-----------------------------------------------------------------------------
(* reconcile_connection_intent_inner *)

\* Without a client there is nothing to do; with one, whether to be available
\* is decided here and told in the next step.
CloneClient(s) ==
    /\ jobs[s].step = "client"
    /\ jobs' = [jobs EXCEPT ![s] =
          IF ~link THEN Idle
          ELSE [jobs[s] EXCEPT !.step = IF jobs[s].tell THEN "presence" ELSE "chats",
                              !.want = Effective(jobs[s].want), !.via = TRUE]]
    /\ UNCHANGED <<session, intents, remote, overlapped>>

\* set_available or set_unavailable, through the client it cloned.
TellPresence(s) ==
    /\ jobs[s].step = "presence"
    /\ jobs' = [jobs EXCEPT ![s].step = "chats"]
    /\ \/ /\ advertised' = IF jobs[s].via /\ link THEN jobs[s].want ELSE advertised
          /\ UNCHANGED overlapped
       \/ /\ CallFaults
          /\ overlapped' = TRUE
          /\ UNCHANGED advertised
    /\ UNCHANGED <<session, intents, caughtUp, subscribed>>

\* unsubscribe_presence of each chat left, then subscribe_presence of each new.
TellChat(s, c) ==
    /\ jobs[s].step = "chats"
    /\ \/ /\ c \in jobs[s].drop
          /\ jobs' = [jobs EXCEPT ![s].drop = @ \ {c}]
          /\ subscribed' = IF jobs[s].via /\ link THEN subscribed \ {c} ELSE subscribed
          /\ UNCHANGED overlapped
       \/ /\ jobs[s].drop = {} /\ c \in jobs[s].add
          /\ jobs' = [jobs EXCEPT ![s].add = @ \ {c}]
          /\ subscribed' = IF jobs[s].via /\ link THEN subscribed \cup {c} ELSE subscribed
          /\ UNCHANGED overlapped
       \/ /\ CallFaults /\ c \in jobs[s].drop \cup jobs[s].add
          /\ jobs' = [jobs EXCEPT ![s].drop = @ \ {c}, ![s].add = @ \ {c}]
          /\ overlapped' = TRUE
          /\ UNCHANGED subscribed
    /\ UNCHANGED <<session, intents, caughtUp, advertised>>

Reconciled(s) ==
    /\ jobs[s].step = "chats" /\ jobs[s].drop = {} /\ jobs[s].add = {}
    /\ jobs' = [jobs EXCEPT ![s] = Idle]
    /\ UNCHANGED <<session, intents, remote, overlapped>>

-----------------------------------------------------------------------------
Next ==
    \/ BeginGeneration \/ RetireGeneration
    \/ OnConnected \/ Disconnect \/ OfflineSyncCompleted
    \/ SelfPushNameUpdated \/ CommandTimesOut
    \/ \E p \in Panels :
          \/ OpenConnection(p) \/ CloseConnection(p)
          \/ \E value \in BOOLEAN : SetPresence(p, value)
          \/ \E c \in Chats \cup {NoChat} : SetActiveChat(p, c)
    \/ \E s \in Slots :
          \/ ReadIntents(s) \/ CloneClient(s) \/ TellPresence(s) \/ Reconciled(s)
          \/ \E c \in Chats : TellChat(s, c)

Spec == Init /\ [][Next]_vars

-----------------------------------------------------------------------------
(* Properties *)

\* The type of every variable.
TypeOK ==
    /\ clock \in Nat /\ syncing \in 0 .. clock
    /\ connects \in Nat /\ link \in BOOLEAN
    /\ open \subseteq Panels /\ chat \in [Panels -> Chats \cup {NoChat}]
    /\ available \in [Panels -> BOOLEAN]
    /\ jobs \in [Slots -> Jobs]
    /\ caughtUp \in BOOLEAN /\ advertised \in BOOLEAN /\ subscribed \subseteq Chats
    /\ overlapped \in BOOLEAN

\* The device is not advertised as available before the running generation's
\* catch-up has completed, whichever reconciliation is late.
CatchUpGatesTheGeneration == advertised => ~SyncPending

Settled == \A s \in Slots : jobs[s].step = "idle"

\* When reconciliations are done, and none overlapped another or failed on this
\* connection, WhatsApp has been told what the panels want: availability asked
\* for during the catch-up is not lost, and every open chat is subscribed.
IntentsAreAdvertised ==
    (Settled /\ link /\ ~overlapped) =>
        /\ advertised = Effective(State.available)
        /\ subscribed = State.chats

\* ARCHITECTURE.md:168: every connection remains unavailable while its offline
\* catch-up is pending.
UnavailableDuringCatchUp == advertised => caughtUp
=============================================================================
