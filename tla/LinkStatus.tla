------------------------------ MODULE LinkStatus ------------------------------
(* Who says whether the daemon is connected: shared.status, shared.client and  *)
(* the file of the pairing code.  Three kinds of writers share them and wait   *)
(* for nobody: the callbacks of the client (main.rs), one at a time, each of   *)
(* which checks its generation once; the app-event reducer behind its queue    *)
(* (events.rs); and the run loop between two clients.                          *)
EXTENDS Naturals, Sequences

CONSTANTS
    Signals,        \* bound: events the clients raise
    Sessions        \* bound: generations of one run of the daemon

ASSUME LinkAssumption == Signals \in Nat /\ Sessions \in Nat

VARIABLES
    line,       \* external: what the running client has with WhatsApp
    running,    \* the current generation, 0 between two of them
    sessions,      \* generations sessions so far
    transport,  \* shared.client: the generation of the client it holds, 0 if none
    shown,      \* shared.status
    told,       \* the status of the last State event
    codeFile,   \* the code pairing.svg shows, 0 if there is no such file
    signals,    \* events raised so far
    inflow,     \* raised events no callback has taken
    backlog,    \* app_event_queue
    writer,        \* what each writer is doing
    loopAt,     \* where the run loop is
    mixed       \* history: what may set the three apart

linkVars == <<line, running, sessions, transport, shown, told, codeFile, signals, inflow,
              backlog, writer, loopAt, mixed>>

-----------------------------------------------------------------------------
(* Events and statuses *)

Says(is, code) == [is |-> is, code |-> code]

\* Callbacks of their own; the others of these go through the app-event queue.
Lifecycle == {"code", "connected", "dropped", "loggedOut"}

\* refused: PairError, QrScannedWithoutMultidevice, ClientOutdated and
\* TemporaryBan; unsynced: AppStateSyncFailed, when it is fatal.
Events == Lifecycle \cup {"replaced", "exhausted", "refused", "unsynced"}

\* external: where the client raises an event, and what it has then.
Raised(event, from, to) ==
    \/ event = "code" /\ from \in {"down", "pairing"} /\ to = "pairing"
    \/ event = "connected" /\ from \in {"down", "pairing"} /\ to = "up"
    \/ event = "exhausted" /\ from = "pairing" /\ to = "down"
    \/ event = "refused" /\ from \in {"down", "pairing"} /\ to = "down"
    \/ event = "replaced" /\ from = "up" /\ to = "down"
    \/ event = "unsynced" /\ from = "up" /\ to = "up"
    \/ event \in {"dropped", "loggedOut"} /\ to = "down"

StatusOf ==
    [code |-> "pairing", connected |-> "connected", loggedOut |-> "logged_out",
     dropped |-> "disconnected", replaced |-> "disconnected", exhausted |-> "disconnected",
     refused |-> "error", unsynced |-> "error"]

\* The status each handler sets; the codes are told apart by their number.
Answered(event, number) == Says(StatusOf[event], IF event = "code" THEN number ELSE 0)

Resting == [step |-> "rests", says |-> Says("none", 0), client |-> 0, late |-> FALSE]

\* A handler for an event, with or without the client to set or clear first.
Handling(e) ==
    LET sets == e.event \in {"connected", "dropped", "loggedOut", "replaced"}
    IN  [step |-> IF sets THEN "client" ELSE "qr", says |-> Answered(e.event, e.number),
         client |-> IF e.event = "connected" THEN e.gen ELSE 0, late |-> e.late]

\* set_status alone, as the run loop calls it.
Setting(status) == [step |-> "qr", says |-> status, client |-> 0, late |-> FALSE]

Writing(w) == writer[w].step # "rests"
Others(w) == \E v \in DOMAIN writer \ {w} : Writing(v)

-----------------------------------------------------------------------------
(* The client and its callbacks *)

LinkInit ==
    /\ line = "down" /\ running = 1 /\ sessions = 1
    /\ transport = 0 /\ shown = Says("starting", 0) /\ told = Says("starting", 0)
    /\ codeFile = 0 /\ signals = 0 /\ inflow = <<>> /\ backlog = <<>>
    /\ writer = [w \in {"callback", "stale", "reducer", "loop"} |-> Resting]
    /\ loopAt = "runs" /\ mixed = {}

RaiseEvent(event) ==
    /\ running # 0 /\ signals < Signals
    /\ Raised(event, line, line')
    /\ signals' = signals + 1
    /\ inflow' = Append(inflow, [event |-> event, gen |-> running, late |-> FALSE,
                                 number |-> IF event = "code" THEN signals + 1 ELSE 0])
    /\ UNCHANGED <<running, sessions, transport, shown, told, codeFile, backlog, writer, loopAt, mixed>>

\* What the reducer has not done is late once a later callback has sessions.
Overtake(seq) == [i \in DOMAIN seq |-> [seq[i] EXCEPT !.late = TRUE]]

\* The next event of the running client; retiring drops those not yet taken.
TakeEvent ==
    /\ inflow # <<>> /\ ~Writing("callback")
    /\ inflow' = Tail(inflow)
    /\ \/ /\ Head(inflow).event \in Lifecycle
          /\ writer' = [writer EXCEPT !["callback"] = Handling(Head(inflow)),
                                !["reducer"].late = Writing("reducer")]
          /\ backlog' = Overtake(backlog)
          /\ mixed' = mixed \cup (IF Others("callback") THEN {"overlap"} ELSE {})
       \/ /\ Head(inflow).event \notin Lifecycle
          /\ backlog' = Append(backlog, Head(inflow))
          /\ UNCHANGED <<writer, mixed>>
    /\ UNCHANGED <<line, running, sessions, transport, shown, told, codeFile, signals, loopAt>>

\* run_app_event_reducer and the arms of handle_app_event.
ReduceEvent ==
    /\ backlog # <<>> /\ ~Writing("reducer")
    /\ backlog' = Tail(backlog)
    /\ \/ /\ Head(backlog).gen = running
          /\ writer' = [writer EXCEPT !["reducer"] = Handling(Head(backlog))]
          /\ mixed' = mixed \cup (IF Others("reducer") THEN {"overlap"} ELSE {})
                            \cup (IF Head(backlog).event = "unsynced" THEN {"notice"} ELSE {})
       \/ /\ Head(backlog).gen # running
          /\ UNCHANGED <<writer, mixed>>
    /\ UNCHANGED <<line, running, sessions, transport, shown, told, codeFile, signals, inflow, loopAt>>

-----------------------------------------------------------------------------
(* The steps of a handler *)

Onto(w, step) == [writer EXCEPT ![w].step = step]

SetClient(w) ==
    /\ writer[w].step = "client"
    /\ transport' = writer[w].client
    /\ writer' = [writer EXCEPT ![w].step = "qr", ![w].client = 0]
    /\ mixed' = mixed \cup (IF w = "reducer" /\ writer[w].late THEN {"late"} ELSE {})
    /\ UNCHANGED <<line, running, sessions, shown, told, codeFile, signals, inflow, backlog, loopAt>>

\* write_pairing_qr: a code that cannot be drawn or stored leaves the old file.
WriteCode(w) ==
    /\ writer[w].step = "qr"
    /\ writer' = Onto(w, "status")
    /\ \/ /\ writer[w].says.is = "pairing"
          /\ \/ codeFile' = writer[w].says.code /\ UNCHANGED mixed
             \/ UNCHANGED codeFile /\ mixed' = mixed \cup {"unwritten"}
       \/ /\ writer[w].says.is # "pairing"
          /\ codeFile' = 0 /\ UNCHANGED mixed
    /\ UNCHANGED <<line, running, sessions, transport, shown, told, signals, inflow, backlog, loopAt>>

SetStatus(w) ==
    /\ writer[w].step = "status"
    /\ shown' = writer[w].says
    /\ writer' = Onto(w, "publish")
    /\ mixed' = mixed \cup (IF w = "reducer" /\ writer[w].late THEN {"late"} ELSE {})
    /\ UNCHANGED <<line, running, sessions, transport, told, codeFile, signals, inflow, backlog, loopAt>>

TellStatus(w) ==
    /\ writer[w].step = "publish"
    /\ told' = writer[w].says
    /\ writer' = [writer EXCEPT ![w] = Resting]
    /\ UNCHANGED <<line, running, sessions, transport, shown, codeFile, signals, inflow, backlog,
                   loopAt, mixed>>

-----------------------------------------------------------------------------
(* The run loop *)

\* The client ended by itself or for a logout; asked: a resync was requested.
EndClient(asked) ==
    /\ loopAt = "runs"
    /\ loopAt' = IF asked THEN "retires_silently" ELSE "retires"
    /\ line' = "down"
    /\ UNCHANGED <<running, sessions, transport, shown, told, codeFile, signals, inflow, backlog,
                   writer, mixed>>

\* A resync request says so first, and then shuts the client down.
EndForResync ==
    /\ loopAt = "runs"
    /\ loopAt' = "retires_silently"
    /\ writer' = [writer EXCEPT !["loop"] = Setting(Says("disconnected", 0))]
    /\ mixed' = mixed \cup (IF Others("loop") THEN {"overlap"} ELSE {})
    /\ UNCHANGED <<line, running, sessions, transport, shown, told, codeFile, signals, inflow, backlog>>

\* retire_generation and abort_all, which ends the reducer's task only where it
\* waits for a lock; a callback past its check goes on.
RetireLink ==
    /\ loopAt \in {"retires", "retires_silently"} /\ ~Writing("loop") /\ running # 0
    /\ running' = 0 /\ line' = "down" /\ inflow' = <<>>
    /\ \E reducing \in {writer["reducer"], Resting} :
          /\ writer["reducer"].step = "publish" => reducing = writer["reducer"]
          /\ writer' = [writer EXCEPT !["stale"] = writer["callback"], !["callback"] = Resting,
                                !["reducer"] = reducing]
          /\ mixed' = mixed \cup (IF writer["reducer"].step = "status" /\ reducing = Resting
                                  THEN {"cut"} ELSE {})
    /\ UNCHANGED <<sessions, transport, shown, told, codeFile, signals, backlog, loopAt>>

\* Mutation: the client of the ended generation stays where it is.
KeepClient == UNCHANGED transport

ForgetClient == transport' = 0

\* Behind the barrier; who still writes now may write after this.
DropLink(status) ==
    /\ loopAt \in {"retires", "retires_silently"} /\ running = 0
    /\ loopAt' = "swaps"
    /\ ForgetClient
    /\ \/ /\ loopAt = "retires"
          /\ writer' = [writer EXCEPT !["loop"] = Setting(status)]
       \/ /\ loopAt = "retires_silently"
          /\ UNCHANGED writer
    /\ mixed' = mixed \cup (IF Others("loop") THEN {"overlap"} ELSE {})
                      \cup (IF loopAt = "retires_silently" /\ shown.is = "connected"
                            THEN {"silent"} ELSE {})
    /\ UNCHANGED <<line, running, sessions, shown, told, codeFile, signals, inflow, backlog>>

BeginLink ==
    /\ loopAt = "swaps" /\ ~Writing("loop") /\ sessions < Sessions
    /\ sessions' = sessions + 1 /\ running' = sessions + 1 /\ loopAt' = "runs"
    /\ UNCHANGED <<line, transport, shown, told, codeFile, signals, inflow, backlog, writer, mixed>>

-----------------------------------------------------------------------------
LinkNext ==
    \/ \E event \in Events : RaiseEvent(event)
    \/ TakeEvent \/ ReduceEvent
    \/ \E w \in DOMAIN writer : SetClient(w) \/ WriteCode(w) \/ SetStatus(w) \/ TellStatus(w)
    \/ \E asked \in BOOLEAN : EndClient(asked)
    \/ EndForResync \/ RetireLink \/ BeginLink
    \/ \E status \in {Says("logged_out", 0), Says("disconnected", 0)} : DropLink(status)

LinkSpec == LinkInit /\ [][LinkNext]_linkVars

AtRest ==
    /\ loopAt = "runs" /\ inflow = <<>> /\ backlog = <<>>
    /\ \A w \in DOMAIN writer : ~Writing(w)

\* When nothing is under way, the status, the client and the code's file agree
\* with each other and with the client's link, but for what the handlers
\* themselves bring about: an app event reduced after a later callback
\* ("late"), a synchronization error shown over a live link ("notice"), a
\* client that ended with a resync requested, for which the loop sets no
\* status ("silent"), a handler ended between the file and the status ("cut"),
\* a code that was not drawn, or two handlers that wrote at the same time.
LinkIsShown ==
    AtRest /\ "overlap" \notin mixed =>
        /\ told = shown
        /\ "late" \notin mixed => transport = (IF line = "up" THEN running ELSE 0)
        /\ {"late", "silent"} \cap mixed = {} => (shown.is = "connected" => line = "up")
        /\ {"late", "notice"} \cap mixed = {} => (line = "up" => shown.is = "connected")
        /\ {"unwritten", "cut"} \cap mixed = {} => codeFile = shown.code
=============================================================================
