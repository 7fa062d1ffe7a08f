------------------------------ MODULE TextOutbox ------------------------------
(* The durable text outbox: the text_outbox table (database.rs), the single    *)
(* delivery loop run_text_outbox (outbox.rs), the IPC commands that submit,    *)
(* retry and discard a text (commands.rs), and the connection handler that     *)
(* re-arms rows (main.rs).  One action is one critical section: a SQLite       *)
(* transaction or one await point of the loop.  text_outbox_gate is held from  *)
(* the start to the end of a command and around the claim, so it needs no      *)
(* state of its own.                                                           *)
EXTENDS Naturals, FiniteSets

CONSTANTS
    Deliveries,     \* delivery identifiers, numbered in their text order
    Times,          \* readings of the wall clock, in seconds
    MaxFailed,      \* failed rows kept by an enqueue (32 in the code)
    StoreFaults     \* whether a SQLite statement may fail

ASSUME DeliveriesAssumption == Deliveries \subseteq Nat \ {0}
ASSUME TimesAssumption == Times \subseteq Nat
ASSUME MaxFailedAssumption == MaxFailed \in Nat
ASSUME StoreFaultsAssumption == StoreFaults \in BOOLEAN

VARIABLES
    outbox,     \* the text_outbox table, by delivery identifier
    loop,       \* where run_text_outbox stands
    job,        \* the delivery the loop claimed, NoJob outside a send
    permit,     \* the stored permit of text_outbox_notify
    client,     \* whether shared.client holds a transport
    handler,    \* where on_connected stands
    wire,       \* deliveries whose message reached WhatsApp
    recorded,   \* deliveries whose message insert_message took
    owed,       \* history: accepted, not since discarded, pruned or wiped
    dropped,    \* history: discarded before reaching WhatsApp, not resubmitted
    detached,   \* history: in flight when its row left the Sending state
    known,      \* history: ever submitted
    stuck,      \* history: a failed statement left the row in Sending
    stalled     \* history: the loop awaits since a failed statement

store == <<outbox, recorded>>
runtime == <<loop, job, permit, client, handler>>
ghosts == <<owed, dropped, detached, known, stuck, stalled>>
vars == <<outbox, loop, job, permit, client, handler, wire, recorded,
          owed, dropped, detached, known, stuck, stalled>>

Statuses == {"none", "queued", "sending", "failed"}
Rows == [status : Statuses, created : Times \cup {0}]
NoRow == [status |-> "none", created |-> 0]
NoJob == 0

InFlight == {"sending", "sent", "inserted", "failing"}

Having(status) == {d \in Deliveries : outbox[d].status = status}
Queued == Having("queued")
Failed == Having("failed")

\* ORDER BY created_at, delivery_id
Before(d, e) ==
    \/ outbox[d].created < outbox[e].created
    \/ outbox[d].created = outbox[e].created /\ d <= e

Restatus(S, status) ==
    [d \in Deliveries |->
        IF d \in S THEN [status |-> status, created |-> outbox[d].created]
        ELSE outbox[d]]

Without(S) == [d \in Deliveries |-> IF d \in S THEN NoRow ELSE outbox[d]]

Init ==
    /\ outbox = [d \in Deliveries |-> NoRow]
    /\ loop = "check" /\ job = NoJob /\ permit = FALSE
    /\ client = FALSE /\ handler = "idle"
    /\ wire = {} /\ recorded = {}
    /\ owed = {} /\ dropped = {} /\ detached = {} /\ known = {}
    /\ stuck = {} /\ stalled = FALSE

-----------------------------------------------------------------------------
(* IPC commands *)

\* The failed rows an enqueue deletes: all but the MaxFailed newest.
Prunable(P) ==
    /\ \A p \in P : \A k \in Failed \ P : outbox[p].created <= outbox[k].created
    /\ Cardinality(Failed \ P) <= MaxFailed
    /\ P # {} => Cardinality(Failed \ P) = MaxFailed

\* Mutation: the command forgets notify_one.
SendWithoutWake(d, now) ==
    /\ outbox[d] = NoRow
    /\ outbox' = [outbox EXCEPT ![d] = [status |-> "queued", created |-> now]]
    /\ owed' = owed \cup {d} /\ dropped' = dropped \ {d} /\ known' = known \cup {d}
    /\ UNCHANGED <<runtime, wire, recorded, detached, stuck, stalled>>

\* SendMessage with a new delivery identifier.
SendMessage(d, now) ==
    /\ outbox[d] = NoRow
    /\ \E pruned \in SUBSET Failed :
          /\ Prunable(pruned)
          /\ outbox' = [Without(pruned) EXCEPT
                          ![d] = [status |-> "queued", created |-> now]]
          /\ owed' = (owed \ pruned) \cup {d}
    /\ dropped' = dropped \ {d}
    /\ known' = known \cup {d}
    /\ permit' = TRUE
    /\ UNCHANGED <<loop, job, client, handler, wire, recorded, detached, stuck, stalled>>

\* SendMessage with an identifier that has a row: accepted again when the
\* content is the same (and the loop is woken), refused when it is not.
ResubmitMessage(d) ==
    /\ outbox[d] # NoRow
    /\ permit' = TRUE
    /\ UNCHANGED <<store, loop, job, client, handler, wire, ghosts>>

\* Mutation: the command forgets notify_one.
RetryWithoutWake(d) ==
    /\ outbox[d].status = "failed"
    /\ outbox' = Restatus({d}, "queued")
    /\ UNCHANGED <<runtime, wire, recorded, ghosts>>

RetryTextMessage(d) ==
    /\ outbox[d].status = "failed"
    /\ outbox' = Restatus({d}, "queued")
    /\ permit' = TRUE
    /\ UNCHANGED <<loop, job, client, handler, wire, recorded, ghosts>>

\* Mutation: DELETE without the status guard.
DiscardAnyStatus(d) ==
    /\ outbox[d] # NoRow
    /\ outbox' = Without({d})
    /\ owed' = owed \ {d}
    /\ dropped' = IF d \in wire THEN dropped ELSE dropped \cup {d}
    /\ UNCHANGED <<runtime, wire, recorded, detached, known, stuck, stalled>>

DiscardTextMessage(d) ==
    /\ outbox[d].status \in {"queued", "failed"}
    /\ outbox' = Without({d})
    /\ owed' = owed \ {d}
    /\ dropped' = IF d \in wire THEN dropped ELSE dropped \cup {d}
    /\ UNCHANGED <<runtime, wire, recorded, detached, known, stuck, stalled>>

-----------------------------------------------------------------------------
(* run_text_outbox and deliver_pending_text *)

\* while let Some(transport) = client: otherwise await the notification.
CheckClient ==
    /\ loop = "check"
    /\ loop' = IF client THEN "claim" ELSE "wait"
    /\ UNCHANGED <<store, job, permit, client, handler, wire, ghosts>>

AwaitNotified ==
    /\ loop = "wait" /\ permit
    /\ permit' = FALSE
    /\ loop' = "check"
    /\ stalled' = FALSE
    /\ UNCHANGED <<store, job, client, handler, wire, owed, dropped, detached, known, stuck>>

\* claim_text_message takes the oldest queued row.
Claim(d) ==
    /\ loop = "claim"
    /\ d \in Queued
    /\ \A e \in Queued : Before(d, e)
    /\ outbox' = Restatus({d}, "sending")
    /\ loop' = "sending"
    /\ job' = d
    /\ detached' = detached \ {d}
    /\ stuck' = stuck \ {d}
    /\ UNCHANGED <<permit, client, handler, wire, recorded, owed, dropped, known, stalled>>

NothingQueued ==
    /\ loop = "claim"
    /\ Queued = {}
    /\ loop' = "wait"
    /\ UNCHANGED <<store, job, permit, client, handler, wire, ghosts>>

\* Mutation: the row is completed without insert_message.
SendSkipsHistory ==
    /\ loop = "sending"
    /\ wire' = wire \cup {job}
    /\ loop' = "inserted"
    /\ UNCHANGED <<store, job, permit, client, handler, ghosts>>

\* transport.send_message returned Ok.
SendSucceeds ==
    /\ loop = "sending"
    /\ wire' = wire \cup {job}
    /\ loop' = "sent"
    /\ UNCHANGED <<store, job, permit, client, handler, ghosts>>

\* It returned Err, before or after the server took the message.
SendFails(reached) ==
    /\ loop = "sending"
    /\ wire' = wire \cup reached
    /\ loop' = "failing"
    /\ UNCHANGED <<store, job, permit, client, handler, ghosts>>

\* insert_message, the last step of send_claimed_text.
RecordSent ==
    /\ loop = "sent"
    /\ recorded' = recorded \cup {job}
    /\ loop' = "inserted"
    /\ UNCHANGED <<outbox, job, permit, client, handler, wire, ghosts>>

\* complete_text_message: DELETE ... WHERE status = 1.
CompleteTextMessage ==
    /\ loop = "inserted"
    /\ outbox' = Without({job} \cap Having("sending"))
    /\ loop' = "check" /\ job' = NoJob
    /\ UNCHANGED <<permit, client, handler, wire, recorded, ghosts>>

\* Mutation: UPDATE without the status guard.
FailAnyStatus ==
    /\ loop = "failing"
    /\ outbox' = Restatus({job}, "failed")
    /\ loop' = "check" /\ job' = NoJob
    /\ UNCHANGED <<permit, client, handler, wire, recorded, ghosts>>

\* fail_text_message: UPDATE ... WHERE status = 1.
FailTextMessage ==
    /\ loop = "failing"
    /\ outbox' = Restatus({job} \cap Having("sending"), "failed")
    /\ loop' = "check" /\ job' = NoJob
    /\ UNCHANGED <<permit, client, handler, wire, recorded, ghosts>>

\* A failed statement: insert_message's error is a failed send, every other
\* one leaves the row as it is and ends the inner loop.
StoreError ==
    /\ StoreFaults
    /\ \/ /\ loop = "sent" /\ loop' = "failing"
          /\ UNCHANGED <<job, stuck, stalled>>
       \/ /\ loop \in {"claim", "inserted", "failing"}
          /\ loop' = "wait" /\ job' = NoJob
          /\ stuck' = stuck \cup ({job} \cap Having("sending"))
          /\ stalled' = TRUE
    /\ UNCHANGED <<store, permit, client, handler, wire, owed, dropped, detached, known>>

-----------------------------------------------------------------------------
(* The connection handlers of main.rs, a restart of the daemon, a logout *)

\* The in-flight delivery, if its row is about to leave the Sending state.
Detaching == IF loop \in InFlight THEN {job} \cap Having("sending") ELSE {}

\* on_connected: install the transport, then retry_all_text_messages, then wake.
OnConnected ==
    /\ handler = "idle"
    /\ client' = TRUE
    /\ handler' = "rearm"
    /\ UNCHANGED <<store, loop, job, permit, wire, ghosts>>

RetryAllTextMessages ==
    /\ handler = "rearm"
    /\ outbox' = Restatus(Having("sending") \cup Failed, "queued")
    /\ detached' = detached \cup Detaching
    /\ handler' = "notify"
    /\ UNCHANGED <<loop, job, permit, client, wire, recorded, owed, dropped, known, stuck, stalled>>

\* retry_all_text_messages failed: logged, and the handler goes on.
RetryAllError ==
    /\ StoreFaults
    /\ handler = "rearm"
    /\ handler' = "notify"
    /\ UNCHANGED <<store, loop, job, permit, client, wire, ghosts>>

NotifyOutbox ==
    /\ handler = "notify"
    /\ permit' = TRUE
    /\ handler' = "idle"
    /\ UNCHANGED <<store, loop, job, client, wire, ghosts>>

\* Disconnected, ConnectFailure, StreamError, or the end of the generation,
\* which does not wait for the handler.
Disconnect ==
    /\ client
    /\ client' = FALSE
    /\ UNCHANGED <<store, loop, job, permit, handler, wire, ghosts>>

\* The process exits anywhere and Database::open runs its crash recovery.
Restart ==
    /\ outbox' = Restatus(Having("sending"), "queued")
    /\ loop' = "check" /\ job' = NoJob /\ permit' = FALSE
    /\ client' = FALSE /\ handler' = "idle"
    /\ stalled' = FALSE
    /\ UNCHANGED <<wire, recorded, owed, dropped, detached, known, stuck>>

\* clear_account_data after a logout, between two generations.
ClearAccountData ==
    /\ ~client /\ handler = "idle"
    /\ outbox' = Without(Deliveries)
    /\ recorded' = {}
    /\ owed' = {}
    /\ detached' = detached \cup Detaching
    /\ UNCHANGED <<runtime, wire, dropped, known, stuck, stalled>>

-----------------------------------------------------------------------------
Command ==
    \E d \in Deliveries :
        \/ \E now \in Times : SendMessage(d, now)
        \/ ResubmitMessage(d)
        \/ RetryTextMessage(d)
        \/ DiscardTextMessage(d)

Attempt ==
    \/ SendSucceeds
    \/ \E reached \in {{}, {job}} : SendFails(reached)

LoopStep ==
    \/ CheckClient \/ AwaitNotified
    \/ (\E d \in Deliveries : Claim(d)) \/ NothingQueued
    \/ Attempt
    \/ RecordSent \/ CompleteTextMessage \/ FailTextMessage \/ StoreError

HandlerStep == RetryAllTextMessages \/ RetryAllError \/ NotifyOutbox

Next ==
    \/ Command \/ LoopStep \/ HandlerStep
    \/ OnConnected \/ Disconnect \/ Restart \/ ClearAccountData

Spec == Init /\ [][Next]_vars

\* The runtime polls a ready task, and a send returns; nobody owes a command,
\* a connection or a restart.
FairSpec == Spec /\ WF_vars(LoopStep) /\ WF_vars(HandlerStep)

-----------------------------------------------------------------------------
(* Properties *)

\* The type of every variable; the loop has a job exactly while a send is
\* under way.
TypeOK ==
    /\ outbox \in [Deliveries -> Rows]
    /\ loop \in {"check", "wait", "claim"} \cup InFlight
    /\ job \in Deliveries \cup {NoJob}
    /\ (job = NoJob) <=> (loop \notin InFlight)
    /\ permit \in BOOLEAN /\ client \in BOOLEAN
    /\ handler \in {"idle", "rearm", "notify"}
    /\ wire \subseteq Deliveries /\ recorded \subseteq Deliveries
    /\ owed \subseteq Deliveries /\ dropped \subseteq Deliveries
    /\ detached \subseteq Deliveries /\ known \subseteq Deliveries
    /\ stuck \subseteq Deliveries /\ stalled \in BOOLEAN

\* No accepted text is lost: until it is discarded, pruned as failed or wiped
\* with the account, it has a row or is in the history, whatever send, failure,
\* reconnect or restart comes between (claim_text_message to
\* complete_text_message).
NoAcceptedTextLost ==
    \A d \in owed : outbox[d].status # "none" \/ d \in recorded

\* A row shows Sending only while the loop carries it, so it can always be
\* completed or failed: a restart, a reconnect and a failed send never leave
\* a row that neither retry nor discard accepts.  Only a statement that failed
\* after the claim does, until the next reconnect or start.
SendingIsCarried ==
    \A d \in Having("sending") \ stuck : loop \in InFlight /\ job = d

\* A discard that the daemon acknowledged is final: what it removed reaches
\* WhatsApp later only if its send was in flight while a reconnect (or a
\* logout) took the Sending mark from the row that the status guard of
\* discard_text_message relies on.
DiscardIsFinalUnlessDetached == dropped \cap wire \subseteq detached

\* The loop never sleeps on a connected client with a queued row and no
\* wake-up on its way (notify_one stores one permit; the loop reads the client
\* and the table before it awaits), unless a failed statement sent it there.
NoLostWakeup ==
    (loop = "wait" /\ ~stalled /\ client /\ handler = "idle" /\ ~permit)
        => Queued = {}

\* Both: no row of the outbox is left without someone to move it on, except by
\* a statement that failed.
QueueIsCarried == SendingIsCarried /\ NoLostWakeup

\* A queued text leads to an attempt unless the connection goes, the queue
\* empties or a statement fails.
QueueIsServed ==
    (Queued # {} /\ client) ~> (loop = "sending" \/ Queued = {} \/ ~client \/ stalled)

\* The outbox implements its promise: a text leaves it only as sent and
\* recorded, discarded by the user, or pruned after it failed.
Phase(d) ==
    IF outbox[d].status \in {"queued", "sending"} THEN "pending"
    ELSE outbox[d].status

Promise == INSTANCE TextDelivery WITH phase <- [d \in Deliveries |-> Phase(d)]

ImplementsPromise == Promise!Spec
=============================================================================
