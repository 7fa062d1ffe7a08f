----------------------------- MODULE InboundInbox -----------------------------
(* The durable inbox of incoming messages: the commit the protocol library     *)
(* awaits before it acknowledges a batch (inbound.rs), the callbacks that feed *)
(* the ordered message reducer (main.rs), the reducer (events.rs) and what     *)
(* receive_message does with a message (messages.rs), under the generation     *)
(* loop that retires a client, drains the reducer with a barrier and wipes the *)
(* account after a logout (main.rs).                                           *)
EXTENDS Naturals, Sequences, FiniteSets

CONSTANTS
    Messages,       \* messages WhatsApp sends to the account
    NoMessage,      \* the message of a work item that carries none
    Kind,           \* "text", "vote", "reaction" (or control message), or "garbled",
                    \* a text whose row decode_parts refuses
    PollOf,         \* the poll of each vote
    DrainLimit,     \* rows pending_inbound returns (10,000 in the code)
    Capacity,       \* slots of the reducer's channel (4,096 in the code)
    Backlog,        \* events the library holds for us (4,096 in the code)
    Generations,    \* bound: client generations per process
    StoreFaults     \* whether a SQLite statement may fail

ASSUME MessagesAssumption ==
    /\ NoMessage \notin Messages
    /\ Kind \in [Messages -> {"text", "vote", "reaction", "garbled"}]
    /\ PollOf \in [Messages -> Messages]
ASSUME BoundsAssumption ==
    /\ DrainLimit \in Nat \ {0} /\ Capacity \in Nat \ {0}
    /\ Backlog \in Nat \ {0} /\ Generations \in Nat
ASSUME StoreFaultsAssumption == StoreFaults \in BOOLEAN

VARIABLES
    phase,      \* where the generation loop stands
    clock,      \* RevisionClock.generation: odd while a client runs
    link,       \* whether the running client is connected
    events,     \* the library's ordered callbacks not yet begun
    passing,    \* works whose callback passed its generation check
    queue,      \* the message_reducer channel
    reducer,    \* the message reducer: its step, generation, message, drain
    inbox,      \* inbound_inbox in (committed_at, rowid) order
    stored,     \* messages with a history row
    gone,       \* messages tombstoned or cleared
    answered,   \* votes, reactions and control messages the reducer accepted
    acked,      \* messages acknowledged to WhatsApp
    toasts,     \* announcements (Message event, notification) counted up to 2
    wiped,      \* history: the clock at the last wipe
    strayed,    \* history: messages stored by a generation older than the wipe
    left        \* history: rows the reducer gave up until the next Drain

session == <<phase, clock, link>>
pipeline == <<events, passing, queue, reducer>>
tables == <<inbox, stored, gone, answered>>
ghosts == <<toasts, wiped, strayed, left>>
vars == <<phase, clock, link, events, passing, queue, reducer,
          inbox, stored, gone, answered, acked, toasts, wiped, strayed, left>>

\* MessageWork
Drain(g) == [kind |-> "drain", gen |-> g, msg |-> NoMessage]
Live(g, m) == [kind |-> "live", gen |-> g, msg |-> m]
Barrier == [kind |-> "barrier", gen |-> 0, msg |-> NoMessage]

Work == [kind : {"drain"}, gen : Nat, msg : {NoMessage}]
        \cup [kind : {"live"}, gen : Nat, msg : Messages]
        \cup [kind : {"barrier"}, gen : {0}, msg : {NoMessage}]

Resting == [step |-> "idle", gen |-> 0, msg |-> NoMessage, todo |-> <<>>]

Reducers == [step : {"idle", "next", "check", "apply", "finish"}, gen : Nat,
             msg : Messages \cup {NoMessage}, todo : Seq(Messages)]

Texts == {m \in Messages : Kind[m] \in {"text", "garbled"}}
Elements(s) == {s[i] : i \in DOMAIN s}
Rows == Elements(inbox)

\* DELETE FROM inbound_inbox: the row of a message, if it has one.
RemoveRow(m) ==
    \/ m \notin Rows /\ inbox' = inbox
    \/ \E i \in DOMAIN inbox :
          /\ inbox[i] = m
          /\ inbox' = [j \in 1 .. Len(inbox) - 1 |->
                          IF j < i THEN inbox[j] ELSE inbox[j + 1]]

IsCurrent(g) == g # 0 /\ g = clock

Init ==
    /\ phase = "ended" /\ clock = 0 /\ link = FALSE
    /\ events = <<>> /\ passing = {} /\ queue = <<>> /\ reducer = Resting
    /\ inbox = <<>> /\ stored = {} /\ gone = {} /\ answered = {} /\ acked = {}
    /\ toasts = [m \in Messages |-> 0] /\ wiped = 0
    /\ strayed = {} /\ left = {}

-----------------------------------------------------------------------------
(* The protocol library: connection, hook, acknowledgement, callbacks *)

\* on_connected is the connection's first callback; it sends a Drain.
Connect ==
    /\ phase = "running" /\ ~link
    /\ Len(events) < Backlog
    /\ link' = TRUE
    /\ events' = Append(events, Drain(clock))
    /\ UNCHANGED <<phase, clock, passing, queue, reducer, tables, acked, ghosts>>

Disconnect ==
    /\ link
    /\ link' = FALSE
    /\ UNCHANGED <<phase, clock, pipeline, tables, acked, ghosts>>

\* DurableInboundHook::on_messages: INSERT OR IGNORE, then WhatsApp is told
\* (or the connection breaks first, and it sends the message again), and the
\* message is queued for its callback.
Receive(m) ==
    /\ link /\ m \notin acked
    /\ Len(events) < Backlog
    /\ inbox' = IF m \in Rows THEN inbox ELSE Append(inbox, m)
    /\ acked' \in {acked, acked \cup {m}}
    /\ events' = Append(events, Live(clock, m))
    /\ UNCHANGED <<session, passing, queue, reducer, stored, gone, answered, ghosts>>

\* The next callback runs its generation check: one at a time for a client.
Callback ==
    /\ events # <<>>
    /\ \A w \in passing : w.gen # Head(events).gen
    /\ events' = Tail(events)
    /\ passing' = IF IsCurrent(Head(events).gen) THEN passing \cup {Head(events)}
                  ELSE passing
    /\ UNCHANGED <<session, queue, reducer, tables, acked, ghosts>>

\* Mutation: try_send drops a work the channel has no slot for.
EnqueueOrDrop(w) ==
    /\ queue' = IF Len(queue) < Capacity THEN Append(queue, w) ELSE queue
    /\ passing' = passing \ {w}
    /\ UNCHANGED <<session, events, reducer, tables, acked, ghosts>>

\* message_reducer.send(...).await completes.
Enqueue(w) ==
    /\ Len(queue) < Capacity
    /\ queue' = Append(queue, w)
    /\ passing' = passing \ {w}
    /\ UNCHANGED <<session, events, reducer, tables, acked, ghosts>>

-----------------------------------------------------------------------------
(* run_message_reducer *)

Taking(kind) == reducer.step = "idle" /\ queue # <<>> /\ Head(queue).kind = kind

\* A Drain of the current generation reads the inbox once, up to the limit.
TakeDrain ==
    /\ Taking("drain")
    /\ queue' = Tail(queue)
    /\ LET g == Head(queue).gen
           read == SubSeq(inbox, 1,
                          IF Len(inbox) < DrainLimit THEN Len(inbox) ELSE DrainLimit)
       IN  \/ /\ IsCurrent(g)
              /\ reducer' = [step |-> "next", gen |-> g, msg |-> NoMessage, todo |-> read]
              /\ left' = (left \cup Rows) \ Elements(read)
           \/ /\ ~IsCurrent(g)
              /\ UNCHANGED <<reducer, left>>
           \/ /\ StoreFaults /\ IsCurrent(g)
              /\ left' = left \cup Rows
              /\ UNCHANGED reducer
    /\ UNCHANGED <<session, events, passing, tables, acked, toasts, wiped, strayed>>

TakeLive ==
    /\ Taking("live")
    /\ queue' = Tail(queue)
    /\ reducer' = [step |-> "check", gen |-> Head(queue).gen,
                   msg |-> Head(queue).msg, todo |-> <<>>]
    /\ UNCHANGED <<session, events, passing, tables, acked, ghosts>>

\* Barrier: completed.send(()).
TakeBarrier ==
    /\ Taking("barrier")
    /\ queue' = Tail(queue)
    /\ phase' = IF phase = "barrier" THEN "drained" ELSE phase
    /\ UNCHANGED <<clock, link, events, passing, reducer, tables, acked, ghosts>>

\* The next record of a drain, until the generation is retired.
NextRecord ==
    /\ reducer.step = "next"
    /\ \/ /\ reducer.todo = <<>> \/ ~IsCurrent(reducer.gen)
          /\ reducer' = Resting
       \/ /\ reducer.todo # <<>> /\ IsCurrent(reducer.gen)
          /\ Kind[Head(reducer.todo)] # "garbled"
          /\ reducer' = [step |-> "check", gen |-> reducer.gen,
                         msg |-> Head(reducer.todo), todo |-> Tail(reducer.todo)]
    /\ UNCHANGED <<session, events, passing, queue, tables, acked, ghosts>>

\* A record that does not decode is skipped and stays in the inbox.
SkipUndecodable ==
    /\ reducer.step = "next"
    /\ reducer.todo # <<>> /\ IsCurrent(reducer.gen)
    /\ Kind[Head(reducer.todo)] = "garbled"
    /\ reducer' = [reducer EXCEPT !.todo = Tail(@)]
    /\ left' = left \cup {Head(reducer.todo)}
    /\ UNCHANGED <<session, events, passing, queue, tables, acked, toasts, wiped, strayed>>

\* Back to the drain, or to the channel, leaving the inbox row.
Onward == [step |-> "next", gen |-> reducer.gen, msg |-> reducer.msg,
           todo |-> reducer.todo]

\* The last generation check of reduce_message and receive_message; awaits lie
\* before it and none between it and the write.
CheckGeneration ==
    /\ reducer.step = "check"
    /\ reducer' = IF IsCurrent(reducer.gen) THEN [reducer EXCEPT !.step = "apply"]
                  ELSE Onward
    /\ UNCHANGED <<session, events, passing, queue, tables, acked, ghosts>>

Finishing == [reducer EXCEPT !.step = "finish"]

\* Mutation: a tombstone is not seen.
IgnoreTombstone ==
    /\ reducer.step = "apply" /\ reducer.msg \in Texts
    /\ stored' = stored \cup {reducer.msg}
    /\ reducer' = Finishing
    /\ UNCHANGED <<session, events, passing, queue, inbox, gone, answered, acked, ghosts>>

\* insert_message: true, and a toast, only for a row that is new.
ApplyText ==
    /\ reducer.step = "apply" /\ reducer.msg \in Texts
    /\ LET m == reducer.msg IN
          IF m \in stored \cup gone THEN UNCHANGED <<stored, toasts, strayed>>
          ELSE /\ stored' = stored \cup {m}
               /\ toasts' = [toasts EXCEPT ![m] = IF @ < 2 THEN @ + 1 ELSE @]
               /\ strayed' = IF reducer.gen <= wiped THEN strayed \cup {m} ELSE strayed
    /\ reducer' = Finishing
    /\ UNCHANGED <<session, events, passing, queue, inbox, gone, answered, acked,
                   wiped, left>>

\* A vote on a stored poll (its lookup, decryption and write are one step), or a
\* message that has nothing to render.
ApplyOther ==
    /\ reducer.step = "apply" /\ reducer.msg \notin Texts
    /\ Kind[reducer.msg] = "vote" => PollOf[reducer.msg] \in stored
    /\ answered' = answered \cup {reducer.msg}
    /\ reducer' = Finishing
    /\ UNCHANGED <<session, events, passing, queue, inbox, stored, gone, acked, ghosts>>

\* Mutation: a refused message is finished all the same.
FinishRefused ==
    /\ reducer.step = "apply"
    /\ StoreFaults \/ Kind[reducer.msg] = "vote"
    /\ RemoveRow(reducer.msg)
    /\ reducer' = Onward
    /\ UNCHANGED <<session, events, passing, queue, stored, gone, answered, acked, ghosts>>

\* Not accepted: a vote whose poll is not in the history, or a SQLite error.
NotAccepted ==
    /\ reducer.step = "apply"
    /\ \/ StoreFaults
       \/ Kind[reducer.msg] = "vote" /\ PollOf[reducer.msg] \notin stored
    /\ left' = left \cup {reducer.msg}
    /\ reducer' = Onward
    /\ UNCHANGED <<session, events, passing, queue, tables, acked, toasts, wiped, strayed>>

\* finish_inbound for an accepted message.
FinishInbound ==
    /\ reducer.step = "finish"
    /\ RemoveRow(reducer.msg)
    /\ left' = left \ {reducer.msg}
    /\ reducer' = Onward
    /\ UNCHANGED <<session, events, passing, queue, stored, gone, answered, acked,
                   toasts, wiped, strayed>>

\* Its error is logged and the row stays.
FinishError ==
    /\ StoreFaults
    /\ reducer.step = "finish"
    /\ left' = left \cup {reducer.msg}
    /\ reducer' = Onward
    /\ UNCHANGED <<session, events, passing, queue, tables, acked, toasts, wiped, strayed>>

\* delete_message (or a clear): the row goes and a tombstone stays.
DeleteMessage(m) ==
    /\ phase = "running" /\ m \in Texts \ gone
    /\ stored' = stored \ {m}
    /\ gone' = gone \cup {m}
    /\ UNCHANGED <<session, pipeline, inbox, answered, acked, ghosts>>

-----------------------------------------------------------------------------
(* The generation loop of run_daemon *)

BeginGeneration ==
    /\ phase = "ended"
    /\ clock < 2 * Generations
    /\ clock' = clock + 1
    /\ phase' = "running"
    /\ UNCHANGED <<link, pipeline, tables, acked, ghosts>>

\* The run loop ended or was shut down: retire_generation, abort_all.
RetireGeneration ==
    /\ phase = "running"
    /\ clock' = clock + 1
    /\ link' = FALSE
    /\ phase' = "retired"
    /\ UNCHANGED <<pipeline, tables, acked, ghosts>>

\* Mutation: the loop does not wait for the reducer.
SendNoBarrier ==
    /\ phase = "retired"
    /\ phase' = "drained"
    /\ UNCHANGED <<clock, link, pipeline, tables, acked, ghosts>>

SendBarrier ==
    /\ phase = "retired"
    /\ Len(queue) < Capacity
    /\ queue' = Append(queue, Barrier)
    /\ phase' = "barrier"
    /\ UNCHANGED <<clock, link, events, passing, reducer, tables, acked, ghosts>>

\* After drained.await: the same account goes on ...
KeepAccount ==
    /\ phase = "drained"
    /\ phase' = "ended"
    /\ UNCHANGED <<clock, link, pipeline, tables, acked, ghosts>>

\* ... or clear_account_data wipes it, and another account begins.
WipeAccount ==
    /\ phase = "drained"
    /\ phase' = "ended"
    /\ inbox' = <<>> /\ stored' = {} /\ gone' = {} /\ answered' = {}
    /\ acked' = {} /\ toasts' = [m \in Messages |-> 0] /\ left' = {}
    /\ wiped' = clock
    /\ UNCHANGED <<clock, link, pipeline, strayed>>

\* A crash keeps the database; a new process counts generations from zero.
Restart ==
    /\ phase' = "ended" /\ clock' = 0 /\ link' = FALSE
    /\ events' = <<>> /\ passing' = {} /\ queue' = <<>> /\ reducer' = Resting
    /\ wiped' = 0
    /\ UNCHANGED <<tables, acked, toasts, strayed, left>>

-----------------------------------------------------------------------------
Reduce ==
    \/ TakeDrain \/ TakeLive \/ TakeBarrier \/ NextRecord \/ SkipUndecodable
    \/ CheckGeneration \/ ApplyText \/ ApplyOther \/ NotAccepted
    \/ FinishInbound \/ FinishError

GenerationLoop ==
    BeginGeneration \/ RetireGeneration \/ SendBarrier \/ KeepAccount \/ WipeAccount

Next ==
    \/ Connect \/ Disconnect \/ Callback
    \/ \E m \in Messages : Receive(m) \/ DeleteMessage(m)
    \/ \E w \in passing : Enqueue(w)
    \/ Reduce \/ GenerationLoop \/ Restart

Spec == Init /\ [][Next]_vars

\* The runtime runs ready tasks, a sender waiting for a slot of the channel gets
\* one, and an open generation loop sends its barrier.
FairSpec ==
    /\ Spec
    /\ WF_vars(Callback) /\ WF_vars(\E w \in passing : Enqueue(w))
    /\ WF_vars(Reduce) /\ SF_vars(SendBarrier)

-----------------------------------------------------------------------------
(* Properties *)

\* The type of every variable.
TypeOK ==
    /\ phase \in {"ended", "running", "retired", "barrier", "drained"}
    /\ clock \in Nat /\ link \in BOOLEAN
    /\ events \in Seq(Work) /\ passing \subseteq Work /\ queue \in Seq(Work)
    /\ reducer \in Reducers
    /\ reducer.step \in {"check", "apply", "finish"} => reducer.msg \in Messages
    /\ inbox \in Seq(Messages)
    /\ stored \subseteq Texts /\ gone \subseteq Texts
    /\ answered \subseteq Messages /\ acked \subseteq Messages
    /\ toasts \in [Messages -> 0 .. 2] /\ wiped \in Nat
    /\ strayed \subseteq Messages /\ left \subseteq Messages

\* The acknowledgement boundary: a message WhatsApp will not send again is in
\* the inbox, in the history, deleted by the user or accepted, whatever crash,
\* SQLite error, retired generation or full channel comes between.
AcknowledgedIsKept == acked \subseteq Rows \cup stored \cup gone \cup answered

\* Notification policy: however often a message is redelivered, drained and
\* replayed live, it is announced once.
AnnouncedOnce == \A m \in Messages : toasts[m] <= 1

\* A deleted message does not come back from the inbox or the channel.
DeletedStaysDeleted == stored \cap gone = {}

\* The effects of a message come once, whatever path it takes again and again:
\* one toast, and no row after its deletion.
EffectsComeOnce == AnnouncedOnce /\ DeletedStaysDeleted

\* After a logout nothing that a client from before the wipe left in callbacks,
\* channel or reducer enters the new account's history.
WipeIsFinal == strayed = {}

\* The generation loop is not blocked by its reducer: the barrier is answered.
BarrierIsReached == (phase = "retired") ~> (phase \in {"drained", "ended"})

\* On a connection that stays up every row is reduced, or left for a reason.
InboxIsReduced ==
    \A m \in Messages : (link /\ m \in Rows) ~> (~link \/ m \notin Rows \/ m \in left)

\* The reducer and the generation loop keep each other going: neither waits for
\* ever on the bounded channel between them.
InboundIsServed == BarrierIsReached /\ InboxIsReduced
=============================================================================
