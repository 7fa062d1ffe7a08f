---------------------------- MODULE Publication ----------------------------
(***************************************************************************)
(* How what the database holds reaches the shell: revisions.rs and the     *)
(* broadcasters of state.rs stamp and send frames, ipc.rs writes them to a *)
(* connection, and Service.qml decides which of them to believe.           *)
(*                                                                         *)
(* The content of a resource is the number of the changes made to it.      *)
(*   chats     coalesced invalidations; every one is answered by a         *)
(*             list_chats of its own                                       *)
(*   messages  coalesced invalidations of the visible conversation; at     *)
(*             most one get_messages is outstanding, a second one queues   *)
(*   outbox    the list itself is pushed on every change                   *)
(*   unread    coalesced pushes of the total, which State frames carry too *)
(*                                                                         *)
(* The socket is a FIFO, so a frame is received in the step that writes    *)
(* it; stamping and sending are one step, because a frame that is sent     *)
(* late and one that the select! of the connection picks late are alike.   *)
(***************************************************************************)
EXTENDS Naturals, Sequences, FiniteSets

CONSTANTS
  Watched,      \* which resources change and are asked for, in one behaviour
  Changes,      \* bound on the changes of all resources together
  Capacity,     \* frames the broadcast channel keeps for a slow receiver
  Happenings    \* bound on status updates, generations, failures, reconnects
                \* and restarts of the daemon together

ASSUME BoundsAssumption ==
  /\ Watched \subseteq SUBSET {"chats", "messages", "unread", "outbox"}
  /\ {Changes, Happenings} \subseteq Nat
  /\ Capacity \in Nat \ {0}

Coalesced == {"chats", "messages", "unread"}
Resources == Coalesced \cup {"outbox"}
Keys == Resources \cup {"state"}

VARIABLES
  db,          \* the changes committed, per resource
  due,         \* commits whose writer has not called its broadcast yet
  window,      \* InvalidationCoalescer: "closed", "open", "trailing"
  owner,       \* who drains the window: "idle", "publish", "read", "sleep"
  total,       \* the unread total its owner has read
  lists,       \* outbox lists read and not yet stamped
  status,      \* unread totals set_status has read and not yet stamped
  clock,       \* RevisionClock
  events,      \* the connection's broadcast receiver
  lagged,      \* it has lost frames
  responses,   \* the connection's response queue
  requests,    \* commands of the connection
  greeting,    \* write_connection_sync has not run on this connection yet
  shell,       \* what Service.qml keeps
  watched,     \* the resources of this behaviour
  left,        \* what remains of Happenings
  restarted,   \* the daemon is not the one the shell first met
  excused      \* resources whose view a known race has left behind

daemon == <<db, due, window, owner, total, lists, status, clock>>
connection == <<events, lagged, responses, requests, greeting>>
vars == <<daemon, connection, shell, watched, left, restarted, excused>>

None == Changes + 1

Happens == left > 0 /\ left' = left - 1

Total(f) == f["chats"] + f["messages"] + f["unread"] + f["outbox"]

----------------------------------------------------------------------------
(* The daemon stamps and sends.                                            *)

\* RevisionClock::stamp; `stale` remembers that the content was outdated.
Stamp(kind, res, value, id) ==
  [kind |-> kind, res |-> res, value |-> value, id |-> id,
   gen |-> clock.generation, seq |-> clock.revision + 1,
   stale |-> kind # "invalidated" /\ kind # "error" /\ value < db[res]]

Tick == clock' = [clock EXCEPT !.revision = @ + 1]

\* broadcast::Sender::send: a full receiver loses its oldest frame.
Broadcast(frame) ==
  IF greeting THEN UNCHANGED <<events, lagged>> \* the queue is read after the greeting
  ELSE /\ events' = Append(IF Len(events) = Capacity THEN Tail(events) ELSE events, frame)
       /\ lagged' = (lagged \/ Len(events) = Capacity)

\* Someone commits a change and is about to announce it.
Change(r) ==
  /\ r \in watched
  /\ Total(db) < Changes
  /\ db' = [db EXCEPT ![r] = @ + 1]
  /\ due' = [due EXCEPT ![r] = @ + 1]
  /\ UNCHANGED <<window, owner, total, lists, status, clock, connection, shell, watched, left, restarted, excused>>

\* InvalidationBroadcaster::schedule with InvalidationCoalescer::record.
Schedule(r) ==
  /\ due[r] > 0
  /\ due' = [due EXCEPT ![r] = @ - 1]
  /\ IF window[r] = "closed"
       THEN /\ window' = [window EXCEPT ![r] = "open"]
            /\ owner' = [owner EXCEPT ![r] = "publish"]
       ELSE /\ window' = [window EXCEPT ![r] = "trailing"]
            /\ UNCHANGED owner
  /\ UNCHANGED <<db, total, lists, status, clock, connection, shell, watched, left, restarted, excused>>

\* InvalidationBroadcaster::publish: the unread total is read first.
ReadTotal ==
  /\ owner["unread"] = "publish"
  /\ total' = db["unread"]
  /\ owner' = [owner EXCEPT !["unread"] = "read"]
  /\ UNCHANGED <<db, due, window, lists, status, clock, connection, shell, watched, left, restarted, excused>>

Publish(r) ==
  /\ owner[r] = IF r = "unread" THEN "read" ELSE "publish"
  /\ Broadcast(IF r = "unread" THEN Stamp("snapshot", r, total, 0)
                               ELSE Stamp("invalidated", r, None, 0))
  /\ Tick
  /\ owner' = [owner EXCEPT ![r] = "sleep"]
  /\ total' = IF r = "unread" THEN None ELSE total
  /\ UNCHANGED <<db, due, window, lists, status, responses, requests, greeting,
                 shell, watched, left, restarted, excused>>

\* Mutant: the end of a window forgets the trailing publish.
FinishWithoutTrailing(r) ==
  /\ owner[r] = "sleep"
  /\ window' = [window EXCEPT ![r] = "closed"]
  /\ owner' = [owner EXCEPT ![r] = "idle"]
  /\ UNCHANGED <<db, due, total, lists, status, clock, connection, shell, watched, left, restarted, excused>>

\* drain_windows after its sleep, with InvalidationCoalescer::finish.
FinishWindow(r) ==
  /\ owner[r] = "sleep"
  /\ IF window[r] = "trailing"
       THEN /\ window' = [window EXCEPT ![r] = "open"]
            /\ owner' = [owner EXCEPT ![r] = "publish"]
       ELSE /\ window' = [window EXCEPT ![r] = "closed"]
            /\ owner' = [owner EXCEPT ![r] = "idle"]
  /\ UNCHANGED <<db, due, total, lists, status, clock, connection, shell, watched, left, restarted, excused>>

\* broadcast_text_outbox and broadcast_voice_outbox: read, then publish.
ReadList ==
  /\ due["outbox"] > 0
  /\ due' = [due EXCEPT !["outbox"] = @ - 1]
  /\ lists' = Append(lists, db["outbox"])
  /\ UNCHANGED <<db, window, owner, total, status, clock, connection, shell, watched, left, restarted, excused>>

PublishList(i) ==
  /\ Broadcast(Stamp("snapshot", "outbox", lists[i], 0))
  /\ Tick
  /\ lists' = SubSeq(lists, 1, i - 1) \o SubSeq(lists, i + 1, Len(lists))
  /\ UNCHANGED <<db, due, window, owner, total, status, responses, requests, greeting,
                 shell, watched, left, restarted, excused>>

\* Shared::set_status
ReadStatus ==
  /\ status = None
  /\ Happens
  /\ status' = db["unread"]
  /\ UNCHANGED <<db, due, window, owner, total, lists, clock, connection, shell, watched, restarted, excused>>

PublishStatus ==
  /\ status # None
  /\ Broadcast(Stamp("state", "unread", status, 0))
  /\ Tick
  /\ status' = None
  /\ UNCHANGED <<db, due, window, owner, total, lists, responses, requests, greeting,
                 shell, watched, left, restarted, excused>>

\* RevisionClock::begin_generation
BeginGeneration ==
  /\ Happens
  /\ clock' = [clock EXCEPT !.generation = @ + 1]
  /\ UNCHANGED <<db, due, window, owner, total, lists, status, connection, shell, watched, restarted, excused>>

----------------------------------------------------------------------------
(* The shell.                                                              *)

\* The refresh of a snapshot: what get_state, list_chats, list_text_outbox
\* and get_messages return is of these resources.
Content(r) == IF r = "state" THEN "unread" ELSE r

\* send() for every r in `asked`, and requestMessages when `mode` is not
\* "none": a pending request is queued behind only in mode "queue".
\* `known` are the shell's fields after what came before.
Ask(asked, mode, known) ==
  LET fresh == mode # "none" /\ known.pending = 0
      issued == {r \in asked \cup (IF fresh THEN {"messages"} ELSE {}) :
                   Content(r) \in watched}
  IN /\ requests' = requests \cup
          {[id |-> known.nextId, res |-> r, value |-> None] : r \in issued}
     /\ shell' = [known EXCEPT
          !.nextId = IF issued = {} THEN @ ELSE @ + 1,
          !.pending = IF "messages" \in issued THEN known.nextId ELSE @,
          !.queued = @ \/ (mode = "queue" /\ ~fresh)]

\* resourceKey
Key(frame) == IF frame.kind = "state" THEN "state" ELSE frame.res

Older(frame) == shell.gen > 0 /\ frame.gen > 0 /\ frame.gen < shell.gen

\* resetRequestState, as far as requestMessages reads it
Reset(s) == [s EXCEPT !.pending = 0, !.queued = FALSE]

\* The part of acceptFrame before the sequence is compared.
NoSequences == [k \in Keys |-> 0]
Entered(frame, s) ==
  IF frame.gen > s.gen
    THEN [Reset(s) EXCEPT !.gen = frame.gen, !.seqs = NoSequences]
    ELSE s

\* Mutant: only the generation is compared.
AcceptedByGeneration(frame) == ~Older(frame)

\* acceptFrame; an error has a key of its own.
Accepted(frame) ==
  /\ ~Older(frame)
  /\ frame.kind = "error" \/ frame.seq > Entered(frame, shell).seqs[Key(frame)]

Recorded(frame, s) ==
  IF frame.kind = "error" THEN s
  ELSE [s EXCEPT !.seqs[Key(frame)] = frame.seq]

Shown(frame, s) ==
  IF frame.kind \in {"snapshot", "state"}
    THEN [s EXCEPT !.view[frame.res] = frame.value] ELSE s

\* finishMessagesRequest: whether the frame answers the pending request.
Answers(frame, s) == frame.res = "messages" /\ frame.id # 0 /\ frame.id = s.pending

\* What no later frame will repair; see StaleViewsAreExplained.
Excuses(frame) ==
  {r \in excused : ~(/\ Accepted(frame) /\ r = frame.res
                     /\ frame.kind \in {"snapshot", "state"} /\ frame.value = db[r])}
  \cup {r \in {frame.res} :
          \/ Older(frame)
          \/ ~Accepted(frame) /\ restarted
          \/ frame.kind = "error"
          \/ Accepted(frame) /\ frame.stale
          \/ frame.kind = "state" /\ Accepted(frame) /\ frame.value < db[r]}
  \cup {r \in {"messages"} : frame.gen > shell.gen /\ shell.queued}

\* The shell's fields once an accepted frame is recorded, and once it is shown.
Taken(frame) == Recorded(frame, Entered(frame, shell))

Done(frame) == Answers(frame, Taken(frame))

After(frame) == Shown(frame, IF Done(frame) THEN Reset(Taken(frame)) ELSE Taken(frame))

\* What an accepted frame asks for: an invalidation its resource, the answer of
\* get_messages what queued behind it.
Mode(frame) ==
  IF frame.kind = "invalidated" /\ frame.res = "messages" THEN "queue"
  ELSE IF Done(frame) /\ Taken(frame).queued THEN "plain" ELSE "none"

\* handleLine for a frame that is not a hello.
Receive(frame) ==
  /\ excused' = IF shell.compatible THEN Excuses(frame) ELSE excused
  /\ IF ~shell.compatible
       THEN UNCHANGED <<shell, requests>>
     ELSE IF Accepted(frame)
       THEN Ask(IF frame.kind = "invalidated" THEN {frame.res} \ {"messages"} ELSE {},
                Mode(frame), After(frame))
       ELSE IF Answers(frame, shell)  \* finishStaleResponse
         THEN Ask({}, "plain", Reset(shell))
         ELSE UNCHANGED <<shell, requests>>

\* handleHello with refresh, then handleState, as write_connection_sync
\* writes them.
Greet(known) ==
  LET hello == Stamp("hello", "unread", 0, 0)
      state == [Stamp("state", "unread", db["unread"], 0) EXCEPT !.seq = @ + 1]
      entered == Entered(hello, known)
      greeted == [entered EXCEPT !.compatible = TRUE]
      newer == state.seq > greeted.seqs["state"]
  IN IF Older(hello)
       THEN /\ shell' = known
            /\ UNCHANGED <<requests, excused>>
       ELSE /\ Ask({"state", "chats", "outbox"}, "plain",
                   IF newer THEN Shown(state, Recorded(state, greeted)) ELSE greeted)
            /\ excused' = (excused \ (IF newer THEN {"unread"} ELSE {})) \cup
                 (IF greeted.pending # 0 THEN {"messages"} ELSE {})

----------------------------------------------------------------------------
(* The connection.                                                         *)

\* write_connection_sync on a new connection, and again after a lag.
WriteSync ==
  /\ greeting \/ lagged
  /\ greeting' = FALSE
  /\ lagged' = FALSE
  /\ Greet(shell)
  /\ clock' = [clock EXCEPT !.revision = @ + 3]
  /\ UNCHANGED <<db, due, window, owner, total, lists, status, events, responses, watched, left, restarted>>

WriteEvent ==
  /\ ~greeting /\ ~lagged /\ events # <<>>
  /\ events' = Tail(events)
  /\ Receive(Head(events))
  /\ UNCHANGED <<daemon, lagged, responses, greeting, watched, left, restarted>>

WriteResponse ==
  /\ ~greeting /\ responses # <<>>
  /\ responses' = Tail(responses)
  /\ Receive(Head(responses))
  /\ UNCHANGED <<daemon, events, lagged, greeting, watched, left, restarted>>

\* handle_command reads the snapshot ...
ReadSnapshot(q) ==
  /\ q.value = None
  /\ requests' = (requests \ {q}) \cup {[q EXCEPT !.value = db[Content(q.res)]]}
  /\ UNCHANGED <<daemon, events, lagged, responses, greeting, shell, watched, left, restarted, excused>>

\* ... and the job stamps its answer.
Respond(q) ==
  /\ q.value # None
  /\ requests' = requests \ {q}
  /\ responses' = Append(responses,
       Stamp(IF q.res = "state" THEN "state" ELSE "snapshot", Content(q.res), q.value, q.id))
  /\ Tick
  /\ UNCHANGED <<db, due, window, owner, total, lists, status, events, lagged, greeting,
                 shell, watched, left, restarted, excused>>

\* The command fails or meets its deadline.
Fail(q) ==
  /\ Happens
  /\ requests' = requests \ {q}
  /\ responses' = Append(responses, Stamp("error", Content(q.res), None, q.id))
  /\ Tick
  /\ UNCHANGED <<db, due, window, owner, total, lists, status, events, lagged, greeting,
                 shell, watched, restarted, excused>>

\* Mutant: the shell keeps its markers over a new connection.
ReopenedWithMarkers ==
  /\ events' = <<>> /\ lagged' = FALSE /\ responses' = <<>> /\ requests' = {}
  /\ greeting' = TRUE
  /\ shell' = [shell EXCEPT !.compatible = FALSE]

\* onConnectionStateChanged: the daemon's end of the old connection is gone
\* with its queues and its commands.
Reopened ==
  /\ events' = <<>> /\ lagged' = FALSE /\ responses' = <<>> /\ requests' = {}
  /\ greeting' = TRUE
  /\ shell' = [Reset(shell) EXCEPT !.compatible = FALSE]

Reconnect ==
  /\ Happens
  /\ Reopened
  /\ UNCHANGED <<daemon, watched, restarted, excused>>

\* The database survives; the clock starts again, and so does the
\* generation, while the shell keeps what it has seen.
RestartDaemon ==
  /\ Happens
  /\ Reopened
  /\ due' = [r \in Resources |-> 0]
  /\ window' = [r \in Coalesced |-> "closed"]
  /\ owner' = [r \in Coalesced |-> "idle"]
  /\ total' = None
  /\ lists' = <<>>
  /\ status' = None
  /\ clock' = [generation |-> 1, revision |-> 0]
  /\ excused' = Resources
  /\ restarted' = TRUE
  /\ UNCHANGED <<db, watched>>

----------------------------------------------------------------------------

\* A shell that has been served everything: what a settled pair looks like.
Init ==
  /\ db = [r \in Resources |-> 0]
  /\ due = [r \in Resources |-> 0]
  /\ window = [r \in Coalesced |-> "closed"]
  /\ owner = [r \in Coalesced |-> "idle"]
  /\ total = None
  /\ lists = <<>>
  /\ status = None
  /\ clock = [generation |-> 1, revision |-> 0]
  /\ events = <<>>
  /\ lagged = FALSE
  /\ responses = <<>>
  /\ requests = {}
  /\ greeting = FALSE
  /\ shell = [compatible |-> TRUE, gen |-> 1, seqs |-> NoSequences, pending |-> 0,
              queued |-> FALSE, nextId |-> 1, view |-> [r \in Resources |-> 0]]
  /\ watched \in Watched
  /\ left = Happenings
  /\ restarted = FALSE
  /\ excused = {}

Quiescent ==
  /\ \A r \in Resources : due[r] = 0
  /\ \A r \in Coalesced : owner[r] = "idle"
  /\ lists = <<>> /\ status = None
  /\ events = <<>> /\ responses = <<>> /\ requests = {}
  /\ ~greeting /\ ~lagged

\* Nothing happens; the only state without another step is a settled one.
Rest == Quiescent /\ UNCHANGED vars

Next ==
  \/ \E r \in Resources : Change(r)
  \/ \E r \in Coalesced : Schedule(r) \/ Publish(r) \/ FinishWindow(r)
  \/ ReadTotal
  \/ ReadList
  \/ \E i \in DOMAIN lists : PublishList(i)
  \/ ReadStatus \/ PublishStatus \/ BeginGeneration
  \/ WriteSync \/ WriteEvent \/ WriteResponse
  \/ \E q \in requests : ReadSnapshot(q) \/ Respond(q) \/ Fail(q)
  \/ Reconnect \/ RestartDaemon
  \/ Rest

Spec == Init /\ [][Next]_vars

----------------------------------------------------------------------------
(* Properties.                                                             *)

Frames == [kind : {"invalidated", "snapshot", "state", "error"}, res : Resources,
           value : 0..None, id : Nat, gen : Nat, seq : Nat, stale : BOOLEAN]

\* The shapes of the state, with the window owned exactly while it is open
\* (one owner per key, InvalidationCoalescer) and the queue bounded.
TypeOK ==
  /\ db \in [Resources -> 0..Changes]
  /\ due \in [Resources -> 0..Changes]
  /\ window \in [Coalesced -> {"closed", "open", "trailing"}]
  /\ owner \in [Coalesced -> {"idle", "publish", "read", "sleep"}]
  /\ \A r \in Coalesced : window[r] = "closed" <=> owner[r] = "idle"
  /\ total \in 0..None /\ status \in 0..None
  /\ lists \in Seq(0..Changes)
  /\ clock \in [generation : Nat \ {0}, revision : Nat]
  /\ events \in Seq(Frames) /\ Len(events) <= Capacity
  /\ responses \in Seq(Frames)
  /\ requests \subseteq [id : Nat, res : Keys, value : 0..None]
  /\ lagged \in BOOLEAN /\ greeting \in BOOLEAN
  /\ shell \in [compatible : BOOLEAN, gen : Nat, seqs : [Keys -> Nat], pending : Nat,
                queued : BOOLEAN, nextId : Nat, view : [Resources -> 0..Changes]]
  /\ watched \in Watched
  /\ left \in 0..Happenings /\ restarted \in BOOLEAN
  /\ excused \subseteq Resources

\* Once nothing is under way, what the shell shows is what the database
\* holds, unless one of these took the place of the newest content for good:
\* a snapshot that a change overtook between its read and its stamp, a State
\* frame (whose total has a sequence of its own), a frame of a retired
\* generation or a queued refresh forgotten when a new one begins, a hello
\* after a lag that met a pending get_messages, a failed refresh, or a clock
\* that started again.  Every lost, late or reordered frame otherwise is
\* repaired: by the sequence, the trailing publish, the queued refresh, the
\* repeated request of finishStaleResponse, or the refresh of a hello.
StaleViewsAreExplained ==
  Quiescent => \A r \in Resources \ excused : shell.view[r] = db[r]

\* The marker of a pending get_messages names a request or an answer on its
\* way, and a refresh queues behind such a marker only: no conversation is
\* left waiting for an answer that will not come.
PendingIsUnderWay ==
  /\ shell.queued => shell.pending # 0
  /\ shell.pending # 0 =>
       \/ \E q \in requests : q.res = "messages" /\ q.id = shell.pending
       \/ \E i \in DOMAIN responses :
            responses[i].res = "messages" /\ responses[i].id = shell.pending

\* Of chats, conversation and outbox a newer content gives way to an older one
\* only by a frame that was outdated when it was stamped: delivery in another
\* order than the stamps' never sets a view back.  (The unread total travels
\* under two sequences, "unread" and "state", and may.)
RegressIsStamped ==
    \A r \in Resources \ {"unread"} : shell'.view[r] < shell.view[r] => r \in excused'

\* What the shell shows catches up: nothing is awaited that will not come, once
\* nothing is under way the views are those of the database, but for the causes
\* StaleViewsAreExplained names, and on the way they are not set back.
ViewsCatchUp ==
    /\ [](StaleViewsAreExplained /\ PendingIsUnderWay)
    /\ [][RegressIsStamped]_vars

\* "Connecting always yields a versioned hello and current state"
\* (ARCHITECTURE.md): a shell that is connected, with nothing under way, has
\* accepted the hello and follows the daemon.
ShellIsServed == Quiescent => shell.compatible

=============================================================================
