------------------------------ MODULE DaemonStart ------------------------------
(* How a daemon takes the one IPC path, and with it the linked session, and    *)
(* gives it up (bind_private_listener, run_daemon): several processes started  *)
(* side by side, each of which may be killed at any step.  A start repairs     *)
(* what a stopped daemon left in flight: recordings before it takes the path,  *)
(* texts after it.                                                             *)
EXTENDS FiniteSets

CONSTANTS
    Daemons,        \* processes
    Nobody          \* the process of a send whose daemon is gone

ASSUME StartAssumption ==
    Nobody \notin Daemons /\ Daemons \cap {"none", "other", "stale"} = {}

Kinds == {"voice", "text"}

VARIABLES
    path,       \* what is at the socket path: a daemon stands for its listener
    step,       \* per daemon, how far its start or its stop has come
    seen,       \* history: what was at the path when the daemon tried to connect
    stolen,     \* history: daemons whose socket another start or stop unlinked
    flight      \* per kind, a send: its stored status, the process that runs it;
                \* history: whether it was stored as under way behind another
                \* daemon's back, and whether it was left that way

startVars == <<path, step, seen, stolen, flight>>

Places == {"none", "other", "stale"} \cup Daemons
StartSteps == {"off", "starting", "inspecting", "probing", "unlinking", "binding", "bound",
          "opening", "serving", "leaving"}

Flights == [status : {"none", "sending", "retry"}, by : Daemons \cup {Nobody},
            late : BOOLEAN, left : BOOLEAN]

StartTypeOK ==
    /\ path \in Places
    /\ step \in [Daemons -> StartSteps]
    /\ seen \in [Daemons -> Places]
    /\ stolen \subseteq Daemons
    /\ flight \in [Kinds -> Flights]

StartInit ==
    /\ path \in {"none", "other", "stale"}      \* another file, a killed daemon's socket
    /\ step = [d \in Daemons |-> "off"]
    /\ seen = [d \in Daemons |-> "none"]
    /\ stolen = {}
    /\ flight = [k \in Kinds |->
                    [status |-> "none", by |-> Nobody, late |-> FALSE, left |-> FALSE]]

-----------------------------------------------------------------------------

HasListener(d) == step[d] \in {"bound", "opening", "serving", "leaving"}

\* Daemons whose workers and commands send.
Senders == {d \in Daemons : step[d] \in {"serving", "leaving"}}

Moves(d, from, to) == step[d] = from /\ step' = [step EXCEPT ![d] = to]

\* The process ends; the kernel closes its listener and leaves the file.
Exit(d) ==
    /\ step' = [step EXCEPT ![d] = "off"]
    /\ path' = IF path = d THEN "stale" ELSE path
    /\ stolen' = stolen \ {d}
    /\ flight' = [k \in Kinds |->
                    IF flight[k].by = d THEN [flight[k] EXCEPT !.by = Nobody] ELSE flight[k]]
    /\ UNCHANGED seen

\* What is sending by its stored status waits for a retry.
Interrupted(k) == IF flight[k].status = "sending"
                  THEN [flight EXCEPT ![k].status = "retry"] ELSE flight

\* recover_interrupted, before anything shows that no other daemon runs; when it
\* fails, the start goes on all the same.
RecoverVoice(d) ==
    /\ Moves(d, "off", "starting")
    /\ \/ flight' = Interrupted("voice")
       \/ flight' = [flight EXCEPT !["voice"].left = TRUE]
    /\ UNCHANGED <<path, seen, stolen>>

\* symlink_metadata
Inspect(d) ==
    /\ \/ path = "none" /\ Moves(d, "starting", "binding")
       \/ path \notin {"none", "other"} /\ Moves(d, "starting", "probing")
    /\ UNCHANGED <<path, seen, stolen, flight>>

Refuse(d) ==
    /\ \/ step[d] = "starting" /\ path = "other"            \* not a socket
       \/ step[d] = "probing" /\ path \in Daemons           \* already running
       \/ step[d] = "unlinking" /\ path = "none"
       \/ step[d] = "binding" /\ path # "none"
       \/ step[d] = "bound" /\ path = "none"                \* no file to chmod
    /\ Exit(d)

\* Mutation: a socket is taken for a stale one.
ProbeNothing(d) ==
    /\ Moves(d, "probing", "unlinking")
    /\ seen' = [seen EXCEPT ![d] = path]
    /\ UNCHANGED <<path, stolen, flight>>

\* The connect is refused or finds nothing.
Probe(d) ==
    /\ path \notin Daemons
    /\ Moves(d, "probing", "unlinking")
    /\ seen' = [seen EXCEPT ![d] = path]
    /\ UNCHANGED <<path, stolen, flight>>

\* A socket that became live since the connect goes with its file.
RemoveStale(d) ==
    /\ path # "none" /\ Moves(d, "unlinking", "binding")
    /\ path' = "none"
    /\ stolen' = IF path \in Daemons /\ path # seen[d] THEN stolen \cup {path} ELSE stolen
    /\ UNCHANGED <<seen, flight>>

Bind(d) ==
    /\ path = "none" /\ Moves(d, "binding", "bound")
    /\ path' = d
    /\ UNCHANGED <<seen, stolen, flight>>

\* set_permissions goes by the path, whoever's socket it is by now.
SetPermissions(d) ==
    /\ path # "none" /\ Moves(d, "bound", "opening")
    /\ UNCHANGED <<path, seen, stolen, flight>>

\* Mutation: the texts in flight are left as they are.
OpenUnrepaired(d) ==
    /\ Moves(d, "opening", "serving")
    /\ UNCHANGED <<path, seen, stolen, flight>>

\* Database::open queues the texts again that were in flight.
OpenDatabase(d) ==
    /\ Moves(d, "opening", "serving")
    /\ flight' = Interrupted("text")
    /\ UNCHANGED <<path, seen, stolen>>

-----------------------------------------------------------------------------

\* Has another daemon already repaired this kind?
RepairedBeside(d, k) ==
    \E e \in Daemons \ {d} : IF k = "voice" THEN step[e] # "off" ELSE e \in Senders

\* The outbox's worker claims a queued text; a command sends a recording, also
\* one that is stored as under way.
BeginSend(d, k) ==
    /\ d \in Senders /\ flight[k].by # d
    /\ k = "text" => flight[k].status # "sending"
    /\ flight' = [flight EXCEPT ![k] = [status |-> "sending", by |-> d,
                                        late |-> RepairedBeside(d, k), left |-> FALSE]]
    /\ UNCHANGED <<path, step, seen, stolen>>

\* assign_delivery saves the job as the command has it, whatever a start beside
\* it made of the file.
SaveDelivery(d) ==
    /\ flight["voice"].by = d
    /\ flight' = [flight EXCEPT !["voice"] = [status |-> "sending", by |-> d,
                                late |-> RepairedBeside(d, "voice"), left |-> FALSE]]
    /\ UNCHANGED <<path, step, seen, stolen>>

\* Sent, or failed and to be retried; of a text queued again meanwhile neither
\* is recorded.
FinishSend(d, k) ==
    /\ flight[k].by = d
    /\ \E status \in IF k = "text" /\ flight[k].status # "sending"
                     THEN {flight[k].status} ELSE {"none", "retry"} :
          flight' = [flight EXCEPT ![k] = [status |-> status, by |-> Nobody,
                                           late |-> FALSE, left |-> FALSE]]
    /\ UNCHANGED <<path, step, seen, stolen>>

\* The deadline drops the command, or the write of the outcome fails: the send
\* stays as it is stored, and nobody runs it.
LeaveSend(d, k) ==
    /\ flight[k].by = d
    /\ flight' = [flight EXCEPT ![k].by = Nobody, ![k].left = TRUE]
    /\ UNCHANGED <<path, step, seen, stolen>>

\* A connection to WhatsApp queues every text again, the one in flight too.
RetryAllTexts(d) ==
    /\ d \in Senders
    /\ flight' = Interrupted("text")
    /\ UNCHANGED <<path, step, seen, stolen>>

\* The loop is left on SIGINT: what is at the path is unlinked, if anything is;
\* the process's tasks go on until it has ended.
Stop(d) ==
    /\ Moves(d, "serving", "leaving")
    /\ path' = "none"
    /\ stolen' = IF path \in Daemons \ {d} THEN stolen \cup {path} ELSE stolen
    /\ UNCHANGED <<seen, flight>>

\* SIGKILL, a failed step of the start, or the end of main.
Ends(d) == step[d] # "off" /\ Exit(d)

StartNext ==
    \E d \in Daemons :
        \/ RecoverVoice(d) \/ Inspect(d) \/ Refuse(d) \/ Probe(d) \/ RemoveStale(d)
        \/ Bind(d) \/ SetPermissions(d) \/ OpenDatabase(d)
        \/ \E k \in Kinds : BeginSend(d, k) \/ FinishSend(d, k) \/ LeaveSend(d, k)
        \/ SaveDelivery(d) \/ RetryAllTexts(d)
        \/ Stop(d) \/ Ends(d)

StartSpec == StartInit /\ [][StartNext]_startVars

-----------------------------------------------------------------------------

\* A daemon that listens owns the path, unless its socket was taken for the
\* stale one that stood there when another start tried to connect (ipc.rs:40-48),
\* or it has given the path up.
ListenersOwnThePath ==
    \A d \in Daemons : HasListener(d) => path = d \/ d \in stolen \/ step[d] = "leaving"

\* So two daemons own the linked session only where one lost its path that way.
OneOwner ==
    \A d, e \in Daemons :
        d # e /\ step[d] = "serving" /\ step[e] = "serving" => stolen \cap {d, e} # {}

\* A start queues a text in flight a second time only past such a loss, or while
\* the daemon that sends it is leaving (database.rs:807).
TextsAreSentByOne ==
    LET f == flight["text"]
    IN  f.status = "sending" /\ f.by # Nobody /\ flight'["text"].status = "retry" /\ step' # step =>
            \/ step[f.by] = "leaving"
            \/ \E d \in Daemons : step'[d] # step[d] /\ stolen \cap {d, f.by} # {}

\* While a daemon serves, a send its store shows as under way has a process, but
\* for one stored so where another daemon had already repaired its kind, and for
\* one left behind: by a deadline (ipc.rs:152), a failed write of its outcome
\* (commands.rs:721) or a failed recovery (main.rs:185).  The panel of such a
\* recording says that it is being sent, and offers no retry.
NoSendIsStranded ==
    \A k \in Kinds :
        /\ flight[k].status = "sending" /\ flight[k].by = Nobody
        /\ ~flight[k].late /\ ~flight[k].left
        => \A d \in Daemons : step[d] # "serving"

\* Starts side by side: the path, its owner and what is in flight.
StartsAreExclusive ==
    /\ [](ListenersOwnThePath /\ OneOwner /\ NoSendIsStranded)
    /\ [][TextsAreSentByOne]_startVars
=============================================================================
