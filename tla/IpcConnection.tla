----------------------------- MODULE IpcConnection -----------------------------
(* The IPC server: the select loop of serve_connection_inner (ipc.rs), the     *)
(* bounded command queue of a connection (queue slots, execution permits and   *)
(* the response channel), the deadline of a command (jobs.rs) and the conflict *)
(* gates that all connections share (Shared::command_gate, state.rs).  One     *)
(* action is one await point.  A request is a model value that its client may  *)
(* send again after its answer; what a command does is not modelled here.      *)
EXTENDS Naturals, Sequences, FiniteSets

CONSTANTS
    Clients,        \* processes with a socket to the daemon
    Requests,       \* requests under way at a time
    Owner,          \* the client of each request
    Keys,           \* conflict keys
    NoKey,          \* the key of a command without one
    Key,            \* jobs::conflict_key of each request
    NoGate,         \* no mutex
    MaxQueued,      \* MAX_QUEUED_CONNECTION_JOBS, 64 in the code
    MaxRunning,     \* MAX_CONNECTION_JOBS, 8 in the code
    QueueCapacity   \* slots of the response channel, 32 in the code

ASSUME RequestsAssumption ==
    /\ Owner \in [Requests -> Clients]
    /\ Key \in [Requests -> Keys \cup {NoKey}]
    /\ NoKey \notin Keys /\ NoGate \notin Requests
ASSUME IpcLimits ==
    MaxQueued \in Nat \ {0} /\ MaxRunning \in Nat \ {0} /\ QueueCapacity \in Nat \ {0}

VARIABLES
    phase,      \* where each request stands
    gate,       \* the mutex a job holds a reference to, named by its creator
    table,      \* command_gates: the mutex last made for each key, weakly held
    conn,       \* the select loop of each connection
    reading,    \* whether the client reads its socket
    responses   \* the response channel of each connection, and behind its
                \* QueueCapacity slots the jobs that wait to send, in order

jobsOf == <<phase, gate, table>>
ipcVars == <<phase, gate, table, conn, reading, responses>>

(* A job queues ("permit"), waits for its gate ("gate"), runs its handler,     *)
(* hands its response to the channel ("answered") and the loop writes it       *)
(* ("writing").  "stopping" is an aborted handler before its next await.       *)
Bounded == {"permit", "gate", "running"}
Phases == Bounded \cup {"idle", "answered", "writing", "stopping"}

Of(c) == {q \in Requests : Owner[q] = c}
In(c, S) == {q \in Of(c) : phase[q] \in S}

\* A job keeps its queue slot until the channel has taken its response.
Waiting(c) == {responses[c][i] : i \in (QueueCapacity + 1)..Len(responses[c])}
SlotsUsed(c) == Cardinality(In(c, Bounded) \cup Waiting(c))
PermitsUsed(c) == Cardinality(In(c, {"gate", "running"}))

Locked(m) == \E p \in Requests : gate[p] = m /\ phase[p] \in {"running", "stopping"}

IpcInit ==
    /\ phase = [q \in Requests |-> "idle"]
    /\ gate = [q \in Requests |-> NoGate]
    /\ table = [k \in Keys |-> NoGate]
    /\ conn = [c \in Clients |-> "closed"]
    /\ reading = [c \in Clients |-> TRUE]
    /\ responses = [c \in Clients |-> <<>>]

-----------------------------------------------------------------------------
(* The select loop of a connection *)

\* serve accepts the client; write_connection_sync is the first thing written.
Accept(c) ==
    /\ conn[c] = "closed"
    /\ conn' = [conn EXCEPT ![c] = "writing"]
    /\ reading' = [reading EXCEPT ![c] = TRUE]
    /\ UNCHANGED <<jobsOf, responses>>

\* A request takes a queue slot, or is refused with "too many active requests".
ReadLine(q) ==
    LET c == Owner[q] IN
    /\ conn[c] = "select" /\ phase[q] = "idle"
    /\ IF SlotsUsed(c) < MaxQueued
       THEN /\ phase' = [phase EXCEPT ![q] = "permit"]
            /\ UNCHANGED conn
       ELSE /\ phase' = [phase EXCEPT ![q] = "writing"]
            /\ conn' = [conn EXCEPT ![c] = "writing"]
    /\ UNCHANGED <<gate, table, reading, responses>>

\* An invalid line, a broadcast or a lag: the loop writes a frame of its own.
WriteEvent(c) ==
    /\ conn[c] = "select"
    /\ conn' = [conn EXCEPT ![c] = "writing"]
    /\ UNCHANGED <<jobsOf, reading, responses>>

TakeResponse(c) ==
    /\ conn[c] = "select" /\ responses[c] # <<>>
    /\ phase' = [phase EXCEPT ![Head(responses[c])] = "writing"]
    /\ responses' = [responses EXCEPT ![c] = Tail(@)]
    /\ conn' = [conn EXCEPT ![c] = "writing"]
    /\ UNCHANGED <<gate, table, reading>>

\* write_all returns once the client has taken the bytes.
FinishWrite(c) ==
    /\ conn[c] = "writing" /\ reading[c]
    /\ phase' = [q \in Requests |->
                    IF q \in In(c, {"writing"}) THEN "idle" ELSE phase[q]]
    /\ conn' = [conn EXCEPT ![c] = "select"]
    /\ UNCHANGED <<gate, table, reading, responses>>

\* The client goes away or a write fails: dropping the JoinSet aborts the jobs.
Close(c) ==
    /\ conn[c] # "closed"
    /\ conn' = [conn EXCEPT ![c] = "closed"]
    /\ phase' = [q \in Requests |->
                    IF q \notin Of(c) THEN phase[q]
                    ELSE IF phase[q] \in {"running", "stopping"} THEN "stopping"
                    ELSE "idle"]
    /\ gate' = [q \in Requests |->
                    IF q \in Of(c) /\ phase[q] # "running" /\ phase[q] # "stopping"
                    THEN NoGate ELSE gate[q]]
    /\ responses' = [responses EXCEPT ![c] = <<>>]
    /\ UNCHANGED <<table, reading>>

\* The client stops reading its socket, or reads again.
Stall(c) ==
    /\ conn[c] # "closed"
    /\ reading' = [reading EXCEPT ![c] = ~@]
    /\ UNCHANGED <<jobsOf, conn, responses>>

-----------------------------------------------------------------------------
(* A command job *)

\* Mutation: the mutex is made anew.
FreshGate(q) == q

\* command_gate: the live mutex of the key, or a new one.
Gate(q) ==
    LET m == table[Key[q]] IN
    IF \E p \in Requests : m # NoGate /\ gate[p] = m THEN m ELSE q

\* An execution permit, and the gate of the command if it has a conflict key.
TakePermit(q) ==
    /\ phase[q] = "permit"
    /\ PermitsUsed(Owner[q]) < MaxRunning
    /\ IF Key[q] = NoKey
       THEN /\ phase' = [phase EXCEPT ![q] = "running"]
            /\ UNCHANGED <<gate, table>>
       ELSE /\ phase' = [phase EXCEPT ![q] = "gate"]
            /\ gate' = [gate EXCEPT ![q] = Gate(q)]
            /\ table' = [table EXCEPT ![Key[q]] = Gate(q)]
    /\ UNCHANGED <<conn, reading, responses>>

LockGate(q) ==
    /\ phase[q] = "gate" /\ ~Locked(gate[q])
    /\ phase' = [phase EXCEPT ![q] = "running"]
    /\ UNCHANGED <<gate, table, conn, reading, responses>>

\* The async block ends: permit and gate are released, and the response is
\* sent to the channel.
Release(q) ==
    /\ phase' = [phase EXCEPT ![q] = "answered"]
    /\ gate' = [gate EXCEPT ![q] = NoGate]
    /\ responses' = [responses EXCEPT ![Owner[q]] = Append(@, q)]
    /\ UNCHANGED <<table, conn, reading>>

\* handle_command returned.
FinishCommand(q) == phase[q] = "running" /\ Release(q)

\* Mutation: the deadline covers only the handler.
TimeoutOfTheHandler(q) == phase[q] = "running" /\ Release(q)

\* tokio::time::timeout over permit, gate and handler.
Timeout(q) == phase[q] \in Bounded /\ Release(q)

\* The aborted handler reaches an await point.
Stopped(q) ==
    /\ phase[q] = "stopping"
    /\ phase' = [phase EXCEPT ![q] = "idle"]
    /\ gate' = [gate EXCEPT ![q] = NoGate]
    /\ UNCHANGED <<table, conn, reading, responses>>

-----------------------------------------------------------------------------
IpcNext ==
    \/ \E c \in Clients :
          \/ Accept(c) \/ WriteEvent(c) \/ TakeResponse(c)
          \/ FinishWrite(c) \/ Close(c) \/ Stall(c)
    \/ \E q \in Requests :
          \/ ReadLine(q) \/ TakePermit(q) \/ LockGate(q) \/ FinishCommand(q)
          \/ Timeout(q) \/ Stopped(q)

IpcSpec == IpcInit /\ [][IpcNext]_ipcVars

\* A deadline fires and a reading client is written to.  select! polls its
\* branches in a random order, so a branch ready again and again has its turn.
\* Nothing is assumed of a handler, of the permits or of the gates.
IpcFairness ==
    /\ \A q \in Requests : WF_ipcVars(Timeout(q))
    /\ \A c \in Clients : WF_ipcVars(FinishWrite(c)) /\ SF_ipcVars(TakeResponse(c))

IpcFairSpec == IpcSpec /\ IpcFairness

-----------------------------------------------------------------------------
(* Properties *)

\* A sequence of the elements of a set, each once.
Once(r, S) ==
    /\ r \in Seq(S)
    /\ \A q \in S : \E i \in 1..Len(r) : \A j \in 1..Len(r) : r[j] = q <=> j = i

\* The type of every variable, and the bounds of a connection: its jobs and its
\* executing commands stay within their limits, and every answer is sent once.
IpcTypeOK ==
    /\ phase \in [Requests -> Phases]
    /\ gate \in [Requests -> Requests \cup {NoGate}]
    /\ table \in [Keys -> Requests \cup {NoGate}]
    /\ conn \in [Clients -> {"closed", "select", "writing"}]
    /\ reading \in [Clients -> BOOLEAN]
    /\ \A c \in Clients :
          /\ SlotsUsed(c) <= MaxQueued
          /\ PermitsUsed(c) <= MaxRunning
          /\ Once(responses[c], In(c, {"answered"}))

\* Two commands with one conflict key never run together, on whatever
\* connections, although the table holds their mutex only weakly and a
\* deadline or a closed connection drops a holder or a waiter at any moment
\* (Shared::command_gate).
GateIsExclusive ==
    \A p, q \in Requests :
        /\ p # q /\ Key[p] = Key[q] /\ Key[p] # NoKey
        /\ phase[p] \in {"running", "stopping"}
        => phase[q] \notin {"running", "stopping"}

\* Every request read from a client that keeps reading is answered, with its
\* result, a refusal or "request timed out", whatever the handlers, the other
\* requests and the other clients do.
EveryRequestIsAnswered ==
    \A q \in Requests :
        phase[q] \notin {"idle", "stopping"} ~>
            (phase[q] = "idle" \/ ~reading[Owner[q]] \/ conn[Owner[q]] = "closed")
=============================================================================
