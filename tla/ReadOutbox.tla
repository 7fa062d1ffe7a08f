------------------------------ MODULE ReadOutbox ------------------------------
(* Durable read intents: the tables pending_read_chats and                     *)
(* pending_read_messages (database.rs), the MarkRead command (commands.rs),    *)
(* the message reducer's insert of a message read on arrival (messages.rs),    *)
(* and the delivery loop run_read_outbox (outbox.rs).  MarkRead holds          *)
(* read_outbox_gate throughout and the loop holds it to select a batch; the    *)
(* message reducer does not take it.                                           *)
EXTENDS Naturals, FiniteSets

CONSTANTS
    Chats,          \* chats, numbered in the text order of their JIDs
    Groups,         \* the chats whose receipts go out once per sender
    Messages,       \* incoming messages
    ChatOf,         \* [Messages -> Chats]
    SenderOf,       \* the sender of each message
    StampOf,        \* the timestamp of each message
    Times,          \* wall-clock and message timestamps, in seconds
    ReceiptLimit    \* receipts one MarkRead collects (256 in the code)

ASSUME ChatsAssumption == Chats \subseteq Nat \ {0} /\ Groups \subseteq Chats
ASSUME MessagesAssumption ==
    /\ ChatOf \in [Messages -> Chats]
    /\ StampOf \in [Messages -> Times]
    /\ DOMAIN SenderOf = Messages
ASSUME TimesAssumption == Times \subseteq Nat \ {0}
ASSUME ReceiptLimitAssumption == ReceiptLimit \in Nat

VARIABLES
    intents,    \* pending_read_chats: created_at by chat, 0 when absent
    receipts,   \* pending_read_messages
    stored,     \* messages in the history
    read,       \* those with the read flag
    boundary,   \* chat_settings.read_boundary by chat
    mark,       \* the MarkRead in progress: its step, chat, receipts, boundary
    loop,       \* where run_read_outbox stands
    batch,      \* its batch: the chat and the receipts read from the table
    todo,       \* groups of receipts the batch has not sent yet
    permit,     \* the stored permit of read_outbox_notify
    client,     \* whether shared.client holds a transport
    stalled,    \* whether a delivery, or a MarkRead that had queued its intent,
                \* failed since the loop last looked for its client
    sent,       \* receipts WhatsApp took
    wanted,     \* history: receipts ever queued since the last wipe
    silent,     \* history: messages read without queueing a receipt
    racing,     \* history: messages stored while a MarkRead of their chat ran
    over,       \* history: messages the receipt limit left out of a MarkRead
    overtaken,  \* history: messages stored after one as new that was read
    due,        \* history: chats with an intent no mark_chat_as_read answered
    late        \* history: chats with an intent queued behind such a call

tables == <<intents, receipts>>
history == <<stored, read, boundary>>
delivery == <<loop, batch, todo>>
ghosts == <<wanted, silent, racing, over, overtaken, due, late>>
vars == <<intents, receipts, stored, read, boundary, mark, loop, batch, todo,
          permit, client, stalled, sent, wanted, silent, racing, over, overtaken, due, late>>

Idle == [step |-> "idle", chat |-> 0, selected |-> {}, bound |-> 0]
NoBatch == [chat |-> 0, receipts |-> {}]

In(c) == {m \in Messages : ChatOf[m] = c}
Unread(c) == {m \in stored \cap In(c) : m \notin read}
Pending == {c \in Chats : intents[c] # 0}

\* ON CONFLICT DO UPDATE SET created_at = MIN(...)
Queue(c, at) ==
    intents' = [intents EXCEPT ![c] = IF @ = 0 \/ at < @ THEN at ELSE @]

\* A call of mark_chat_as_read for c, begun and not yet settled in the table.
Behind(c) == loop \in {"marking", "finish"} /\ batch.chat = c

\* An intent for c exists from now on.
NoteIntent(c) ==
    /\ due' = due \cup {c}
    /\ late' = IF Behind(c) THEN late \cup {c} ELSE late

Init ==
    /\ intents = [c \in Chats |-> 0] /\ receipts = {}
    /\ stored = {} /\ read = {} /\ boundary = [c \in Chats |-> 0]
    /\ mark = Idle
    /\ loop = "check" /\ batch = NoBatch /\ todo = {}
    /\ permit = FALSE /\ client = FALSE /\ stalled = FALSE
    /\ sent = {} /\ wanted = {} /\ silent = {}
    /\ racing = {} /\ over = {} /\ overtaken = {}
    /\ due = {} /\ late = {}

-----------------------------------------------------------------------------
(* The message reducer *)

\* A message of the chat that is read here and as new as m.
Overtakes(n, m) == n \in read \cap In(ChatOf[m]) /\ StampOf[m] <= StampOf[n]

\* A message arrives: insert_message.  One the boundary covers is stored as read,
\* and no receipt is queued for it.
Arrive(m) ==
    /\ m \notin stored
    /\ stored' = stored \cup {m}
    /\ LET covered == {n \in {m} : StampOf[n] <= boundary[ChatOf[n]]}
       IN  /\ read' = read \cup covered
           /\ silent' = silent \cup (covered \ (receipts \cup sent))
    /\ overtaken' = IF \E n \in Messages : Overtakes(n, m) THEN overtaken \cup {m}
                                                        ELSE overtaken
    /\ racing' = IF mark.chat = ChatOf[m] THEN racing \cup {m} ELSE racing
    /\ UNCHANGED <<tables, boundary, mark, delivery, permit, client, stalled,
                   sent, wanted, over, due, late>>

\* It arrives in the focused chat: insert_message_with_read_intent, then notify.
\* A replay of a stored message leaves its row alone and queues the intent.
ArriveFocused(m) ==
    /\ stored' = stored \cup {m}
    /\ read' = IF m \in stored THEN read ELSE read \cup {m}
    /\ Queue(ChatOf[m], StampOf[m])
    /\ receipts' = receipts \cup {m}
    /\ wanted' = wanted \cup {m}
    /\ NoteIntent(ChatOf[m])
    /\ permit' = TRUE
    /\ UNCHANGED <<boundary, mark, delivery, client, stalled, sent, silent,
                   racing, over, overtaken>>

-----------------------------------------------------------------------------
(* MarkRead: unread_receipts, queue_read_receipts, the boundary and its         *)
(* application are four acquisitions of the database lock.                      *)

\* ORDER BY timestamp DESC LIMIT ReceiptLimit
Newest(S, unread) ==
    /\ S \subseteq unread
    /\ \A m \in S : \A n \in unread \ S : StampOf[n] <= StampOf[m]
    /\ Cardinality(S) <= ReceiptLimit
    /\ S # unread => Cardinality(S) = ReceiptLimit

UnreadReceipts(c) ==
    /\ mark = Idle
    /\ \E S \in SUBSET Unread(c) :
          /\ Newest(S, Unread(c))
          /\ mark' = [step |-> "queue", chat |-> c, selected |-> S, bound |-> 0]
          /\ over' = (over \ S) \cup (Unread(c) \ S)
          /\ racing' = racing \ Unread(c)
    /\ UNCHANGED <<tables, history, delivery, permit, client, stalled, sent,
                   wanted, silent, overtaken, due, late>>

\* Mutation: a chat that already has an intent is left alone.
QueueOnlyOnce(now) ==
    /\ mark.step = "queue"
    /\ IF mark.chat \in Pending THEN UNCHANGED <<tables, wanted>>
       ELSE /\ Queue(mark.chat, now)
            /\ receipts' = receipts \cup mark.selected
            /\ wanted' = wanted \cup mark.selected
    /\ NoteIntent(mark.chat)
    /\ mark' = [mark EXCEPT !.step = "boundary"]
    /\ UNCHANGED <<history, delivery, permit, client, stalled, sent, silent,
                   racing, over, overtaken>>

QueueReadReceipts(now) ==
    /\ mark.step = "queue"
    /\ Queue(mark.chat, now)
    /\ receipts' = receipts \cup mark.selected
    /\ wanted' = wanted \cup mark.selected
    /\ NoteIntent(mark.chat)
    /\ mark' = [mark EXCEPT !.step = "boundary"]
    /\ UNCHANGED <<history, delivery, permit, client, stalled, sent, silent,
                   racing, over, overtaken>>

\* mark_read: maximum_message_timestamp, then the lock is dropped.
ReadBoundary ==
    /\ mark.step = "boundary"
    /\ \E top \in {StampOf[m] : m \in stored \cap In(mark.chat)} \cup {0} :
          /\ \A m \in stored \cap In(mark.chat) : StampOf[m] <= top
          /\ top = 0 => stored \cap In(mark.chat) = {}
          /\ mark' = [mark EXCEPT !.step = "apply", !.bound = top]
    /\ UNCHANGED <<tables, history, delivery, permit, client, stalled, sent, ghosts>>

\* apply_read_boundary and notify_one; the command is over.
ApplyBoundary ==
    /\ mark.step = "apply"
    /\ LET c == mark.chat
           bound == IF mark.bound < boundary[c] THEN boundary[c] ELSE mark.bound
           newly == {m \in Unread(c) : StampOf[m] <= bound}
       IN  /\ boundary' = [boundary EXCEPT ![c] = bound]
           /\ read' = read \cup newly
           /\ silent' = silent \cup (newly \ (receipts \cup sent))
    /\ mark' = Idle
    /\ permit' = TRUE
    /\ UNCHANGED <<tables, stored, delivery, client, stalled, sent, wanted,
                   racing, over, overtaken, due, late>>

\* A statement of the command fails, and its `?` ends it: what it queued stays,
\* and nobody wakes the loop for it.
MarkReadFails ==
    /\ mark.step # "idle"
    /\ mark' = Idle
    /\ stalled' = (stalled \/ mark.step # "queue")
    /\ UNCHANGED <<tables, history, delivery, permit, client, sent, ghosts>>

-----------------------------------------------------------------------------
(* run_read_outbox and deliver_pending_read *)

CheckClient ==
    /\ loop = "check"
    /\ loop' = IF client THEN "claim" ELSE "wait"
    /\ stalled' = FALSE
    /\ UNCHANGED <<tables, history, mark, batch, todo, permit, client, sent, ghosts>>

AwaitNotified ==
    /\ loop = "wait" /\ permit
    /\ permit' = FALSE
    /\ loop' = "check"
    /\ UNCHANGED <<tables, history, mark, batch, todo, client, stalled, sent, ghosts>>

\* next_read_batch under the gate: ORDER BY created_at, chat_jid LIMIT 1.
NextReadBatch(c) ==
    /\ loop = "claim" /\ mark = Idle
    /\ c \in Pending
    /\ \A d \in Pending :
          intents[c] < intents[d] \/ (intents[c] = intents[d] /\ c <= d)
    /\ LET mine == receipts \cap In(c) IN
          /\ batch' = [chat |-> c, receipts |-> mine]
          /\ todo' = IF c \in Groups
                     THEN {{n \in mine : SenderOf[n] = SenderOf[m]} : m \in mine}
                     ELSE {mine} \ {{}}
    /\ loop' = "receipts"
    /\ UNCHANGED <<tables, history, mark, permit, client, stalled, sent, ghosts>>

NothingPending ==
    /\ loop = "claim" /\ mark = Idle
    /\ Pending = {}
    /\ loop' = "wait"
    /\ UNCHANGED <<tables, history, mark, batch, todo, permit, client, stalled,
                   sent, ghosts>>

\* transport.mark_as_read for one sender (or the whole direct chat) returned Ok.
MarkAsRead ==
    /\ loop = "receipts"
    /\ \E group \in todo :
          /\ sent' = sent \cup group
          /\ todo' = todo \ {group}
    /\ UNCHANGED <<tables, history, mark, loop, batch, permit, client, stalled, ghosts>>

\* transport.mark_chat_as_read is called.
MarkChatAsRead ==
    /\ loop = "receipts" /\ todo = {}
    /\ loop' = "marking"
    /\ late' = late \ {batch.chat}
    /\ UNCHANGED <<tables, history, mark, batch, todo, permit, client, stalled,
                   sent, wanted, silent, racing, over, overtaken, due>>

\* It returned Ok: every intent queued before the call is answered.
ChatMarked ==
    /\ loop = "marking"
    /\ loop' = "finish"
    /\ due' = IF batch.chat \in late THEN due ELSE due \ {batch.chat}
    /\ UNCHANGED <<tables, history, mark, batch, todo, permit, client, stalled,
                   sent, wanted, silent, racing, over, overtaken, late>>

\* Mutations: the batch's chat loses all its receipts; its intent goes although
\* receipts remain.
FinishDropsChat ==
    /\ loop = "finish"
    /\ receipts' = receipts \ In(batch.chat)
    /\ intents' = [intents EXCEPT ![batch.chat] = 0]
    /\ loop' = "check" /\ batch' = NoBatch /\ todo' = {}
    /\ UNCHANGED <<history, mark, permit, client, stalled, sent, ghosts>>

\* finish_read_batch deletes the batch's receipts, and the intent if the chat
\* has no other receipt.
FinishReadBatch ==
    /\ loop = "finish"
    /\ receipts' = receipts \ batch.receipts
    /\ intents' = [intents EXCEPT ![batch.chat] =
                      IF receipts' \cap In(batch.chat) = {} THEN 0 ELSE @]
    /\ loop' = "check" /\ batch' = NoBatch /\ todo' = {}
    /\ UNCHANGED <<history, mark, permit, client, stalled, sent, ghosts>>

\* Mutation: an error of mark_chat_as_read is ignored.
ChatErrorIgnored ==
    /\ loop = "marking"
    /\ loop' = "finish"
    /\ UNCHANGED <<tables, history, mark, batch, todo, permit, client, stalled,
                   sent, ghosts>>

\* Any `?` of deliver_pending_read: the rows stay, the loop awaits a wake-up.
\* A receipt call may fail after the server took it.
DeliveryFails ==
    /\ loop \in {"claim", "receipts", "marking", "finish"}
    /\ sent' \in {sent} \cup
                 {sent \cup group : group \in IF loop = "receipts" THEN todo ELSE {}}
    /\ loop' = "wait" /\ batch' = NoBatch /\ todo' = {}
    /\ stalled' = TRUE
    /\ UNCHANGED <<tables, history, mark, permit, client, ghosts>>

-----------------------------------------------------------------------------
(* Connection, restart, logout *)

\* Mutation: on_connected wakes only the text outbox.
ConnectWithoutWake ==
    /\ client' = TRUE
    /\ UNCHANGED <<tables, history, mark, delivery, permit, stalled, sent, ghosts>>

\* on_connected installs the transport and wakes the loop; a loop that reads
\* the client in between finds the same table.
OnConnected ==
    /\ client' = TRUE
    /\ permit' = TRUE
    /\ UNCHANGED <<tables, history, mark, delivery, stalled, sent, ghosts>>

Disconnect ==
    /\ client
    /\ client' = FALSE
    /\ UNCHANGED <<tables, history, mark, delivery, permit, stalled, sent, ghosts>>

\* A restart keeps the tables; a MarkRead in progress ends where it was.
Restart ==
    /\ mark' = Idle
    /\ loop' = "check" /\ batch' = NoBatch /\ todo' = {}
    /\ permit' = FALSE /\ client' = FALSE /\ stalled' = FALSE
    /\ UNCHANGED <<tables, history, sent, ghosts>>

\* clear_account_data, under the gate; a batch in flight goes on.
ClearAccountData ==
    /\ ~client /\ mark = Idle
    /\ intents' = [c \in Chats |-> 0] /\ receipts' = {}
    /\ stored' = {} /\ read' = {} /\ boundary' = [c \in Chats |-> 0]
    /\ wanted' = {} /\ silent' = {} /\ racing' = {} /\ over' = {}
    /\ overtaken' = {} /\ due' = {} /\ late' = {}
    /\ UNCHANGED <<mark, delivery, permit, client, stalled, sent>>

-----------------------------------------------------------------------------
MarkRead ==
    \/ \E c \in Chats : UnreadReceipts(c)
    \/ \E now \in Times : QueueReadReceipts(now)
    \/ ReadBoundary
    \/ ApplyBoundary
    \/ MarkReadFails

LoopStep ==
    \/ CheckClient \/ AwaitNotified
    \/ (\E c \in Chats : NextReadBatch(c)) \/ NothingPending
    \/ MarkAsRead \/ MarkChatAsRead \/ ChatMarked
    \/ FinishReadBatch \/ DeliveryFails

Next ==
    \/ \E m \in Messages : Arrive(m) \/ ArriveFocused(m)
    \/ MarkRead \/ LoopStep
    \/ OnConnected \/ Disconnect \/ Restart \/ ClearAccountData

Spec == Init /\ [][Next]_vars

\* The runtime runs a ready task, and a command whose statements are ready ends.
FairSpec ==
    /\ Spec
    /\ WF_vars(LoopStep)
    /\ WF_vars((\E now \in Times : QueueReadReceipts(now)) \/ ReadBoundary \/ ApplyBoundary)

-----------------------------------------------------------------------------
(* Properties *)

\* The type of every variable; a batch exists exactly while one is delivered.
TypeOK ==
    /\ intents \in [Chats -> Times \cup {0}] /\ receipts \subseteq Messages
    /\ stored \subseteq Messages /\ read \subseteq stored
    /\ boundary \in [Chats -> Times \cup {0}]
    /\ mark \in [step : {"idle", "queue", "boundary", "apply"}, chat : Chats \cup {0},
                 selected : SUBSET Messages, bound : Times \cup {0}]
    /\ (mark.chat = 0) <=> (mark.step = "idle")
    /\ loop \in {"check", "wait", "claim", "receipts", "marking", "finish"}
    /\ batch \in [chat : Chats \cup {0}, receipts : SUBSET Messages]
    /\ (batch.chat = 0) <=> (loop \in {"check", "wait", "claim"})
    /\ todo \subseteq SUBSET batch.receipts
    /\ permit \in BOOLEAN /\ client \in BOOLEAN /\ stalled \in BOOLEAN
    /\ sent \subseteq Messages /\ wanted \subseteq Messages /\ silent \subseteq Messages
    /\ racing \subseteq Messages /\ over \subseteq Messages /\ overtaken \subseteq Messages
    /\ due \subseteq Chats /\ late \subseteq Chats

\* A receipt queued once is in the table or was taken by WhatsApp: failures,
\* restarts and receipts queued during a send lose none (finish_read_batch
\* deletes by message, not by chat).
ReceiptsKept == wanted \subseteq receipts \cup sent

\* No receipt is orphaned: next_read_batch finds receipts only through the row
\* of their chat, so that row outlives them.
ReceiptsHaveTheirIntent == \A m \in receipts : ChatOf[m] \in Pending

\* The promise of the two tables together: what MarkRead queued is sent, or is
\* still there and in the loop's reach, whatever fails or restarts in between.
NoReceiptIsLost == ReceiptsKept /\ ReceiptsHaveTheirIntent

\* A message is read without a receipt only when it arrived between the
\* statements of a MarkRead (the reducer does not take the gate), the limit of
\* unread_receipts left it out, or it came after a message as new as itself that
\* was read here: insert_message stores what the boundary covers as read.
SilentReadsAreExplained == silent \subseteq racing \cup over \cup overtaken

\* finish_read_batch deletes just the receipts of its batch (the comment of
\* deliver_pending_read), but the intent whole: an intent disappears unanswered
\* only if it was queued behind a mark_chat_as_read already begun for its chat.
IntentsLostOnlyBehindACall == due \subseteq Pending \cup late

\* What is marked as read and not told to WhatsApp has one of four causes: a
\* message that raced the command, the limit of unread_receipts, a message that
\* came late, and a command queued behind a call.
ReadLossesAreExplained == SilentReadsAreExplained /\ IntentsLostOnlyBehindACall

\* The loop sleeps on a connected client with work pending only while a MarkRead
\* has yet to wake it, or after a failed delivery or a MarkRead that failed past
\* its queueing; nothing but the next command, message or connection retries.
SleepsOnlyAfterFailure ==
    loop = "wait" /\ client /\ ~permit /\ Pending # {} =>
        stalled \/ mark.step \in {"boundary", "apply"}

\* A pending intent on a connected client is attempted unless a delivery, or the
\* command that queued it, failed.
IntentsAreServed ==
    (Pending # {} /\ client) ~> (loop = "receipts" \/ stalled \/ Pending = {} \/ ~client)
=============================================================================
