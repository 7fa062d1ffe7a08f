# A verification of omarchy-whatsapp

omarchy-whatsapp is a WhatsApp client for a desktop shell: a Rust daemon
(`crates/daemon`) owns the WhatsApp connection, the local history and the
durable queues; a Quickshell panel (`quickshell/`) and a small command-line tool
(`crates/ctl`) talk to it over a Unix socket with the types of
`crates/protocol`. This directory holds TLA+ models of the parts whose
correctness depends on the order of things, the TLC configurations that check
them on small instances, and TLAPS proofs for every instance.

## 1. Inventory

### 1.1 The daemon's tasks

`run_daemon` (`main.rs`) starts, on a multi-threaded Tokio runtime:

| task | code | state it owns or shares |
|---|---|---|
| generation loop | `main.rs` 254-597 | the current protocol client, `clock` generation, `logout_requested`, resync flags, marker files |
| protocol callbacks | `main.rs` 296-540 | `shared.client`, status; they feed the two reducers |
| message reducer | `events.rs` `run_message_reducer` | drains `inbound_inbox`, writes `messages`, `chats` |
| app-event reducer | `events.rs` `run_app_event_reducer` | settings, receipts, presence, deletions |
| text outbox loop | `outbox.rs` `run_text_outbox` | `text_outbox` rows |
| read outbox loop | `outbox.rs` `run_read_outbox` | `pending_read_*` rows |
| IPC connections | `ipc.rs`, `commands.rs` | per-connection command queue; every command |
| coalescers | `state.rs` | pending invalidations, changed avatars |
| background jobs | `assets.rs`, `history.rs`, `identity.rs`, `sync.rs` | media files, avatars, contact names |

One SQLite connection behind a mutex (`database.rs`) serialises statements; a
sequence of `Database` calls is not atomic. Locks across awaits are the async
gates `text_outbox_gate`, `read_outbox_gate`, `voice_outbox_gate` and the
per-resource `command_gate`.

### 1.2 Components

1. **Text outbox.** State: `text_outbox` rows (queued, sending, failed), a wake
   permit, the connected transport. Operations: enqueue, claim, send, record,
   complete, fail, retry, retry all on reconnect, discard, prune, crash
   recovery, wipe. Correct when no accepted text is lost, a discarded one is not
   delivered, no row is stuck, no wake-up is lost.
2. **Read outbox.** State: `pending_read_chats`, `pending_read_messages`.
   Operations: `MarkRead`, focused arrival, batch selection, receipts per
   sender, chat mark, batch finish. Correct when no receipt or intent is lost.
3. **Inbound inbox and message reducer.** State: `inbound_inbox`, a bounded
   channel of Drain/Live/Barrier work, the generation. Correct when every
   message WhatsApp was told we have is eventually reduced exactly once in
   effect, across generations and restarts.
4. **Unread projection and history** (`database.rs`). State: `messages.read`,
   `chats.unread`, `read_boundary` with its ids, `cleared_at`, tombstones.
   Correct when the counter equals the rows it stands for, and replays never
   resurrect what was read or deleted.
5. **Session lifecycle.** Generations, connection callbacks, the connection
   status, logout, the full chat-state resync with its marker file, and the jobs
   and threads that outlive their generation.
6. **Presence.** Connection intents (`connections.rs`), reconciliation
   (`presence.rs`), the per-generation catch-up switch.
7. **Voice outbox** (`voice_outbox.rs`, `send_voice_message`). Job files,
   retention, resumable send.
8. **Media and avatar jobs** (`jobs.rs`, `assets.rs`). Deduplicated bounded
   background work.
9. **IPC** (`ipc.rs`, `jobs.rs`). Per-connection concurrency, queue, deadline,
   conflict keys, lag recovery; the socket path and the daemon that owns it.
10. **Publication** (`revisions.rs`, `state.rs`, `quickshell/Service.qml`).
    Sequence numbers, snapshots, coalesced invalidations, and the shell's view.
11. **Per-chat settings, receipts, reactions, polls** (`database.rs`).
    Last-writer-wins registers with timestamps and tombstones.
12. **Identity** (`identity.rs`, `migrate_contact_jid`). LID and phone aliases,
    merging two chats into one.
13. **History ingestion and recovery** (`history.rs`, `commands.rs`). Replayed
    conversations; requests to the phone for what a chat lacks, with one marker
    per chat.
14. **Paste and staging** (`paste.rs`, `Service.qml`). The attachment in the
    composer: staged, checked, cleared, sent and checked again.
15. **Asset files** (`assets.rs`). The media cache with previews, downloads,
    merges and its size limit; the avatars.
16. **Launcher menu** (`crates/ctl`). A generated block inside a file of the user.
17. **Notifications** (`notification.rs`), **transport** (`transport.rs`), the
    **wire types**, the panel's **layout** and the rest of the **CLI**: I/O, parsing
    and layout around the above.

### 1.3 How the parts meet

- *Calls*: commands, reducers and loops call `Database` under its mutex, one
  call at a time; nothing holds that mutex across an await.
- *Wake-ups*: `text_outbox_notify`, `read_outbox_notify` and
  `chat_state_resync_notify` are Tokio `Notify`s that store one permit. Each loop
  reads its condition before it waits, so the permit is part of the models.
- *Channels*: the message reducer has a bounded channel; its senders wait for a
  slot. The generation loop sends a Barrier through it before it lets the next
  client, or the wipe, begin.
- *Generations*: `RevisionClock.generation` is odd while a client runs. Callbacks
  and reducer compare it with the generation they were created in, and then
  await: what they checked may be over when they act.
- *Gates*: commands on one resource are serialised per connection key; the
  callbacks, the reducers and a closing connection take no gate.
- *Durable state*: the database, the staged files and the marker
  `event_sync_marker`. `logout_requested`, `chat_state_resync_requested`, every
  permit and every channel are lost with the process.

### 1.4 What is hard, and what makes each component correct

| component | hard behaviour | correct when |
|---|---|---|
| text outbox | a reconnect re-arms rows while their send is under way; crash between send and record; wake-ups around a wait | no accepted text is lost; a discard is final; no row is stuck in Sending; no wake-up is lost |
| read outbox | four database locks in `MarkRead`, each of whose statements may fail, a reducer outside the gate, late messages, partial failure of a group batch | no receipt and no intent disappears unanswered; a message is read silently for a known reason only |
| inbound inbox | redelivery, drain and live replay of one message; full channel; retired generations; crash after the acknowledgement | acknowledged means kept; one announcement; deleted stays deleted; a wipe is final |
| presence | reconciliations of commands, callbacks and closing panels in flight together; the catch-up switch | not advertised during the catch-up; at rest, WhatsApp knows what the panels want |
| session | commands that outlive their generation, dropped commands, a marker file and a request in two places, jobs that abort does not reach, a second daemon on the same path | a wipe answers a logout; a logout takes effect; a resync request is never forgotten; a former account writes nothing; one daemon serves |
| history and unread | out-of-order reads of other devices, capped boundary, deletion and pruning without recount, live and replayed forms of one message | the counter covers its rows; replay resurrects nothing; a row shows what was said |
| registers, names | late, repeated and reordered events under two addresses that become one | the stored value is that of the latest event |
| schema | a start cut off anywhere, over any earlier build | no step recorded and not done |
| voice, direct sends, attachments | retention beside an active send; deadlines; sent first and recorded after | one post per recording; what WhatsApp accepted is shown; nothing staged is lost without a reason |
| media, avatars | deletion or wipe beside an active job; overlapping fetches; a size limit | files and rows agree or the cause is known |
| IPC, publication | permits, slots and gates taken in turn under one deadline; reading a snapshot and stamping it in two steps | every request is answered; the shell's last view is the newest |

## 2. Modules

| module | models | code |
|---|---|---|
| `TextDelivery` | abstract: what the text outbox promises | - |
| `TextOutbox` | the outbox table, its loop, its commands, connection handler, restart, wipe | `outbox.rs`, `database.rs`, `commands.rs`, `main.rs` |
| `ReadOutbox` | read intents and receipts, `MarkRead`, the delivery loop | `outbox.rs`, `database.rs`, `commands.rs`, `messages.rs` |
| `InboundInbox` | the hook's commit and acknowledgement, callbacks, channel, reducer, generations | `inbound.rs`, `main.rs`, `events.rs`, `messages.rs` |
| `Presence` | intents, reconciliations, catch-up switch | `connections.rs`, `presence.rs`, `state.rs`, `commands.rs`, `ipc.rs` |
| `Session` | generation loop, `Logout`, `ResyncChatState`, replay tasks | `main.rs`, `commands.rs`, `events.rs`, `sync.rs`, `state.rs` |
| `GenerationWork` | callbacks, jobs and blocking threads of a generation; abort; the wipe | `main.rs`, `events.rs`, `history.rs`, `sync.rs` |
| `LinkStatus` | client, status and pairing code, written by callbacks, reducer and loop | `main.rs`, `events.rs`, `state.rs` |
| `DaemonStart` | the socket path, the repairs of a start, the end of a daemon | `ipc.rs`, `main.rs`, `voice_outbox.rs` |
| `ChatHistory` | rows, counter, read boundary, tombstones, the merge of two addresses | `database.rs`, `events.rs` |
| `ChatRegisters` | reactions, votes and tallies, receipts, settings | `database.rs` |
| `ContactNames` | names of a contact under two addresses, a group's subject | `database.rs`, `identity.rs`, `sync.rs`, `messages.rs`, `events.rs` |
| `SchemaLadder` | bootstrap, recovery, nine schema steps, repair of the poll cards | `database.rs` |
| `MessageContent` | what a row shows after each kind of delivery | `messages.rs`, `history.rs`, `database.rs` |
| `MediaCache` | previews, downloads, drafts, copies for a merge, pruning | `assets.rs`, `messages.rs`, `commands.rs`, `sync.rs` |
| `ConversationPage` | the page of a chat and its first unread message | `commands.rs`, `database.rs`, `Service.qml` |
| `MessageRecovery` | requests to the phone for a chat's missing messages | `commands.rs`, `database.rs` |
| `VoiceOutbox` | job files of recordings, retention, commands, left writes | `voice_outbox.rs`, `commands.rs` |
| `DirectSend` | `React`, `VotePoll`, `SetChatPinned`, `CreatePoll`, `SendImage` | `commands.rs`, `database.rs` |
| `Attachments` | the composer's attachment and its two requests | `Service.qml`, `paste.rs`, `commands.rs` |
| `MediaJobs` | the bounded set of downloads, their files and rows | `commands.rs`, `assets.rs`, `main.rs` |
| `AvatarFetch` | fetches of one contact's picture | `sync.rs`, `assets.rs`, `commands.rs`, `events.rs` |
| `IpcConnection` | slots, permits, gates, deadlines, answers | `ipc.rs`, `jobs.rs`, `state.rs` |
| `Publication` | stamps, coalescers, channel, lag, snapshots, the shell's acceptance | `revisions.rs`, `state.rs`, `ipc.rs`, `Service.qml` |
| `AvatarGallery` | the avatar list and its revisions in the shell | `state.rs`, `assets.rs`, `Service.qml` |
| `ChatList` | the list of chats and its badge, phone-number misses, a reply's sender | `database.rs`, `identity.rs`, `state.rs`, `outbox.rs` |
| `GroupRoster` | reads of a group's members and the shell that shows them | `events.rs`, `commands.rs`, `Service.qml` |
| `LauncherMenu` | the generated block in the launcher's menu | `crates/ctl/src/main.rs`, `Service.qml` |
| `*_proofs` | the theorems of section 5 | - |
| `MC*` | the instances of section 3 | - |

An action is one critical section: a SQLite transaction, a statement under the
database mutex, or the code between two awaits. Operators marked *Mutation* are
not part of any specification: they are plausible errors in the definition that
follows them, kept to show that each property notices one. Variables marked
*history* record what the properties speak of and are read by no guard; those
marked *bound* count events.

**TextOutbox.** `outbox` is the table with status and creation time; `loop` and
`job` are the program counter of `deliver_pending_text`
(check, wait, claim, sending, sent, inserted, failing). `text_outbox_gate` is
held from the start to the end of a command and around the claim, so a command
is one action. `SendMessage` prunes failed rows beyond `MaxFailed` as
`queue_text_message` does; `Claim` takes the oldest queued row; `SendSucceeds` and
`SendFails` are the end of the transport call (a failed call may have reached
WhatsApp); `RecordSent`, `CompleteTextMessage`, `FailTextMessage` are its three
statements; `StoreError` is the failure of any of them. `OnConnected`,
`RetryAllTextMessages`, `NotifyOutbox` are the steps of `on_connected`. `Restart`
includes the recovery of `Database::open`.

**ReadOutbox.** `MarkRead` is four steps: `UnreadReceipts` (the query),
`QueueReadReceipts`, `ReadBoundary`, `ApplyBoundary`, which also notifies;
`MarkReadFails` is a `?` at any of them, also after the receipts are committed and
before the loop is woken. `Arrive` stores a message as unread, or as read where
the chat's boundary covers it. `ArriveFocused` is the
reducer's insert of a message read on arrival, outside `read_outbox_gate`.
What another device read moves the boundary in `ChatHistory` only.
`NextReadBatch` reads the oldest intent and its receipts, `MarkAsRead` sends the
receipts of one sender (of the whole chat when it is direct),
`MarkChatAsRead`/`ChatMarked` begin and end the chat's own call,
`FinishReadBatch` deletes what was sent, `DeliveryFails` is any `?` on the way.

**InboundInbox.** `Receive` is `DurableInboundHook::on_messages`: commit, then
acknowledge, or break off in between. `Callback` and `Enqueue` are the two
halves of a library callback: generation check, then a send that may wait for a
slot. `TakeDrain`, `TakeLive`, `TakeBarrier`, `NextRecord`, `SkipUndecodable`,
`CheckGeneration`, `ApplyText`, `ApplyOther`, `NotAccepted`, `FinishInbound`, `FinishError` are
the reducer. `RetireGeneration`, `SendBarrier`, `KeepAccount`, `WipeAccount` are the end of
a generation in `run_daemon`. Messages are texts, votes (refused while their
poll is missing), reactions, and texts whose stored row does not decode.

**Presence.** Each reconciliation has a slot: the one command the gate admits,
the jobs of `on_connected` and of `OfflineSyncCompleted`, and one per closing
panel. Its steps are `ReadIntents`, `CloneClient`, `TellPresence`, `TellChat` and
`Reconciled`, and any other step may come between them. The app-event reducer has
one slot: besides the reconciliation after a catch-up it tells the presence once
the own profile has a name (`SelfPushNameUpdated`), from intents it reads itself.
All connections of a generation share one client, so a call takes effect on
whatever connection that client has when the call lands.

**Session, GenerationWork, LinkStatus, DaemonStart.** `Session.loop` is the place
in `run_daemon`: idle, prepare, running, stopping, retired, swap. `Logout`,
`TakeTrigger`, `StoreFlag`, `LogoutEnds` are the awaits of the command,
`ResyncChatState`, `RemoveMarker`, `ReportRequested` those of the other; a command
may be dropped at its deadline. `waiter` holds the `await_app_state_sync` tasks,
which live from `on_connected` to `ReportOutcome`. `GenerationWork` keeps the tasks
that a generation starts: a callback, its registration, the steps of a history
ingestion with its blocking thread, and the jobs that follow it; `AbortAll` reaches
a task at its next await and none that registers later. In `LinkStatus` a callback, the app-event
reducer and the loop each write client, pairing code and status as separate steps.
In `DaemonStart` a process goes through `bind_private_listener` (inspect,
probe, remove, bind, permissions) and `Database::open`, and may be killed
anywhere. `RecoverVoice`, before the bind, repairs the recordings or fails and
goes on; `LeaveSend` is a send dropped at its deadline or whose outcome could not
be written, `SaveDelivery` the second write of a recording's job, and
`RetryAllTexts` the re-arming of the texts at a connection. `Session`, `InboundInbox`, `Presence` and `GenerationWork` each hold the part of the
generation loop that their component sees; the clock is the same in all four.

**ChatHistory, ChatRegisters, ContactNames, SchemaLadder.** One action per
`Database` method, with two where a caller reads and applies under two locks
(`MarkRead`/`ApplyBoundary`, `ReconcileUnread`). `Migrate` and `Join` are
`migrate_contact_jid`. A chat in `ChatHistory` is its rows, those that
count (`fresh`), `unread`, the boundary with the identifiers it names, and what was cleared and
deleted. `ChatRegisters` keeps each value with its time and, beside it, what the order of
the events' times makes of them (`due`). `ContactNames` keeps a `contacts` row, a `chats` row and the
senders' names per address, with the *source* that orders them. In `SchemaLadder`
`disk` is what a crash leaves and `txn` what the transaction holds; the
initial states are the databases of earlier builds.

**MessageContent, MediaCache, ConversationPage, MessageRecovery.** A row, the
directory, the page and the marker set; deliveries, downloads, prunes, merges,
reads elsewhere and requests come in any order. `MediaCache` keeps a file's name,
size, age and nature (preview, frame of a video, whole medium, part of a copy) and
the rows under both addresses of a contact. Something may come under the LID again
after a merge, and is then merged again: `MigrateRows`, then per file `SkipEntry`
or `BeginCopy` and `EndCopy` with any other step between them, then `RewritePaths`.
A copy that fails (`FailCopying`) or that a restart cuts off leaves a part of the
file under its final name. `MediaJobs` keeps how the
download of one medium is queued, cut short and answered.

**VoiceOutbox, DirectSend, Attachments.** The commands of the shell that send
something other than text, from await to await. A recording's `command` has a
step and the writes its dropped future left on the blocking pool (`Left`). A
`sender` of `DirectSend` is a command with its request on the wire, accepted by
WhatsApp (`Take`) at any time, also when the command is gone (`TakeOrphan`).

**IpcConnection, MediaJobs, AvatarFetch, Publication, AvatarGallery, ChatList,
GroupRoster.** `phase[q]` is where a request stands between its line and its answer;
slot, permit, gate and deadline are taken as `run_command` takes
them. `Publication` numbers the changes of each watched resource and
follows the number through invalidation, window, frame, channel, snapshot and
request to the shell's view, with the revision under which it travelled. A flush of
`AvatarGallery` is a scan and comparison under the lock (`ScanChanges`) and three
steps without it (`NumberChanges`, `StampChanges`, `SendChanges`), so two flushes
may be numbered, stamped and sent in different orders.
The shell's side is `acceptFrame` and the handlers of `Service.qml`.

**LauncherMenu.** The menu file is a sequence of tokens (braces, line ends,
markers, rows, words of the user). A run asks for the list, reads the file, finds
its block and renames a new file over it, with edits and other runs in between.

## 3. Runs

| run | instance | shows |
|---|---|---|
| `text_outbox` | 2 deliveries, 1 kept failure, SQLite errors | no accepted text lost, discards final outside the race below, the queue is carried and served, refinement of `TextDelivery` |
| `read_outbox` | 1 group chat, 2 senders, receipt limit 1, failing statements | receipts kept, losses explained, intents attempted |
| `inbound_inbox` | a poll and a vote on it, drain limit 1, 1 slot, 1 held event, SQLite errors | acknowledged is kept, effects come once, barrier answered and rows reduced |
| `inbound_inbox_generations` | an undecodable row and a vote, 2 generations | a wipe is final |
| `presence` | 2 panels, 1 chat, 2 connections, failing calls | the catch-up gate holds; intents are advertised when nothing overlapped or failed |
| `session` | 2 generations, 2 replay tasks, errors | a wipe answers a logout, a stored logout stops its generation and takes effect, a request stays armed |
| `stores` | 2 messages under 2 addresses, 3 operations; 4 events on a register or a name; 2 starts of the ladder; 3 media, budget 5, up to 3 events, repeated merges; 4 deliveries of a row; a page of 2 | `BadgeCoversUnread`, `WhatWasDoneStays`, `StoredValuesConverge`, `NamesFollowTheirSource`, `UpgradeIsWhole`, `CacheIsSound`, `KeptFilesGoForAReason`, `RowsAreShown` |
| `shell` | 2 changes and 2 happenings on a watched resource; 2 recordings; 2 commands and 3 events; 3 requests of the composer; 2 tasks over 2 generations; 3 signals; 2 readers; 2 faces; 2 menu events | `ViewsCatchUp`, `RecordingsAreFinal`, `LocalFollowsRemote`, `AttachmentsAreAccounted`, `FormerAccountIsExplained`, `LinkIsShown`, `RecoveryIsAskedOnce`, `GalleryIsCurrent`, `MenuIsKept` |
| `jobs` | 2 clients, 4 requests; 1 medium, 2 jobs; 2 fetches; 3 chats, a list of 2; 3 roster events; 2 daemons | `GateIsExclusive`, `CommandsAreAnswered`, `DownloadsAreAccounted`, `StaleAvatarIsExplained`, `AnswersAreTrue`, `StartsAreExclusive` |
| `presence_catch_up`, `shell_restart`, `stores_documents` | as `presence` (1 panel), `shell`, `stores` | the disagreements of section 3.1 |

**Sums.** `MCStores`, `MCShell` and `MCJobs` put modules that share no state into
one instance. A variable `focus`, chosen initially, says which of them moves; the
others rest in their initial state. Every property of these runs speaks of the
variables of one module only (or is a conjunction of such properties), so it
holds in every interleaving of the modules if it holds where the others rest, and the sum
of the state spaces takes the place of their product. Where a module has many
initial states, the initial predicate fixes them for the other foci.
`BoundReached` and `Settled` are stutters for parts that come to rest when their
bound is used up; `MCStores` switches the deadlock check off for the same reason
(its components wait for events from outside). Deadlock is checked in the other
runs. In the focus `link` a behaviour ends where two sessions' writers overlap, because
`LinkIsShown` says nothing past that point.

**Bundles.** `AnswersAreTrue` (lists and members of a group, in `GroupRoster`),
`RowsAreShown` (content and page, in `ConversationPage`) and `CommandsAreAnswered` (requests and
downloads, in `MCJobs`) join properties of one kind; the parts are named in the modules.

**Why the bounds are enough.** Two deliveries show every race of the loop with a
command on the same or on the other row. The receipt limit, the drain limit, the
channel, the list, the page and the caps hold one or two entries so that each is
met and overrun. One held event, one callback past its check, one slot
and one row at the reducer still put four copies of a message under way. Two
generations are the fewest in which work of an old one meets a new one, two replay
tasks, fetches, jobs or commands the fewest that overlap. Event budgets
(`Operations`, `Events`, `NameEvents`, `CacheEvents`, `Deliveries`, `PageEvents`, `SendEvents`, `WorkEvents`,
`Signals`, `RecoverySteps`, `FaceChanges`, `MenuEvents`, `RosterEvents`, `Happenings`) let
every ordered pair of operations on a value, and a merge, prune or restart
between them, happen; the mutants show that each property is violated within them.
The proofs of section 5 hold for every value of them.

**Instance bounds.** Where the constants alone leave too large a product, the MC
module restricts the next-state relation by a named predicate, with the
fairness unchanged; each bound holds back an event from outside (or, where
no liveness is checked, a job or a failure), never a fair action:
`OneAtATime` (`session`: overlapping replay tasks and a logout meet one after the other),
`NoMoreOnceOverlapped` and `ThreeJobs` (`presence`), `TwoInFlight` (`inbound_inbox`:
new deliveries wait while two messages are under way), `ClockFollows` and
`ConnectsAnew` (`read_outbox`: a command's clock is not before the messages' stamps, and a
connection that stands is not announced once more),
`ThreeUnderWay` and `OneKindIsSent` (`jobs`: a recording or a text is sent beside
the starts, as no step and no property relates the two), `CacheIsSmall` (`stores`: what happens
to the media directory, how often it is merged and of how many messages it has
something add up to five), and `FewDisturbances`, `OneIsSentAgain` and
`OneCallbackOutlives` (`shell`). All other bounds are in guards and named in the
constants.

### 3.1 Where the code and its documents disagree

Each of these runs checks one sentence of a document, comment or error text and
finds a behaviour that contradicts it.

| run | sentence | behaviour |
|---|---|---|
| `presence_catch_up` | `ARCHITECTURE.md:168`: every connection is unavailable while its catch-up is pending | the switch is set once per generation (`main.rs:259`); the second connection of a generation is advertised at once |
| `shell_restart` | `ARCHITECTURE.md:104`: connecting always yields a hello and current state | a restarted daemon counts its generations anew; a shell that saw a later one rejects the hello and every frame (`Service.qml:1028`) |
| `stores_documents` | `DocumentCard.qml:7`: the daemon hands the shell a cached file its own handler opens | a document with a title and no file name is downloaded under a name without the extension its row expects (`messages.rs:393`) |

The passing runs state what remains true. Their exceptions (the conditions and
history variables named in each property) are behaviours of the code that a reader
of the documents would not expect, found while modelling:

- *Texts*: `commands.rs:1241` refuses to discard a text that is sending, but
  `retry_all_text_messages` makes its row Queued again on a reconnect; a discard is
  then accepted and the text delivered (`DiscardIsFinalUnlessDetached`).
- *Reads*: `outbox.rs:144` leaves anything queued during the send for the next
  iteration, but `finish_read_batch` (`database.rs:1256`) also deletes the chat's intent
  queued during the call; a message that comes late is stored as read by the chat's boundary,
  and its sender gets no receipt (`ReadLossesAreExplained`). A `MarkRead` that fails past its
  queueing wakes nobody (`IntentsAreServed`).
- *Session*: a logout on a cloned client stores its flag after the ending
  generation took it, against `commands.rs:1624`; the task of an earlier replay
  answers a new resync request, against `ARCHITECTURE.md:214`. `Session` keeps both sentences as
  `WipeIsNowOrNever` and `ResyncReplays`, which no run checks. A late StreamReplaced, PairError
  or ban of the last client overwrites the status of the next, and a client that
  ends with a resync requested leaves "connected" without a client (`LinkIsShown`).
- *Generations*: jobs that an ingestion starts after `abort_all` are never aborted
  and may write a former account's rows, files or markers into the next
  (`FormerAccountIsExplained`); a phone-number lookup of the last session's client
  records its miss in the new one (`state.rs:461`).
- *Start*: the probe and the removal of a stale path are two steps, and a daemon on
  its way out removes the path whoever bound it, against `ARCHITECTURE.md:32`;
  recordings are repaired before the bind, so even a refused start marks a live
  daemon's send as failed; and a recording whose command met its deadline, or whose repair or
  outcome could not be written, stays "sending" until a start repairs it (`StartsAreExclusive`). Only SIGINT is handled, and not
  during the pause between two generations.
- *History*: the merge keeps the larger of two counters (`BadgeCoversUnread`); `delete_chat` without a settings
  row marks newer messages deleted as well; the merge does not carry reaction tombstones,
  setting times and `delivered_at`, prefers the number's older reaction, takes the first
  receipt time present instead of the earlier, and does not tally the poll again
  (`StoredValuesConverge` excludes what a merge blurred); a reaction removed and set again within a second is lost.
- *Names*: a chat made after its contact was saved takes the push name (`messages.rs:104`), although
  address-book names are called authoritative (`database.rs:885`); history overwrites newer push names; a reducer
  that read the old row may write it over a newer subject.
- *Content*: a live share delivered again after its end is live again; a row first
  made without a body keeps its placeholder text; own messages are sent by the own
  address when live and by "me" when from history.
- *Files*: an image may have another length than declared and is then taken for a
  preview (`assets.rs:805`); after a merge cut off before the rewrite a downloaded file at the old address is no longer shown;
  a copy for a merge is not atomic (`assets.rs:630`): a part of a document left by one is shown as
  the document, and no download replaces it (`DownloadedIsWhole` names the copies that did not end);
  a message that comes anew under one address leaves its early preview under the other, which a later merge makes its medium;
  previews are written for messages that are refused.
- *Direct sends*: a value cut off after its acceptance differs locally until the next
  change; a poll whose daemon stops between insert and secret cannot be voted in.
- *Composer*: `sent` of one attachment clears another staged meanwhile
  (`Service.qml:612`); every resend uses a new delivery ID, so a retry after a timeout may post twice; a staged
  file name with a control character is refused only when sent.
- *Publication*: an outbox list is read and stamped in two steps, so an older list may carry
  the newer revision (`state.rs:706`); a lag resynchronises only some resources
  (`ipc.rs:180`); a new generation drops a refresh queued in the shell; `AvatarBroadcaster.revision` begins at 0 with the daemon;
  of two flushes of the avatars the one stamped first may be sent last, and the shell then drops what it announces (`state.rs:117`).
- *Recovery*: the marker of an accepted request stays as long as the daemon runs, one marker per chat masks
  later gaps, and an ended session re-arms it too, against the comment at `commands.rs:410`.
- *Lists*: the unread total counts `0@s.whatsapp.net`, which the list hides, and
  chats beyond the list's limit; a reply in a merged alias chat is refused; a refused question
  for a group's members is not asked again; a chat may open at the bottom because `mark_read` overtook the
  reading of the divider.
- *Menu*: text on the line of a marker is removed with the block, an edit between
  read and rename is undone, and re-indented markers are not found, so a second block
  appears (`ARCHITECTURE.md:48` promises to preserve every entry of the user).

## 4. Fairness

Fairness is asked only of the daemon's own ready tasks, which Tokio polls; every
call to WhatsApp is assumed to return, with either result. No connection, command, arrival, restart or retry is owed by anyone.

- `TextOutbox`: weak fairness of the loop's and the handler's steps.
- `ReadOutbox`: weak fairness of the loop and of the statements of a `MarkRead` under way
  (each of which may fail instead).
- `InboundInbox`: weak fairness of callbacks, senders and reducer; strong
  fairness of `SendBarrier`, because Tokio's channel hands free slots to waiting
  senders in order, so a sender is not overtaken for ever.
- `Session`: weak fairness of the loop's own stages, of a client that was told
  to stop, and of the steps of a `Logout`, which its deadline bounds. Nothing
  is assumed of resync commands or replay tasks.
- `IpcConnection`: fairness of the connection's select loop, of permits and
  gates (Tokio's semaphores and mutexes are first come, first served) and of the deadline; none of
  the client, of the handler's result or of a stalled reader.
- `MediaJobs`: fairness of the jobs' own steps and of the semaphore of
  parallel downloads.
- All other modules state safety only: what they ask for at rest is a property
  of the states in which every task has ended.

## 5. Proofs

Each `*_proofs` module proves its theorems for every value of the constants
that satisfies the named assumptions of the modules: no bound on messages, chats, panels,
tasks, requests or generations, with or without errors. A type theorem comes
first where the property needs one; the others use it together with an inductive invariant.
Each inductive invariant was checked by TLC on the instance of its run before it
was proved.

| theorem | argument |
|---|---|
| `Sends_proofs!NoTextLost`, `DiscardFinal` | `Inductive`: a row about to be completed is in the history (`CompletingIsRecorded`), a dropped text has no row, a text in flight has its Sending row or is detached (`SendHasRowOrMark`), only submitted texts have rows or are carried |
| `Sends_proofs!LoopOwnsItsRow` | `SendingIsCarried` and `NoLostWakeup` follow from `Inductive` when no statement fails |
| `Sends_proofs!Refines` | initial states map to initial states; each action maps to a step of `TextDelivery` or to a stutter, with `Inductive` as the invariant of the step |
| `ReadOutbox_proofs!NoReceiptLost`, `ReadLosses` (with `SilentReads`, `IntentsLostOnlyThere`) | `Parts`: the batch's receipts are accounted for in table, unsent groups or sent (`BatchIsAccountedFor`), the batch keeps its intent, a finished call has answered it, the selection of a `MarkRead` under way covers its chat up to races and the limit, and a boundary is the stamp of a message that was read (`Boundaries`), so what it covers later came late |
| `InboundInbox_proofs!Acknowledged`, `EffectsOnce` | `Inductive`: the reducer deletes the row only of a message that is stored, deleted or accepted; stored and deleted are disjoint; a message announced is stored or deleted, and was announced once |
| `InboundInbox_proofs!WipeFinal` | everything in events, callbacks, channel and reducer carries a generation no later than the clock and current only while its client runs, the reducer writes only before the barrier is answered, and what it applies is younger than the last wipe |
| `InboundInbox_proofs!CacheSound`, `FilesKept` | `CacheInv`: the directory has one file of a name, and a row leads to the medium under one of the addresses (`CardsFit`); where a medium belongs lies no frame of a video, an early preview there is betrayed by its size, and a part of a copy is there only while its copy has not ended whole and is shorter than declared (`FilesFit`, `CopyFits`, `CopyIsThere`); no row that is shown has a preview, or one being copied, at its medium's place under either address (`ShownUnspoiled`); a prune drops a file only where the rest and what it dropped exceed the budget. Assumed is that every file fits the budget by itself (`CacheAssumption`: documents end at 100 MiB, the cache at 256 MiB) |
| `Panel_proofs!CatchUpGates` | a connected client belongs to a running generation, nothing is told through a lost connection, and a reconciliation about to tell "available" on the current one has seen the catch-up complete |
| `Panel_proofs!IntentsAdvertised` | `Resting`, `Alone`, `Told`: without an overlap at most one reconciliation is past its reading, what it has read is still what the panels want or another one is due, and what it has told is what it read; the handler of the own profile's name begins from such a reading too (`NameTold`) |
| `Session_proofs!LogoutExact` | the flag, or a command that holds the trigger, is an accepted logout; the command's and the flag's generation are not ahead of the clock |
| `Session_proofs!RequestArmed` | the property is inductive |
| `Session_proofs!LinkShown` | `LinkInv`: where no two handlers write at once, the shared values are those of the one that writes, as far as it has come; the last event on its way that sets the client is the line's last change, and with none on its way the client is set or about to be; the same of the status; between two clients nothing is connected |
| `Stores_proofs!UpgradeWhole` | `LadderInv`: the transaction holds the steps below the current one over the database it began with; what a step needs was added below it |
| `Stores_proofs!ValuesConverge` | `RegistersInv`: the alias has nothing left once it is joined, and reactions, votes, settings and receipts each equal what the latest of their events says, with tombstones and ties |
| `Stores_proofs!BadgeCovers`, `DoneStays` | `HistoryInv`: every chat keeps its promises (boundary, cleared time and tombstones cover what was read or removed), its rows are counted, and a boundary read and not yet applied is sound for the chat it will meet |
| `Stores_proofs!NamesFollow` | `NamesInv`: the best name of an address-book contact is on its row, its senders and a chat of its time; each task under way carries a name it read when nothing had changed since, or the race is on record |
| `Jobs_proofs!GateExcludes` | `IpcInv`: the gate a request holds is the one the table names or was replaced with none waiting on it (`GatesAreTheTables`), answers are those of stopped requests, bounds hold |
| `Jobs_proofs!DownloadsAccounted` | `MediaInv`: a medium that is carried is pending unless a wipe forgot it, a job past its row check has the row or was overtaken |
| `Jobs_proofs!StaleAvatarExplained` | `AvatarInv`: the newest event is the picture, and what is cached or held is current, or an event is on its way, or the two crossed |
| `Jobs_proofs!StartsExclude` | `StartInv`: what a daemon saw at the path was bound by a daemon, only a serving one sends, a send stored as under way has its task or was left without one by a step on record, and none is repaired beside its sender but for a start in the two windows |
| `Jobs_proofs!VoiceIsFinal` | `VoiceInv`: a command under way that nothing raced owns its job, the job names the one delivery, left writes agree with it, and a discarded recording has none |
| `Sends_proofs!LocalFollows` | `SendInv`: every posted message is shown, lost with its command, or carried by a command past its acceptance; an ID still to be posted is fresh; the one command alone on its way holds WhatsApp's value, and a change on its way will set it |
| `Shell_proofs!AsksPhoneOnce` | `RecoveryInv`: the attempts, the mark and the accepted requests of a key no wipe has crossed agree, step by step of an attempt |
| `Shell_proofs!FormerAccountGone` | `WorkInv`: a task that runs is of the present session and account, or loose; what is kept was written by such a task (`TaskFits`, `KeptFits`) |
| `Panel_proofs!GalleryCurrent` | `GalleryInv`: a change of a picture is unmarked, due, in a flush, in the queue or shown, and the names of the newest list are right but for the changes still on their way (`Telling`, `Names`, `Later`, `Coming`). No order of numbers, stamps and sends is used: revisions are distinct, and a frame is told or was overtaken by a later stamp |
| `Panel_proofs!AttachmentsAccounted` | `AttachInv`: the request under way carries what is staged, or another attachment came since; a `sent` answer is of a request WhatsApp took |
| `Shell_proofs!ViewsFollow` | `CatchUpInv`: every stamp is older than the clock and nothing on its way is ahead of the database (`Stamps`, `Behind`); of a list, a newer content carries a later stamp unless it was outdated when stamped (`InOrder`); a pending `get_messages` is asked for or answered (`Served`); and where a view lags, a window, a publisher, a frame the shell will take or a request still brings the newest content, or the cause is on record (`RefreshComes`, `TotalComes`) |
| `Jobs_proofs!RosterFollows` | `RosterInv`: the present members were stamped, an event's read will tell them, or one failed (`Told`); what is older than the newest stamped and not late is followed by it under a later stamp (`FramesGiveWay`, `RosterGivesWay`); a list not shown is awaited or was given up |
| `Jobs_proofs!ListsHold` | `ListInv` for numbers and quotes (`LookupsHold`, `MissesAreThisSessions`); `BadgeAddsUp`: the chats that are not archived come first in the list and the others add nothing. Of the sum, `SumIsFunction` and `SumPeels` take the least set on which they would fail in place of an induction |
| `Jobs_proofs!ClientsAnswered` | `RosterFollows` and `ListsHold`: the two models share no state |
| `Panel_proofs!PageFollows` | `PageInv`: the first unread message that was read precedes what else was unread then and still stands (`FirstLeads`), while the chat counts as open something of what was unread is so still (`StillUnread`); a page read is the newest rows by their places in a finite order |
| `Panel_proofs!RowConverges` | `ContentInv`: the row's media is one closed form of the set of deliveries it got, so their order and number do not matter; the card of an own poll is the card that comes back |
| `Panel_proofs!RowsShown` | `RowConverges` and `PageFollows` |

The invariants by themselves do not survive a step: `NoAcceptedTextLost`, for
instance, holds after `CompleteTextMessage` deletes a row only because the row
was recorded by the step before, which is what `CompletingIsRecorded` remembers.
`LocalFollowsRemote` speaks of states at rest only; what carries it through the steps in between
is `PostsKept` and `ValuesInv`.

Only model-checked:

- liveness (`QueueIsServed`, `IntentsAreServed`, `InboundIsServed`,
  `LogoutTakesEffect`, `CommandsAreAnswered`): fairness is beyond the proof
  system's backends here;
- `MenuIsKept`: the menu is edited by cutting and joining sequences (`SelectSeq`, folds),
  for which the provers have neither a definition nor induction;
- the runs of section 3.1, which are counterexamples.

## 6. Assumptions and abstractions

- A message, a chat, a name and a receipt are opaque; times are small numbers.
  `committed_at` does not decrease, so the inbox is a sequence.
- The library sends an unacknowledged message again, calls back in order, and
  neither acknowledges nor dispatches a batch whose commit failed.
- A vote's lookup, decryption and write are one step of the reducer.
- Quiet periods and deadlines are nondeterministic: a task may give up, and a
  command may end, at any time after it began.
- The synchronous stores of `AppStateSyncFailed` are one step; the modes of a
  dropped command are those at its awaits.
- A failing `set_available` stands for the missing push name as well; `SelfPushNameUpdated` comes
  whenever the client runs.
  Groups take no part in `Presence`: they are not subscribed.
- `WipeIsFinal` speaks of the reducer's writes; those of the ingestion's
  blocking threads are in `GenerationWork`, where callbacks may outlive a shutdown and
  slots for tasks are taken in order.
- `Publication`: SQLite reads do not fail in a publisher; pushes of messages and of
  `sent` act like invalidations of the selected chat; one chat is selected; only the resources watched in
  a behaviour change in it.
- `IpcConnection`: a slot is free when the response enters the channel.
- `ChatRegisters`: a direct chat with one voter and one reactor per address; poll
  secrets are in `DirectSend`.
- `DirectSend`: the clocks of the devices agree, "choice" stands for vote and pin, gates are
  keyed by the chat as the command spells it.
- `SchemaLadder`: a table with another primary key fails the open; the names that
  came from `store.json` are not told apart.
- `ContactNames`: the `deleted` flag of a deleted chat is not modelled.
- `MediaCache`: records declare a length; merges of one pair of addresses follow one another, two at a time are
  left out; half of a file stands for every part that a cut-off copy can leave, and
  a part is never as long as its sender declared; temporary
  files and two prunes at a time are left out (`MediaJobs` has the temporary files).
- `MessageContent`: one message; its files are in `MediaCache`.
- `Attachments`: conversion of a recording ends below the limit for documents; reply target and
  selection of the chat are left out; answers to forgotten requests are ignored, as in the shell.
- `LinkStatus`: the events of one client come in order, one callback runs at a time.
- `MessageRecovery`: one chat; requests of a stopped client fail.
- `AvatarGallery`: one shell and no restart of the daemon; a stamp is one step of the clock.
- `LauncherMenu`: writing the temporary file and renaming it are one step; one run
  by hand beside the shell's.
- `ChatList`: the retirement of a generation and the beginning of the next are one step; one
  chat with a hidden address; recencies differ.
- `GroupRoster`: one group beside a direct chat, no lag, no new generation.
- `ConversationPage`: one selection, and one `GetMessages` at a time.
- `DaemonStart`: no lock file guards the path (the code has none). A failure of `recover_interrupted` is only warned
  about and the start goes on; that of any other step modelled is the end of the process. One send of each kind stands for all.

## 7. Not modelled

`PROJECT.json` lists every component with its status. Left out for good, because
they hold no state that outlives a call or are conversion and I/O: transport, wire
protocol, desktop notifications, the panel's layout, packaging, and of the CLI all but the launcher
menu. Of modelled components, these parts are left out: the replay of contact names
(`prepare_contact_name_resync`), the copy of an avatar under a merged address, typing and
chat presence as shown by the shell, the choice of the contacts whose history is asked for.

## 8. Plan

The components of the survey that keep state are modelled but for the parts that section 7
lists, and every safety property is proved but the one of section 5 about the launcher's menu.
Of what section 7 lists, the replay of contact names and the copy of an avatar under a merged
address write durable state and would come next: the first beside `Session`'s replay of the chat state,
the second beside `MediaCache`'s copies.
