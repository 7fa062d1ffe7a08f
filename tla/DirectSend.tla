------------------------------- MODULE DirectSend -------------------------------
(* The commands that ask WhatsApp first and record the answer in the history   *)
(* afterwards: React, VotePoll and SetChatPinned change a value every device   *)
(* of the account may change; CreatePoll and SendImage (SendDocument) post a   *)
(* message.  A command can fail, meet its deadline or lose its client at every *)
(* await, and what it has sent may be accepted all the same.                   *)
EXTENDS Naturals, FiniteSets

CONSTANTS
    Senders,        \* commands under way at a time
    ChatKey,        \* the chat as each command spells it: its conflict key
    Ballots,        \* emojis, poll answers, pinned or not
    NoChoice,       \* the reaction removed, nothing chosen
    SendEvents,     \* bound: commands and changes by other devices
    LastSecond      \* bound: the clock

ASSUME SendAssumption ==
    NoChoice \notin Ballots /\ SendEvents \in Nat /\ LastSecond \in Nat

VARIABLES
    subject,    \* what the commands are about: one kind in a behaviour
    sender,     \* the commands
    orphans,    \* requests on the wire whose command is gone
    remote,     \* external: the value WhatsApp has
    local,      \* the value in the history, its time, and that of a removal
    event,      \* a change by another device that is on its way
    posted,     \* external: how often WhatsApp accepted a message of each ID
    cards,      \* IDs of the messages inserted into the history
    secrets,    \* IDs of the polls whose secret is stored
    second,     \* the clock, in seconds
    issued,     \* bound: events so far; the next poll ID
    explained,    \* history: why the value may differ from WhatsApp's, and an image
                \* be posted twice
    lost        \* history: IDs whose command did not see its own send through

valueVars == <<remote, local, event, explained>>
postVars == <<posted, cards, secrets, lost>>
sendVars == <<subject, sender, orphans, valueVars, postVars, second, issued>>

Values == Ballots \cup {NoChoice}
Registers == {"reaction", "choice"}     \* "choice": an own vote, a pin
Ids == 0..SendEvents                    \* 0 is the stable ID of the image

Gone == [step |-> "idle", value |-> NoChoice, id |-> 0, sent |-> FALSE,
         accepted |-> FALSE, alone |-> FALSE]

SendInit ==
    /\ subject \in Registers \cup {"poll", "image"}
    /\ sender = [c \in Senders |-> Gone]
    /\ orphans = {}
    /\ remote = NoChoice /\ event = {} /\ explained = FALSE
    /\ local = [value |-> NoChoice, at |-> 0, removed |-> 0]
    /\ posted = [i \in Ids |-> 0] /\ cards = {} /\ secrets = {} /\ lost = {}
    /\ second = 1 /\ issued = 0

Busy == {c \in Senders : sender[c].step # "idle"}
TakenUp == {c \in Senders : sender[c].accepted}
Put(c, s) == sender' = [sender EXCEPT ![c] = s]
Ends(c) == Put(c, Gone)

-----------------------------------------------------------------------------
(* The history *)

\* apply_reaction: a removal leaves a tombstone, which refuses what is not newer.
Reacted(L, v, t) ==
    IF v = NoChoice
    THEN [value |-> IF L.at <= t THEN NoChoice ELSE L.value,
          at |-> IF L.at <= t THEN 0 ELSE L.at,
          removed |-> IF t > L.removed THEN t ELSE L.removed]
    ELSE IF L.removed >= t THEN L
    ELSE IF L.at > t THEN [L EXCEPT !.removed = 0]
    ELSE [value |-> v, at |-> t, removed |-> 0]

\* apply_poll_vote, apply_pin_at
Chosen(L, v, t) == IF L.at > t THEN L ELSE [L EXCEPT !.value = v, !.at = t]

Applied(v, t) == IF subject = "reaction" THEN Reacted(local, v, t) ELSE Chosen(local, v, t)

\* Another write carries the same second, and its order is not on record.
SameSecond(t) == local.at = t \/ local.removed = t

\* Mutation: a delivery that was stored is not looked up.
NeverStored(c) == FALSE

\* message_by_id of the stable message ID
AlreadyStored(c) == subject = "image" /\ sender[c].id \in cards

-----------------------------------------------------------------------------
(* The handlers, from await to await *)

\* The command has its conflict gate and awaits the client and the chat's address.
Issue(c, v) ==
    /\ sender[c].step = "idle" /\ issued < SendEvents
    /\ \A d \in Busy : ChatKey[d] # ChatKey[c]
    /\ subject = "reaction" \/ v \in Ballots
    /\ issued' = issued + 1
    /\ Put(c, [Gone EXCEPT !.step = "resolve", !.value = v,
                           !.id = IF subject = "poll" THEN issued + 1 ELSE 0])
    /\ UNCHANGED <<subject, orphans, valueVars, postVars, second>>

\* A delivery found in the history is answered from there; media are uploaded first.
Resolve(c) ==
    /\ sender[c].step = "resolve"
    /\ IF AlreadyStored(c) THEN Ends(c)
       ELSE Put(c, [sender[c] EXCEPT !.step = IF subject = "image" THEN "upload" ELSE "send",
                                     !.sent = subject # "image"])
    /\ explained' = (explained \/ (subject = "image" /\ Busy # {c}))
    /\ UNCHANGED <<subject, orphans, remote, local, event, postVars, second, issued>>

Upload(c) ==
    /\ sender[c].step = "upload"
    /\ Put(c, [sender[c] EXCEPT !.step = "send", !.sent = TRUE])
    /\ UNCHANGED <<subject, orphans, valueVars, postVars, second, issued>>

\* External: WhatsApp takes a value or a message; what overlaps is no longer alone.
Takes(v, i) ==
    IF subject \in Registers
    THEN remote' = v /\ UNCHANGED posted
    ELSE posted' = [posted EXCEPT ![i] = @ + 1] /\ UNCHANGED remote

NoneAlone(S) == [d \in Senders |-> IF S[d].accepted THEN [S[d] EXCEPT !.alone = FALSE] ELSE S[d]]

Take(c) ==
    /\ sender[c].sent /\ ~sender[c].accepted
    /\ Takes(sender[c].value, sender[c].id)
    /\ sender' = [NoneAlone(sender) EXCEPT ![c] = [sender[c] EXCEPT
                                !.accepted = TRUE, !.alone = (TakenUp = {})]]
    /\ explained' = (explained \/ TakenUp # {})
    /\ UNCHANGED <<subject, orphans, local, event, cards, secrets, lost, second, issued>>

TakeOrphan(o) ==
    /\ o \in orphans
    /\ Takes(o.value, o.id)
    /\ orphans' = orphans \ {o}
    /\ sender' = NoneAlone(sender)
    /\ explained' = TRUE
    /\ UNCHANGED <<subject, local, event, cards, secrets, lost, second, issued>>

\* The answer of a register: the value is recorded at the time of the answer.
RecordValue(c) ==
    /\ sender[c].accepted /\ subject \in Registers
    /\ local' = Applied(sender[c].value, second)
    /\ explained' = IF SameSecond(second) THEN TRUE ELSE explained /\ ~sender[c].alone
    /\ Ends(c)
    /\ UNCHANGED <<subject, orphans, remote, event, postVars, second, issued>>

\* The answer of a message: the file of a media message is copied, awaited.
Sent(c) ==
    /\ sender[c].step = "send" /\ sender[c].accepted /\ subject \notin Registers
    /\ Put(c, [sender[c] EXCEPT !.step = IF subject = "image" THEN "copy" ELSE "insert"])
    /\ UNCHANGED <<subject, orphans, valueVars, postVars, second, issued>>

\* insert_message; of a poll the secret is stored by a statement of its own.
InsertCard(c) ==
    /\ sender[c].step \in {"copy", "insert"}
    /\ cards' = cards \cup {sender[c].id}
    /\ IF subject = "poll" THEN Put(c, [sender[c] EXCEPT !.step = "secret"]) ELSE Ends(c)
    /\ UNCHANGED <<subject, orphans, valueVars, posted, secrets, lost, second, issued>>

\* store_poll_secret
StoreSecret(c) ==
    /\ sender[c].step = "secret"
    /\ secrets' = secrets \cup {sender[c].id}
    /\ Ends(c)
    /\ UNCHANGED <<subject, orphans, valueVars, posted, cards, lost, second, issued>>

\* What a command leaves when it ends before its last statement.
Leaving(S) == {[value |-> sender[c].value, id |-> sender[c].id] :
                  c \in {d \in S : sender[d].sent /\ ~sender[d].accepted}}
Abandoned(S) == {sender[c].id : c \in {d \in S : sender[d].sent /\ sender[d].step # "secret"}}

\* At an await: an error, the deadline, or the client closed its connection.
Abandon(c) ==
    /\ sender[c].step \in {"resolve", "upload", "send", "copy"}
    /\ Ends(c)
    /\ orphans' = orphans \cup Leaving({c})
    /\ explained' = (explained \/ sender[c].sent)
    /\ lost' = lost \cup Abandoned({c})
    /\ UNCHANGED <<subject, remote, local, event, posted, cards, secrets, second, issued>>

\* The daemon stops: between any two statements.
StopDaemon ==
    /\ Busy # {}
    /\ sender' = [c \in Senders |-> Gone]
    /\ orphans' = orphans \cup Leaving(Busy)
    /\ explained' = (explained \/ \E c \in Busy : sender[c].sent)
    /\ lost' = lost \cup Abandoned(Busy) \cup {sender[c].id : c \in Busy}
    /\ UNCHANGED <<subject, remote, local, event, posted, cards, secrets, second, issued>>

\* External: another device changes the value; the change is delivered later.
OtherDevice(v) ==
    /\ subject \in Registers /\ event = {} /\ issued < SendEvents
    /\ issued' = issued + 1
    /\ remote' = v /\ event' = {[value |-> v, at |-> second]}
    /\ sender' = NoneAlone(sender)
    /\ explained' = (explained \/ TakenUp # {})
    /\ UNCHANGED <<subject, orphans, local, postVars, second>>

DeliverEvent ==
    \E e \in event :
        /\ event' = {}
        /\ local' = Applied(e.value, e.at)
        /\ explained' = (explained \/ SameSecond(e.at))
        /\ UNCHANGED <<subject, sender, orphans, remote, postVars, second, issued>>

SecondPasses ==
    /\ second < LastSecond
    /\ second' = second + 1
    /\ UNCHANGED <<subject, sender, orphans, valueVars, postVars, issued>>

SendNext ==
    \/ \E c \in Senders :
          \/ \E v \in Values : Issue(c, v)
          \/ Resolve(c) \/ Upload(c) \/ Take(c) \/ RecordValue(c) \/ Sent(c)
          \/ InsertCard(c) \/ StoreSecret(c) \/ Abandon(c)
    \/ \E o \in orphans : TakeOrphan(o)
    \/ \E v \in Values : OtherDevice(v)
    \/ StopDaemon \/ DeliverEvent \/ SecondPasses

SendSpec == SendInit /\ [][SendNext]_sendVars

-----------------------------------------------------------------------------
(* What must hold *)

Settled == Busy = {} /\ orphans = {} /\ event = {}

\* Once all is quiet our own reaction, vote or pin is the one WhatsApp has, unless
\* since the last undisturbed command a command was cut off after it had sent, two
\* changes overlapped, or two fell into one second.  A message is shown as ours only
\* if WhatsApp accepted it, and every one it accepted is shown unless its command
\* did not live to store it.  A poll we can see we can vote in, unless the daemon
\* stopped between its two statements.  A delivery is posted a second time only if
\* its first command was cut off or both ran side by side (React, VotePoll,
\* SetChatPinned, CreatePoll, send_image).
LocalFollowsRemote ==
    /\ Settled => local.value = remote \/ explained
    /\ \A i \in Ids :
          /\ i \in cards => posted[i] > 0
          /\ Busy = {} /\ posted[i] > 0 => i \in cards \cup lost
          /\ subject = "poll" /\ Busy = {} /\ i \in cards => i \in secrets \cup lost
          /\ posted[i] > 1 => i \in lost \/ explained

=============================================================================
