----------------------------- MODULE ChatRegisters -----------------------------
(* What the database keeps beside a message or a chat, each with the time of   *)
(* the event that set it: a contact's reaction to a message, its vote on a     *)
(* poll and the tally cached on the card, the receipts of an own message, and  *)
(* a chat setting (pin, archive, mute).  Live messages, history and app state  *)
(* bring these events delayed, repeated and in any order, under either of the  *)
(* contact's two addresses until migrate_contact_jid makes them one.           *)
EXTENDS Naturals, FiniteSets

CONSTANTS
    Old, New,       \* the contact's alias (LID) and its phone-number address
    Values,         \* emojis, poll options, values of a setting
    NoValue,        \* none: no reaction, the setting never set
    Selectable,     \* options a vote may name (selectable_count)
    LastStamp,      \* bound: event times
    Events          \* bound: events of a behaviour

ASSUME RegistersAssumption ==
    /\ Old # New /\ NoValue \notin Values /\ IsFiniteSet(Values)
    /\ Selectable \in Nat /\ LastStamp \in Nat /\ Events \in Nat

VARIABLES
    message,    \* the own message: stored, tombstoned
    reaction,   \* the reactions row and the reaction_tombstones row
    vote,       \* the poll_votes row and the tally in messages.media_json
    receipt,    \* the receipt columns of messages and the message_reads row
    setting,    \* the chat_settings columns of one setting
    joined,     \* the alias has been merged
    seen,       \* bound: events so far
    received,   \* history: events applied, by register and address
    blurred     \* history: registers the merge of two addresses left undecided

registers == <<reaction, vote, receipt, setting>>
registerVars == <<message, registers, joined, seen, received, blurred>>

Addresses == {Old, New}
Stamps == 1..LastStamp
Kinds == {"reaction", "vote", "receipt", "setting"}
Ballots == {S \in SUBSET Values : Cardinality(S) <= Selectable}

\* A time of 0 is a row or a tombstone that does not exist, or a NULL column.
NoMessage == [stored |-> FALSE, tomb |-> FALSE]
Unreacted == [value |-> NoValue, time |-> 0, tomb |-> 0]
Unvoted == [ballot |-> {}, time |-> 0, tally |-> {}]
Sent == [level |-> 1, delivered |-> 0, read |-> 0, readerDelivered |-> 0, readerRead |-> 0]
Unset == [value |-> NoValue, time |-> 0]

LaterOf(s, t) == IF s > t THEN s ELSE t
EarlierOf(s, t) == IF s = 0 THEN t ELSE IF t = 0 \/ s < t THEN s ELSE t

RegistersInit ==
    /\ message = [a \in Addresses |-> NoMessage]
    /\ reaction = [a \in Addresses |-> Unreacted]
    /\ vote = [a \in Addresses |-> Unvoted]
    /\ receipt = [a \in Addresses |-> Sent]
    /\ setting = [a \in Addresses |-> Unset]
    /\ joined = FALSE /\ seen = 0
    /\ received = [k \in Kinds |-> [a \in Addresses |-> {}]]
    /\ blurred = {}

\* An event under address a.  canonical_contact_jid maps a merged alias.
Arrives(a) ==
    /\ joined => a = New
    /\ seen < Events /\ seen' = seen + 1

\* The event e reaches its register; one newer than all settles the register.
Receives(k, a, e) ==
    /\ received' = [received EXCEPT ![k][a] = @ \cup {e}]
    /\ blurred' = IF \A f \in received[k][a] : f.time < e.time
                  THEN blurred \ {k} ELSE blurred

-----------------------------------------------------------------------------
(* Reactions *)

\* apply_reaction without an emoji: a tombstone, and the row goes unless newer.
Withdrawn(r, t) ==
    [value |-> IF r.time <= t THEN NoValue ELSE r.value,
     time |-> IF r.time <= t THEN 0 ELSE r.time,
     tomb |-> LaterOf(r.tomb, t)]

\* apply_reaction with an emoji: a tombstone blocks an older one and goes when
\* passed, a row gives way to one as late.
Reacted(r, v, t) ==
    IF r.tomb >= t THEN r
    ELSE IF t < r.time THEN [r EXCEPT !.tomb = 0]
    ELSE [value |-> v, time |-> t, tomb |-> 0]

React(a, v, t) ==
    /\ Arrives(a)
    /\ reaction' = [reaction EXCEPT ![a] =
            IF v = NoValue THEN Withdrawn(@, t) ELSE Reacted(@, v, t)]
    /\ Receives("reaction", a, [value |-> v, time |-> t])
    /\ UNCHANGED <<message, vote, receipt, setting, joined>>

-----------------------------------------------------------------------------
(* Poll votes *)

\* reconcile_poll_tallies
Tallied(v) == [v EXCEPT !.tally = v.ballot]

\* Mutation: the card is rewritten before the vote is.
VotedAfterTally(v, S, t) ==
    IF t >= v.time THEN [ballot |-> S, time |-> t, tally |-> v.ballot] ELSE Tallied(v)

\* apply_poll_vote: the row gives way to a vote as late, the tally is counted.
Voted(v, S, t) ==
    Tallied(IF t >= v.time THEN [v EXCEPT !.ballot = S, !.time = t] ELSE v)

\* A vote on a poll that is not stored is dropped.
Vote(a, S, t) ==
    /\ message[a].stored
    /\ Arrives(a)
    /\ vote' = [vote EXCEPT ![a] = Voted(@, S, t)]
    /\ received' = [received EXCEPT !["vote"][a] = @ \cup {[value |-> S, time |-> t]}]
    /\ blurred' = blurred \ {"vote"}
    /\ UNCHANGED <<message, reaction, receipt, setting, joined>>

-----------------------------------------------------------------------------
(* Receipts of the own message: 2 delivered, 3 read, 4 played *)

\* update_receipts: the highest level, the earliest times.
Receipted(r, n, t) ==
    [r EXCEPT !.level = LaterOf(@, n),
              !.delivered = IF n = 2 THEN EarlierOf(@, t) ELSE @,
              !.read = IF n >= 3 THEN EarlierOf(@, t) ELSE @,
              !.readerDelivered = IF n = 2 THEN EarlierOf(@, t) ELSE @,
              !.readerRead = IF n >= 3 THEN EarlierOf(@, t) ELSE @]

Receipt(a, n, t) ==
    /\ message[a].stored
    /\ Arrives(a)
    /\ receipt' = [receipt EXCEPT ![a] = Receipted(@, n, t)]
    /\ received' = [received EXCEPT !["receipt"][a] = @ \cup {[value |-> n, time |-> t]}]
    /\ UNCHANGED <<message, reaction, vote, setting, joined, blurred>>

-----------------------------------------------------------------------------
(* Settings *)

\* update_chat_setting, apply_mute_at
Set(a, v, t) ==
    /\ Arrives(a)
    /\ setting' = [setting EXCEPT ![a] =
            IF t >= @.time THEN [value |-> v, time |-> t] ELSE @]
    /\ Receives("setting", a, [value |-> v, time |-> t])
    /\ UNCHANGED <<message, reaction, vote, receipt, joined>>

-----------------------------------------------------------------------------
(* The message itself, the merge of the addresses, a restart *)

\* The message arrives, live or from history; of one that is stored the media is
\* merged and the tally counted again (update_message_media).
Store(a) ==
    /\ message[a].stored \/ ~message[a].tomb
    /\ Arrives(a)
    /\ message' = [message EXCEPT ![a].stored = TRUE]
    /\ vote' = [vote EXCEPT ![a] = Tallied(@)]
    /\ blurred' = blurred \ {"vote"}
    /\ UNCHANGED <<reaction, receipt, setting, joined, received>>

\* The message goes, and with it its votes and receipts.
Goes(a) ==
    /\ message[a].stored
    /\ vote' = [vote EXCEPT ![a] = Unvoted]
    /\ receipt' = [receipt EXCEPT ![a] = Sent]
    /\ received' = [received EXCEPT !["vote"][a] = {}, !["receipt"][a] = {}]
    /\ blurred' = blurred \ {"vote", "receipt"}
    /\ UNCHANGED <<setting, joined>>

\* prune_chat_history leaves the reactions.
Prune(a) ==
    /\ Arrives(a)
    /\ Goes(a)
    /\ message' = [message EXCEPT ![a].stored = FALSE]
    /\ UNCHANGED reaction

\* delete_message leaves the tombstones of reactions.
Delete(a) ==
    /\ Arrives(a)
    /\ Goes(a)
    /\ message' = [message EXCEPT ![a] = [stored |-> FALSE, tomb |-> TRUE]]
    /\ reaction' = [reaction EXCEPT ![a].value = NoValue, ![a].time = 0]

\* migrate_contact_jid: the later vote; the card keeps the tally it had.
MergedVote(o, n, held) ==
    [(IF o.time > 0 /\ o.time >= n.time THEN o ELSE n)
        EXCEPT !.tally = IF held THEN n.tally ELSE o.tally]

\* INSERT OR IGNORE: the phone number's row is kept whatever its time; the
\* alias's tombstone is left behind.
MergedReaction(o, n) == IF n.time > 0 THEN n ELSE [o EXCEPT !.tomb = n.tomb]

\* The phone number's times are kept, a reader's delivery time is left behind.
MergedReceipt(o, n) ==
    [level |-> LaterOf(o.level, n.level),
     delivered |-> IF n.delivered > 0 THEN n.delivered ELSE o.delivered,
     read |-> IF n.read > 0 THEN n.read ELSE o.read,
     readerDelivered |-> n.readerDelivered,
     readerRead |-> LaterOf(o.readerRead, n.readerRead)]

\* The alias's value is taken over, its time is left behind.
MergedSetting(o, n) == IF o.value = NoValue THEN n ELSE [n EXCEPT !.value = o.value]

\* The registers whose alias had something the merge leaves behind, or loses
\* against what the phone number has.
Undecided ==
    {k \in {"vote", "receipt", "setting"} : received[k][Old] # {}}
    \cup IF reaction[Old].tomb > 0 \/ \A a \in Addresses : received["reaction"][a] # {}
         THEN {"reaction"} ELSE {}

Join ==
    /\ ~joined /\ joined' = TRUE
    /\ message' = [message EXCEPT ![Old] = NoMessage,
            ![New] = [f \in {"stored", "tomb"} |-> message[Old][f] \/ message[New][f]]]
    /\ reaction' = [reaction EXCEPT ![Old] = Unreacted, ![New] = MergedReaction(reaction[Old], @)]
    /\ vote' = [vote EXCEPT ![Old] = Unvoted,
                            ![New] = MergedVote(vote[Old], @, message[New].stored)]
    /\ receipt' = [receipt EXCEPT ![Old] = Sent, ![New] = MergedReceipt(receipt[Old], @)]
    /\ setting' = [setting EXCEPT ![Old] = Unset, ![New] = MergedSetting(setting[Old], @)]
    /\ received' = [k \in Kinds |-> [a \in Addresses |->
            IF a = Old THEN {} ELSE received[k][Old] \cup received[k][New]]]
    /\ blurred' = blurred \cup Undecided
    /\ UNCHANGED seen

\* reconcile_all_poll_tallies, on every open of the database.
Restart ==
    /\ vote' = [a \in Addresses |-> IF vote[a].time > 0 THEN Tallied(vote[a]) ELSE vote[a]]
    /\ blurred' = blurred \ {"vote"}
    /\ UNCHANGED <<message, reaction, receipt, setting, joined, seen, received>>

ReactionNext == \E a \in Addresses, v \in Values \cup {NoValue}, t \in Stamps : React(a, v, t)
VoteNext == \E a \in Addresses, S \in Ballots, t \in Stamps : Vote(a, S, t)
ReceiptNext == \E a \in Addresses, n \in 2..4, t \in Stamps : Receipt(a, n, t)
SettingNext == \E a \in Addresses, v \in Values, t \in Stamps : Set(a, v, t)
MessageNext == \/ \E a \in Addresses : Store(a) \/ Prune(a) \/ Delete(a)
               \/ Join
               \/ Restart

RegistersNext ==
    ReactionNext \/ VoteNext \/ ReceiptNext \/ SettingNext \/ MessageNext

RegistersSpec == RegistersInit /\ [][RegistersNext]_registerVars

-----------------------------------------------------------------------------
(* Properties *)

LatestOf(S) == {e \in S : \A f \in S : f.time <= e.time}
FirstTime(S) ==
    IF S = {} THEN 0
    ELSE LET earliest == CHOOSE e \in S : \A f \in S : e.time <= f.time
         IN  earliest.time

\* The values a register may end with: of equal times, any; a removal of a
\* reaction wins against reactions as early.
Winners(S, none) == IF S = {} THEN {none} ELSE {e.value : e \in LatestOf(S)}
FinalReactions(S) ==
    LET removals == {e \in S : e.value = NoValue}
    IN  Winners({e \in S \ removals : \A f \in removals : f.time < e.time}, NoValue)

\* Events that arrive delayed, repeated, in any order and by three ways leave
\* what they would leave in the order of their times: the last reaction unless a
\* removal is as late, the last vote, the last setting, the highest receipt and
\* the earliest time of each kind; also after a merge of addresses, except where
\* migrate_contact_jid leaves times or tombstones behind.
RegistersConverge ==
    \A a \in Addresses :
        /\ ~message[a].tomb /\ "reaction" \notin blurred
              => reaction[a].value \in FinalReactions(received["reaction"][a])
        /\ vote[a].ballot \in Winners(received["vote"][a], {})
        /\ "setting" \notin blurred
              => setting[a].value \in Winners(received["setting"][a], NoValue)
        /\ LET R == received["receipt"][a]
                r == receipt[a]
           IN  /\ \A e \in R : e.value <= r.level
               /\ r.level > 1 => \E e \in R : e.value = r.level
               /\ "receipt" \notin blurred =>
                    /\ {r.delivered, r.readerDelivered} = {FirstTime({e \in R : e.value = 2})}
                    /\ {r.read, r.readerRead} = {FirstTime({e \in R : e.value >= 3})}

\* The card of a poll shows the votes that are stored: after every vote, late or
\* new, every replay of the poll and every restart.  Only a merge of addresses
\* leaves an old tally, until the next of these.
TallyMatchesVotes ==
    \A a \in Addresses : message[a].stored /\ "vote" \notin blurred
                            => vote[a].tally = vote[a].ballot

\* The registers, and the one that is stored twice: what the rows and the card
\* say in the end is what the order of the events' times says.
StoredValuesConverge == RegistersConverge /\ TallyMatchesVotes
=============================================================================
