------------------------------- MODULE ChatList -------------------------------
(* What a client is given of the stored chats: the list and the total on the   *)
(* badge (database.rs), the phone numbers looked up for the list and the       *)
(* address a reply quotes (identity.rs).  The three share no state.            *)
EXTENDS Naturals, FiniteSets

CONSTANTS
    Listable,       \* chats the list may name
    Recency,        \* of each, when its last message came
    HiddenChat,     \* 0@s.whatsapp.net
    ListLimit,      \* bound of the code: chats in a list
    Lookups,        \* bound: lists waiting at one time
    LastSession     \* bound: sessions in a behaviour

ASSUME ListAssumption ==
    /\ IsFiniteSet(Listable) /\ HiddenChat \notin Listable /\ ListLimit \in Nat /\ Lookups \in Nat
    /\ LastSession \in Nat \ {0}
    /\ Recency \in [Listable -> Nat]
    /\ \A c, d \in Listable : Recency[c] = Recency[d] => c = d

VARIABLES
    chat,       \* per chat, its row and its settings
    session,    \* RevisionClock.generation
    client,     \* the generation of Shared.client, 0 if there is none
    learnt,     \* the generation in which the library learnt the number, 0 if not
    number,     \* the row holds the phone number
    misses,     \* PhoneNumberMisses: its generation and whether it names the chat
    asking,     \* lookups of list_chats under way: of which client, and (history)
                \* whether they began before the library learnt the number
    given,      \* history: how the last list without the number came about
    strays,     \* history: generations in which a miss of an earlier client was kept
    meta,       \* a group: addressing mode, members, whether numbers are listed
    reply       \* a reply of the text outbox, as accepted or as sent

rowVars == <<chat>>
phoneVars == <<session, client, learnt, number, misses, asking, given, strays>>
quoteVars == <<meta, reply>>
listVars == <<rowVars, phoneVars, quoteVars>>

NoReply == [step |-> "none", who |-> "nobody", form |-> "none", fault |-> FALSE]

ListInit ==
    /\ chat = [c \in Listable \cup {HiddenChat} |->
                  [unread |-> 0, explicit |-> 0, archived |-> FALSE, pinned |-> FALSE]]
    /\ session = 1 /\ client = 0 /\ learnt = 0 /\ number = FALSE
    /\ misses = [gen |-> 0, chat |-> FALSE] /\ asking = {} /\ given = {} /\ strays = {}
    /\ meta \in [mode : {"pn", "lid"}, members : {{"me", "ada"}}, numbers : BOOLEAN,
                  ownLid : BOOLEAN]
    /\ reply = NoReply

-----------------------------------------------------------------------------
(* The list and the badge *)

\* A message, a read or a setting of a device changes a row.
RowsNext ==
    /\ \E c \in Listable \cup {HiddenChat} :
          \/ \E n \in 0..1 : chat' = [chat EXCEPT ![c].unread = n]
          \/ c # HiddenChat /\ \/ chat' = [chat EXCEPT ![c].explicit = 1 - @]
                               \/ chat' = [chat EXCEPT ![c].archived = ~@]
                               \/ chat' = [chat EXCEPT ![c].pinned = ~@]
    /\ UNCHANGED <<phoneVars, quoteVars>>

Badge(c) == IF chat[c].archived THEN 0
            ELSE IF chat[c].unread < chat[c].explicit THEN 1 ELSE chat[c].unread

\* Of two chats, pinned ones and then newer ones come first.
PinnedFirst(c, d) ==
    \/ chat[c].pinned /\ ~chat[d].pinned
    \/ chat[c].pinned = chat[d].pinned /\ Recency[c] > Recency[d]

\* ORDER BY archived, pinned DESC, last_timestamp DESC
Before(c, d) ==
    \/ ~chat[c].archived /\ chat[d].archived
    \/ chat[c].archived = chat[d].archived /\ PinnedFirst(c, d)

\* list_chats
Listed == {c \in Listable : Cardinality({d \in Listable : Before(d, c)}) < ListLimit}

SumOf(S) == LET sum[T \in SUBSET S] == IF T = {} THEN 0
                                        ELSE LET c == CHOOSE c \in T : TRUE
                                             IN  Badge(c) + sum[T \ {c}]
            IN  sum[S]

UnreadTotal == SumOf(Listable \cup {HiddenChat})

-----------------------------------------------------------------------------
(* Phone numbers of a chat under a hidden address *)

\* Mutation: a miss is kept for good.
EverMissing == misses.chat

\* phone_number_is_missing
IsMissing == misses.chat /\ misses.gen = session

Shows(why) == given' = {[why |-> why, gen |-> session]}

\* list_chats_with_phone_numbers reads the client, the rows and the misses.
AskList ==
    /\ Cardinality(asking) < Lookups /\ ~number
    /\ \/ client = 0 /\ Shows("offline") /\ UNCHANGED asking
       \/ client # 0 /\ IsMissing /\ Shows("missing") /\ UNCHANGED asking
       \/ client # 0 /\ ~IsMissing /\ UNCHANGED given
          /\ asking' = asking \cup {[of |-> client, early |-> learnt = 0]}
    /\ UNCHANGED <<session, client, learnt, number, misses, strays>>

\* The library answers: the number, no number, or an error.  It may have looked
\* before it learnt the number.  A miss is recorded under the generation that is
\* current by then.
AnswerNumber(l) ==
    /\ learnt # 0
    /\ number' = TRUE /\ asking' = asking \ {l} /\ given' = {}
    /\ UNCHANGED <<session, client, learnt, misses, strays>>

AnswerNone(l) ==
    /\ l.early
    /\ misses' = [gen |-> session, chat |-> TRUE] /\ asking' = asking \ {l}
    /\ strays' = IF l.of = session THEN strays ELSE strays \cup {session}
    /\ Shows("unknown")
    /\ UNCHANGED <<session, client, learnt, number>>

AnswerError(l) ==
    /\ asking' = asking \ {l}
    /\ Shows("error")
    /\ UNCHANGED <<session, client, learnt, number, misses, strays>>

LearnNumber ==
    /\ learnt = 0 /\ client = session
    /\ learnt' = session
    /\ UNCHANGED <<session, client, number, misses, asking, given, strays>>

\* retire_generation and begin_generation are one step here; the old client is
\* taken back, the next one set when it connects.
NextClient ==
    /\ IF client # session THEN client' = session /\ UNCHANGED session
       ELSE session < LastSession /\ session' = session + 1 /\ client' = 0
    /\ UNCHANGED <<learnt, number, misses, asking, given, strays>>

PhoneNext ==
    /\ \/ AskList \/ LearnNumber \/ NextClient
       \/ \E l \in asking : AnswerNumber(l) \/ AnswerNone(l) \/ AnswerError(l)
    /\ UNCHANGED <<rowVars, quoteVars>>

-----------------------------------------------------------------------------
(* Replies in a group *)

\* A member's addresses that the group's metadata lists.
ListedForms == IF meta.mode = "pn" \/ meta.numbers THEN {"pn", "lid"} ELSE {"lid"}

\* Mutation: the address of the acceptance is kept.
AsAccepted(who, form, found) == form

\* quote_participant
Participant(who, form, found) ==
    IF found /\ who \in meta.members /\ form \in ListedForms THEN meta.mode ELSE form

\* resolve_reply, for one's own message by own_poll_creator_jid.
AcceptReply(who, form, found, again) ==
    /\ reply.step = "none"
    /\ who = "me" => /\ form = IF found /\ meta.mode = "lid" THEN "lid" ELSE "pn"
                     /\ form = "lid" => meta.ownLid
    /\ reply' = [step |-> "queued", who |-> who, form |-> Participant(who, form, again),
                 fault |-> FALSE]
    /\ UNCHANGED meta

\* send_claimed_text
SendReply(found) ==
    /\ reply.step = "queued"
    /\ reply' = [reply EXCEPT !.step = "sent",
                              !.form = Participant(reply.who, reply.form, found),
                              !.fault = ~found \/ reply.who \notin meta.members
                                          \/ reply.form \notin ListedForms]
    /\ UNCHANGED meta

\* A group moves to hidden addresses; a member leaves.
ChangeGroup ==
    /\ reply.step # "sent"
    /\ \/ meta.mode = "pn" /\ meta' = [meta EXCEPT !.mode = "lid"]
       \/ meta' = [meta EXCEPT !.members = @ \ {"ada"}]
    /\ UNCHANGED reply

QuoteNext ==
    /\ \/ \E who \in {"me", "ada"}, form \in {"pn", "lid"}, found, again \in BOOLEAN :
              AcceptReply(who, form, found, again)
       \/ \E found \in BOOLEAN : SendReply(found)
       \/ ChangeGroup
    /\ UNCHANGED <<rowVars, phoneVars>>

ListNext == RowsNext \/ PhoneNext \/ QuoteNext

ListSpec == ListInit /\ [][ListNext]_listVars

-----------------------------------------------------------------------------
\* As long as the chats that are not archived fit into a list, the badge is the
\* sum of what the list shows; a chat the list never names counts all the same.
BadgeIsTheList ==
    Cardinality({c \in Listable : ~chat[c].archived}) <= ListLimit
        => UnreadTotal = SumOf(Listed) + Badge(HiddenChat)

\* A list leaves out a number for a recorded miss only where this session's
\* library did not know it yet.  Exception: a lookup of an earlier session's
\* client ended in this one.
MissesAreThisSessions ==
    \A l \in given : l.why = "missing" =>
        learnt = 0 \/ learnt >= l.gen \/ l.gen \in strays

\* A reply goes out under an address of the group's present mode, whatever it
\* was accepted under.  Exceptions: the metadata could not be had at delivery,
\* the person has left, or the metadata does not list that address.
QuotesFitTheGroup == reply.step = "sent" /\ ~reply.fault => reply.form = meta.mode

ListsAreTrue == BadgeIsTheList /\ MissesAreThisSessions /\ QuotesFitTheGroup
=============================================================================
