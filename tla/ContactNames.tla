------------------------------ MODULE ContactNames ------------------------------
(* Where a name comes from and where it is shown.  A contact is known under an *)
(* alias (LID) and a phone number; each address may have a contacts row, a     *)
(* chat, and messages that carry a sender name.  Push names, business names,   *)
(* history and the address book write them from different tasks, in any order, *)
(* before and after the two addresses are found to be one.  A group's subject  *)
(* is fetched by three tasks that write what they read some time before.       *)
EXTENDS Naturals

CONSTANTS
    Alias, Phone,   \* the two addresses of the contact
    Names,          \* names and subjects
    NoName,         \* no name: the address itself is shown
    NameEvents      \* bound: events of a behaviour

ASSUME NamesAssumption ==
    Alias # Phone /\ Names # {} /\ NoName \notin Names /\ NameEvents \in Nat

VARIABLES
    names,      \* the contacts rows, chats and sender names of both addresses
    mapped,     \* WhatsApp tells which phone number the alias belongs to
    reducer,    \* receive_message between its reads and the insert
    replay,     \* process_history_event between its scan and the ingest
    lookup,     \* addresses whose business name sync_missing_contact_names asks
    group,      \* the chats row of a group
    subject,    \* external: the group's subject on WhatsApp
    notified,   \* a GroupUpdate is on its way
    fetched,    \* the subject each task has read and not yet written
    steps,      \* bound: events so far
    crossed     \* history: an older subject may be written over the present one,
                \* and no GroupUpdate has been served alone since

contactVars == <<names, mapped, reducer, replay, lookup>>
groupVars == <<group, subject, notified, fetched, crossed>>
nameVars == <<contactVars, groupVars, steps>>

Parties == {Alias, Phone}
Shown == Names \cup {NoName}
Readers == {"event", "sync", "reducer"}

\* contacts.source and chats.name_source, in their order of precedence.
Unnamed == 0
FromHistory == 1
FromMessage == 2
FromMetadata == 3
FromBook == 4

NoContact == [name |-> NoName, source |-> Unnamed]
NoChat == [held |-> FALSE, name |-> NoName, source |-> Unnamed]
Rest == [step |-> "idle", at |-> Phone, candidate |-> NoName, sender |-> NoName]
Both(alias, phone) == [a \in Parties |-> IF a = Alias THEN alias ELSE phone]

\* Beside the rows, history: the address-book names an address may show, and the
\* chats that were created with another name than the saved one.
NamesInit ==
    /\ names = [contact |-> Both(NoContact, NoContact),
                chat |-> Both(NoChat, NoChat),
                senders |-> Both({}, {}),
                book |-> Both({}, {}),
                late |-> {}]
    /\ mapped = FALSE /\ reducer = Rest /\ replay = "idle" /\ lookup = {}
    /\ group = NoChat /\ subject = (CHOOSE n \in Names : TRUE) /\ notified = FALSE
    /\ fetched = [r \in Readers |-> NoName] /\ crossed = FALSE
    /\ steps = 0

Happens == steps < NameEvents /\ steps' = steps + 1

-----------------------------------------------------------------------------
(* What the statements do to the rows *)

Relabelled(S, n) == IF S = {} THEN {} ELSE {n}

\* A chat takes a name whose source is not below that of its own.
Titled(c, n, s) == IF c.held /\ c.source <= s THEN [c EXCEPT !.name = n, !.source = s] ELSE c

Given(T, a, n, s) ==
    [T EXCEPT !.contact[a] = [name |-> n, source |-> s],
              !.chat[a] = Titled(@, n, s),
              !.senders[a] = Relabelled(@, n),
              !.book[a] = IF s = FromBook THEN {n} ELSE @,
              !.late = IF s = FromBook THEN @ \ {a} ELSE @]

\* Mutation: the source of the stored name is not looked at.
LearnedAnyway(T, a, n, s) == IF n = NoName THEN T ELSE Given(T, a, n, s)

\* update_contact_name_into: no empty name, none of a lower source.
Learned(T, a, n, s) ==
    IF n = NoName \/ T.contact[a].source > s THEN T ELSE Given(T, a, n, s)

LearnedBy(T, S, n, s) ==
    LET first == IF Alias \in S THEN Learned(T, Alias, n, s) ELSE T
    IN  IF Phone \in S THEN Learned(first, Phone, n, s) ELSE first

\* The chats row of a message or a conversation that finds none.
Opened(T, a, n, s) ==
    IF T.chat[a].held THEN T
    ELSE [T EXCEPT !.chat[a] = [held |-> TRUE, name |-> n,
                                source |-> IF n = NoName THEN Unnamed ELSE s],
                   !.late = IF T.contact[a].source = FromBook /\ T.contact[a].name # n
                            THEN @ \cup {a} ELSE @]

\* insert_message_into: a saved name is shown before the one the message brings.
Filed(T, a, sender, candidate, s) ==
    [Opened(T, a, candidate, s) EXCEPT
        !.senders[a] = @ \cup {IF T.contact[a].source = FromBook
                               THEN T.contact[a].name ELSE sender}]

\* insert_history_chat_into: only a chat without a name takes the one replayed.
Renamed(c, n) ==
    IF c.source = Unnamed /\ n # NoName THEN [c EXCEPT !.name = n, !.source = FromHistory] ELSE c

ReplayedTitle(T, a, n) ==
    IF T.chat[a].held THEN [T EXCEPT !.chat[a] = Renamed(@, n)] ELSE Opened(T, a, n, FromHistory)

\* migrate_contact_jid: of contacts as good the alias wins, of chats the phone
\* number; then the contact's name, whatever its source, is shown everywhere.
Migrated(T) ==
    LET o == T.contact[Alias]
        n == T.contact[Phone]
        c == IF o.source >= n.source THEN o ELSE n
        h == IF ~T.chat[Phone].held \/ T.chat[Alias].source > T.chat[Phone].source
             THEN [T.chat[Alias] EXCEPT !.held = @ \/ T.chat[Phone].held] ELSE T.chat[Phone]
        S == T.senders[Alias] \cup T.senders[Phone]
    IN  IF o = NoContact /\ ~T.chat[Alias].held /\ T.senders[Alias] = {} THEN T
        ELSE [contact |-> Both(NoContact, c),
              chat |-> Both(NoChat, IF c = NoContact \/ ~h.held THEN h
                                    ELSE [h EXCEPT !.name = c.name, !.source = c.source]),
              senders |-> Both({}, IF c = NoContact THEN S ELSE Relabelled(S, c.name)),
              book |-> Both({}, T.book[Alias] \cup T.book[Phone]),
              late |-> {}]

\* canonical_contact_jid: the address, and the rows once it has looked.
At(a) == IF mapped THEN Phone ELSE a
Canonical(T) == IF mapped THEN Migrated(T) ELSE T

-----------------------------------------------------------------------------
(* The contact *)

\* receive_message up to its insert: the name the message brings is learned; the
\* address and both names are kept while the group metadata or the next lookup
\* is awaited.
Receive(a, n) ==
    /\ Happens /\ reducer.step = "idle"
    /\ LET T == Learned(Canonical(names), At(a), n, FromMessage)
           at == At(a)
           known == IF T.contact[at] = NoContact THEN n ELSE T.contact[at].name
       IN  /\ names' = T
           /\ reducer' = [step |-> "insert", at |-> at, sender |-> known,
                          candidate |-> IF n # NoName THEN n ELSE T.chat[at].name]
    /\ UNCHANGED <<mapped, replay, lookup, groupVars>>

\* The insert, or an early return: the message is a reaction, or already known.
Insert ==
    /\ reducer.step = "insert"
    /\ \/ names' = Filed(names, reducer.at, reducer.sender, reducer.candidate, FromMessage)
       \/ UNCHANGED names
    /\ reducer' = Rest
    /\ UNCHANGED <<mapped, replay, lookup, groupVars, steps>>

\* A ContactUpdate: the addresses it names first, the alias is resolved after.
BookUpdate(S, n) ==
    /\ Happens
    /\ names' = Canonical(LearnedBy(names, S, n, FromBook))
    /\ UNCHANGED <<mapped, reducer, replay, lookup, groupVars>>

\* BusinessStatusUpdate
Business(a, n) ==
    /\ Happens
    /\ names' = Learned(Canonical(names), At(a), n, FromMessage)
    /\ UNCHANGED <<mapped, reducer, replay, lookup, groupVars>>

\* sync_missing_contact_names: select, ask, write; the answer may bring the alias.
MissingSelected ==
    LET unnamed == {a \in Parties : names.chat[a].held /\ names.chat[a].name = NoName}
    IN  /\ Happens /\ lookup = {} /\ unnamed # {}
        /\ lookup' = unnamed
        /\ UNCHANGED <<names, mapped, reducer, replay, groupVars>>

MissingNamed(S, n) ==
    /\ lookup # {} /\ lookup \subseteq S
    /\ names' = LearnedBy(names, S, n, FromMessage)
    /\ lookup' = {}
    /\ UNCHANGED <<mapped, reducer, replay, groupVars, steps>>

\* process_history_event: the aliases are resolved before anything is ingested.
Scan ==
    /\ Happens /\ replay = "idle"
    /\ replay' = IF mapped THEN "resolved" ELSE "raw"
    /\ names' = Canonical(names)
    /\ UNCHANGED <<mapped, reducer, lookup, groupVars>>

\* A conversation (name c, if it has one) with a message (push name n, if any).
Ingest(a, c, n) ==
    LET at == IF replay = "resolved" THEN Phone ELSE a
        title == IF c # NoName THEN c ELSE names.contact[at].name
        sender == IF n # NoName THEN n ELSE title
        opened == ReplayedTitle(names, at, title)
    IN  /\ replay # "idle" /\ Happens
        /\ names' = Filed(Learned(opened, at, sender, FromMessage),
                          at, sender, title, FromHistory)
        /\ UNCHANGED <<mapped, reducer, replay, lookup, groupVars>>

\* The push names of the payload, under the addresses it gives them; then its end.
ReplayPushName(a, n) ==
    /\ replay # "idle"
    /\ names' = Learned(names, a, n, FromMessage)
    /\ replay' = "idle"
    /\ UNCHANGED <<mapped, reducer, lookup, groupVars, steps>>

\* A message of our own opens the chat with the name on record.
SendFirst(a) ==
    LET at == At(a)
        T == Canonical(names)
        named == IF T.chat[at].name # NoName THEN T.chat[at].name ELSE T.contact[at].name
    IN  /\ Happens
        /\ names' = Opened(T, at, named, FromMessage)
        /\ UNCHANGED <<mapped, reducer, replay, lookup, groupVars>>

\* delete_chat: the row and its messages; the contact stays.
DeleteNamed(a) ==
    /\ Happens /\ names.chat[a].held
    /\ names' = [names EXCEPT !.chat[a] = NoChat, !.senders[a] = {}, !.late = @ \ {a}]
    /\ UNCHANGED <<mapped, reducer, replay, lookup, groupVars>>

\* External: WhatsApp learns that the two addresses are one.
LearnMapping ==
    /\ Happens /\ ~mapped /\ mapped' = TRUE
    /\ UNCHANGED <<names, reducer, replay, lookup, groupVars>>

\* reconcile_direct_chat_aliases, and every other caller of canonical_contact_jid.
Canonicalise ==
    /\ names' = Canonical(names)
    /\ UNCHANGED <<mapped, reducer, replay, lookup, groupVars, steps>>

NamesNext ==
    \/ \E a \in Parties, n \in Shown : Receive(a, n) \/ ReplayPushName(a, n)
    \/ \E a \in Parties, n \in Names : Business(a, n)
    \/ \E S \in SUBSET Parties \ {{}}, n \in Shown : BookUpdate(S, n) \/ MissingNamed(S, n)
    \/ \E a \in Parties, c, n \in Shown : Ingest(a, c, n)
    \/ \E a \in Parties : SendFirst(a) \/ DeleteNamed(a)
    \/ Insert \/ MissingSelected \/ Scan \/ LearnMapping \/ Canonicalise

-----------------------------------------------------------------------------
(* The group *)

\* update_group_name
GroupNamed(c, n) ==
    IF c.held THEN [c EXCEPT !.name = n, !.source = FromMetadata] ELSE c

InFlight == {r \in Readers : fetched[r] # NoName}

\* External: the subject changes, and a GroupUpdate follows.
ChangeSubject(n) ==
    /\ Happens /\ n # subject
    /\ subject' = n /\ notified' = TRUE /\ crossed' = (InFlight # {})
    /\ UNCHANGED <<contactVars, group, fetched>>

\* The answer to group_metadata (event) or participating_groups (sync).
ReadSubject(r) ==
    /\ r \in {"event", "sync"} /\ fetched[r] = NoName
    /\ IF r = "event" THEN notified /\ notified' = FALSE /\ UNCHANGED steps
       ELSE Happens /\ UNCHANGED notified
    /\ fetched' = [fetched EXCEPT ![r] = subject]
    /\ UNCHANGED <<contactVars, group, subject, crossed>>

\* process_group_event: the query fails and the update is dropped.
EventReadFails ==
    /\ notified /\ fetched["event"] = NoName
    /\ notified' = FALSE /\ crossed' = TRUE
    /\ UNCHANGED <<contactVars, group, subject, fetched, steps>>

WriteSubject(r) ==
    /\ r \in {"event", "sync"} /\ fetched[r] # NoName
    /\ group' = GroupNamed(group, fetched[r])
    /\ fetched' = [fetched EXCEPT ![r] = NoName]
    /\ crossed' = (crossed /\ ~(InFlight = {"event"} /\ ~notified))
    /\ UNCHANGED <<contactVars, subject, notified, steps>>

\* receive_message of a group: the name on record, or the subject it asks for.
GroupMessage(answered) ==
    LET read == IF group.source > Unnamed THEN group.name
                ELSE IF answered THEN subject ELSE NoName
    IN  /\ Happens /\ fetched["reducer"] = NoName
        /\ IF read # NoName
           THEN fetched' = [fetched EXCEPT !["reducer"] = read] /\ UNCHANGED group
           ELSE /\ group' = [group EXCEPT !.held = TRUE]
                /\ UNCHANGED fetched
        /\ crossed' = (crossed \/ (group.source > Unnamed
                                   /\ (notified \/ fetched["event"] # NoName)))
        /\ UNCHANGED <<contactVars, subject, notified>>

\* Its insert, and the name written as if it were the group's metadata.
GroupInsert ==
    /\ fetched["reducer"] # NoName
    /\ group' = GroupNamed([group EXCEPT !.held = TRUE], fetched["reducer"])
    /\ fetched' = [fetched EXCEPT !["reducer"] = NoName]
    /\ UNCHANGED <<contactVars, subject, notified, crossed, steps>>

\* A conversation of the history, under the name it had when it was recorded.
ReplayGroup(n) ==
    /\ Happens
    /\ group' = IF group.held THEN Renamed(group, n)
                ELSE [held |-> TRUE, name |-> n, source |-> FromHistory]
    /\ crossed' = (crossed \/ n # subject)
    /\ UNCHANGED <<contactVars, subject, notified, fetched>>

SubjectNext ==
    \/ \E n \in Names : ChangeSubject(n) \/ ReplayGroup(n)
    \/ \E r \in Readers : ReadSubject(r) \/ WriteSubject(r)
    \/ \E answered \in BOOLEAN : GroupMessage(answered)
    \/ EventReadFails \/ GroupInsert

NamesSpec == NamesInit /\ [][NamesNext \/ SubjectNext]_nameVars

-----------------------------------------------------------------------------
(* What must hold *)

\* The name saved in the address book is the one every view shows, whatever push
\* names, history and merges of the two addresses came before or after it; only a
\* chat created after the contact was saved may have another.  A group shows its
\* subject when no task is about to write one, unless a task read it before a
\* change and wrote it after (update_contact_name_into, update_group_name,
\* migrate_contact_jid).
NamesFollowTheirSource ==
    /\ \A a \in Parties : names.book[a] # {} =>
          /\ names.contact[a].source = FromBook
          /\ names.contact[a].name \in names.book[a]
          /\ names.senders[a] \subseteq {names.contact[a].name}
          /\ names.chat[a].held /\ a \notin names.late =>
                names.chat[a].name = names.contact[a].name
    /\ group.source = FromMetadata /\ InFlight = {} /\ ~notified =>
          group.name = subject \/ crossed

=============================================================================
