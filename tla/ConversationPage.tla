---------------------------- MODULE ConversationPage ----------------------------
(* The conversation a client opens: its newest messages, and the first unread  *)
(* one, to which the panel scrolls.  GetMessages reads the two one after the   *)
(* other (commands.rs), while messages come, are read elsewhere or deleted;    *)
(* the shell asks for the page and marks the chat as read in the same breath,  *)
(* and a message that comes meanwhile makes it ask again (Service.qml).  What a *)
(* row of it shows is in MessageContent.                                       *)
EXTENDS Naturals, Sequences, FiniteSets, MessageContent

CONSTANTS
    PageLimit,      \* bound of the code: messages of a page
    LastSecond,     \* bound: timestamps of messages
    PageEvents      \* bound: what happens to the chat in a behaviour

ASSUME PageAssumption ==
    PageLimit \in Nat \ {0} /\ LastSecond \in Nat /\ PageEvents \in Nat

VARIABLES
    messages,   \* the chat's rows in the order of their insertion
    boundary,   \* chat_settings.read_boundary
    get,        \* GetMessages: its step, what it read and (history) what was unread
    followUp,   \* messagesQueuedRequests
    marking,    \* a MarkConversation is under way
    opened,     \* history: messages unread when the chat was selected that are so
                \* still, but for one reason: read, or gone
    page,       \* messages, messagesFirstUnreadId and (history) the rows of the read
    placed,     \* handledMessagesNavigationSerial: the panel has scrolled
    came        \* events so far

pageVars == <<messages, boundary, get, followUp, marking, opened, page, placed, came>>

NoUnread == 0
NoAnswer == [step |-> "idle", first |-> NoUnread, unread |-> {}, shown |-> <<>>, of |-> <<>>]

PageInit ==
    /\ messages = <<>> /\ boundary = 0
    /\ get = NoAnswer /\ followUp = FALSE /\ marking = FALSE
    /\ opened = [unread |-> {}, why |-> "nothing"]
    /\ page = NoAnswer /\ placed = FALSE /\ came = 0

-----------------------------------------------------------------------------
(* The rows, ordered by timestamp and then insertion *)

RowNumbers == DOMAIN messages
Precedes(i, j) == \/ messages[i].at < messages[j].at
                  \/ messages[i].at = messages[j].at /\ i < j

Unread == {i \in RowNumbers : messages[i].unread}
IdsOf(S) == {messages[i].id : i \in S}

\* first_unread_message_id
FirstUnread ==
    IF Unread = {} THEN NoUnread
    ELSE messages[CHOOSE i \in Unread : \A j \in Unread \ {i} : Precedes(i, j)].id

Ascending(S) ==
    [k \in 1..Cardinality(S) |->
        messages[CHOOSE i \in S : Cardinality({j \in S : Precedes(j, i)}) = k - 1].id]

\* Mutation: the oldest messages are a page.
OldestPage == Ascending({i \in RowNumbers : Cardinality({j \in RowNumbers : Precedes(j, i)}) < PageLimit})

\* load_messages
NewestPage == Ascending({i \in RowNumbers : Cardinality({j \in RowNumbers : Precedes(i, j)}) < PageLimit})

Befalls == came < PageEvents /\ came' = came + 1

\* What the shell does for a message of the chat it shows: requestMessages with a
\* follow-up if it already asked.
AskAgain ==
    IF get.step = "idle" THEN get' = [NoAnswer EXCEPT !.step = "asked"] /\ UNCHANGED followUp
                         ELSE followUp' = TRUE /\ UNCHANGED get

\* A message comes, in any order of timestamps, and counts as unread unless it is
\* one's own, of a history or covered by the boundary.
AppendMessage(at, counts) ==
    /\ Befalls
    /\ messages' = Append(messages, [id |-> came', at |-> at,
                                     unread |-> counts /\ at > boundary])
    /\ IF opened.why = "nothing" THEN UNCHANGED <<get, followUp>> ELSE AskAgain
    /\ UNCHANGED <<boundary, marking, opened, page, placed>>

\* What was unread at the selection is read or gone by `how`.
Settle(how) ==
    opened' = IF opened.why = "open" /\ opened.unread # {}
                 /\ ~\E i \in DOMAIN messages' : messages'[i].id \in opened.unread
                                                 /\ messages'[i].unread
              THEN [opened EXCEPT !.why = how] ELSE opened

ReadUpTo(t) ==
    /\ boundary' = IF t > boundary THEN t ELSE boundary
    /\ messages' = [i \in RowNumbers |->
                       [messages[i] EXCEPT !.unread = @ /\ messages[i].at > boundary']]

\* Another device reads the chat up to a message, or one is deleted.
ReadElsewhere(t) ==
    /\ Befalls /\ ReadUpTo(t) /\ Settle("elsewhere")
    /\ UNCHANGED <<get, followUp, marking, page, placed>>

RemoveMessage(i) ==
    /\ Befalls
    /\ messages' = [j \in 1..(Len(messages) - 1) |->
                        IF j < i THEN messages[j] ELSE messages[j + 1]]
    /\ Settle("elsewhere")
    /\ UNCHANGED <<boundary, get, followUp, marking, page, placed>>

-----------------------------------------------------------------------------
(* The request and the mark of read *)

\* selectChat, of a panel that has the focus or not
SelectConversation(focused) ==
    /\ opened.why = "nothing"
    /\ opened' = [unread |-> IdsOf(Unread), why |-> "open"]
    /\ get' = [NoAnswer EXCEPT !.step = "asked"]
    /\ marking' = focused
    /\ UNCHANGED <<messages, boundary, followUp, page, placed, came>>

\* Command::MarkRead: the boundary is the newest message's time.  It has no conflict key
\* in common with GetMessages.
MarkConversation ==
    /\ marking /\ marking' = FALSE
    /\ ReadUpTo(IF RowNumbers = {} THEN 0
                ELSE messages[CHOOSE i \in RowNumbers : \A j \in RowNumbers \ {i} : Precedes(j, i)].at)
    /\ Settle("marked")
    /\ UNCHANGED <<get, followUp, page, placed, came>>

ReadFirstUnread ==
    /\ get.step = "asked"
    /\ get' = [get EXCEPT !.step = "reading", !.first = FirstUnread, !.unread = IdsOf(Unread)]
    /\ UNCHANGED <<messages, boundary, followUp, marking, opened, page, placed, came>>

ReadPage ==
    /\ get.step = "reading"
    /\ get' = [get EXCEPT !.step = "read", !.shown = NewestPage, !.of = messages]
    /\ UNCHANGED <<messages, boundary, followUp, marking, opened, page, placed, came>>

\* finishMessagesRequest and the `messages` event; the panel scrolls at the first
\* page no other is asked after.
ShowPage ==
    /\ get.step = "read"
    /\ page' = get
    /\ get' = IF followUp THEN [NoAnswer EXCEPT !.step = "asked"] ELSE NoAnswer
    /\ followUp' = FALSE
    /\ placed' = (placed \/ ~followUp)
    /\ UNCHANGED <<messages, boundary, marking, opened, came>>

PageNext ==
    \/ \E at \in 1..LastSecond, counts \in BOOLEAN : AppendMessage(at, counts)
    \/ \E t \in 1..LastSecond : ReadElsewhere(t)
    \/ \E i \in RowNumbers : RemoveMessage(i)
    \/ \E focused \in BOOLEAN : SelectConversation(focused)
    \/ MarkConversation \/ ReadFirstUnread \/ ReadPage \/ ShowPage

PageSpec == PageInit /\ [][PageNext]_pageVars

-----------------------------------------------------------------------------

OnPage(id) == \E k \in DOMAIN page.shown : page.shown[k] = id
Row(id) == CHOOSE m \in {page.of[i] : i \in DOMAIN page.of} : m.id = id

\* A page holds the newest messages of the moment it was read: none left out is
\* newer than one it shows, and equal timestamps keep the order of insertion.
PageIsNewest ==
    /\ \A k \in 1..(Len(page.shown) - 1) :
          LET m == Row(page.shown[k])
              n == Row(page.shown[k + 1])
          IN  m.at < n.at \/ (m.at = n.at /\ m.id < n.id)
    /\ \A i \in DOMAIN page.of : ~OnPage(page.of[i].id) =>
          /\ Len(page.shown) = PageLimit
          /\ LET m == Row(page.shown[1])
             IN  page.of[i].at < m.at \/ (page.of[i].at = m.at /\ page.of[i].id < m.id)

\* No message that was unread when the request read the first unread one stands
\* above it on the page, although the page was read later (commands.rs:1098).
NothingUnreadAbove ==
    \A k, l \in DOMAIN page.shown :
        page.shown[k] \in page.unread /\ page.shown[l] = page.first => l <= k

\* A chat that had unread messages when it was selected opens at one of them.
\* Exceptions: by then they had been read elsewhere or deleted, or the shell's own
\* mark of read was carried out before the page's request (Service.qml:1222).
OpensAtUnread ==
    placed /\ opened.why = "open" /\ opened.unread # {} => page.first # NoUnread

PageIsTrue == PageIsNewest /\ NothingUnreadAbove /\ OpensAtUnread

\* A row shows what its deliveries said, and a page the rows that there are.
RowsAreShown == ContentConverges /\ PageIsTrue
=============================================================================
