------------------------------ MODULE GroupRoster ------------------------------
(* The members of the selected group.  WhatsApp holds them; the daemon reads   *)
(* them for every change it is told of (process_group_event, a job of its own  *)
(* each) and for every request (GetGroupParticipants), and stamps what it read *)
(* when it is ready, not when it asked.  The shell shows one chat and takes    *)
(* frames by their stamps (Service.qml).  What else clients are answered with  *)
(* is in ChatList.                                                             *)
EXTENDS Naturals, Sequences, FiniteSets, ChatList

CONSTANTS
    RosterEvents,   \* bound: changes, selections and chat lists together
    ReadsAtOnce     \* bound: jobs under way when another begins

ASSUME RosterAssumption == RosterEvents \in Nat /\ ReadsAtOnce \in Nat

VARIABLES
    version,    \* of the group's members
    reads,      \* jobs under way: of an event (id 0) or of a request
    stamp,      \* RevisionClock.sequence
    newest,     \* history: the newest version stamped
    pushed, answered,   \* frames in the broadcast channel, in the response channel
    selected,   \* selectedChatJid is the group, not another, direct chat
    asked,      \* groupParticipantRequestJids: the group's request or 0
    known,      \* resourceSequences of the group's members
    roster,     \* groupParticipants, groupParticipantsChatJid, -Error
    missed,     \* history: an event's read failed since the present members were shown
    unanswered, \* history: the request's answer was refused or given up
    happened    \* events so far

rosterVars == <<version, reads, stamp, newest, pushed, answered, selected, asked, known,
                roster, missed, unanswered, happened>>
frameVars == <<stamp, newest, pushed, answered>>
shellVars == <<selected, asked, known, roster, unanswered>>

NoRoster == [shown |-> FALSE, v |-> 0, error |-> FALSE, late |-> FALSE]

RosterInit ==
    /\ version = 0 /\ reads = {} /\ stamp = 0 /\ newest = 0
    /\ pushed = <<>> /\ answered = <<>>
    /\ selected = FALSE /\ asked = 0 /\ known = 0 /\ roster = NoRoster
    /\ missed = FALSE /\ unanswered = FALSE /\ happened = 0

Occurs ==
    /\ happened < RosterEvents /\ happened' = happened + 1
    /\ Cardinality(reads) <= ReadsAtOnce

-----------------------------------------------------------------------------
(* The daemon *)

Read(n, id) == [n |-> n, id |-> id, step |-> "asking", v |-> 0]

\* Somebody joins, leaves or is promoted; the event starts a job.
GroupUpdate ==
    /\ Occurs
    /\ version' = version + 1
    /\ reads' = reads \cup {Read(happened', 0)}
    /\ UNCHANGED <<frameVars, shellVars, missed>>

\* group_metadata
ReadMetadata(j) ==
    /\ j.step = "asking"
    /\ reads' = (reads \ {j}) \cup {[j EXCEPT !.step = "resolving", !.v = version]}
    /\ UNCHANGED <<version, frameVars, shellVars, missed, happened>>

\* history (late): something newer was stamped already
Frame(j, ok) == [seq |-> stamp + 1, id |-> j.id, v |-> j.v, ok |-> ok, late |-> j.v < newest]

\* The members are resolved and published or answered; the jobs overlap.
Publish(j) ==
    /\ j.step = "resolving"
    /\ reads' = reads \ {j} /\ stamp' = stamp + 1
    /\ IF j.id = 0 THEN pushed' = Append(pushed, Frame(j, TRUE)) /\ UNCHANGED answered
                   ELSE answered' = Append(answered, Frame(j, TRUE)) /\ UNCHANGED pushed
    /\ newest' = IF j.v > newest THEN j.v ELSE newest
    /\ UNCHANGED <<version, shellVars, missed, happened>>

\* The read fails, or (an event's) its generation is over.  Nothing asks again.
Fail(j) ==
    /\ j.step = "asking" \/ j.id = 0
    /\ reads' = reads \ {j}
    /\ IF j.id = 0 THEN missed' = TRUE /\ UNCHANGED <<stamp, answered>>
                   ELSE /\ stamp' = stamp + 1
                        /\ answered' = Append(answered, Frame(j, FALSE))
                        /\ UNCHANGED missed
    /\ UNCHANGED <<version, newest, pushed, shellVars, happened>>

-----------------------------------------------------------------------------
(* The shell *)

\* requestGroupParticipants: one request of a chat at a time; the list is cleared.
Ask ==
    /\ reads' = reads \cup {Read(happened', happened')}
    /\ asked' = happened' /\ roster' = NoRoster /\ unanswered' = FALSE

\* selectChat
SelectGroup ==
    /\ Occurs /\ ~selected /\ selected' = TRUE
    /\ IF asked = 0 THEN Ask ELSE roster' = NoRoster /\ UNCHANGED <<reads, asked, unanswered>>
    /\ UNCHANGED <<version, frameVars, known, missed>>

SelectOther ==
    /\ Occurs /\ selected /\ selected' = FALSE
    /\ roster' = NoRoster
    /\ UNCHANGED <<version, reads, frameVars, asked, known, missed, unanswered>>

\* A list of chats: members that are not shown are asked for.
ChatsShown ==
    /\ Occurs /\ selected /\ ~roster.shown /\ asked = 0 /\ Ask
    /\ UNCHANGED <<version, frameVars, selected, known, missed>>

\* expireRequests: the job may answer yet.
Expire ==
    /\ asked # 0 /\ asked' = 0
    /\ unanswered' = (unanswered \/ selected)
    /\ UNCHANGED <<version, reads, frameVars, selected, known, roster, missed, happened>>

\* Mutation: whatever comes is taken.
TakesAny(f) == TRUE

\* acceptFrame: an error is a resource of its own.
Accepts(f) == ~f.ok \/ f.seq > known

IsAnswer(f) == f.id # 0 /\ asked = f.id

\* handleLine; a refused answer is done with (finishStaleResponse).
Receive(f) ==
    /\ asked' = IF IsAnswer(f) THEN 0 ELSE asked
    /\ known' = IF f.ok /\ Accepts(f) THEN f.seq ELSE known
    /\ IF Accepts(f) /\ selected /\ (f.ok \/ IsAnswer(f))
       THEN /\ roster' = [shown |-> TRUE, v |-> f.v, error |-> ~f.ok, late |-> f.late]
            /\ missed' = (missed /\ (~f.ok \/ f.v # version))
            /\ unanswered' = FALSE
       ELSE /\ unanswered' = (unanswered \/ (~Accepts(f) /\ IsAnswer(f) /\ selected))
            /\ UNCHANGED <<roster, missed>>
    /\ UNCHANGED <<version, reads, stamp, newest, selected, happened>>

\* The connection's loop writes from either channel.
Deliver ==
    \/ pushed # <<>> /\ Receive(Head(pushed)) /\ pushed' = Tail(pushed) /\ UNCHANGED answered
    \/ answered # <<>> /\ Receive(Head(answered)) /\ answered' = Tail(answered)
       /\ UNCHANGED pushed

RosterNext ==
    \/ GroupUpdate \/ SelectGroup \/ SelectOther \/ ChatsShown \/ Expire \/ Deliver
    \/ \E j \in reads : ReadMetadata(j) \/ Publish(j) \/ Fail(j)

RosterSpec == RosterInit /\ [][RosterNext]_rosterVars

-----------------------------------------------------------------------------

\* When nothing is under way, the selected group's members are the present ones,
\* or the list says it could not be had; they are older only past an event's read
\* that failed or that an older read overtook (events.rs:253), and absent only
\* past an answer the shell gave up or refused for one that came while another
\* chat was shown (Service.qml:722).
RosterIsCurrent ==
    reads = {} /\ pushed = <<>> /\ answered = <<>> /\ selected /\ asked = 0 =>
        IF roster.shown
        THEN roster.error \/ roster.v = version \/ roster.late \/ missed
        ELSE unanswered

\* What a client is answered is what is so, but for the losses each of the two
\* names: the lists of chats and the members of a group.
AnswersAreTrue == ListsAreTrue /\ RosterIsCurrent
=============================================================================
