---------------------------- MODULE MessageRecovery ----------------------------
(* Asking the phone for what a chat's history lacks (commands.rs).  GetMessages *)
(* picks the newest message without its media and the newest poll whose choice *)
(* rule may be unknown (database.rs) and, once for each, asks for that message *)
(* again and for the history around it.  The set media_recovery_requested is    *)
(* both the guard of a request under way and the mark of one that succeeded;    *)
(* every list refresh of an open chat comes by here.                           *)
EXTENDS Naturals, FiniteSets

CONSTANTS
    Readers,        \* clients of the daemon, each with one GetMessages at a time
    RecoverySteps   \* bound: arrivals, GetMessages and ends of sessions

ASSUME RecoveryAssumption == RecoverySteps \in Nat

VARIABLES
    clockAt,    \* RevisionClock.generation: odd while a session runs
    held,       \* the generation of the client in shared.client, 0 if none
    inChat,     \* the chat's messages: what they hold
    requested,  \* media_recovery_requested, for this chat
    reading,    \* the GetMessages of each reader
    attempts,   \* tasks of schedule_message_recovery
    accepted,   \* history: requests WhatsApp took, for each key, in this account
    outlived,   \* history: keys of accepted requests whose session had ended
    erased,     \* history: keys with a request under way when the account was wiped
    steps       \* happenings so far

recoveryVars == <<clockAt, held, inChat, requested, reading, attempts, accepted,
                  outlived, erased, steps>>

Wants == {"media", "poll"}

-----------------------------------------------------------------------------
(* What a chat lacks *)

\* keys: media_download; preview: a thumbnail_path; timed: a live location with
\* its duration; single: selectable_count is 1 or not there.
Item(kind) == [kind |-> kind, keys |-> FALSE, preview |-> FALSE, timed |-> FALSE, single |-> TRUE]

\* "placeholder" is a row with the text alone, "image" any medium with a preview.
Items == {Item(kind) : kind \in {"text", "placeholder", "image", "live", "poll"}}

\* The WHERE clauses of media_recovery_cursor and poll_metadata_recovery_cursor.
Lacks(item, key) ==
    \/ /\ key = "media"
       /\ \/ item.kind = "placeholder"
          \/ item.kind = "image" /\ ~(item.keys /\ item.preview)
          \/ item.kind = "live" /\ ~item.timed
    \/ key = "poll" /\ item.kind = "poll" /\ item.single

HasCursor(key) == \E item \in inChat : Lacks(item, key)

\* What the phone's copy of a message tells; a poll of one choice stays one.
FilledIn(item) ==
    CASE item.kind = "placeholder" -> [Item("image") EXCEPT !.keys = TRUE, !.preview = TRUE]
      [] item.kind = "image" -> [item EXCEPT !.keys = TRUE, !.preview = TRUE]
      [] item.kind = "live" -> [item EXCEPT !.timed = TRUE]
      [] OTHER -> item

-----------------------------------------------------------------------------
(* GetMessages *)

NotReading == [at |-> "rests", key |-> "media", client |-> 0]

RecoveryInit ==
    /\ clockAt = 1 /\ held = 1 /\ inChat = {} /\ requested = {}
    /\ reading = [r \in Readers |-> NotReading]
    /\ attempts = {} /\ accepted = [k \in Wants |-> 0]
    /\ outlived = {} /\ erased = {} /\ steps = 0

Happening(n) == steps < RecoverySteps /\ steps' = steps + n

\* The list of a chat is asked for: first its media, then its polls.
OpenList(r) ==
    /\ reading[r].at = "rests" /\ Happening(1)
    /\ reading' = [reading EXCEPT ![r] = [NotReading EXCEPT !.at = "look"]]
    /\ UNCHANGED <<clockAt, held, inChat, requested, attempts, accepted, outlived, erased>>

Further(r) ==
    [reading EXCEPT ![r] = IF reading[r].key = "media"
                           THEN [at |-> "look", key |-> "poll", client |-> 0] ELSE NotReading]

\* The cursor, then the client as it is now.
Look(r) ==
    /\ reading[r].at = "look"
    /\ reading' = IF HasCursor(reading[r].key) /\ held # 0
                  THEN [reading EXCEPT ![r].at = "mark", ![r].client = held]
                  ELSE Further(r)
    /\ UNCHANGED <<clockAt, held, inChat, requested, attempts, accepted, outlived, erased, steps>>

Attempt(key, client) ==
    [key |-> key, client |-> client, gen |-> clockAt, at |-> "exact", took |-> FALSE,
     number |-> Cardinality({a \in attempts : a.key = key /\ a.client = client})]

\* Mutation: the answer of insert is not looked at.
MarkAgain(r) == attempts' = attempts \cup {Attempt(reading[r].key, reading[r].client)}

\* insert tells whether the key was new; the attempt takes the generation of now.
MarkOnce(r) ==
    attempts' = IF reading[r].key \in requested THEN attempts
                ELSE attempts \cup {Attempt(reading[r].key, reading[r].client)}

Mark(r) ==
    /\ reading[r].at = "mark"
    /\ requested' = requested \cup {reading[r].key}
    /\ MarkOnce(r)
    /\ reading' = Further(r)
    /\ UNCHANGED <<clockAt, held, inChat, accepted, outlived, erased, steps>>

-----------------------------------------------------------------------------
(* schedule_message_recovery *)

Proceeds(a, b) == attempts' = (attempts \ {a}) \cup {b}

\* Either request may be taken, while its client runs, or refused.
AskPhone(a) ==
    /\ a.at \in {"exact", "history"}
    /\ \E ok \in BOOLEAN :
          /\ ok => a.client = clockAt
          /\ Proceeds(a, [a EXCEPT !.at = IF a.at = "exact" THEN "history" ELSE "asked",
                                 !.took = a.took \/ ok])
          /\ accepted' = IF ok /\ ~a.took THEN [accepted EXCEPT ![a.key] = @ + 1] ELSE accepted
    /\ UNCHANGED <<clockAt, held, inChat, requested, reading, outlived, erased, steps>>

\* Kept as the mark of a success, unless its session has ended meanwhile.
Judge(a) ==
    /\ a.at = "asked"
    /\ IF a.took /\ a.gen = clockAt
       THEN attempts' = attempts \ {a} /\ UNCHANGED outlived
       ELSE /\ Proceeds(a, [a EXCEPT !.at = "failed"])
            /\ outlived' = IF a.took THEN outlived \cup {a.key} ELSE outlived
    /\ UNCHANGED <<clockAt, held, inChat, requested, reading, accepted, erased, steps>>

\* finish_recovery_attempt re-arms the next refresh.
Rearm(a) ==
    /\ a.at = "failed"
    /\ attempts' = attempts \ {a}
    /\ requested' = requested \ {a.key}
    /\ UNCHANGED <<clockAt, held, inChat, reading, accepted, outlived, erased, steps>>

-----------------------------------------------------------------------------
(* The session *)

Arrive(item) ==
    /\ clockAt % 2 = 1 /\ item \notin inChat /\ Happening(1)
    /\ inChat' = inChat \cup {item}
    /\ UNCHANGED <<clockAt, held, requested, reading, attempts, accepted, outlived, erased>>

\* The phone's answer, through history or as the message itself.
PhoneAnswers(item) ==
    /\ clockAt % 2 = 1 /\ \E k \in Wants : accepted[k] > 0 /\ Lacks(item, k)
    /\ FilledIn(item) # item
    /\ inChat' = (inChat \ {item}) \cup {FilledIn(item)}
    /\ UNCHANGED <<clockAt, held, requested, reading, attempts, accepted, outlived, erased, steps>>

EndSession ==
    /\ clockAt % 2 = 1 /\ Happening(1)
    /\ clockAt' = clockAt + 1
    /\ UNCHANGED <<held, inChat, requested, reading, attempts, accepted, outlived, erased>>

\* The client is dropped; after a logout clear_local_account_data empties the set.
DropSession(logout) ==
    /\ clockAt % 2 = 0 /\ held # 0
    /\ held' = 0
    /\ IF logout
       THEN /\ inChat' = {} /\ requested' = {} /\ accepted' = [k \in Wants |-> 0]
            /\ outlived' = {}
            /\ erased' = erased \cup {a.key : a \in attempts}
       ELSE UNCHANGED <<inChat, requested, accepted, outlived, erased>>
    /\ UNCHANGED <<clockAt, reading, attempts, steps>>

NextSession ==
    /\ clockAt % 2 = 0 /\ held = 0
    /\ clockAt' = clockAt + 1 /\ held' = clockAt + 1
    /\ UNCHANGED <<inChat, requested, reading, attempts, accepted, outlived, erased, steps>>

-----------------------------------------------------------------------------
RecoveryNext ==
    \/ \E r \in Readers : OpenList(r) \/ Look(r) \/ Mark(r)
    \/ \E a \in attempts : AskPhone(a) \/ Judge(a) \/ Rearm(a)
    \/ \E item \in Items : Arrive(item)
    \/ \E item \in inChat : PhoneAnswers(item)
    \/ EndSession \/ NextSession
    \/ \E logout \in BOOLEAN : DropSession(logout)

RecoverySpec == RecoveryInit /\ [][RecoveryNext]_recoveryVars

\* The phone is asked once for what a chat lacks, however often the chat is
\* read: two attempts run for a key only after a wipe emptied the set under the
\* first, which may then remove the second one's mark; a second request is
\* accepted only if the session of the first ended before it could be noted; and
\* a key that is marked with no attempt under way had one accepted, so a failure
\* never keeps the next refresh from asking.
RecoveryIsAskedOnce ==
    \A k \in Wants \ erased :
        /\ Cardinality({a \in attempts : a.key = k}) <= 1
        /\ accepted[k] > 1 => k \in outlived
        /\ k \in requested =>
              accepted[k] > 0 \/ \E a \in attempts : a.key = k
=============================================================================
