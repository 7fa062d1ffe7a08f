----------------------------- MODULE SchemaLadder -----------------------------
(* Database::open: the bootstrap, the crash recovery of the text outbox, the   *)
(* ladder of nine schema steps and the repair of the poll cards, over the      *)
(* databases earlier builds left behind.  A start may be cut off between any   *)
(* two statements; what a transaction holds is lost then, what the bootstrap   *)
(* or the recovery committed is not.                                           *)
EXTENDS Naturals

CONSTANT MaxStarts    \* starts of the daemon in a behaviour: a bound

ASSUME LadderAssumption == MaxStarts \in Nat

Latest == 9           \* SCHEMA_VERSION

VARIABLES disk,    \* what is committed
          work,    \* the open transaction's view, disk when there is none
          stage,   \* where the daemon is
          step,    \* the rung in work
          starts,
          had      \* ghost: what its user ever had in this database

ladderVars == <<disk, work, stage, step, starts, had>>

\* Columns by what they hold: receipt times of a message and of a reader, media,
\* who a contact's and a chat's name come from, the flags of a chat.
MessageColumns == {"receipt_times", "media", "quote"}
Bootstrapped == {"receipt_times", "contact_source", "reader_times", "media",
                 "name_source", "chat_flags"}
Columns == Bootstrapped \cup {"quote", "mentions", "queued_quote"}

\* Rows that tell the steps apart: receipt times on a direct chat's message and
\* in the table of readers, a chat named by its JID, a placeholder bubble, a
\* message with a quote, a text whose send was cut off, a card behind its votes.
Data == {"aggregate", "reader", "jid_name", "bubble", "quote", "sending", "stale_card"}
Stages == {"off", "made", "ladder", "applied", "recorded", "tally", "running"}

Stored == [version : 0 .. Latest, columns : SUBSET Columns,
           key : {"no_table", "two", "three"}, data : SUBSET Data]

\* What a step adds, and the columns its statements name.
Only(when, S) == IF when THEN S ELSE {}
Adds == [k \in 1 .. Latest |->
            Only(k = 1, {"receipt_times", "contact_source", "reader_times"})
            \cup Only(k = 3, {"media"})
            \cup Only(k = 5, {"name_source", "chat_flags"})
            \cup Only(k = 8, {"mentions"})
            \cup Only(k = 9, {"quote", "queued_quote"})]
Needs(k, d) ==
    Only(k = 2, {"receipt_times", "reader_times"})
    \cup Only(k = 4 /\ d.key = "two", {"receipt_times", "media"})
    \cup Only(k = 6, {"name_source", "contact_source"})
    \cup Only(k = 7, {"media"})

\* A new file.  Early builds: version 0 with whatever steps that build performed;
\* the three part key came with a table that has the other message columns.
\* Builds with the ladder: a prefix of it.
Fresh(d) == d = [version |-> 0, columns |-> {}, key |-> "no_table", data |-> {}]
Legacy(d) ==
    /\ d.version = 0 /\ d.columns \subseteq Bootstrapped /\ d.key # "no_table"
    /\ d.key = "three" => MessageColumns \cap Bootstrapped \subseteq d.columns
    /\ "aggregate" \in d.data => "receipt_times" \in d.columns
    /\ "quote" \notin d.data
Laddered(d) ==
    /\ d.version \in 1 .. Latest /\ d.key = "three"
    /\ d.columns = Bootstrapped \cup UNION {Adds[k] : k \in 1 .. d.version}
    /\ "aggregate" \in d.data => d.version < 2 \/ "reader" \in d.data
    /\ "jid_name" \in d.data => d.version < 6
    /\ "bubble" \in d.data => d.version < 7
    /\ "quote" \in d.data => d.version = Latest

LadderInit ==
    /\ disk \in {d \in Stored : Fresh(d) \/ Legacy(d) \/ Laddered(d)}
    /\ work = disk /\ had = disk.data
    /\ stage = "off" /\ step = 0 /\ starts = 0

-----------------------------------------------------------------------------
(* Opening *)

\* CREATE TABLE IF NOT EXISTS: a table of an early build keeps its columns, a
\* missing one (message_reads, contacts, chat_settings; all in a new file) is
\* made in full.
Made(d) ==
    IF d.key = "no_table" THEN {[d EXCEPT !.columns = Bootstrapped, !.key = "three"]}
    ELSE {[d EXCEPT !.columns = @ \cup made] :
             made \in SUBSET {"contact_source", "reader_times", "chat_flags"}}
Bootstrap ==
    /\ stage = "off" /\ starts < MaxStarts
    /\ starts' = starts + 1 /\ stage' = "made"
    /\ disk' \in Made(disk)
    /\ work' = disk'
    /\ UNCHANGED <<step, had>>

\* The sends that were cut off are queued again, before the ladder.
RecoverSends ==
    /\ stage = "made"
    /\ disk' = [disk EXCEPT !.data = @ \ {"sending"}]
    /\ work' = disk' /\ stage' = "ladder" /\ step' = disk.version + 1
    /\ UNCHANGED <<starts, had>>

\* ensure_message_identity_schema copies the columns it knows.
Rebuilt(d) ==
    IF d.key # "two" THEN d
    ELSE [d EXCEPT !.key = "three",
                   !.columns = (@ \ MessageColumns) \cup {"receipt_times", "media"},
                   !.data = @ \ {"quote"}]

\* Receipts of a direct chat get a reader; a chat named by its JID and a
\* placeholder bubble go.
Climbed(k, d) ==
    IF k = 4 THEN Rebuilt(d)
    ELSE [d EXCEPT !.columns = @ \cup Adds[k],
                   !.data = (@ \cup Only(k = 2 /\ "aggregate" \in d.data, {"reader"}))
                            \ (Only(k = 6, {"jid_name"}) \cup Only(k = 7, {"bubble"}))]

\* run_migration: a statement on a missing column fails the open.
Apply ==
    /\ stage = "ladder" /\ step <= Latest
    /\ Needs(step, disk) \subseteq disk.columns
    /\ work' = Climbed(step, disk) /\ stage' = "applied"
    /\ UNCHANGED <<disk, step, starts, had>>

\* Mutation: the version is written outside the transaction.
RecordOutside ==
    /\ stage = "applied"
    /\ disk' = [disk EXCEPT !.version = step]
    /\ work' = [work EXCEPT !.version = step]
    /\ stage' = "recorded"
    /\ UNCHANGED <<step, starts, had>>
Record ==
    /\ stage = "applied"
    /\ work' = [work EXCEPT !.version = step] /\ stage' = "recorded"
    /\ UNCHANGED <<disk, step, starts, had>>

Commit ==
    /\ stage = "recorded"
    /\ disk' = work /\ stage' = "ladder" /\ step' = step + 1
    /\ UNCHANGED <<work, starts, had>>

LadderEnds ==
    /\ stage = "ladder" /\ step > Latest
    /\ stage' = "tally"
    /\ UNCHANGED <<disk, work, step, starts, had>>

\* reconcile_all_poll_tallies, and the daemon runs.
RepairCards ==
    /\ stage = "tally"
    /\ disk' = [disk EXCEPT !.data = @ \ {"stale_card"}]
    /\ work' = disk' /\ stage' = "running"
    /\ UNCHANGED <<step, starts, had>>

\* The running daemon stores quotes and receipts, and may stop in a send or
\* between a vote and its card.
Live ==
    /\ stage = "running"
    /\ \E made \in SUBSET {"reader", "quote", "sending", "stale_card"} :
          /\ disk' = [disk EXCEPT !.data = @ \cup made]
          /\ had' = had \cup made
    /\ work' = disk'
    /\ UNCHANGED <<stage, step, starts>>

\* A crash, or an error of a statement: the transaction rolls back and systemd
\* starts the daemon again (Restart=on-failure).
Stop ==
    /\ stage # "off"
    /\ work' = disk /\ stage' = "off" /\ step' = 0
    /\ UNCHANGED <<disk, starts, had>>

LadderNext ==
    \/ Bootstrap \/ RecoverSends
    \/ Apply \/ Record \/ Commit \/ LadderEnds \/ RepairCards
    \/ Live \/ Stop

LadderSpec == LadderInit /\ [][LadderNext]_ladderVars

-----------------------------------------------------------------------------
(* Properties *)

LadderTypeOK ==
    /\ disk \in Stored /\ work \in Stored
    /\ stage \in Stages /\ step \in 0 .. Latest + 1
    /\ starts \in 0 .. MaxStarts /\ had \subseteq Data

\* What a recorded version promises of the database.
Holds(k, d) ==
    /\ Adds[k] \subseteq d.columns
    /\ k = 2 /\ "aggregate" \in d.data => "reader" \in d.data
    /\ k = 4 => d.key = "three"
    /\ k = 6 => "jid_name" \notin d.data
    /\ k = 7 => "bubble" \notin d.data

\* However many starts are cut off, at whatever statement, and whatever build
\* wrote the database: its version never runs ahead of the steps it stands for,
\* no step waits for a column a later one adds, no receipt or quote is lost, and
\* the daemon runs on a database with every column, no send without a task and
\* no card behind its votes.
UpgradeIsWhole ==
    /\ \A k \in 1 .. disk.version : Holds(k, disk)
    /\ stage = "ladder" /\ step <= Latest => Needs(step, disk) \subseteq disk.columns
    /\ "quote" \in had => "quote" \in disk.data
    /\ {"aggregate", "reader"} \cap had # {} /\ disk.version = Latest => "reader" \in disk.data
    /\ stage = "tally" => disk.version = Latest /\ "sending" \notin disk.data
=============================================================================
