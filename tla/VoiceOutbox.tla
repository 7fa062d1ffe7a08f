------------------------------ MODULE VoiceOutbox ------------------------------
(* The voice-note outbox: files of recordings and their job records           *)
(* (voice_outbox.rs) and the commands that send, retry and discard them        *)
(* (commands.rs).  A command writes its job on the blocking pool; when its     *)
(* deadline passes, its future is dropped and its conflict gate opens, but a   *)
(* write it has handed over still runs.                                        *)
EXTENDS Naturals, FiniteSets

CONSTANTS
    Recordings,
    MaxJobs,        \* MAX_JOBS (8)
    Attempts        \* bound: commands per recording

ASSUME RecordingsAssumption == IsFiniteSet(Recordings)
ASSUME VoiceLimits == MaxJobs \in Nat /\ Attempts \in Nat

VARIABLES
    audio,      \* recordings whose .ogg file exists
    job,        \* the .json files
    command,    \* the send of each recording
    abandoned,  \* writes whose command is gone
    tried,      \* commands begun per recording
    wire,       \* message IDs WhatsApp accepted per recording
    stored,     \* message IDs in history.db per recording
    discarded,  \* history: recordings whose discard was acknowledged
    raced       \* history: recordings a left write reached after a later command

sends == <<wire, stored>>
voiceVars == <<audio, job, command, abandoned, tried, wire, stored, discarded, raced>>

\* The n-th ID generated for a recording is n; 0 is none.
MessageIds == 0..Attempts

\* stale: updated_at is more than ACTIVE_SEND_GRACE_SECONDS ago.
Jobs == [status : {"none", "sending", "failed", "sent"}, id : MessageIds, stale : BOOLEAN]
NoJob == [status |-> "none", id |-> 0, stale |-> FALSE]
Saved(status, id) == [status |-> status, id |-> id, stale |-> FALSE]

Writes == {"prepare", "assign", "fail", "finish"}

\* id: message_id of the job in memory; next: the ID an assignment writes.
Commands == [step : Writes \cup {"idle", "ready", "upload", "wait", "store"},
             id : MessageIds, next : MessageIds]
NoCommand == [step |-> "idle", id |-> 0, next |-> 0]

Left == [write : Writes, id : MessageIds, of : 1..Attempts]

VoiceInit ==
    /\ audio = {} /\ job = [r \in Recordings |-> NoJob]
    /\ command = [r \in Recordings |-> NoCommand] /\ abandoned = [r \in Recordings |-> {}]
    /\ tried = [r \in Recordings |-> 0]
    /\ wire = [r \in Recordings |-> {}] /\ stored = [r \in Recordings |-> {}]
    /\ discarded = {} /\ raced = {}

Held(j) == {r \in Recordings : j[r].status # "none"}

\* Mutation: a send in progress is not recognised.
NeverActive(j) == FALSE

\* is_actively_sending
ActivelySending(j) == j.status = "sending" /\ ~j.stale

-----------------------------------------------------------------------------
(* The directory *)

LeastOf(a, b) == IF a < b THEN a ELSE b

\* What cleanup_inner may leave of the jobs, preserving P: a job without audio
\* goes; stale jobs may have outlived their week; the caps evict jobs that are
\* not being sent.  created_at and the byte cap are abstracted: any may go.
Retained(P) ==
    LET whole == Held(job) \cap audio
        old == {r \in whole \ P : job[r].stale}
        Over(J) == IF Cardinality(J) > MaxJobs THEN Cardinality(J) - MaxJobs ELSE 0
        Evictable(J) == {r \in J \ P : ~ActivelySending(job[r])}
    IN  UNION {LET J == whole \ X
               IN  {J \ E : E \in {F \in SUBSET Evictable(J) :
                       Cardinality(F) = LeastOf(Over(J), Cardinality(Evictable(J)))}} :
               X \in SUBSET old}

\* Recordings no job ever named are removed after a day.
Orphans == audio \ Held(job)

\* cleanup_inner, leaving the jobs J and removing the orphans O.
AudioAfter(J, O) == (audio \ O) \ (Held(job) \ J)
JobsAfter(J) == [r \in Recordings |-> IF r \in J THEN job[r] ELSE NoJob]

\* Qt Multimedia writes a new recording.
Record(r) ==
    /\ r \notin audio /\ job[r] = NoJob /\ tried[r] = 0 /\ r \notin discarded
    /\ audio' = audio \cup {r}
    /\ UNCHANGED <<job, command, abandoned, tried, sends, discarded, raced>>

\* Fifteen minutes pass; a command ends after two.
Age(r) ==
    /\ command[r].step = "idle" /\ job[r].status # "none" /\ ~job[r].stale
    /\ job' = [job EXCEPT ![r].stale = TRUE]
    /\ UNCHANGED <<audio, command, abandoned, tried, sends, discarded, raced>>

-----------------------------------------------------------------------------
(* send_voice_message *)

\* A send or a retry, behind the voice:<recording_id> gate.
SendVoiceMessage(r) ==
    /\ command[r].step = "idle" /\ tried[r] < Attempts
    /\ command' = [command EXCEPT ![r] = [NoCommand EXCEPT !.step = "prepare"]]
    /\ tried' = [tried EXCEPT ![r] = @ + 1]
    /\ UNCHANGED <<audio, job, abandoned, sends, discarded, raced>>

\* prepare under voice_outbox_gate: clean up, read the recording, save its job.
\* Done says whether the job was saved.
Prepared(r, done) ==
    \E J \in Retained({r}), O \in SUBSET Orphans :
        /\ audio' = AudioAfter(J, O)
        /\ done => r \in audio'
        /\ job' = [JobsAfter(J) EXCEPT ![r] = IF done THEN Saved("sending", JobsAfter(J)[r].id)
                                              ELSE @]

Prepare(r) ==
    /\ command[r].step = "prepare"
    /\ \E done \in BOOLEAN :
          /\ Prepared(r, done)
          /\ command' = [command EXCEPT ![r] =
                IF done THEN [step |-> "ready", id |-> job'[r].id, next |-> 0] ELSE NoCommand]
    /\ UNCHANGED <<abandoned, tried, sends, discarded, raced>>

To(r, step) == command' = [command EXCEPT ![r].step = step]

\* The ID of an earlier attempt, or a new one.
DeliveryId(r) == IF command[r].id # 0 THEN command[r].id ELSE tried[r]

\* There is a client, and the delivery ID is on its way to the job.
ChooseDelivery(r) ==
    /\ command[r].step = "ready"
    /\ command' = [command EXCEPT ![r].step = "assign", ![r].next = DeliveryId(r)]
    /\ UNCHANGED <<audio, job, abandoned, tried, sends, discarded, raced>>

\* assign_delivery; a message that is already in the history ends the send.
AssignDelivery(r) ==
    /\ command[r].step = "assign"
    /\ job' = [job EXCEPT ![r] = Saved("sending", command[r].next)]
    /\ command' = [command EXCEPT ![r] =
          [step |-> IF command[r].next \in stored[r] THEN "finish" ELSE "upload",
           id |-> command[r].next, next |-> command[r].next]]
    /\ UNCHANGED <<audio, abandoned, tried, sends, discarded, raced>>

\* send_message reaches WhatsApp.
Transmit(r) ==
    /\ command[r].step = "upload"
    /\ To(r, "wait")
    /\ wire' = [wire EXCEPT ![r] = @ \cup {command[r].id}]
    /\ UNCHANGED <<audio, job, abandoned, tried, stored, discarded, raced>>

\* WhatsApp confirms the ID.
Confirmed(r) ==
    /\ command[r].step = "wait"
    /\ To(r, "store")
    /\ UNCHANGED <<audio, job, abandoned, tried, sends, discarded, raced>>

\* The recording is copied to the media cache and the message stored.
StoreSent(r) ==
    /\ command[r].step = "store"
    /\ To(r, "finish")
    /\ stored' = [stored EXCEPT ![r] = @ \cup {command[r].id}]
    /\ UNCHANGED <<audio, job, abandoned, tried, wire, discarded, raced>>

\* No client, a refused write, a failed upload, a send without confirmation.
FailSend(r) ==
    /\ command[r].step \in {"ready", "assign", "upload", "wait", "store"}
    /\ To(r, "fail")
    /\ UNCHANGED <<audio, job, abandoned, tried, sends, discarded, raced>>

\* mark_failed, of the job in memory.
MarkFailed(r) ==
    /\ command[r].step = "fail"
    /\ job' \in {job, [job EXCEPT ![r] = Saved("failed", command[r].id)]}
    /\ command' = [command EXCEPT ![r] = NoCommand]
    /\ UNCHANGED <<audio, abandoned, tried, sends, discarded, raced>>

\* remove_job_files
FilesRemoved(r) == /\ audio' = audio \ {r}
              /\ job' = [job EXCEPT ![r] = NoJob]

\* finish_sent: the job is saved as sent and its files are removed, or either fails.
FinishSent(r) ==
    /\ command[r].step = "finish"
    /\ \/ FilesRemoved(r)
       \/ /\ job' \in {job, [job EXCEPT ![r] = Saved("sent", command[r].id)]}
          /\ UNCHANGED audio
    /\ command' = [command EXCEPT ![r] = NoCommand]
    /\ UNCHANGED <<abandoned, tried, sends, discarded, raced>>

-----------------------------------------------------------------------------
(* Deadlines, discards and restarts *)

\* The deadline of jobs.rs: the future is dropped, a write it has begun is not.
CommandTimeout(r) ==
    /\ command[r].step # "idle"
    /\ command' = [command EXCEPT ![r] = NoCommand]
    /\ abandoned' = [abandoned EXCEPT ![r] =
          IF command[r].step \in Writes
          THEN @ \cup {[write |-> command[r].step, of |-> tried[r],
                        id |-> IF command[r].step = "assign" THEN command[r].next
                               ELSE command[r].id]}
          ELSE @]
    /\ UNCHANGED <<audio, job, tried, sends, discarded, raced>>

\* A write left behind ends.
LeftWrite(r, w) ==
    /\ w \in abandoned[r]
    /\ \/ w.write = "prepare" /\ \E done \in BOOLEAN : Prepared(r, done)
       \/ /\ w.write = "assign"
          /\ job' = [job EXCEPT ![r] = Saved("sending", w.id)] /\ UNCHANGED audio
       \/ /\ w.write = "fail"
          /\ job' = [job EXCEPT ![r] = Saved("failed", w.id)] /\ UNCHANGED audio
       \/ w.write = "finish" /\ FilesRemoved(r)
    /\ abandoned' = [abandoned EXCEPT ![r] = @ \ {w}]
    /\ raced' = IF w.of < tried[r] \/ r \in discarded THEN raced \cup {r} ELSE raced
    /\ UNCHANGED <<command, tried, sends, discarded>>

\* Mutation: the discard does not wait for the voice:<recording_id> gate.
DiscardUngated(r) ==
    /\ r \in audio \cup Held(job)
    /\ FilesRemoved(r)
    /\ discarded' = discarded \cup {r}
    /\ UNCHANGED <<command, abandoned, tried, sends, raced>>

\* DiscardVoiceRecording, behind both gates.
Discard(r) ==
    /\ command[r].step = "idle" /\ r \in audio \cup Held(job)
    /\ FilesRemoved(r)
    /\ discarded' = discarded \cup {r}
    /\ UNCHANGED <<command, abandoned, tried, sends, raced>>

\* recover_interrupted of one job.
Recovered(j) == IF j.status = "sending" THEN Saved("failed", j.id) ELSE j

\* The daemon stops and starts again: recover_interrupted.
RestartVoice ==
    /\ \E r \in Recordings : command[r].step # "idle" \/ abandoned[r] # {} \/ job[r].status = "sent"
    /\ \E J \in Retained({}), O \in SUBSET Orphans :
          LET K == {r \in J : job[r].status # "sent"}
          IN  /\ audio' = AudioAfter(K, O)
              /\ job' = [r \in Recordings |-> IF r \in K THEN Recovered(job[r]) ELSE NoJob]
    /\ command' = [r \in Recordings |-> NoCommand]
    /\ abandoned' = [r \in Recordings |-> {}]
    /\ UNCHANGED <<tried, sends, discarded, raced>>

\* Nothing happens; a command in progress always has a step.
VoiceRests ==
    /\ \A r \in Recordings : command[r].step = "idle"
    /\ UNCHANGED voiceVars

VoiceNext ==
    \/ VoiceRests
    \/ \E r \in Recordings :
        \/ Record(r) \/ Age(r) \/ SendVoiceMessage(r) \/ Prepare(r)
        \/ ChooseDelivery(r) \/ AssignDelivery(r) \/ Transmit(r) \/ Confirmed(r)
        \/ StoreSent(r) \/ FailSend(r) \/ MarkFailed(r) \/ FinishSent(r)
        \/ CommandTimeout(r) \/ \E w \in Left : LeftWrite(r, w)
        \/ Discard(r) \/ RestartVoice

VoiceSpec == VoiceInit /\ [][VoiceNext]_voiceVars

-----------------------------------------------------------------------------
(* Properties *)

\* Every variable holds a value of its type.
VoiceTypeOK ==
    /\ audio \subseteq Recordings /\ job \in [Recordings -> Jobs]
    /\ command \in [Recordings -> Commands]
    /\ abandoned \in [Recordings -> SUBSET Left]
    /\ tried \in [Recordings -> 0..Attempts]
    /\ wire \in [Recordings -> SUBSET MessageIds]
    /\ stored \in [Recordings -> SUBSET MessageIds]
    /\ discarded \subseteq Recordings /\ raced \subseteq Recordings

\* Every retry reuses one WhatsApp message ID (ARCHITECTURE.md): after failures,
\* deadlines, evictions and restarts in any order, WhatsApp has accepted at most
\* one ID of a recording, so a retry is no second message.  The exception is a
\* recording whose job a left write changed under a later command.
OneDeliveryId ==
    \A r \in Recordings \ raced : Cardinality(wire[r]) <= 1

\* The caps another recording's preparation applies never take the files of a
\* send in progress, which still needs them for the cache and for its retry.
ActiveSendKeepsItsFiles ==
    \A r \in Recordings \ raced :
        command[r].step \notin {"idle", "prepare"} => r \in audio /\ job[r].status # "none"

\* A discarded recording does not return to the outbox: no later write of a
\* command brings its job back, unless that write was left behind.
DiscardedStaysGone ==
    \A r \in discarded \ raced : job[r].status = "none" /\ r \notin audio

\* A recording reaches WhatsApp under one ID at most, keeps its files while it is
\* sent, and leaves the outbox for good when it is discarded.
RecordingsAreFinal == OneDeliveryId /\ DiscardedStaysGone /\ ActiveSendKeepsItsFiles
=============================================================================
