----------------------------- MODULE Shell_proofs -----------------------------
(* Theorems about the work of a session and what reaches the shell: the        *)
(* recovery of messages, the work a generation leaves behind and the way from  *)
(* a change of the database to the shell's views, each for every value of its  *)
(* constants.                                                                  *)
EXTENDS GenerationWork, MessageRecovery, Publication, FiniteSetTheorems,
        SequenceTheorems, TLAPS

-----------------------------------------------------------------------------
(* Asking the phone for a chat's history (commands.rs) *)

AttemptType ==
    [key : Wants, client : Nat, gen : Nat, at : {"exact", "history", "asked", "failed"},
     took : BOOLEAN, number : Nat]

\* What the chat holds is of no account here.
RecoveryTypeOK ==
    /\ clockAt \in Nat /\ held \in Nat
    /\ requested \in SUBSET Wants
    /\ reading \in [Readers -> [at : {"rests", "look", "mark"}, key : Wants, client : Nat]]
    /\ attempts \in SUBSET AttemptType /\ IsFiniteSet(attempts)
    /\ accepted \in [Wants -> Nat]
    /\ outlived \in SUBSET Wants /\ erased \in SUBSET Wants

\* One attempt for a key, and only under its mark; a request was accepted for it
\* before only if that was forgotten with its session.
AskedOnce(k) ==
    /\ \A a, b \in attempts : a.key = k /\ b.key = k => a = b
    /\ \A a \in attempts : a.key = k =>
          /\ k \in requested
          /\ a.took => accepted[k] > 0
          /\ a.took \/ accepted[k] = 0 \/ k \in outlived
          /\ a.at = "failed" /\ a.took => k \in outlived
    /\ accepted[k] > 1 => k \in outlived
    /\ accepted[k] > 0 => k \in requested \/ k \in outlived
    /\ k \in requested => accepted[k] > 0 \/ \E a \in attempts : a.key = k

RecoveryInv == RecoveryTypeOK /\ \A k \in Wants \ erased : AskedOnce(k)

LEMMA RecoveryStarts == RecoveryInit => RecoveryInv
<1> SUFFICES ASSUME RecoveryInit PROVE RecoveryInv
  OBVIOUS
<1>1. IsFiniteSet(attempts)
  BY FS_EmptySet DEF RecoveryInit
<1>2. RecoveryTypeOK
  BY <1>1 DEF RecoveryInit, RecoveryTypeOK, NotReading, Wants
<1>3. \A k \in Wants : AskedOnce(k)
  BY DEF RecoveryInit, AskedOnce
<1> QED
  BY <1>2, <1>3 DEF RecoveryInv

(* Nothing an attempt is judged by has changed. *)
RecoveryFrame ==
    UNCHANGED <<requested, attempts, accepted, outlived, erased>>

LEMMA FrameAsksOnce ==
    ASSUME RecoveryInv, RecoveryFrame, clockAt' \in Nat, held' \in Nat,
           reading' \in [Readers -> [at : {"rests", "look", "mark"}, key : Wants, client : Nat]]
    PROVE  RecoveryInv'
<1>1. RecoveryTypeOK'
  BY DEF RecoveryInv, RecoveryTypeOK, RecoveryFrame
<1>2. \A k \in Wants \ erased' : AskedOnce(k)'
  BY DEF RecoveryInv, AskedOnce, RecoveryFrame
<1> QED
  BY <1>1, <1>2 DEF RecoveryInv

LEMMA FurtherReads ==
    ASSUME RecoveryTypeOK, NEW r \in Readers
    PROVE  Further(r) \in [Readers -> [at : {"rests", "look", "mark"}, key : Wants, client : Nat]]
  BY DEF RecoveryTypeOK, Further, NotReading, Wants

LEMMA ReadersAskOnce ==
    ASSUME RecoveryInv, NEW r \in Readers, OpenList(r) \/ Look(r)
    PROVE  RecoveryInv'
<1> USE DEF RecoveryInv, RecoveryTypeOK
<1>1. RecoveryFrame /\ UNCHANGED <<clockAt, held>>
  BY DEF OpenList, Look, RecoveryFrame
<1>2. reading' \in [Readers -> [at : {"rests", "look", "mark"}, key : Wants, client : Nat]]
  <2>1. CASE OpenList(r)
    BY <2>1 DEF OpenList, NotReading, Wants
  <2>2. CASE Look(r)
    BY ZenonT(90), <2>2, FurtherReads DEF Look
  <2> QED
    BY <2>1, <2>2
<1> QED
  BY <1>1, <1>2, FrameAsksOnce

LEMMA SessionAsksOnce ==
    ASSUME RecoveryInv,
           \/ \E item \in Items : Arrive(item)
           \/ \E item \in inChat : PhoneAnswers(item)
           \/ EndSession \/ NextSession
    PROVE  RecoveryInv'
<1> USE DEF RecoveryInv, RecoveryTypeOK
<1>1. RecoveryFrame /\ UNCHANGED reading
  BY DEF Arrive, PhoneAnswers, EndSession, NextSession, RecoveryFrame
<1>2. clockAt' \in Nat /\ held' \in Nat
  BY DEF Arrive, PhoneAnswers, EndSession, NextSession
<1> QED
  BY <1>1, <1>2, FrameAsksOnce

(* Mark inserts the key, and an attempt if the key is new. *)
LEMMA MarkAsksOnce ==
    ASSUME RecoveryInv, NEW r \in Readers, Mark(r)
    PROVE  RecoveryInv'
<1> USE DEF RecoveryInv, RecoveryTypeOK
<1>1. PICK m : m = reading[r].key
  OBVIOUS
<1>2. m \in Wants
  BY <1>1
<1>3. PICK a : a = Attempt(m, reading[r].client)
  OBVIOUS
<1>4. PICK n : n = Cardinality({b \in attempts : b.key = m /\ b.client = reading[r].client})
  OBVIOUS
<1>5. n \in Nat
  <2>1. IsFiniteSet({b \in attempts : b.key = m /\ b.client = reading[r].client})
    BY FS_Subset
  <2> QED
    BY <1>4, <2>1, FS_CardinalityType
<1>6. a = [key |-> m, client |-> reading[r].client, gen |-> clockAt, at |-> "exact",
           took |-> FALSE, number |-> n]
  BY <1>3, <1>4 DEF Attempt
<1>7. a \in AttemptType
  BY <1>2, <1>5, <1>6 DEF AttemptType
<1>8. requested' = requested \cup {m} /\ UNCHANGED <<clockAt, held, accepted, outlived, erased>>
  BY <1>1 DEF Mark
<1>9. attempts' = IF m \in requested THEN attempts ELSE attempts \cup {a}
  BY <1>1, <1>3 DEF Mark, MarkOnce
<1>10. RecoveryTypeOK'
  <2>1. IsFiniteSet(attempts')
    BY <1>9, FS_AddElement
  <2>2. reading' \in [Readers -> [at : {"rests", "look", "mark"}, key : Wants, client : Nat]]
    BY FurtherReads DEF Mark
  <2> QED
    BY <2>1, <2>2, <1>2, <1>7, <1>8, <1>9
<1>11. ASSUME NEW k \in Wants \ erased PROVE AskedOnce(k)'
  <2>1. AskedOnce(k)
    OBVIOUS
  <2>2. CASE k # m \/ m \in requested
    BY <1>6, <1>8, <1>9, <2>1, <2>2 DEF AskedOnce
  <2>3. CASE k = m /\ m \notin requested
    <3>1. \A b \in attempts : b.key # k
      BY <2>1, <2>3 DEF AskedOnce
    <3>2. a.key = k /\ a.took = FALSE /\ a.at = "exact" /\ a \in attempts'
      BY <1>6, <1>9, <2>3
    <3>3. accepted[k] = 0 \/ k \in outlived
      BY <2>1, <2>3 DEF AskedOnce
    <3> QED
      BY <1>8, <1>9, <2>1, <2>3, <3>1, <3>2, <3>3 DEF AskedOnce
  <2> QED
    BY <2>2, <2>3
<1> QED
  BY <1>8, <1>10, <1>11

(* An attempt goes on as another record with its key. *)
LEMMA AttemptProceeds ==
    ASSUME RecoveryTypeOK, NEW a \in attempts, NEW b \in AttemptType,
           attempts' = (attempts \ {a}) \cup {b}
    PROVE  attempts' \in SUBSET AttemptType /\ IsFiniteSet(attempts')
<1>1. IsFiniteSet(attempts \ {a})
  BY FS_RemoveElement DEF RecoveryTypeOK
<1> QED
  BY <1>1, FS_AddElement DEF RecoveryTypeOK

LEMMA AskPhoneAsksOnce ==
    ASSUME RecoveryInv, NEW a \in attempts, AskPhone(a)
    PROVE  RecoveryInv'
<1> USE DEF RecoveryInv
<1>1. PICK ok \in BOOLEAN :
          /\ Proceeds(a, [a EXCEPT !.at = IF a.at = "exact" THEN "history" ELSE "asked",
                                   !.took = a.took \/ ok])
          /\ accepted' = IF ok /\ ~a.took THEN [accepted EXCEPT ![a.key] = @ + 1] ELSE accepted
  BY DEF AskPhone
<1>2. PICK b : b = [a EXCEPT !.at = IF a.at = "exact" THEN "history" ELSE "asked",
                             !.took = a.took \/ ok]
  OBVIOUS
<1>3. a \in AttemptType /\ a.key \in Wants /\ a.took \in BOOLEAN
  BY DEF RecoveryTypeOK, AttemptType
<1>4. /\ b \in AttemptType /\ b.key = a.key
      /\ b.at # "failed" /\ b.took = (a.took \/ ok)
  BY <1>2, <1>3 DEF AttemptType
<1>5. attempts' = (attempts \ {a}) \cup {b}
  BY <1>1, <1>2 DEF Proceeds
<1>6. UNCHANGED <<clockAt, held, requested, reading, outlived, erased>>
  BY DEF AskPhone
<1>7. RecoveryTypeOK'
  <2>1. accepted' \in [Wants -> Nat]
    BY <1>1, <1>3 DEF RecoveryTypeOK
  <2> QED
    BY <2>1, <1>4, <1>5, <1>6, AttemptProceeds DEF RecoveryTypeOK
<1>8. ASSUME NEW k \in Wants \ erased PROVE AskedOnce(k)'
  <2>1. AskedOnce(k)
    OBVIOUS
  <2>2. accepted[k] \in Nat
    BY DEF RecoveryTypeOK
  <2>3. CASE k # a.key
    <3>1. accepted'[k] = accepted[k]
      BY <1>1, <1>3, <2>3 DEF RecoveryTypeOK
    <3> QED
      BY <1>4, <1>5, <1>6, <2>1, <2>3, <3>1 DEF AskedOnce
  <2>4. CASE k = a.key
    <3>1. accepted'[k] = IF ok /\ ~a.took THEN accepted[k] + 1 ELSE accepted[k]
      BY <1>1, <1>3, <2>4 DEF RecoveryTypeOK
    <3>2. \A c \in attempts' : c.key = k => c = b
      BY <1>5, <2>1, <2>4 DEF AskedOnce
    <3>3. /\ k \in requested
          /\ a.took => accepted[k] > 0
          /\ a.took \/ accepted[k] = 0 \/ k \in outlived
          /\ accepted[k] > 1 => k \in outlived
      BY <2>1, <2>4 DEF AskedOnce
    <3>4. b.took => accepted'[k] > 0
      BY <1>3, <1>4, <2>2, <3>1, <3>3
    <3>5. b.took \/ accepted'[k] = 0 \/ k \in outlived
      BY <1>3, <1>4, <2>2, <3>1, <3>3
    <3>6. accepted'[k] > 1 => k \in outlived
      BY <1>3, <1>4, <2>2, <3>1, <3>3
    <3> QED
      BY <1>4, <1>5, <1>6, <2>4, <3>2, <3>3, <3>4, <3>5, <3>6 DEF AskedOnce
  <2> QED
    BY <2>3, <2>4
<1> QED
  BY <1>6, <1>7, <1>8

LEMMA JudgeAsksOnce ==
    ASSUME RecoveryInv, NEW a \in attempts, Judge(a)
    PROVE  RecoveryInv'
<1> USE DEF RecoveryInv
<1>1. a \in AttemptType /\ a.key \in Wants /\ a.took \in BOOLEAN
  BY DEF RecoveryTypeOK, AttemptType
<1>2. UNCHANGED <<clockAt, held, requested, reading, accepted, erased>>
  BY DEF Judge
<1>3. CASE a.took /\ a.gen = clockAt
  <2>1. attempts' = attempts \ {a} /\ UNCHANGED outlived
    BY <1>3 DEF Judge
  <2>2. RecoveryTypeOK'
    <3>1. IsFiniteSet(attempts')
      BY <2>1, FS_RemoveElement DEF RecoveryTypeOK
    <3> QED
      BY <1>2, <2>1, <3>1 DEF RecoveryTypeOK
  <2>3. ASSUME NEW k \in Wants \ erased PROVE AskedOnce(k)'
    <3>1. AskedOnce(k)
      OBVIOUS
    <3>2. k = a.key => accepted[k] > 0
      BY <1>3, <3>1 DEF AskedOnce
    <3> QED
      BY <1>2, <2>1, <3>1, <3>2 DEF AskedOnce
  <2> QED
    BY <1>2, <2>2, <2>3
<1>4. CASE ~(a.took /\ a.gen = clockAt)
  <2>1. PICK b : b = [a EXCEPT !.at = "failed"]
    OBVIOUS
  <2>2. b \in AttemptType /\ b.key = a.key /\ b.at = "failed" /\ b.took = a.took
    BY <1>1, <2>1 DEF AttemptType
  <2>3. /\ attempts' = (attempts \ {a}) \cup {b}
        /\ outlived' = IF a.took THEN outlived \cup {a.key} ELSE outlived
    BY <1>4, <2>1 DEF Judge, Proceeds
  <2>4. RecoveryTypeOK'
    BY <1>1, <1>2, <2>2, <2>3, AttemptProceeds DEF RecoveryTypeOK
  <2>5. ASSUME NEW k \in Wants \ erased PROVE AskedOnce(k)'
    <3>1. AskedOnce(k)
      OBVIOUS
    <3>2. CASE k # a.key
      BY <1>2, <2>2, <2>3, <3>1, <3>2 DEF AskedOnce
    <3>3. CASE k = a.key
      <4>1. \A c \in attempts' : c.key = k => c = b
        BY <2>3, <3>1, <3>3 DEF AskedOnce
      <4>2. /\ k \in requested
            /\ a.took => accepted[k] > 0 /\ k \in outlived'
            /\ a.took \/ accepted[k] = 0 \/ k \in outlived
        BY <2>3, <3>1, <3>3 DEF AskedOnce
      <4> QED
        BY <1>2, <2>2, <2>3, <3>1, <3>3, <4>1, <4>2 DEF AskedOnce
    <3> QED
      BY <3>2, <3>3
  <2> QED
    BY <1>2, <2>4, <2>5
<1> QED
  BY <1>3, <1>4

LEMMA RearmAsksOnce ==
    ASSUME RecoveryInv, NEW a \in attempts, Rearm(a)
    PROVE  RecoveryInv'
<1> USE DEF RecoveryInv
<1>1. /\ attempts' = attempts \ {a} /\ requested' = requested \ {a.key}
      /\ UNCHANGED <<clockAt, held, reading, accepted, outlived, erased>>
  BY DEF Rearm
<1>2. RecoveryTypeOK'
  <2>1. IsFiniteSet(attempts')
    BY <1>1, FS_RemoveElement DEF RecoveryTypeOK
  <2> QED
    BY <1>1, <2>1 DEF RecoveryTypeOK
<1>3. ASSUME NEW k \in Wants \ erased PROVE AskedOnce(k)'
  <2>1. AskedOnce(k)
    OBVIOUS
  <2>2. CASE k # a.key
    BY <1>1, <2>1, <2>2 DEF AskedOnce
  <2>3. CASE k = a.key
    <3>1. \A b \in attempts' : b.key # k
      BY <1>1, <2>1, <2>3 DEF AskedOnce
    <3>2. accepted[k] \in Nat /\ (accepted[k] = 0 \/ k \in outlived)
      BY <2>1, <2>3 DEF AskedOnce, Rearm, RecoveryTypeOK
    <3> QED
      BY <1>1, <2>1, <2>3, <3>1, <3>2 DEF AskedOnce
  <2> QED
    BY <2>2, <2>3
<1> QED
  BY <1>1, <1>2, <1>3

LEMMA DropAsksOnce ==
    ASSUME RecoveryInv, NEW out \in BOOLEAN, DropSession(out)
    PROVE  RecoveryInv'
<1> USE DEF RecoveryInv
<1>1. held' = 0 /\ UNCHANGED <<clockAt, reading, attempts>>
  BY DEF DropSession
<1>2. CASE out
  <2>1. /\ requested' = {} /\ accepted' = [k \in Wants |-> 0] /\ outlived' = {}
        /\ erased' = erased \cup {a.key : a \in attempts}
    BY <1>2 DEF DropSession
  <2>2. RecoveryTypeOK'
    BY <1>1, <2>1 DEF RecoveryTypeOK, AttemptType
  <2>3. ASSUME NEW k \in Wants \ erased' PROVE AskedOnce(k)'
    <3>1. \A a \in attempts : a.key # k
      BY <2>1
    <3> QED
      BY <1>1, <2>1, <3>1 DEF AskedOnce
  <2> QED
    BY <2>2, <2>3
<1>3. CASE ~out
  <2>1. RecoveryFrame
    BY <1>1, <1>3 DEF DropSession, RecoveryFrame
  <2> QED
    BY <1>1, <2>1, FrameAsksOnce DEF RecoveryTypeOK
<1> QED
  BY <1>2, <1>3

LEMMA RecoveryInvariant == RecoverySpec => []RecoveryInv
<1>1. RecoveryInit => RecoveryInv
  BY RecoveryStarts
<1>2. RecoveryInv /\ [RecoveryNext]_recoveryVars => RecoveryInv'
  <2> SUFFICES ASSUME RecoveryInv, [RecoveryNext]_recoveryVars PROVE RecoveryInv'
    OBVIOUS
  <2>1. CASE \E r \in Readers : OpenList(r) \/ Look(r)
    BY <2>1, ReadersAskOnce
  <2>2. CASE \E r \in Readers : Mark(r)
    BY <2>2, MarkAsksOnce
  <2>3. CASE \E a \in attempts : AskPhone(a)
    BY <2>3, AskPhoneAsksOnce
  <2>4. CASE \E a \in attempts : Judge(a)
    BY <2>4, JudgeAsksOnce
  <2>5. CASE \E a \in attempts : Rearm(a)
    BY <2>5, RearmAsksOnce
  <2>6. CASE \/ \E item \in Items : Arrive(item)
             \/ \E item \in inChat : PhoneAnswers(item)
             \/ EndSession \/ NextSession
    BY <2>6, SessionAsksOnce
  <2>7. CASE \E out \in BOOLEAN : DropSession(out)
    BY <2>7, DropAsksOnce
  <2>8. CASE UNCHANGED recoveryVars
    <3>1. RecoveryFrame /\ UNCHANGED <<clockAt, held, reading>>
      BY <2>8 DEF recoveryVars, RecoveryFrame
    <3> QED
      BY <3>1, FrameAsksOnce DEF RecoveryInv, RecoveryTypeOK
  <2> QED
    BY <2>1, <2>2, <2>3, <2>4, <2>5, <2>6, <2>7, <2>8 DEF RecoveryNext
<1> QED
  BY <1>1, <1>2, PTL DEF RecoverySpec

\* The phone is asked once for what a chat lacks: two attempts for a key run only
\* after a wipe, a second request is accepted only if the first one's session had
\* ended, and a mark without an attempt is one of a success (GetMessages,
\* schedule_message_recovery, finish_recovery_attempt), for any readers, sessions
\* and numbers of steps.
THEOREM AsksPhoneOnce == RecoverySpec => []RecoveryIsAskedOnce
<1>1. RecoveryInv => RecoveryIsAskedOnce
  <2> SUFFICES ASSUME RecoveryInv, NEW k \in Wants \ erased
               PROVE  /\ Cardinality({a \in attempts : a.key = k}) <= 1
                      /\ accepted[k] > 1 => k \in outlived
                      /\ k \in requested => accepted[k] > 0 \/ \E a \in attempts : a.key = k
    BY DEF RecoveryIsAskedOnce
  <2>1. AskedOnce(k)
    BY DEF RecoveryInv
  <2>2. Cardinality({a \in attempts : a.key = k}) <= 1
    <3>1. CASE \A a \in attempts : a.key # k
      <4>1. {a \in attempts : a.key = k} = {}
        BY <3>1
      <4> QED
        BY <4>1, FS_EmptySet
    <3>2. CASE \E a \in attempts : a.key = k
      <4>1. PICK b \in attempts : b.key = k
        BY <3>2
      <4>2. {a \in attempts : a.key = k} = {b}
        BY <2>1, <4>1 DEF AskedOnce
      <4> QED
        <5>1. Cardinality({b}) = 1
          BY FS_Singleton
        <5> QED
          BY <4>2, <5>1
    <3> QED
      BY <3>1, <3>2
  <2> QED
    BY <2>1, <2>2 DEF AskedOnce
<1> QED
  BY <1>1, RecoveryInvariant, PTL


-----------------------------------------------------------------------------
(* The work a session generation leaves behind (commands.rs, main.rs) *)

TaskType ==
    [kind : {"none", "history", "contact", "connected", "names", "documents"},
     gen : Nat, acct : Nat,
     at : {"done", "scan", "begin", "settle", "alias", "ingest", "avatars", "spawn", "ask",
           "transfer", "select", "request", "book", "marker"},
     awake : BOOLEAN, registered : BOOLEAN, doomed : BOOLEAN, loose : BOOLEAN, left : Nat]

KeptType == [what : Rows \cup Files \cup Markers, acct : Nat, loose : BOOLEAN]

WorkTypeOK ==
    /\ loop \in LoopSteps /\ begun \in Nat \ {0} /\ logout \in BOOLEAN /\ account \in Nat
    /\ current = IF loop = "running" THEN begun ELSE 0
    /\ tasks \in [Tasks -> TaskType] /\ kept \in SUBSET KeptType /\ delivered \in Nat

\* In generation g, the loop at l, account a, with a conversation stored or not
\* ("has"): a task is loose just when abort_all has come by, and one that is not
\* works for the present account; it asks for history because there is a chat.
TaskFits(task, g, l, a, has) ==
    \/ task = NoTask
    \/ /\ task.gen <= g /\ task.acct <= a
       /\ task.loose <=> (task.gen < g \/ l \notin {"running", "retired"})
       /\ task.loose \/ task.acct = a
       /\ task.loose \/ task.at # "request" \/ has

\* What is kept of another account is loose, or will be removed yet.
KeptFits(x, l, a, has) ==
    /\ x.acct <= a
    /\ \/ x.acct = a
       \/ x.loose
       \/ l = "files" /\ x.what \in Files \cup Markers
       \/ l = "markers" /\ x.what \in Markers
    /\ x.what = "contact_history" /\ x.acct = a /\ ~x.loose => has

WorkInv ==
    /\ WorkTypeOK
    /\ \A t \in Tasks : TaskFits(tasks[t], begun, loop, account, Holds("conversation"))
    /\ \A x \in kept : KeptFits(x, loop, account, Holds("conversation"))

LEMMA NoTaskType == NoTask \in TaskType
  BY DEF NoTask, TaskType

LEMMA WorkStarts == WorkInit => WorkInv
<1> SUFFICES ASSUME WorkInit PROVE WorkInv
  OBVIOUS
<1>1. WorkTypeOK
  <2>1. tasks \in [Tasks -> TaskType]
    BY NoTaskType DEF WorkInit
  <2>2. loop \in LoopSteps /\ current = IF loop = "running" THEN begun ELSE 0
    BY DEF WorkInit, LoopSteps
  <2>3. begun \in Nat \ {0} /\ account \in Nat /\ delivered \in Nat /\ kept \in SUBSET KeptType
    BY DEF WorkInit
  <2>4. logout \in BOOLEAN
    BY DEF WorkInit
  <2> QED
    BY <2>1, <2>2, <2>3, <2>4 DEF WorkTypeOK
<1>2. \A t \in Tasks : TaskFits(tasks[t], begun, loop, account, Holds("conversation"))
  BY DEF WorkInit, TaskFits
<1> QED
  BY <1>1, <1>2 DEF WorkInv, WorkInit

(* What becomes of a task at the end of a step. *)
LEMMA EndedFits ==
    ASSUME NEW task \in TaskType, NEW g, NEW l, NEW a, NEW has,
           TaskFits(task, g, l, a, has)
    PROVE  Ended(task) \in TaskType /\ TaskFits(Ended(task), g, l, a, has)
<1>1. CASE task = NoTask
  BY <1>1, NoTaskType DEF Ended, TaskFits, NoTask
<1>2. CASE task.left = 0
  BY <1>2, NoTaskType DEF Ended, TaskFits
<1>3. CASE task # NoTask /\ task.left # 0
  <2>1. PICK e : e = [task EXCEPT !.at = "done", !.awake = FALSE]
    OBVIOUS
  <2>2. Ended(task) = e
    BY <1>3, <2>1 DEF Ended
  <2>3. e \in TaskType /\ e.gen = task.gen /\ e.acct = task.acct /\ e.loose = task.loose
        /\ e.at = "done"
    BY <2>1 DEF TaskType
  <2> QED
    BY <1>3, <2>2, <2>3 DEF TaskFits
<1> QED
  BY <1>1, <1>2, <1>3

LEMMA AwaitingFits ==
    ASSUME NEW task \in TaskType, NEW g, NEW l, NEW a, NEW has, NEW at,
           at \in {"alias", "ingest", "avatars", "request"},
           task # NoTask, TaskFits(task, g, l, a, has), at = "request" => has
    PROVE  Awaiting(task, at) \in TaskType /\ TaskFits(Awaiting(task, at), g, l, a, has)
<1>1. CASE task.doomed
  BY <1>1, EndedFits DEF Awaiting
<1>2. CASE ~task.doomed
  <2>1. PICK e : e = [task EXCEPT !.at = at, !.awake = FALSE]
    OBVIOUS
  <2>2. Awaiting(task, at) = e
    BY <1>2, <2>1 DEF Awaiting
  <2>3. e \in TaskType /\ e.gen = task.gen /\ e.acct = task.acct /\ e.loose = task.loose
        /\ e.at = at
    BY <2>1 DEF TaskType
  <2> QED
    BY <2>2, <2>3 DEF TaskFits
<1> QED
  BY <1>1, <1>2

(* A task spawned by one that fits, or by a callback of the current generation. *)
LEMMA SpawnedFits ==
    ASSUME WorkTypeOK, NEW kind, NEW at, NEW g \in Nat, NEW a \in Nat, NEW has,
           kind \in {"history", "contact", "connected", "names", "documents"},
           at \in {"scan", "begin", "settle", "ask", "transfer"},
           g <= begun, a <= account, WasAborted(g) \/ a = account
    PROVE  /\ Spawned(kind, at, g, a) \in TaskType
           /\ TaskFits(Spawned(kind, at, g, a), begun, loop, account, has)
<1>1. PICK b : b = WasAborted(g)
  OBVIOUS
<1>2. b \in BOOLEAN /\ (b <=> (g < begun \/ loop \notin {"running", "retired"}))
  BY <1>1 DEF WasAborted
<1>3. PICK s : s = Spawned(kind, at, g, a)
  OBVIOUS
<1>4. s = [NoTask EXCEPT !.kind = kind, !.gen = g, !.acct = a, !.at = at, !.loose = b]
  BY <1>1, <1>3 DEF Spawned
<1>5. s = [kind |-> kind, gen |-> g, acct |-> a, at |-> at, awake |-> FALSE,
           registered |-> FALSE, doomed |-> FALSE, loose |-> b, left |-> 0]
  BY <1>4 DEF NoTask
<1>6. s \in TaskType
  BY <1>2, <1>5 DEF TaskType
<1>7. TaskFits(s, begun, loop, account, has)
  BY <1>1, <1>2, <1>5 DEF TaskFits
<1> QED
  BY <1>3, <1>6, <1>7

(* A task that runs is of a generation and an account. *)
LEMMA RunningFits ==
    ASSUME WorkInv, NEW t \in Tasks, tasks[t] # NoTask
    PROVE  /\ tasks[t] \in TaskType
           /\ tasks[t].gen \in Nat /\ tasks[t].acct \in Nat /\ tasks[t].loose \in BOOLEAN
           /\ tasks[t].gen <= begun /\ tasks[t].acct <= account
           /\ tasks[t].loose <=> WasAborted(tasks[t].gen)
           /\ tasks[t].loose \/ tasks[t].acct = account
           /\ tasks[t].loose \/ tasks[t].at # "request" \/ Holds("conversation")
<1>1. tasks[t] \in TaskType
  BY DEF WorkInv, WorkTypeOK
<1>2. TaskFits(tasks[t], begun, loop, account, Holds("conversation"))
  BY DEF WorkInv
<1> QED
  BY <1>1, <1>2 DEF TaskFits, TaskType, WasAborted

(* A step of the tasks: they and what is kept fit, in the present session. *)
LEMMA TasksMove ==
    ASSUME WorkInv, UNCHANGED Session, delivered' \in Nat,
           tasks' \in [Tasks -> TaskType],
           \A t \in Tasks :
              \/ tasks'[t] = tasks[t]
              \/ TaskFits(tasks'[t], begun, loop, account, Holds("conversation")),
           kept \subseteq kept',
           \A x \in kept' \ kept : x \in KeptType
                                   /\ KeptFits(x, loop, account, Holds("conversation"))
    PROVE  WorkInv'
<1>1. UNCHANGED <<loop, begun, current, logout, account>>
  BY DEF Session
<1>2. WorkTypeOK'
  BY <1>1 DEF WorkInv, WorkTypeOK
<1>3. PICK h, i : h = Holds("conversation") /\ i = Holds("conversation")'
  OBVIOUS
<1>4. h => i
  BY <1>3 DEF Holds
<1>5. ASSUME NEW t \in Tasks PROVE TaskFits(tasks[t], begun, loop, account, Holds("conversation"))'
  <2>1. TaskFits(tasks'[t], begun, loop, account, h)
    BY <1>3 DEF WorkInv
  <2>2. TaskFits(tasks'[t], begun, loop, account, i)
    BY <1>4, <2>1 DEF TaskFits
  <2> QED
    BY <1>1, <1>3, <2>2
<1>6. ASSUME NEW x \in kept' PROVE KeptFits(x, loop, account, Holds("conversation"))'
  <2>1. KeptFits(x, loop, account, h)
    BY <1>3 DEF WorkInv
  <2>2. KeptFits(x, loop, account, i)
    BY <1>4, <2>1 DEF KeptFits
  <2> QED
    BY <1>1, <1>3, <2>2
<1> QED
  BY <1>2, <1>5, <1>6 DEF WorkInv

(* One slot changes and nothing is written. *)
LEMMA SlotMoves ==
    ASSUME WorkInv, NEW t \in Tasks, NEW task \in TaskType,
           TaskFits(task, begun, loop, account, Holds("conversation")),
           Becomes(t, task), UNCHANGED Session, UNCHANGED kept, delivered' \in Nat
    PROVE  WorkInv'
<1>1. tasks' \in [Tasks -> TaskType]
  BY DEF Becomes, WorkInv, WorkTypeOK
<1>2. \A u \in Tasks : tasks'[u] = IF u = t THEN task ELSE tasks[u]
  BY DEF Becomes, WorkInv, WorkTypeOK
<1> QED
  BY <1>1, <1>2, TasksMove

(* One slot changes, and what its task found is written. *)
LEMMA SlotStores ==
    ASSUME WorkInv, NEW t \in Tasks, NEW task \in TaskType, NEW what,
           what \in Rows \cup Files \cup Markers,
           TaskFits(task, begun, loop, account, Holds("conversation")),
           what = "contact_history" => tasks[t].loose \/ Holds("conversation"),
           tasks[t] # NoTask,
           Becomes(t, task), UNCHANGED Session, Stores(t, what), delivered' \in Nat
    PROVE  WorkInv'
<1>1. tasks' \in [Tasks -> TaskType]
  BY DEF Becomes, WorkInv, WorkTypeOK
<1>2. \A u \in Tasks : tasks'[u] = IF u = t THEN task ELSE tasks[u]
  BY DEF Becomes, WorkInv, WorkTypeOK
<1>3. PICK y : y = [what |-> what, acct |-> tasks[t].acct, loose |-> tasks[t].loose]
  OBVIOUS
<1>4. kept' = kept \cup {y}
  BY <1>3 DEF Stores
<1>5. y \in KeptType
  BY <1>3, RunningFits DEF KeptType
<1>6. KeptFits(y, loop, account, Holds("conversation"))
  BY <1>3, RunningFits DEF KeptFits
<1> QED
  BY <1>1, <1>2, <1>4, <1>5, <1>6, TasksMove

-----------------------------------------------------------------------------
(* Callbacks and jobs *)

LEMMA CallbackFits ==
    ASSUME WorkInv, NEW t \in Tasks, NEW kind, NEW at,
           <<kind, at>> \in {<<"history", "scan">>, <<"contact", "begin">>, <<"connected", "settle">>},
           Callback(t, kind, at)
    PROVE  WorkInv'
<1>1. /\ current # 0 /\ Becomes(t, Spawned(kind, at, current, account))
      /\ delivered' = delivered + 1 /\ UNCHANGED Session /\ UNCHANGED kept
  BY DEF Callback
<1>2. WorkTypeOK /\ delivered' \in Nat /\ account \in Nat /\ begun \in Nat
  BY <1>1 DEF WorkInv, WorkTypeOK
<1>3. current = begun
  BY <1>1, <1>2 DEF WorkTypeOK
<1>4. /\ kind \in {"history", "contact", "connected", "names", "documents"}
      /\ at \in {"scan", "begin", "settle", "ask", "transfer"}
  OBVIOUS
<1>5. PICK s : s = Spawned(kind, at, current, account)
  OBVIOUS
<1>6. s \in TaskType /\ TaskFits(s, begun, loop, account, Holds("conversation"))
  BY <1>2, <1>3, <1>4, <1>5, SpawnedFits
<1> QED
  BY <1>1, <1>2, <1>5, <1>6, SlotMoves

LEMMA RegisterFits ==
    ASSUME WorkInv, NEW t \in Tasks, Register(t) \/ Wake(t)
    PROVE  WorkInv'
<1>1. /\ UNCHANGED Session /\ UNCHANGED kept /\ UNCHANGED delivered
      /\ tasks[t] # NoTask
  BY DEF Register, Wake, Free, NoTask
<1>2. delivered' \in Nat
  BY <1>1 DEF WorkInv, WorkTypeOK
<1>3. tasks[t] \in TaskType
  BY DEF WorkInv, WorkTypeOK
<1>4. PICK e \in TaskType : /\ Becomes(t, e)
                            /\ e.gen = tasks[t].gen /\ e.acct = tasks[t].acct
                            /\ e.loose = tasks[t].loose /\ e.at = tasks[t].at
  <2>1. CASE Register(t)
    <3>1. PICK e : e = [tasks[t] EXCEPT !.registered = TRUE]
      OBVIOUS
    <3>2. Becomes(t, e)
      BY <2>1, <3>1 DEF Register
    <3>3. /\ e \in TaskType /\ e.gen = tasks[t].gen /\ e.acct = tasks[t].acct
          /\ e.loose = tasks[t].loose /\ e.at = tasks[t].at
      BY <1>3, <3>1 DEF TaskType
    <3> QED
      BY <3>2, <3>3
  <2>2. CASE Wake(t)
    <3>1. PICK e : e = [tasks[t] EXCEPT !.awake = TRUE]
      OBVIOUS
    <3>2. Becomes(t, e)
      BY <2>2, <3>1 DEF Wake
    <3>3. /\ e \in TaskType /\ e.gen = tasks[t].gen /\ e.acct = tasks[t].acct
          /\ e.loose = tasks[t].loose /\ e.at = tasks[t].at
      BY <1>3, <3>1 DEF TaskType
    <3> QED
      BY <3>2, <3>3
  <2> QED
    BY <2>1, <2>2
<1>5. TaskFits(e, begun, loop, account, Holds("conversation"))
  BY <1>1, <1>4 DEF WorkInv, TaskFits
<1> QED
  BY <1>1, <1>2, <1>4, <1>5, SlotMoves

(* The steps of a task that write nothing: it ends, goes on to an await or to
   what follows at once, or is replaced by the job it spawns. *)
LEMMA QuietStepsFit ==
    ASSUME WorkInv, NEW t \in Tasks,
           \/ Settle(t) \/ Scanned(t) \/ Ingested(t) \/ AvatarsDone(t)
           \/ CursorsSelected(t) \/ ContactChecked(t)
    PROVE  WorkInv'
<1>1. /\ UNCHANGED Session /\ UNCHANGED kept /\ UNCHANGED delivered
      /\ tasks[t].awake
  BY DEF Settle, Scanned, Ingested, AvatarsDone, CursorsSelected, ContactChecked, Runs
<1>2. tasks[t] # NoTask
  BY <1>1 DEF NoTask
<1>3. delivered' \in Nat /\ WorkTypeOK
  BY <1>1 DEF WorkInv, WorkTypeOK
<1>4. /\ tasks[t] \in TaskType
      /\ TaskFits(tasks[t], begun, loop, account, Holds("conversation"))
  BY <1>3 DEF WorkInv, WorkTypeOK
<1>5. PICK old : old = tasks[t]
  OBVIOUS
<1>6. old \in TaskType /\ old # NoTask
      /\ TaskFits(old, begun, loop, account, Holds("conversation"))
  BY <1>2, <1>4, <1>5
<1>7. \A e \in TaskType :
          /\ Becomes(t, e)
          /\ TaskFits(e, begun, loop, account, Holds("conversation"))
          => WorkInv'
  BY <1>1, <1>3, SlotMoves
<1>8. CASE Settle(t)
  <2>1. PICK s : s = Spawned("names", "ask", old.gen, old.acct)
    OBVIOUS
  <2>2. s \in TaskType /\ TaskFits(s, begun, loop, account, Holds("conversation"))
    BY <1>2, <1>3, <1>5, <2>1, RunningFits, SpawnedFits
  <2> QED
    BY <1>5, <1>7, <1>8, <2>1, <2>2 DEF Settle
<1>9. Becomes(t, Ended(old)) => WorkInv'
  <2>1. PICK e : e = Ended(old)
    OBVIOUS
  <2>2. e \in TaskType /\ TaskFits(e, begun, loop, account, Holds("conversation"))
    BY <1>6, <2>1, EndedFits
  <2> QED
    BY <1>7, <2>1, <2>2
<1>10. ASSUME NEW at \in {"alias", "avatars", "request"},
              at = "request" => Holds("conversation"), Becomes(t, Awaiting(old, at))
       PROVE  WorkInv'
  <2>1. PICK e : e = Awaiting(old, at)
    OBVIOUS
  <2>2. e \in TaskType /\ TaskFits(e, begun, loop, account, Holds("conversation"))
    BY <1>6, <1>10, <2>1, AwaitingFits
  <2> QED
    BY <1>7, <1>10, <2>1, <2>2
<1>11. ASSUME NEW at \in {"spawn", "book"}, Becomes(t, [old EXCEPT !.at = at])
       PROVE  WorkInv'
  <2>1. PICK e : e = [old EXCEPT !.at = at]
    OBVIOUS
  <2>2. /\ e \in TaskType /\ e.gen = old.gen /\ e.acct = old.acct /\ e.loose = old.loose
        /\ e.at = at
    BY <1>6, <2>1 DEF TaskType
  <2>3. TaskFits(e, begun, loop, account, Holds("conversation"))
    BY <1>6, <2>2 DEF TaskFits
  <2> QED
    BY <1>7, <1>11, <2>1, <2>2, <2>3
<1>12. CASE Scanned(t)
  <2>1. Becomes(t, Awaiting(old, "alias")) \/ Becomes(t, Ended(old))
    BY <1>5, <1>12 DEF Scanned
  <2> QED
    BY <1>9, <1>10, <2>1
<1>13. CASE Ingested(t)
  <2>1. Becomes(t, Awaiting(old, "avatars")) \/ Becomes(t, Ended(old))
    BY <1>5, <1>13 DEF Ingested
  <2> QED
    BY <1>9, <1>10, <2>1
<1>14. CASE AvatarsDone(t)
  <2>1. Becomes(t, [old EXCEPT !.at = "spawn"]) \/ Becomes(t, Ended(old))
    BY <1>5, <1>14 DEF AvatarsDone
  <2> QED
    BY <1>9, <1>11, <2>1
<1>15. CASE CursorsSelected(t)
  <2>1. Becomes(t, Awaiting(old, "request")) /\ Holds("conversation")
    BY <1>5, <1>15 DEF CursorsSelected
  <2> QED
    BY <1>10, <2>1
<1>16. CASE ContactChecked(t)
  <2>1. Becomes(t, [old EXCEPT !.at = "book"]) \/ Becomes(t, Ended(old))
    BY <1>5, <1>16 DEF ContactChecked
  <2> QED
    BY <1>9, <1>11, <2>1
<1> QED
  BY <1>8, <1>12, <1>13, <1>14, <1>15, <1>16

(* The ingest thread: it starts, writes a conversation, or gives up. *)
LEMMA IngestFits ==
    ASSUME WorkInv, NEW t \in Tasks, Aliased(t) \/ Conversation(t) \/ Malformed(t)
    PROVE  WorkInv'
<1>1. UNCHANGED Session /\ UNCHANGED delivered
  BY DEF Aliased, Conversation, Malformed
<1>2. tasks[t] # NoTask
  BY DEF Aliased, Conversation, Malformed, Runs, NoTask
<1>3. delivered' \in Nat /\ WorkTypeOK
  BY <1>1 DEF WorkInv, WorkTypeOK
<1>4. PICK old : old = tasks[t]
  OBVIOUS
<1>5. old \in TaskType /\ old.left \in Nat
      /\ TaskFits(old, begun, loop, account, Holds("conversation"))
  BY <1>3, <1>4 DEF WorkInv, WorkTypeOK, TaskType
<1>6. ASSUME NEW n \in Nat, NEW rest, rest = [old EXCEPT !.left = n]
      PROVE  /\ rest \in TaskType /\ rest.left = n /\ rest.at = old.at
             /\ TaskFits(rest, begun, loop, account, Holds("conversation"))
  <2>1. /\ rest \in TaskType /\ rest.left = n /\ rest.gen = old.gen /\ rest.acct = old.acct
        /\ rest.loose = old.loose /\ rest.at = old.at
    BY <1>5, <1>6 DEF TaskType
  <2> QED
    BY <1>2, <1>4, <1>5, <2>1 DEF TaskFits
<1>7. CASE Aliased(t)
  <2>1. PICK rest : rest = [old EXCEPT !.left = Conversations]
    OBVIOUS
  <2>2. /\ rest \in TaskType /\ rest.left # 0
        /\ TaskFits(rest, begun, loop, account, Holds("conversation"))
    BY <1>6, <2>1, WorkAssumption
  <2>3. rest # NoTask
    BY <2>2 DEF NoTask
  <2>4. PICK e : e = Awaiting(rest, "ingest")
    OBVIOUS
  <2>5. e \in TaskType /\ TaskFits(e, begun, loop, account, Holds("conversation"))
    BY <2>2, <2>3, <2>4, AwaitingFits
  <2>6. Becomes(t, e) /\ UNCHANGED kept
    BY <1>4, <1>7, <2>1, <2>4 DEF Aliased
  <2> QED
    BY <1>1, <1>3, <2>5, <2>6, SlotMoves
<1>8. ASSUME NEW n \in Nat PROVE
      LET rest == [old EXCEPT !.left = n]
          next == IF rest.at = "done" THEN Ended(rest) ELSE rest
      IN  next \in TaskType /\ TaskFits(next, begun, loop, account, Holds("conversation"))
  <2>1. PICK rest : rest = [old EXCEPT !.left = n]
    OBVIOUS
  <2>2. rest \in TaskType /\ TaskFits(rest, begun, loop, account, Holds("conversation"))
    BY <1>6, <2>1
  <2>3. Ended(rest) \in TaskType
        /\ TaskFits(Ended(rest), begun, loop, account, Holds("conversation"))
    BY <2>2, EndedFits
  <2> QED
    BY <2>1, <2>2, <2>3
<1>9. CASE Conversation(t)
  <2>1. PICK n : n = old.left - 1
    OBVIOUS
  <2>2. n \in Nat
    BY <1>4, <1>5, <1>9, <2>1 DEF Conversation
  <2>3. PICK e : e = LET rest == [old EXCEPT !.left = n]
                     IN  IF rest.at = "done" THEN Ended(rest) ELSE rest
    OBVIOUS
  <2>4. e \in TaskType /\ TaskFits(e, begun, loop, account, Holds("conversation"))
    BY <1>8, <2>2, <2>3
  <2>5. Becomes(t, e) /\ Stores(t, "conversation")
    BY <1>4, <1>9, <2>1, <2>3 DEF Conversation
  <2> QED
    BY <1>1, <1>2, <1>3, <2>4, <2>5, SlotStores DEF Rows
<1>10. CASE Malformed(t)
  <2>1. PICK e : e = LET rest == [old EXCEPT !.left = 0]
                     IN  IF rest.at = "done" THEN Ended(rest) ELSE rest
    OBVIOUS
  <2>2. e \in TaskType /\ TaskFits(e, begun, loop, account, Holds("conversation"))
    BY <1>8, <2>1
  <2>3. Becomes(t, e) /\ UNCHANGED kept
    BY <1>4, <1>10, <2>1 DEF Malformed
  <2> QED
    BY <1>1, <1>3, <2>2, <2>3, SlotMoves
<1> QED
  BY <1>7, <1>9, <1>10

LEMMA SpawnFollowingFits ==
    ASSUME WorkInv, NEW t \in Tasks, NEW u \in Tasks, SpawnFollowing(t, u)
    PROVE  WorkInv'
<1>1. /\ UNCHANGED Session /\ UNCHANGED kept /\ UNCHANGED delivered /\ tasks[t] # NoTask
  BY DEF SpawnFollowing, Runs, NoTask
<1>2. delivered' \in Nat /\ WorkTypeOK
  BY <1>1 DEF WorkInv, WorkTypeOK
<1>3. PICK names, documents :
          /\ names = Spawned("names", "ask", tasks[t].gen, tasks[t].acct)
          /\ documents = Spawned("documents", "transfer", tasks[t].gen, tasks[t].acct)
  OBVIOUS
<1>4. /\ names \in TaskType /\ documents \in TaskType
      /\ TaskFits(names, begun, loop, account, Holds("conversation"))
      /\ TaskFits(documents, begun, loop, account, Holds("conversation"))
  <2>1. PICK g, a : g = tasks[t].gen /\ a = tasks[t].acct
    OBVIOUS
  <2>2. g \in Nat /\ a \in Nat /\ g <= begun /\ a <= account /\ (WasAborted(g) \/ a = account)
    BY <1>1, <2>1, RunningFits
  <2>3. names = Spawned("names", "ask", g, a) /\ documents = Spawned("documents", "transfer", g, a)
    BY <1>3, <2>1
  <2>4. names \in TaskType /\ TaskFits(names, begun, loop, account, Holds("conversation"))
    BY <1>2, <2>2, <2>3, SpawnedFits
  <2>5. documents \in TaskType /\ TaskFits(documents, begun, loop, account, Holds("conversation"))
    BY <1>2, <2>2, <2>3, SpawnedFits
  <2> QED
    BY <2>4, <2>5
<1>5. tasks' = [tasks EXCEPT ![u] = documents, ![t] = names]
  BY <1>3 DEF SpawnFollowing
<1>6. /\ tasks' \in [Tasks -> TaskType]
      /\ \A v \in Tasks : tasks'[v] \in {tasks[v], names, documents}
  BY <1>2, <1>4, <1>5 DEF WorkTypeOK
<1> QED
  BY <1>1, <1>2, <1>4, <1>6, TasksMove

(* The steps of a task that write what it found. *)
LEMMA StoringStepsFit ==
    ASSUME WorkInv, NEW t \in Tasks,
           \/ AvatarStored(t) \/ DocumentStored(t) \/ NamesStored(t)
           \/ NothingToRecover(t) \/ BookStored(t)
           \/ \E yes \in BOOLEAN : CursorsRequested(t, yes) \/ SyncMarked(t, yes)
    PROVE  WorkInv'
<1>1. UNCHANGED Session /\ UNCHANGED delivered /\ tasks[t].awake
  BY DEF AvatarStored, DocumentStored, NamesStored, NothingToRecover, BookStored,
         CursorsRequested, SyncMarked, Runs
<1>2. tasks[t] # NoTask
  BY <1>1 DEF NoTask
<1>3. delivered' \in Nat /\ WorkTypeOK
  BY <1>1 DEF WorkInv, WorkTypeOK
<1>4. PICK old : old = tasks[t]
  OBVIOUS
<1>5. old \in TaskType /\ old # NoTask
      /\ TaskFits(old, begun, loop, account, Holds("conversation"))
  BY <1>2, <1>3, <1>4 DEF WorkInv, WorkTypeOK
<1>6. ASSUME NEW what \in Rows \cup Files \cup Markers,
             what = "contact_history" => old.loose \/ Holds("conversation"),
             NEW e \in TaskType, TaskFits(e, begun, loop, account, Holds("conversation")),
             Becomes(t, e), Stores(t, what) \/ UNCHANGED kept
      PROVE  WorkInv'
  BY <1>1, <1>2, <1>3, <1>4, <1>6, SlotMoves, SlotStores
<1>7. PICK done : done = Ended(old)
  OBVIOUS
<1>8. done \in TaskType /\ TaskFits(done, begun, loop, account, Holds("conversation"))
  BY <1>5, <1>7, EndedFits
<1>9. ASSUME NEW at \in {"select", "marker"}
      PROVE  /\ [old EXCEPT !.at = at] \in TaskType
             /\ TaskFits([old EXCEPT !.at = at], begun, loop, account, Holds("conversation"))
  <2>1. PICK e : e = [old EXCEPT !.at = at]
    OBVIOUS
  <2>2. /\ e \in TaskType /\ e.gen = old.gen /\ e.acct = old.acct /\ e.loose = old.loose
        /\ e.at = at
    BY <1>5, <2>1 DEF TaskType
  <2> QED
    BY <1>5, <2>1, <2>2 DEF TaskFits
<1>10. CASE AvatarStored(t)
  <2>1. PICK e : e = Awaiting(old, "avatars")
    OBVIOUS
  <2>2. e \in TaskType /\ TaskFits(e, begun, loop, account, Holds("conversation"))
    BY <1>5, <2>1, AwaitingFits
  <2>3. Becomes(t, e) /\ Stores(t, "avatar")
    BY <1>4, <1>10, <2>1 DEF AvatarStored
  <2> QED
    BY <1>6, <2>2, <2>3 DEF Files
<1>11. CASE DocumentStored(t)
  <2>1. Becomes(t, done) /\ Stores(t, "document")
    BY <1>4, <1>7, <1>11 DEF DocumentStored
  <2> QED
    BY <1>6, <1>8, <2>1 DEF Files
<1>12. CASE NamesStored(t)
  <2>1. PICK e : e = [old EXCEPT !.at = "select"]
    OBVIOUS
  <2>2. Becomes(t, e) /\ (Stores(t, "name") \/ UNCHANGED kept)
    BY <1>4, <1>12, <2>1 DEF NamesStored
  <2> QED
    BY <1>6, <1>9, <2>1, <2>2 DEF Rows
<1>13. CASE NothingToRecover(t)
  <2>1. CASE Holds("conversation")
    <3>1. Becomes(t, done) /\ (Stores(t, "contact_history") \/ UNCHANGED kept)
      BY <1>4, <1>7, <1>13 DEF NothingToRecover
    <3> QED
      BY <1>6, <1>8, <2>1, <3>1 DEF Markers
  <2>2. CASE ~Holds("conversation")
    <3>1. Becomes(t, done) /\ UNCHANGED kept
      BY <1>4, <1>7, <1>13, <2>2 DEF NothingToRecover
    <3> QED
      BY <1>6, <1>8, <3>1 DEF Rows
  <2> QED
    BY <2>1, <2>2
<1>14. CASE BookStored(t)
  <2>1. PICK e : e = [old EXCEPT !.at = "marker"]
    OBVIOUS
  <2>2. Becomes(t, e) /\ Stores(t, "book")
    BY <1>4, <1>14, <2>1 DEF BookStored
  <2> QED
    BY <1>6, <1>9, <2>1, <2>2 DEF Rows
<1>15. ASSUME NEW yes \in BOOLEAN, CursorsRequested(t, yes) PROVE WorkInv'
  <2>1. Becomes(t, done) /\ (Stores(t, "contact_history") \/ UNCHANGED kept)
    BY <1>4, <1>7, <1>15 DEF CursorsRequested
  <2>2. old.loose \/ Holds("conversation")
    <3>1. old.at = "request"
      BY <1>4, <1>15 DEF CursorsRequested, Runs
    <3> QED
      BY <1>5, <3>1 DEF TaskFits
  <2> QED
    BY <1>6, <1>8, <2>1, <2>2 DEF Markers
<1>16. ASSUME NEW yes \in BOOLEAN, SyncMarked(t, yes) PROVE WorkInv'
  <2>1. Becomes(t, done) /\ (Stores(t, "contact_sync") \/ UNCHANGED kept)
    BY <1>4, <1>7, <1>16 DEF SyncMarked
  <2> QED
    BY <1>6, <1>8, <2>1 DEF Markers
<1> QED
  BY <1>10, <1>11, <1>12, <1>13, <1>14, <1>15, <1>16

-----------------------------------------------------------------------------
(* The loop of run_daemon *)

LEMMA AbortAllFits ==
    ASSUME WorkInv, AbortAll
    PROVE  WorkInv'
<1>1. /\ loop = "retired" /\ loop' = "aborted"
      /\ tasks' = [t \in Tasks |-> Aborted(tasks[t])]
      /\ UNCHANGED <<begun, current, logout, account, kept, delivered>>
  BY DEF AbortAll
<1>2. WorkTypeOK
  BY DEF WorkInv
<1>3. PICK h : h = Holds("conversation")
  OBVIOUS
<1>4. Holds("conversation")' = h
  BY <1>1, <1>3 DEF Holds
<1>5. ASSUME NEW t \in Tasks
      PROVE  /\ Aborted(tasks[t]) \in TaskType
             /\ TaskFits(Aborted(tasks[t]), begun, "aborted", account, h)
  <2>1. PICK old : old = tasks[t]
    OBVIOUS
  <2>2. old \in TaskType /\ TaskFits(old, begun, loop, account, h)
    BY <1>2, <1>3, <2>1 DEF WorkInv, WorkTypeOK
  <2>3. CASE old = NoTask
    BY <2>1, <2>3, NoTaskType DEF Aborted, TaskFits
  <2>4. CASE old # NoTask
    <3>1. PICK gone, doomed : /\ gone = [old EXCEPT !.loose = TRUE]
                              /\ doomed = [old EXCEPT !.loose = TRUE, !.doomed = TRUE]
      OBVIOUS
    <3>2. Aborted(old) \in {gone, doomed, Ended(gone)}
      BY <2>4, <3>1 DEF Aborted
    <3>3. /\ gone \in TaskType /\ doomed \in TaskType
          /\ gone.gen = old.gen /\ doomed.gen = old.gen
          /\ gone.acct = old.acct /\ doomed.acct = old.acct
          /\ gone.loose = TRUE /\ doomed.loose = TRUE
      BY <2>2, <3>1 DEF TaskType
    <3>4. /\ TaskFits(gone, begun, "aborted", account, h)
          /\ TaskFits(doomed, begun, "aborted", account, h)
      BY <2>2, <2>4, <3>3 DEF TaskFits
    <3>5. /\ Ended(gone) \in TaskType
          /\ TaskFits(Ended(gone), begun, "aborted", account, h)
      BY <3>3, <3>4, EndedFits
    <3> QED
      BY <2>1, <3>2, <3>3, <3>4, <3>5
  <2> QED
    BY <2>3, <2>4
<1>6. WorkTypeOK'
  BY <1>1, <1>2, <1>5 DEF WorkTypeOK, LoopSteps
<1>7. \A t \in Tasks : TaskFits(tasks[t], begun, loop, account, Holds("conversation"))'
  BY <1>1, <1>4, <1>5
<1>8. ASSUME NEW x \in kept PROVE KeptFits(x, "aborted", account, h)
  BY <1>1, <1>3 DEF WorkInv, KeptFits
<1> QED
  BY <1>1, <1>4, <1>6, <1>7, <1>8 DEF WorkInv

(* The tasks while the loop goes from one step to another. *)
LEMMA LoopGoesOn ==
    ASSUME NEW task \in TaskType, NEW g \in Nat, NEW l, NEW k, NEW a \in Nat, NEW b \in Nat,
           NEW has, NEW had, TaskFits(task, g, l, a, had), a <= b,
           l \in {"running", "retired"} => k \in {"running", "retired"} /\ b = a /\ (had => has),
           k \in {"running", "retired"} => l \in {"running", "retired"}
    PROVE  TaskFits(task, g, k, b, has)
  BY DEF TaskFits, TaskType

LEMMA LoopFits ==
    ASSUME WorkInv,
           \/ \E out \in BOOLEAN : Retire(out)
           \/ ClearRows \/ ClearFiles \/ ClearMarkers \/ KeepAccount
    PROVE  WorkInv'
<1>1. WorkTypeOK
  BY DEF WorkInv
<1>2. /\ UNCHANGED <<begun, tasks, delivered>>
      /\ <<loop, loop'>> \in {<<"running", "retired">>, <<"aborted", "files">>,
                              <<"files", "markers">>, <<"markers", "resting">>,
                              <<"aborted", "resting">>}
      /\ loop # "running" => UNCHANGED current
      /\ loop = "running" => current' = 0
      /\ logout' \in BOOLEAN
  BY <1>1 DEF WorkTypeOK, Retire, ClearRows, ClearFiles, ClearMarkers, KeepAccount, Work
<1>3. /\ account' \in Nat /\ account <= account'
      /\ loop = "running" => account' = account /\ kept' = kept
      /\ kept' \subseteq kept
  BY <1>1 DEF WorkTypeOK, Retire, ClearRows, ClearFiles, ClearMarkers, KeepAccount, Work,
        Keeping
<1>4. WorkTypeOK'
  BY <1>1, <1>2, <1>3 DEF WorkTypeOK, LoopSteps
<1>5. PICK h, i : h = Holds("conversation") /\ i = Holds("conversation")'
  OBVIOUS
<1>6. kept' = kept => h = i
  BY <1>5 DEF Holds
<1>7. ASSUME NEW t \in Tasks PROVE TaskFits(tasks[t], begun, loop, account, Holds("conversation"))'
  <2>1. TaskFits(tasks[t], begun, loop, account, h) /\ tasks[t] \in TaskType
    BY <1>1, <1>5 DEF WorkInv, WorkTypeOK
  <2>2. TaskFits(tasks[t], begun, loop', account', i)
    BY <1>1, <1>2, <1>3, <1>6, <2>1, LoopGoesOn DEF WorkTypeOK
  <2> QED
    BY <1>2, <1>5, <2>2
<1>8. ASSUME NEW x \in kept' PROVE KeptFits(x, loop, account, Holds("conversation"))'
  <2>1. /\ x \in kept /\ x \in KeptType
        /\ KeptFits(x, loop, account, h)
    BY <1>1, <1>3, <1>5 DEF WorkInv, WorkTypeOK
  <2>2. x.acct \in Nat /\ x.what \in Rows \cup Files \cup Markers /\ account \in Nat
    BY <1>1, <2>1 DEF KeptType, WorkTypeOK
  <2>3. CASE \E out \in BOOLEAN : Retire(out)
    <3>1. loop = "running" /\ loop' = "retired" /\ account' = account /\ h = i
      BY <1>6, <2>3 DEF Retire, Work
    <3>2. KeptFits(x, loop', account', i)
      BY <2>1, <3>1 DEF KeptFits
    <3> QED
      BY <1>5, <3>2
  <2>4. CASE ClearRows
    <3>1. loop' = "files" /\ account' = account + 1 /\ x.what \notin Rows
      BY <2>4 DEF ClearRows, Keeping
    <3>2. x.acct <= account
      BY <2>1 DEF KeptFits
    <3>3. KeptFits(x, loop', account', i)
      BY <2>2, <3>1, <3>2 DEF KeptFits
    <3> QED
      BY <1>5, <3>3
  <2>5. CASE ClearFiles
    <3>1. /\ loop = "files" /\ loop' = "markers" /\ account' = account /\ x.what \notin Files
          /\ kept' = Keeping(Files)
      BY <2>5 DEF ClearFiles, Keeping
    <3>2. h => i
      BY <1>5, <3>1 DEF Holds, Keeping, Files
    <3>3. KeptFits(x, loop', account', i)
      BY <2>1, <2>2, <3>1, <3>2 DEF KeptFits
    <3> QED
      BY <1>5, <3>3
  <2>6. CASE ClearMarkers
    <3>1. /\ loop = "markers" /\ loop' = "resting" /\ account' = account
          /\ x.what \notin Markers /\ kept' = Keeping(Markers)
      BY <2>6 DEF ClearMarkers, Keeping
    <3>2. h => i
      BY <1>5, <3>1 DEF Holds, Keeping, Markers
    <3>3. KeptFits(x, loop', account', i)
      BY <2>1, <2>2, <3>1, <3>2 DEF KeptFits
    <3> QED
      BY <1>5, <3>3
  <2>7. CASE KeepAccount
    <3>1. loop = "aborted" /\ loop' = "resting" /\ account' = account /\ h = i
      BY <1>6, <2>7 DEF KeepAccount, Work
    <3>2. KeptFits(x, loop', account', i)
      BY <2>1, <3>1 DEF KeptFits
    <3> QED
      BY <1>5, <3>2
  <2> QED
    BY <2>3, <2>4, <2>5, <2>6, <2>7
<1> QED
  BY <1>4, <1>7, <1>8 DEF WorkInv

LEMMA NextGenerationFits ==
    ASSUME WorkInv, NextGeneration
    PROVE  WorkInv'
<1>1. WorkTypeOK
  BY DEF WorkInv
<1>2. PICK g : g = begun + 1
  OBVIOUS
<1>3. /\ loop = "resting" /\ loop' = "running" /\ begun' = g /\ current' = g
      /\ logout' = FALSE /\ UNCHANGED <<account, tasks, kept, delivered>>
  BY <1>2 DEF NextGeneration, Work
<1>4. begun \in Nat /\ g \in Nat \ {0} /\ begun < g
  BY <1>1, <1>2 DEF WorkTypeOK
<1>5. WorkTypeOK'
  BY <1>1, <1>3, <1>4 DEF WorkTypeOK, LoopSteps
<1>6. PICK h : h = Holds("conversation")
  OBVIOUS
<1>7. Holds("conversation")' = h
  BY <1>3, <1>6 DEF Holds
<1>8. ASSUME NEW t \in Tasks PROVE TaskFits(tasks[t], g, "running", account, h)
  <2>1. TaskFits(tasks[t], begun, "resting", account, h) /\ tasks[t] \in TaskType
    BY <1>1, <1>3, <1>6 DEF WorkInv, WorkTypeOK
  <2> QED
    BY <1>4, <2>1 DEF TaskFits, TaskType
<1>9. ASSUME NEW x \in kept PROVE KeptFits(x, "running", account, h)
  BY <1>3, <1>6 DEF WorkInv, KeptFits
<1> QED
  BY <1>3, <1>5, <1>7, <1>8, <1>9 DEF WorkInv

LEMMA WorkInvariant == WorkSpec => []WorkInv
<1>1. WorkInit => WorkInv
  BY WorkStarts
<1>2. WorkInv /\ [WorkNext]_workVars => WorkInv'
  <2> SUFFICES ASSUME WorkInv, [WorkNext]_workVars PROVE WorkInv'
    OBVIOUS
  <2>1. ASSUME NEW t \in Tasks, Callback(t, "history", "scan") \/ Callback(t, "contact", "begin")
                                \/ Callback(t, "connected", "settle")
        PROVE  WorkInv'
    BY <2>1, CallbackFits
  <2>2. ASSUME NEW t \in Tasks, Register(t) \/ Wake(t) PROVE WorkInv'
    BY <2>2, RegisterFits
  <2>3. ASSUME NEW t \in Tasks,
               \/ Settle(t) \/ Scanned(t) \/ Ingested(t) \/ AvatarsDone(t)
               \/ CursorsSelected(t) \/ ContactChecked(t)
        PROVE  WorkInv'
    BY <2>3, QuietStepsFit
  <2>4. ASSUME NEW t \in Tasks, Aliased(t) \/ Conversation(t) \/ Malformed(t) PROVE WorkInv'
    BY <2>4, IngestFits
  <2>5. ASSUME NEW t \in Tasks, \E u \in Tasks : SpawnFollowing(t, u) PROVE WorkInv'
    BY <2>5, SpawnFollowingFits
  <2>6. ASSUME NEW t \in Tasks,
               \/ AvatarStored(t) \/ DocumentStored(t) \/ NamesStored(t)
               \/ NothingToRecover(t) \/ BookStored(t)
               \/ \E yes \in BOOLEAN : CursorsRequested(t, yes) \/ SyncMarked(t, yes)
        PROVE  WorkInv'
    BY <2>6, StoringStepsFit
  <2>7. CASE AbortAll
    BY <2>7, AbortAllFits
  <2>8. CASE \/ \E out \in BOOLEAN : Retire(out)
             \/ ClearRows \/ ClearFiles \/ ClearMarkers \/ KeepAccount
    BY <2>8, LoopFits
  <2>9. CASE NextGeneration
    BY <2>9, NextGenerationFits
  <2>10. CASE UNCHANGED workVars
    BY <2>10 DEF workVars, WorkInv, WorkTypeOK, Holds
  <2> QED
    BY <2>1, <2>2, <2>3, <2>4, <2>5, <2>6, <2>7, <2>8, <2>9, <2>10 DEF WorkNext
<1> QED
  BY <1>1, <1>2, PTL DEF WorkSpec

\* After a logout nothing of the former account is kept but what work wrote that
\* abort_all could not end, and the recovery of contact names is spent only on an
\* account with a chat (run_daemon, GenerationJobs::abort_all,
\* clear_local_account_data), for any number of tasks, generations and events.
THEOREM FormerAccountGone == WorkSpec => []FormerAccountIsExplained
<1>1. WorkInv => FormerAccountIsExplained
  <2> SUFFICES ASSUME WorkInv, NEW x \in kept
               PROVE  /\ Removed(x.what) => x.acct = account \/ x.loose
                      /\ x.what = "contact_history" /\ x.acct = account /\ ~x.loose
                            => Holds("conversation")
    BY DEF FormerAccountIsExplained
  <2>1. KeptFits(x, loop, account, Holds("conversation"))
    BY DEF WorkInv
  <2> QED
    BY <2>1 DEF KeptFits, Removed, Rows, Files, Markers
<1> QED
  BY <1>1, WorkInvariant, PTL


-----------------------------------------------------------------------------
(* What the database holds reaches the views (revisions.rs, state.rs, ipc.rs, Service.qml) *)

ShellType ==
    [compatible : BOOLEAN, gen : Nat, seqs : [Keys -> Nat], pending : Nat,
     queued : BOOLEAN, nextId : Nat, view : [Resources -> 0..Changes]]

LEMMA AskIs ==
    ASSUME TypeOK, NEW known \in ShellType, NEW wanted \in SUBSET Keys, NEW mode,
           "messages" \notin wanted, known.nextId # 0,
           Ask(wanted, mode, known)
    PROVE  /\ shell' \in ShellType
           /\ shell'.compatible = known.compatible /\ shell'.gen = known.gen
           /\ shell'.seqs = known.seqs /\ shell'.view = known.view
           /\ shell'.nextId # 0
           /\ requests \subseteq requests'
           /\ \A q \in requests' \ requests :
                 /\ q \in [id : Nat, res : Keys, value : 0..None]
                 /\ q.id # 0 /\ q.value = None /\ Content(q.res) \in watched
                 /\ q.res \in wanted \cup {"messages"}
           /\ \A r \in wanted : Content(r) \in watched =>
                 \E q \in requests' : q.res = r /\ q.value = None
           /\ (mode # "none" /\ known.pending = 0 /\ "messages" \in watched) =>
                 \E q \in requests' : q.res = "messages" /\ q.value = None /\ q.id = shell'.pending
           /\ ~(mode # "none" /\ known.pending = 0 /\ "messages" \in watched) =>
                 shell'.pending = known.pending
           /\ shell'.queued = (known.queued \/ (mode = "queue" /\ known.pending # 0))
<1> DEFINE fresh == mode # "none" /\ known.pending = 0
           issued == {r \in wanted \cup (IF fresh THEN {"messages"} ELSE {}) : Content(r) \in watched}
           added == {[id |-> known.nextId, res |-> r, value |-> None] : r \in issued}
<1>1. /\ requests' = requests \cup added
      /\ shell' = [known EXCEPT
          !.nextId = IF issued = {} THEN @ ELSE @ + 1,
          !.pending = IF "messages" \in issued THEN known.nextId ELSE @,
          !.queued = @ \/ (mode = "queue" /\ ~fresh)]
  BY DEF Ask
<1>2. issued \subseteq Keys
  BY DEF Keys, Resources, Coalesced
<1>3. "messages" \in issued <=> fresh /\ "messages" \in watched
  BY DEF Content
<1> HIDE DEF issued, added
<1>4. \A q \in added :
         /\ q \in [id : Nat, res : Keys, value : 0..None]
         /\ q.id = known.nextId /\ q.value = None /\ q.res \in issued
  <2> SUFFICES ASSUME NEW r \in issued
               PROVE  LET q == [id |-> known.nextId, res |-> r, value |-> None]
                      IN  /\ q \in [id : Nat, res : Keys, value : 0..None]
                          /\ q.id = known.nextId /\ q.value = None /\ q.res \in issued
    BY DEF added
  <2> QED
    BY <1>2, BoundsAssumption DEF ShellType, None
<1>5. \A r \in issued : \E q \in added : q.res = r /\ q.value = None /\ q.id = known.nextId
  <2> TAKE r \in issued
  <2>1. [id |-> known.nextId, res |-> r, value |-> None] \in added
    BY DEF added
  <2> QED
    BY <2>1
<1>6. \A r \in issued : Content(r) \in watched /\ r \in wanted \cup {"messages"}
  BY DEF issued
<1>7. \A r \in wanted : Content(r) \in watched => r \in issued
  BY DEF issued
<1>8. /\ shell'.compatible = known.compatible /\ shell'.gen = known.gen
      /\ shell'.seqs = known.seqs /\ shell'.view = known.view
      /\ shell'.nextId = (IF issued = {} THEN known.nextId ELSE known.nextId + 1)
      /\ shell'.pending = (IF "messages" \in issued THEN known.nextId ELSE known.pending)
      /\ shell'.queued = (known.queued \/ (mode = "queue" /\ ~fresh))
  BY <1>1 DEF ShellType
<1>9. shell' \in ShellType
  <2>1. PICK n \in Nat, p \in Nat, u \in BOOLEAN :
           shell' = [known EXCEPT !.nextId = n, !.pending = p, !.queued = u]
    <3>1. (known.queued \/ (mode = "queue" /\ ~fresh)) \in BOOLEAN
      BY DEF ShellType
    <3>2. known.nextId \in Nat /\ known.nextId + 1 \in Nat /\ known.pending \in Nat
      BY DEF ShellType
    <3> QED
      BY <1>1, <3>1, <3>2
  <2> QED
    BY <2>1 DEF ShellType
<1>10. shell'.nextId # 0
  BY <1>8 DEF ShellType
<1>11. shell'.queued = (known.queued \/ (mode = "queue" /\ known.pending # 0))
  <2>1. (mode = "queue" /\ ~fresh) <=> (mode = "queue" /\ known.pending # 0)
    OBVIOUS
  <2> QED
    BY <1>8, <2>1
<1>12. requests \subseteq requests' /\ \A q \in requests' \ requests : q \in added
  BY <1>1
<1>13. added \subseteq requests'
  BY <1>1
<1>14. (mode # "none" /\ known.pending = 0 /\ "messages" \in watched) =>
          \E q \in requests' : q.res = "messages" /\ q.value = None /\ q.id = shell'.pending
  BY <1>3, <1>5, <1>8, <1>13
<1>15. ~(mode # "none" /\ known.pending = 0 /\ "messages" \in watched) =>
          shell'.pending = known.pending
  BY <1>3, <1>8
<1>16. \A r \in wanted : Content(r) \in watched => \E q \in requests' : q.res = r /\ q.value = None
  BY <1>5, <1>7, <1>13
<1>17. \A q \in requests' \ requests :
          /\ q \in [id : Nat, res : Keys, value : 0..None]
          /\ q.id # 0 /\ q.value = None /\ Content(q.res) \in watched
          /\ q.res \in wanted \cup {"messages"}
  BY <1>4, <1>6, <1>12
<1> QED
  BY <1>8, <1>9, <1>10, <1>11, <1>12, <1>14, <1>15, <1>16, <1>17

IsContent(f) == f.kind \in {"snapshot", "state"}

Since(f, k) == IF f.gen > shell.gen THEN 0 ELSE shell.seqs[k]

LEMMA EnteredIs ==
    ASSUME NEW f, f.gen \in Nat, NEW s \in ShellType
    PROVE  /\ Entered(f, s) \in ShellType
           /\ Entered(f, s).compatible = s.compatible
           /\ Entered(f, s).nextId = s.nextId /\ Entered(f, s).view = s.view
           /\ Entered(f, s).gen = IF f.gen > s.gen THEN f.gen ELSE s.gen
           /\ \A k \in Keys : Entered(f, s).seqs[k] = IF f.gen > s.gen THEN 0 ELSE s.seqs[k]
           /\ Entered(f, s).pending = IF f.gen > s.gen THEN 0 ELSE s.pending
           /\ Entered(f, s).queued = IF f.gen > s.gen THEN FALSE ELSE s.queued
<1>1. CASE f.gen > s.gen
  <2>1. Entered(f, s) = [[s EXCEPT !.pending = 0, !.queued = FALSE]
                           EXCEPT !.gen = f.gen, !.seqs = NoSequences]
    BY <1>1 DEF Entered, Reset
  <2>2. PICK t : t = [s EXCEPT !.pending = 0, !.queued = FALSE]
    OBVIOUS
  <2>3. t \in ShellType
    BY <2>2 DEF ShellType
  <2>4. NoSequences \in [Keys -> Nat] /\ \A k \in Keys : NoSequences[k] = 0
    BY DEF NoSequences
  <2>5. Entered(f, s) = [t EXCEPT !.gen = f.gen, !.seqs = NoSequences]
    BY <2>1, <2>2
  <2>6. f.gen \in Nat
    OBVIOUS
  <2>7. Entered(f, s) \in ShellType
    BY <2>3, <2>4, <2>5, <2>6 DEF ShellType
  <2> QED
    BY <1>1, <2>2, <2>4, <2>5, <2>7 DEF ShellType
<1>2. CASE ~(f.gen > s.gen)
  BY <1>2 DEF Entered
<1> QED
  BY <1>1, <1>2

LEMMA AcceptedIs ==
    ASSUME shell \in ShellType, shell.gen # 0, NEW f \in Frames, f.gen # 0
    PROVE  /\ Accepted(f) <=> /\ ~Older(f)
                              /\ f.kind = "error" \/ f.seq > Since(f, Key(f))
           /\ Older(f) <=> f.gen < shell.gen
           /\ Key(f) \in Keys
<1>1. Key(f) \in Keys
  BY DEF Key, Keys, Frames
<1> f.gen \in Nat
  BY DEF Frames
<1>2. Entered(f, shell).seqs[Key(f)] = Since(f, Key(f))
  BY <1>1, EnteredIs DEF Since
<1>3. Older(f) <=> f.gen < shell.gen
  BY DEF Older, Frames, ShellType
<1> QED
  BY <1>1, <1>2, <1>3 DEF Accepted

LEMMA TakenIs ==
    ASSUME shell \in ShellType, shell.gen # 0, NEW f \in Frames, f.gen # 0, Accepted(f)
    PROVE  /\ Taken(f) \in ShellType
           /\ Taken(f).compatible = shell.compatible
           /\ Taken(f).nextId = shell.nextId /\ Taken(f).view = shell.view
           /\ Taken(f).gen = f.gen
           /\ \A k \in Keys : Taken(f).seqs[k] =
                 IF f.kind # "error" /\ k = Key(f) THEN f.seq ELSE Since(f, k)
           /\ Taken(f).pending = IF f.gen > shell.gen THEN 0 ELSE shell.pending
           /\ Taken(f).queued = IF f.gen > shell.gen THEN FALSE ELSE shell.queued
<1>1. PICK e : e = Entered(f, shell)
  OBVIOUS
<1> f.gen \in Nat
  BY DEF Frames
<1>2. /\ e \in ShellType /\ e.compatible = shell.compatible
      /\ e.nextId = shell.nextId /\ e.view = shell.view
      /\ e.pending = IF f.gen > shell.gen THEN 0 ELSE shell.pending
      /\ e.queued = IF f.gen > shell.gen THEN FALSE ELSE shell.queued
      /\ e.gen = IF f.gen > shell.gen THEN f.gen ELSE shell.gen
  BY <1>1, EnteredIs
<1>3. \A k \in Keys : e.seqs[k] = Since(f, k)
  BY <1>1, EnteredIs DEF Since
<1>4. e.gen = f.gen
  <2>1. ~(f.gen < shell.gen)
    BY AcceptedIs
  <2> QED
    BY <1>2, <2>1 DEF ShellType, Frames
<1>5. Taken(f) = IF f.kind = "error" THEN e ELSE [e EXCEPT !.seqs[Key(f)] = f.seq]
  BY <1>1 DEF Taken, Recorded
<1>6. Key(f) \in Keys /\ f.seq \in Nat
  BY AcceptedIs DEF Frames
<1>7. CASE f.kind = "error"
  BY <1>2, <1>3, <1>4, <1>5, <1>7
<1>8. CASE f.kind # "error"
  <2>1. Taken(f) = [e EXCEPT !.seqs = [e.seqs EXCEPT ![Key(f)] = f.seq]]
    BY <1>2, <1>5, <1>8 DEF ShellType
  <2>2. [e.seqs EXCEPT ![Key(f)] = f.seq] \in [Keys -> Nat]
    BY <1>2, <1>6 DEF ShellType
  <2>3. \A k \in Keys : [e.seqs EXCEPT ![Key(f)] = f.seq][k] = IF k = Key(f) THEN f.seq ELSE Since(f, k)
    BY <1>2, <1>3, <1>6 DEF ShellType
  <2>4. Taken(f) \in ShellType
    BY <1>2, <2>1, <2>2 DEF ShellType
  <2>5. /\ Taken(f).compatible = e.compatible /\ Taken(f).nextId = e.nextId
        /\ Taken(f).view = e.view /\ Taken(f).gen = e.gen
        /\ Taken(f).pending = e.pending /\ Taken(f).queued = e.queued
        /\ Taken(f).seqs = [e.seqs EXCEPT ![Key(f)] = f.seq]
    BY <1>2, <2>1 DEF ShellType
  <2> QED
    BY <1>2, <1>4, <1>8, <2>3, <2>4, <2>5
<1> QED
  BY <1>7, <1>8

\* The shell's fields after it accepted a frame.
LEMMA AfterIs ==
    ASSUME shell \in ShellType, shell.gen # 0, NEW f \in Frames, f.gen # 0, Accepted(f),
           IsContent(f) => f.value \in 0..Changes
    PROVE  /\ After(f) \in ShellType
           /\ After(f).compatible = shell.compatible
           /\ After(f).nextId = shell.nextId /\ After(f).gen = f.gen
           /\ \A k \in Keys : After(f).seqs[k] =
                 IF f.kind # "error" /\ k = Key(f) THEN f.seq ELSE Since(f, k)
           /\ \A r \in Resources : After(f).view[r] =
                 IF IsContent(f) /\ r = f.res THEN f.value ELSE shell.view[r]
           /\ After(f).pending = IF Done(f) THEN 0 ELSE Taken(f).pending
           /\ After(f).queued = IF Done(f) THEN FALSE ELSE Taken(f).queued
<1>1. PICK t : t = Taken(f)
  OBVIOUS
<1>2. t \in ShellType
  BY <1>1, TakenIs
<1>3. PICK u : u = IF Done(f) THEN Reset(Taken(f)) ELSE Taken(f)
  OBVIOUS
<1>4. u = IF Done(f) THEN [t EXCEPT !.pending = 0, !.queued = FALSE] ELSE t
  BY <1>1, <1>3 DEF Reset
<1>5. /\ u \in ShellType /\ u.compatible = t.compatible /\ u.nextId = t.nextId
      /\ u.gen = t.gen /\ u.seqs = t.seqs /\ u.view = t.view
      /\ u.pending = IF Done(f) THEN 0 ELSE t.pending
      /\ u.queued = IF Done(f) THEN FALSE ELSE t.queued
  BY <1>2, <1>4 DEF ShellType
<1>6. After(f) = IF f.kind \in {"snapshot", "state"} THEN [u EXCEPT !.view[f.res] = f.value] ELSE u
  BY <1>3 DEF After, Shown
<1>7. f.res \in Resources
  BY DEF Frames
<1>8. /\ After(f) \in ShellType /\ After(f).compatible = u.compatible
      /\ After(f).nextId = u.nextId /\ After(f).gen = u.gen /\ After(f).seqs = u.seqs
      /\ After(f).pending = u.pending /\ After(f).queued = u.queued
      /\ \A r \in Resources : After(f).view[r] =
            IF IsContent(f) /\ r = f.res THEN f.value ELSE u.view[r]
  <2>1. CASE IsContent(f)
    <3>1. After(f) = [u EXCEPT !.view = [u.view EXCEPT ![f.res] = f.value]]
      BY <1>5, <1>6, <2>1 DEF ShellType, IsContent
    <3>2. /\ [u.view EXCEPT ![f.res] = f.value] \in [Resources -> 0..Changes]
          /\ \A r \in Resources :
                [u.view EXCEPT ![f.res] = f.value][r] = IF r = f.res THEN f.value ELSE u.view[r]
      BY <1>5, <1>7, <2>1 DEF ShellType
    <3>3. After(f).view = [u.view EXCEPT ![f.res] = f.value]
      BY <1>5, <3>1 DEF ShellType
    <3>4. After(f) \in ShellType
      BY <1>5, <3>1, <3>2 DEF ShellType
    <3> QED
      BY <1>5, <2>1, <3>1, <3>2, <3>3, <3>4 DEF ShellType
  <2>2. CASE ~IsContent(f)
    BY <1>5, <1>6, <2>2 DEF IsContent
  <2> QED
    BY <2>1, <2>2
<1>9. /\ t.compatible = shell.compatible /\ t.nextId = shell.nextId
      /\ t.view = shell.view /\ t.gen = f.gen
  BY <1>1, TakenIs
<1>10. \A k \in Keys : t.seqs[k] =
          IF f.kind # "error" /\ k = Key(f) THEN f.seq ELSE Since(f, k)
  BY <1>1, TakenIs
<1>11. After(f).pending = (IF Done(f) THEN 0 ELSE Taken(f).pending)
  BY <1>1, <1>5, <1>8
<1>12. After(f).queued = (IF Done(f) THEN FALSE ELSE Taken(f).queued)
  BY <1>1, <1>5, <1>8
<1>13. After(f) \in ShellType /\ After(f).compatible = shell.compatible
       /\ After(f).nextId = shell.nextId /\ After(f).gen = f.gen
  BY <1>5, <1>8, <1>9
<1>14. After(f).seqs = t.seqs
  BY <1>5, <1>8
<1>15. \A k \in Keys : After(f).seqs[k] =
          IF f.kind # "error" /\ k = Key(f) THEN f.seq ELSE Since(f, k)
  BY <1>10, <1>14
<1>16. \A r \in Resources : After(f).view[r] =
          IF IsContent(f) /\ r = f.res THEN f.value ELSE shell.view[r]
  <2>1. u.view = shell.view
    BY <1>5, <1>9
  <2> QED
    BY <1>8, <2>1
<1> QED
  BY <1>11, <1>12, <1>13, <1>15, <1>16

\* The elements of a sequence, and what Append and Tail make of them.
Carried(s) == {s[i] : i \in DOMAIN s}

LEMMA ElementIs ==
    ASSUME NEW S, NEW s \in Seq(S)
    PROVE  (\A i \in DOMAIN s : s[i] \in S) /\ (\A x \in Carried(s) : x \in S)
BY DEF Carried

LEMMA AppendIs ==
    ASSUME NEW S, NEW s \in Seq(S), NEW e \in S
    PROVE  /\ Append(s, e) \in Seq(S) /\ Len(Append(s, e)) = Len(s) + 1
           /\ Carried(Append(s, e)) = Carried(s) \cup {e}
<1>1. /\ Append(s, e) \in Seq(S) /\ Len(Append(s, e)) = Len(s) + 1
      /\ \A i \in 1..Len(s) : Append(s, e)[i] = s[i]
      /\ Append(s, e)[Len(s) + 1] = e
  OBVIOUS
<1>2. DOMAIN s = 1..Len(s) /\ DOMAIN Append(s, e) = 1..(Len(s) + 1) /\ Len(s) \in Nat
  BY <1>1
<1>3. \A i \in 1..(Len(s) + 1) : i \in 1..Len(s) \/ i = Len(s) + 1
  BY <1>2
<1>4. ASSUME NEW x PROVE x \in Carried(Append(s, e)) <=> x \in Carried(s) \cup {e}
  <2>1. CASE x \in Carried(Append(s, e))
    <3>1. PICK i \in 1..(Len(s) + 1) : x = Append(s, e)[i]
      BY <1>2, <2>1 DEF Carried
    <3> QED
      BY <1>1, <1>2, <1>3, <3>1 DEF Carried
  <2>2. CASE x \in Carried(s)
    <3>1. PICK i \in 1..Len(s) : x = s[i]
      BY <1>2, <2>2 DEF Carried
    <3>2. i \in 1..(Len(s) + 1)
      BY <1>2, <3>1
    <3> QED
      BY <1>1, <1>2, <3>1, <3>2 DEF Carried
  <2>3. CASE x = e
    <3>1. Len(s) + 1 \in 1..(Len(s) + 1)
      BY <1>2
    <3> QED
      BY <1>1, <1>2, <2>3, <3>1 DEF Carried
  <2> QED
    BY <2>1, <2>2, <2>3
<1> QED
  BY <1>1, <1>4

LEMMA TailIs ==
    ASSUME NEW S, NEW s \in Seq(S), s # <<>>
    PROVE  /\ Tail(s) \in Seq(S) /\ Head(s) \in S
           /\ Len(Tail(s)) = Len(s) - 1 /\ Len(s) > 0 /\ Head(s) = s[1]
           /\ \A i \in DOMAIN Tail(s) : i + 1 \in DOMAIN s /\ Tail(s)[i] = s[i + 1]
           /\ Head(s) \in Carried(s) /\ Carried(Tail(s)) \subseteq Carried(s)
           /\ Carried(s) = Carried(Tail(s)) \cup {Head(s)}
<1>1. /\ Tail(s) \in Seq(S) /\ Head(s) \in S
      /\ Len(Tail(s)) = Len(s) - 1 /\ Len(s) > 0 /\ Head(s) = s[1] /\ Len(s) \in Nat
  OBVIOUS
<1>2. DOMAIN s = 1..Len(s) /\ DOMAIN Tail(s) = 1..(Len(s) - 1)
  BY <1>1
<1>3. \A i \in DOMAIN Tail(s) : i + 1 \in DOMAIN s /\ Tail(s)[i] = s[i + 1]
  BY <1>1, <1>2
<1>4. Carried(Tail(s)) \subseteq Carried(s)
  BY <1>3 DEF Carried
<1>5. 1 \in DOMAIN s
  BY <1>1, <1>2
<1>6. Head(s) \in Carried(s)
  BY <1>1, <1>5 DEF Carried
<1>7. ASSUME NEW x \in Carried(s) PROVE x \in Carried(Tail(s)) \cup {Head(s)}
  <2>1. PICK i \in DOMAIN s : x = s[i]
    BY <1>7 DEF Carried
  <2>2. CASE i = 1
    BY <1>1, <2>1, <2>2
  <2>3. CASE i # 1
    <3>1. i - 1 \in DOMAIN Tail(s) /\ (i - 1) + 1 = i
      BY <1>1, <1>2, <2>1, <2>3
    <3>2. Tail(s)[i - 1] = x
      BY <1>3, <2>1, <3>1
    <3> QED
      BY <3>1, <3>2 DEF Carried
  <2> QED
    BY <2>2, <2>3
<1> QED
  BY <1>1, <1>3, <1>4, <1>6, <1>7

LEMMA RemovedIs ==
    ASSUME NEW S, NEW s \in Seq(S), NEW i \in DOMAIN s
    PROVE  LET u == SubSeq(s, 1, i - 1) \o SubSeq(s, i + 1, Len(s))
           IN  /\ u \in Seq(S) /\ Carried(u) \subseteq Carried(s)
               /\ Carried(s) \subseteq Carried(u) \cup {s[i]}
<1>0. Len(s) \in Nat /\ DOMAIN s = 1..Len(s) /\ i \in 1..Len(s)
  OBVIOUS
<1>1. PICK a : a = SubSeq(s, 1, i - 1)
  OBVIOUS
<1>2. PICK b : b = SubSeq(s, i + 1, Len(s))
  OBVIOUS
<1>3. /\ a \in Seq(S) /\ Len(a) = i - 1 /\ \A j \in 1..(i - 1) : a[j] = s[j]
  BY <1>0, <1>1
<1>4. /\ b \in Seq(S) /\ Len(b) = Len(s) - i /\ \A j \in 1..(Len(s) - i) : b[j] = s[i + j]
  BY <1>0, <1>2
<1>5. PICK u : u = a \o b
  OBVIOUS
<1>6. /\ u \in Seq(S) /\ Len(u) = Len(s) - 1
      /\ \A j \in 1..(i - 1) : u[j] = a[j]
      /\ \A j \in i..(Len(s) - 1) : u[j] = b[j - (i - 1)]
  <2>1. Len(a) \in Nat /\ Len(b) \in Nat /\ Len(a) + Len(b) = Len(s) - 1
    BY <1>0, <1>3, <1>4
  <2>2. u \in Seq(S) /\ Len(u) = Len(a) + Len(b)
    BY <1>3, <1>4, <1>5, ConcatProperties
  <2>3. /\ \A j \in 1..Len(a) : u[j] = a[j]
        /\ \A j \in (Len(a) + 1)..(Len(a) + Len(b)) : u[j] = b[j - Len(a)]
    <3>1. \A j \in 1..(Len(a) + Len(b)) : u[j] = IF j <= Len(a) THEN a[j] ELSE b[j - Len(a)]
      BY <1>3, <1>4, <1>5, ConcatProperties
    <3> QED
      BY SMTT(60), <2>1, <3>1
  <2>4. Len(a) + 1 = i
    BY <1>0, <1>3
  <2> QED
    BY <1>3, <2>1, <2>2, <2>3, <2>4
<1>7. /\ \A j \in 1..(i - 1) : u[j] = s[j]
      /\ \A j \in i..(Len(s) - 1) : u[j] = s[j + 1]
  <2>1. \A j \in 1..(i - 1) : u[j] = s[j]
    BY <1>3, <1>6
  <2>2. ASSUME NEW j \in i..(Len(s) - 1) PROVE u[j] = s[j + 1]
    <3>0. PICK n \in Nat : n = Len(s)
      BY <1>0
    <3>1. n \in Int /\ i \in Int /\ j \in Int /\ i <= j /\ j <= n - 1
      BY <1>0, <3>0
    <3>2. PICK k \in Int : k = j - (i - 1)
      BY <3>1
    <3>5. k \in 1..(n - i)
      BY <3>1, <3>2
    <3>6. i + k = j + 1
      BY <3>1, <3>2
    <3>3. k \in 1..(n - i) /\ i + k = j + 1
      BY <3>5, <3>6
    <3>4. u[j] = b[k]
      BY <1>6, <3>0, <3>2
    <3> QED
      BY SMTT(60), <1>4, <3>0, <3>3, <3>4
  <2> QED
    BY <2>1, <2>2
<1>8. DOMAIN u = 1..(Len(s) - 1)
  BY <1>0, <1>6
<1>9. ASSUME NEW x \in Carried(u) PROVE x \in Carried(s)
  <2>1. PICK j \in 1..(Len(s) - 1) : x = u[j]
    BY <1>8, <1>9 DEF Carried
  <2>2. CASE j \in 1..(i - 1)
    <3>1. x = s[j] /\ j \in DOMAIN s
      BY <1>0, <1>7, <2>1, <2>2
    <3> QED
      BY <3>1 DEF Carried
  <2>3. CASE j \in i..(Len(s) - 1)
    <3>1. x = s[j + 1] /\ j + 1 \in DOMAIN s
      BY <1>0, <1>7, <2>1, <2>3
    <3> QED
      BY <3>1 DEF Carried
  <2> QED
    BY <1>0, <2>1, <2>2, <2>3
<1>10. ASSUME NEW x \in Carried(s) PROVE x \in Carried(u) \cup {s[i]}
  <2>1. PICK j \in 1..Len(s) : x = s[j]
    BY <1>0, <1>10 DEF Carried
  <2>2. CASE j \in 1..(i - 1)
    <3>1. x = u[j] /\ j \in DOMAIN u
      BY <1>0, <1>7, <1>8, <2>1, <2>2
    <3> QED
      BY <3>1 DEF Carried
  <2>3. CASE j = i
    BY <2>1, <2>3
  <2>4. CASE j \in (i + 1)..Len(s)
    <3>1. (j - 1) \in i..(Len(s) - 1) /\ (j - 1) + 1 = j /\ j - 1 \in DOMAIN u
      BY <1>0, <1>8, <2>4
    <3>2. x = u[j - 1]
      BY <1>7, <2>1, <3>1
    <3> QED
      BY <3>1, <3>2 DEF Carried
  <2> QED
    BY <1>0, <2>1, <2>2, <2>3, <2>4
<1> QED
  BY <1>1, <1>2, <1>5, <1>6, <1>9, <1>10

Sorted(s) == \A i, j \in DOMAIN s : i < j => s[i].seq < s[j].seq

Told == Carried(events)

Answered == Carried(responses)

\* A frame that is sent reaches the receiver, or one of them is lost.
LEMMA BroadcastIs ==
    ASSUME events \in Seq(Frames), Len(events) <= Capacity, lagged \in BOOLEAN,
           NEW f \in Frames, Broadcast(f)
    PROVE  /\ events' \in Seq(Frames) /\ Len(events') <= Capacity /\ lagged' \in BOOLEAN
           /\ Told' \subseteq Told \cup {f}
           /\ greeting \/ f \in Told'
           /\ lagged => lagged'
           /\ lagged' \/ Told \subseteq Told'
           /\ greeting => events' = events /\ lagged' = lagged
           /\ (Sorted(events) /\ \A g \in Told : g.seq < f.seq) => Sorted(events')
           /\ Sorted(events) => \A g, h \in Told : g.seq < h.seq /\ g \in Told' => h \in Told' \/ g = f
<1> Capacity \in Nat \ {0}
  BY BoundsAssumption
<1>1. CASE greeting
  BY <1>1 DEF Broadcast, Told
<1>2. CASE ~greeting /\ Len(events) # Capacity
  <2>1. events' = Append(events, f) /\ lagged' = lagged
    BY <1>2 DEF Broadcast
  <2>2. /\ Append(events, f) \in Seq(Frames) /\ Len(Append(events, f)) = Len(events) + 1
        /\ Carried(Append(events, f)) = Carried(events) \cup {f}
    BY AppendIs
  <2>3. Told' = Told \cup {f}
    BY <2>1, <2>2 DEF Told, Carried
  <2>4. (Sorted(events) /\ \A g \in Told : g.seq < f.seq) => Sorted(events')
    <3> SUFFICES ASSUME Sorted(events), \A g \in Told : g.seq < f.seq,
                        NEW i \in DOMAIN events', NEW j \in DOMAIN events', i < j
                 PROVE  events'[i].seq < events'[j].seq
      BY DEF Sorted
    <3>1. i \in 1..Len(events)
      BY <2>1
    <3>2. events'[i] = events[i] /\ events[i] \in Told
      BY <2>1, <3>1 DEF Told, Carried
    <3>3. CASE j \in 1..Len(events)
      <4>1. events'[j] = events[j]
        BY <2>1, <3>3
      <4> QED
        BY <3>1, <3>2, <3>3, <4>1 DEF Sorted
    <3>4. CASE j = Len(events) + 1
      <4>1. events'[j] = f
        BY <2>1, <3>4
      <4> QED
        BY <3>2, <4>1
    <3> QED
      BY <2>1, <3>3, <3>4
  <2>5. Len(events') <= Capacity
    BY <1>2, <2>1, <2>2
  <2> QED
    BY <1>2, <2>1, <2>2, <2>3, <2>4, <2>5
<1>3. CASE ~greeting /\ Len(events) = Capacity
  <2>1. events' = Append(Tail(events), f) /\ lagged' = TRUE
    BY <1>3 DEF Broadcast
  <2>2. events # <<>>
    BY <1>3
  <2>3. /\ Tail(events) \in Seq(Frames) /\ Len(Tail(events)) = Len(events) - 1
        /\ Carried(events) = Carried(Tail(events)) \cup {Head(events)}
        /\ Head(events) = events[1] /\ Len(events) > 0
        /\ \A i \in DOMAIN Tail(events) : i + 1 \in DOMAIN events /\ Tail(events)[i] = events[i + 1]
    BY <2>2, TailIs
  <2>4. /\ Append(Tail(events), f) \in Seq(Frames)
        /\ Len(Append(Tail(events), f)) = Len(Tail(events)) + 1
        /\ Carried(Append(Tail(events), f)) = Carried(Tail(events)) \cup {f}
    <3>1. Tail(events) \in Seq(Frames)
      BY <2>3
    <3> QED
      BY ZenonT(60), <3>1, AppendIs
  <2>5. Told' = Carried(Tail(events)) \cup {f}
    <3>1. Told' = Carried(events')
      BY DEF Told, Carried
    <3> QED
      BY <2>1, <2>4, <3>1
  <2>6. Len(events) \in Nat /\ DOMAIN events = 1..Len(events) /\ DOMAIN Tail(events) = 1..(Len(events) - 1)
    BY <2>3
  <2>7. (Sorted(events) /\ \A g \in Told : g.seq < f.seq) => Sorted(events')
    <3> SUFFICES ASSUME Sorted(events), \A g \in Told : g.seq < f.seq,
                        NEW i \in DOMAIN events', NEW j \in DOMAIN events', i < j
                 PROVE  events'[i].seq < events'[j].seq
      BY DEF Sorted
    <3>0. /\ \A k \in 1..(Len(events) - 1) : events'[k] = Tail(events)[k]
          /\ events'[Len(events)] = f /\ DOMAIN events' = 1..Len(events)
      BY <2>1, <2>3
    <3>1. i \in 1..(Len(events) - 1)
      BY <2>6, <3>0
    <3>2. events'[i] = events[i + 1] /\ i + 1 \in DOMAIN events /\ events[i + 1] \in Told
      BY <2>3, <2>6, <3>0, <3>1 DEF Told, Carried
    <3>3. CASE j \in 1..(Len(events) - 1)
      <4>1. events'[j] = events[j + 1] /\ j + 1 \in DOMAIN events
        BY <2>3, <2>6, <3>0, <3>3
      <4>2. i + 1 < j + 1
        BY <3>1, <3>3
      <4> QED
        BY <3>2, <4>1, <4>2 DEF Sorted
    <3>4. CASE j = Len(events)
      <4>1. events'[j] = f
        BY <3>0, <3>4
      <4> QED
        BY <3>2, <4>1
    <3> QED
      BY <2>6, <3>0, <3>3, <3>4
  <2>8. Sorted(events) => \A g, h \in Told : g.seq < h.seq /\ g \in Told' => h \in Told' \/ g = f
    <3> SUFFICES ASSUME Sorted(events), NEW g \in Told, NEW h \in Told, g.seq < h.seq, g \in Told',
                        h \notin Told', g # f
                 PROVE  FALSE
      OBVIOUS
    <3>1. h = events[1] /\ g \in Carried(Tail(events))
      BY <2>3, <2>5 DEF Told
    <3>2. PICK i \in DOMAIN Tail(events) : g = Tail(events)[i]
      BY <3>1 DEF Carried
    <3>3. g = events[i + 1] /\ i + 1 \in DOMAIN events /\ 1 < i + 1 /\ 1 \in DOMAIN events
      BY <2>3, <2>6, <3>2
    <3>4. h.seq < g.seq
      BY <3>1, <3>3 DEF Sorted
    <3>5. g.seq \in Nat /\ h.seq \in Nat
      <4>1. g \in Frames /\ h \in Frames
        BY <3>1, <3>3
      <4> QED
        BY <4>1 DEF Frames
    <3> QED
      BY <3>4, <3>5
  <2>9. Len(events') <= Capacity
    BY <1>3, <2>1, <2>3, <2>4, <2>6
  <2>10. Told' \subseteq Told \cup {f} /\ f \in Told'
    BY <2>3, <2>5 DEF Told
  <2> QED
    BY <1>3, <2>1, <2>3, <2>4, <2>7, <2>8, <2>9, <2>10
<1> QED
  BY <1>1, <1>2, <1>3

LEMMA StampIs ==
    ASSUME clock \in [generation : Nat \ {0}, revision : Nat], db \in [Resources -> 0..Changes],
           NEW kind \in {"invalidated", "snapshot", "state", "error"}, NEW res \in Resources,
           NEW value \in 0..None, NEW id \in Nat, NEW f, f = Stamp(kind, res, value, id)
    PROVE  /\ f \in Frames
           /\ f.kind = kind /\ f.res = res /\ f.value = value /\ f.id = id
           /\ f.gen = clock.generation /\ f.seq = clock.revision + 1
           /\ f.stale <=> kind \in {"snapshot", "state"} /\ value < db[res]
<1>1. f = [kind |-> kind, res |-> res, value |-> value, id |-> id,
           gen |-> clock.generation, seq |-> clock.revision + 1,
           stale |-> kind # "invalidated" /\ kind # "error" /\ value < db[res]]
  BY DEF Stamp
<1>2. (kind # "invalidated" /\ kind # "error" /\ value < db[res]) \in BOOLEAN
  OBVIOUS
<1>3. clock.generation \in Nat /\ clock.revision + 1 \in Nat
  OBVIOUS
<1>4. f \in Frames
  BY <1>1, <1>2, <1>3 DEF Frames
<1>5. f.stale <=> kind \in {"snapshot", "state"} /\ value < db[res]
  <2>1. PICK b \in BOOLEAN : b = (kind # "invalidated" /\ kind # "error" /\ value < db[res])
    BY <1>2
  <2>2. f.stale = b
    BY <1>1, <2>1
  <2> QED
    BY <2>1, <2>2
<1> QED
  BY <1>1, <1>4, <1>5

\* What an accepted frame leaves.
LEMMA AcceptIs ==
    ASSUME TypeOK, shell.nextId # 0, shell.gen # 0, shell.compatible,
           NEW f \in Frames, f.gen # 0, IsContent(f) => f.value \in 0..Changes,
           Accepted(f), Receive(f)
    PROVE  /\ shell' \in ShellType /\ shell'.compatible /\ shell'.nextId # 0
           /\ shell'.gen = f.gen
           /\ \A k \in Keys : shell'.seqs[k] =
                 IF f.kind # "error" /\ k = Key(f) THEN f.seq ELSE Since(f, k)
           /\ \A r \in Resources : shell'.view[r] =
                 IF IsContent(f) /\ r = f.res THEN f.value ELSE shell.view[r]
           /\ requests \subseteq requests'
           /\ \A q \in requests' \ requests :
                 /\ q \in [id : Nat, res : Keys, value : 0..None]
                 /\ q.id # 0 /\ q.value = None /\ Content(q.res) \in watched
                 /\ q.res = "messages" \/ (f.kind = "invalidated" /\ q.res = f.res)
           /\ f.kind = "invalidated" /\ f.res # "messages" /\ f.res \in watched =>
                 \E q \in requests' : q.res = f.res /\ q.value = None
           /\ (Mode(f) # "none" /\ After(f).pending = 0 /\ "messages" \in watched) =>
                 \E q \in requests' : q.res = "messages" /\ q.value = None /\ q.id = shell'.pending
           /\ ~(Mode(f) # "none" /\ After(f).pending = 0 /\ "messages" \in watched) =>
                 shell'.pending = After(f).pending
           /\ shell'.queued = (After(f).queued \/ (Mode(f) = "queue" /\ After(f).pending # 0))
<1> DEFINE wanted == IF f.kind = "invalidated" THEN {f.res} \ {"messages"} ELSE {}
<1>1. Ask(wanted, Mode(f), After(f))
  BY DEF Receive
<1>2. shell \in ShellType
  BY DEF TypeOK, ShellType
<1>3. f.res \in Resources /\ f.res \in Keys /\ f.res # "state"
  BY DEF Frames, Keys, Resources, Coalesced
<1>4. wanted \in SUBSET Keys /\ "messages" \notin wanted
  BY <1>3
<1>5. PICK known : known = After(f)
  OBVIOUS
<1>6. /\ known \in ShellType
      /\ known.compatible = shell.compatible
      /\ known.nextId = shell.nextId /\ known.gen = f.gen
      /\ \A k \in Keys : known.seqs[k] =
            IF f.kind # "error" /\ k = Key(f) THEN f.seq ELSE Since(f, k)
      /\ \A r \in Resources : known.view[r] =
            IF IsContent(f) /\ r = f.res THEN f.value ELSE shell.view[r]
  BY <1>2, <1>5, AfterIs
<1>7. PICK mode : mode = Mode(f)
  OBVIOUS
<1>8. Ask(wanted, mode, known)
  BY <1>1, <1>5, <1>7
<1>9. known.nextId # 0
  BY <1>6
<1>10. \A r \in wanted : r = f.res /\ f.kind = "invalidated" /\ Content(r) = r
  BY <1>3 DEF Content
<1>11. f.kind = "invalidated" /\ f.res # "messages" => f.res \in wanted
  OBVIOUS
<1> HIDE DEF wanted
<1>12. /\ shell' \in ShellType
       /\ shell'.compatible = known.compatible /\ shell'.gen = known.gen
       /\ shell'.seqs = known.seqs /\ shell'.view = known.view
       /\ shell'.nextId # 0
       /\ requests \subseteq requests'
  BY <1>4, <1>6, <1>8, <1>9, AskIs
<1>13. \A q \in requests' \ requests :
          /\ q \in [id : Nat, res : Keys, value : 0..None]
          /\ q.id # 0 /\ q.value = None /\ Content(q.res) \in watched
          /\ q.res \in wanted \cup {"messages"}
  BY <1>4, <1>6, <1>8, <1>9, AskIs
<1>14. \A r \in wanted : Content(r) \in watched =>
          \E q \in requests' : q.res = r /\ q.value = None
  BY <1>4, <1>6, <1>8, <1>9, AskIs
<1>15. (mode # "none" /\ known.pending = 0 /\ "messages" \in watched) =>
          \E q \in requests' : q.res = "messages" /\ q.value = None /\ q.id = shell'.pending
  BY <1>4, <1>6, <1>8, <1>9, AskIs
<1>16. ~(mode # "none" /\ known.pending = 0 /\ "messages" \in watched) =>
          shell'.pending = known.pending
  BY <1>4, <1>6, <1>8, <1>9, AskIs
<1>17. shell'.queued = (known.queued \/ (mode = "queue" /\ known.pending # 0))
  BY <1>4, <1>6, <1>8, <1>9, AskIs
<1>18. \A q \in requests' \ requests :
          /\ q \in [id : Nat, res : Keys, value : 0..None]
          /\ q.id # 0 /\ q.value = None /\ Content(q.res) \in watched
          /\ q.res = "messages" \/ (f.kind = "invalidated" /\ q.res = f.res)
  BY <1>10, <1>13
<1>19. f.kind = "invalidated" /\ f.res # "messages" /\ f.res \in watched =>
          \E q \in requests' : q.res = f.res /\ q.value = None
  BY <1>10, <1>11, <1>14
<1>20. shell'.compatible /\ shell'.gen = f.gen
  BY <1>6, <1>12
<1>21. \A k \in Keys : shell'.seqs[k] =
          IF f.kind # "error" /\ k = Key(f) THEN f.seq ELSE Since(f, k)
  BY <1>6, <1>12
<1>22. \A r \in Resources : shell'.view[r] =
          IF IsContent(f) /\ r = f.res THEN f.value ELSE shell.view[r]
  BY <1>6, <1>12
<1>23. (Mode(f) # "none" /\ After(f).pending = 0 /\ "messages" \in watched) =>
          \E q \in requests' : q.res = "messages" /\ q.value = None /\ q.id = shell'.pending
  BY <1>5, <1>7, <1>15
<1>24. ~(Mode(f) # "none" /\ After(f).pending = 0 /\ "messages" \in watched) =>
          shell'.pending = After(f).pending
  BY <1>5, <1>7, <1>16
<1>25. shell'.queued = (After(f).queued \/ (Mode(f) = "queue" /\ After(f).pending # 0))
  BY <1>5, <1>7, <1>17
<1> QED
  BY <1>12, <1>18, <1>19, <1>20, <1>21, <1>22, <1>23, <1>24, <1>25

\* What a frame that is not accepted leaves.
LEMMA RefuseIs ==
    ASSUME TypeOK, shell.nextId # 0, NEW f \in Frames,
           ~(shell.compatible /\ Accepted(f)), Receive(f)
    PROVE  /\ shell' \in ShellType /\ shell'.compatible = shell.compatible
           /\ shell'.nextId # 0
           /\ shell'.gen = shell.gen /\ shell'.seqs = shell.seqs /\ shell'.view = shell.view
           /\ requests \subseteq requests'
           /\ \A q \in requests' \ requests :
                 /\ q \in [id : Nat, res : Keys, value : 0..None]
                 /\ q.id # 0 /\ q.value = None /\ Content(q.res) \in watched
                 /\ q.res = "messages"
           /\ (shell.compatible /\ Answers(f, shell)) =>
                 IF "messages" \in watched
                   THEN \E q \in requests' :
                           q.res = "messages" /\ q.value = None /\ q.id = shell'.pending
                   ELSE shell'.pending = 0
           /\ (shell.compatible /\ Answers(f, shell)) => ~shell'.queued
           /\ ~(shell.compatible /\ Answers(f, shell)) =>
                 shell' = shell /\ requests' = requests
<1>1. shell \in ShellType
  BY DEF TypeOK, ShellType
<1>2. CASE ~(shell.compatible /\ Answers(f, shell))
  <2>1. shell' = shell /\ requests' = requests
    BY <1>2 DEF Receive
  <2> QED
    BY <1>1, <1>2, <2>1
<1>3. CASE shell.compatible /\ Answers(f, shell)
  <2>1. Ask({}, "plain", Reset(shell))
    BY <1>3 DEF Receive
  <2>2. PICK known : known = Reset(shell)
    OBVIOUS
  <2>3. /\ known \in ShellType /\ known.compatible = shell.compatible
        /\ known.nextId = shell.nextId /\ known.gen = shell.gen /\ known.seqs = shell.seqs
        /\ known.view = shell.view /\ known.pending = 0 /\ ~known.queued
    BY <1>1, <2>2 DEF Reset, ShellType
  <2>4. Ask({}, "plain", known) /\ known.nextId # 0
    BY <2>1, <2>2, <2>3
  <2>5. PICK wanted : wanted = {}
    OBVIOUS
  <2>6. wanted \in SUBSET Keys /\ "messages" \notin wanted /\ Ask(wanted, "plain", known)
    BY <2>4, <2>5
  <2>7. /\ shell' \in ShellType
        /\ shell'.compatible = known.compatible /\ shell'.gen = known.gen
        /\ shell'.seqs = known.seqs /\ shell'.view = known.view
        /\ shell'.nextId # 0
        /\ requests \subseteq requests'
    BY <2>3, <2>4, <2>6, AskIs
  <2>8. \A q \in requests' \ requests :
           /\ q \in [id : Nat, res : Keys, value : 0..None]
           /\ q.id # 0 /\ q.value = None /\ Content(q.res) \in watched
           /\ q.res \in wanted \cup {"messages"}
    BY <2>3, <2>4, <2>6, AskIs
  <2>9. "messages" \in watched =>
           \E q \in requests' : q.res = "messages" /\ q.value = None /\ q.id = shell'.pending
    BY <2>3, <2>4, <2>6, AskIs
  <2>10. "messages" \notin watched => shell'.pending = 0
    BY <2>3, <2>4, <2>6, AskIs
  <2>11. ~shell'.queued
    BY <2>3, <2>4, <2>6, AskIs
  <2>12. \A q \in requests' \ requests :
           /\ q \in [id : Nat, res : Keys, value : 0..None]
           /\ q.id # 0 /\ q.value = None /\ Content(q.res) \in watched
           /\ q.res = "messages"
    BY <2>5, <2>8
  <2>13. shell'.gen = shell.gen /\ shell'.seqs = shell.seqs /\ shell'.view = shell.view
         /\ shell'.compatible = shell.compatible
    BY <2>3, <2>7
  <2> QED
    BY <1>3, <2>7, <2>9, <2>10, <2>11, <2>12, <2>13
<1> QED
  BY <1>2, <1>3

\* The hello begins a generation for the shell; its State frame is newer than
\* those the shell has seen.
Begins == clock.generation > shell.gen

Newer == clock.revision + 2 > (IF Begins THEN 0 ELSE shell.seqs["state"])

LEMMA GreetIs ==
    ASSUME TypeOK, shell.nextId # 0, shell.gen # 0, Greet(shell)
    PROVE  /\ clock.generation < shell.gen =>
                 shell' = shell /\ requests' = requests /\ excused' = excused
           /\ ~(clock.generation < shell.gen) =>
                 /\ shell' \in ShellType /\ shell'.compatible /\ shell'.nextId # 0
                 /\ shell'.gen = clock.generation
                 /\ \A k \in Keys : shell'.seqs[k] =
                       IF k = "state" /\ Newer THEN clock.revision + 2
                       ELSE IF Begins THEN 0 ELSE shell.seqs[k]
                 /\ \A r \in Resources : shell'.view[r] =
                       IF r = "unread" /\ Newer THEN db[r] ELSE shell.view[r]
                 /\ requests \subseteq requests'
                 /\ \A q \in requests' \ requests :
                       /\ q \in [id : Nat, res : Keys, value : 0..None]
                       /\ q.id # 0 /\ q.value = None /\ Content(q.res) \in watched
                       /\ q.res \in {"state", "chats", "outbox", "messages"}
                 /\ \A r \in {"state", "chats", "outbox"} : Content(r) \in watched =>
                       \E q \in requests' : q.res = r /\ q.value = None
                 /\ (Begins \/ shell.pending = 0) /\ "messages" \in watched =>
                       \E q \in requests' :
                          q.res = "messages" /\ q.value = None /\ q.id = shell'.pending
                 /\ ~((Begins \/ shell.pending = 0) /\ "messages" \in watched) =>
                       shell'.pending = (IF Begins THEN 0 ELSE shell.pending)
                 /\ shell'.queued = (IF Begins THEN FALSE ELSE shell.queued)
                 /\ excused' = (excused \ (IF Newer THEN {"unread"} ELSE {})) \cup
                       (IF ~Begins /\ shell.pending # 0 THEN {"messages"} ELSE {})
<1>0. /\ shell \in ShellType
      /\ clock \in [generation : Nat \ {0}, revision : Nat]
      /\ db \in [Resources -> 0..Changes]
  BY DEF TypeOK, ShellType
<1> DEFINE hello == Stamp("hello", "unread", 0, 0)
           state == [Stamp("state", "unread", db["unread"], 0) EXCEPT !.seq = @ + 1]
           entered == Entered(hello, shell)
           greeted == [entered EXCEPT !.compatible = TRUE]
           newer == state.seq > greeted.seqs["state"]
<1>1. IF Older(hello)
       THEN /\ shell' = shell
            /\ UNCHANGED <<requests, excused>>
       ELSE /\ Ask({"state", "chats", "outbox"}, "plain",
                   IF newer THEN Shown(state, Recorded(state, greeted)) ELSE greeted)
            /\ excused' = (excused \ (IF newer THEN {"unread"} ELSE {})) \cup
                 (IF greeted.pending # 0 THEN {"messages"} ELSE {})
  BY DEF Greet
<1>2. hello.gen = clock.generation
  BY DEF Stamp
<1>3. /\ state.kind = "state" /\ state.res = "unread" /\ state.value = db["unread"]
      /\ state.seq = clock.revision + 2
  <2>1. PICK s : s = Stamp("state", "unread", db["unread"], 0)
    OBVIOUS
  <2>2. s = [kind |-> "state", res |-> "unread", value |-> db["unread"], id |-> 0,
             gen |-> clock.generation, seq |-> clock.revision + 1,
             stale |-> "state" # "invalidated" /\ "state" # "error" /\ db["unread"] < db["unread"]]
    BY <2>1 DEF Stamp
  <2>3. PICK t : t = [s EXCEPT !.seq = s.seq + 1]
    OBVIOUS
  <2>4. state = t
    BY <2>1, <2>3
  <2>5. t.kind = "state" /\ t.res = "unread" /\ t.value = db["unread"] /\ t.seq = clock.revision + 2
    BY <1>0, <2>2, <2>3
  <2> QED
    BY <2>4, <2>5
<1>4. PICK h : h = hello
  OBVIOUS
<1>5. PICK s : s = state
  OBVIOUS
<1>6. PICK e : e = entered
  OBVIOUS
<1>7. PICK g : g = [e EXCEPT !.compatible = TRUE]
  OBVIOUS
<1>8. e = Entered(h, shell) /\ h.gen = clock.generation /\ g = greeted
  BY <1>2, <1>4, <1>6, <1>7
<1>9. /\ s.kind = "state" /\ s.res = "unread" /\ s.value = db["unread"]
      /\ s.seq = clock.revision + 2
  BY <1>3, <1>5
<1>10. IF Older(h)
         THEN shell' = shell /\ UNCHANGED <<requests, excused>>
         ELSE /\ Ask({"state", "chats", "outbox"}, "plain",
                     IF s.seq > g.seqs["state"] THEN Shown(s, Recorded(s, g)) ELSE g)
              /\ excused' = (excused \ (IF s.seq > g.seqs["state"] THEN {"unread"} ELSE {})) \cup
                   (IF g.pending # 0 THEN {"messages"} ELSE {})
  BY <1>1, <1>4, <1>5, <1>8
<1> HIDE DEF hello, state, entered, greeted, newer
<1>11. Older(h) <=> clock.generation < shell.gen
  BY <1>0, <1>8 DEF Older, ShellType
<1>12. /\ e \in ShellType /\ e.compatible = shell.compatible
       /\ e.nextId = shell.nextId /\ e.view = shell.view
       /\ e.gen = (IF Begins THEN clock.generation ELSE shell.gen)
       /\ e.pending = (IF Begins THEN 0 ELSE shell.pending)
       /\ e.queued = (IF Begins THEN FALSE ELSE shell.queued)
  BY ZenonT(90), <1>0, <1>8, EnteredIs DEF Begins
<1>13. \A k \in Keys : e.seqs[k] = IF Begins THEN 0 ELSE shell.seqs[k]
  BY ZenonT(90), <1>0, <1>8, EnteredIs DEF Begins
<1>14. /\ g \in ShellType /\ g.compatible /\ g.nextId = e.nextId /\ g.view = e.view
       /\ g.gen = e.gen /\ g.pending = e.pending /\ g.queued = e.queued /\ g.seqs = e.seqs
  BY <1>7, <1>12 DEF ShellType
<1>15. "state" \in Keys /\ "unread" \in Resources
  BY DEF Keys, Resources, Coalesced
<1>16. s.seq > g.seqs["state"] <=> Newer
  BY <1>9, <1>13, <1>14, <1>15 DEF Newer
<1>17. PICK u : u = IF Newer THEN Shown(s, Recorded(s, g)) ELSE g
  OBVIOUS
<1>18. /\ u \in ShellType /\ u.compatible /\ u.nextId = g.nextId
       /\ u.gen = g.gen /\ u.pending = g.pending /\ u.queued = g.queued
       /\ \A k \in Keys : u.seqs[k] = IF k = "state" /\ Newer THEN clock.revision + 2 ELSE g.seqs[k]
       /\ \A r \in Resources : u.view[r] = IF r = "unread" /\ Newer THEN db[r] ELSE g.view[r]
  <2>1. CASE ~Newer
    BY <1>14, <1>17, <2>1
  <2>2. CASE Newer
    <3>1. PICK v : v = [g EXCEPT !.seqs = [g.seqs EXCEPT !["state"] = clock.revision + 2]]
      OBVIOUS
    <3>2. Key(s) = "state"
      BY <1>9 DEF Key
    <3>3. Recorded(s, g) = v
      BY <1>9, <1>14, <3>1, <3>2 DEF Recorded, ShellType
    <3>4. PICK w : w = [g.seqs EXCEPT !["state"] = clock.revision + 2]
      OBVIOUS
    <3>5. w \in [Keys -> Nat] /\ \A k \in Keys : w[k] = IF k = "state" THEN clock.revision + 2 ELSE g.seqs[k]
      <4>1. clock.revision + 2 \in Nat
        BY <1>0
      <4> QED
        BY <1>14, <1>15, <3>4, <4>1 DEF ShellType
    <3>6. v = [g EXCEPT !.seqs = w]
      BY <3>1, <3>4
    <3>7. /\ v \in ShellType /\ v.compatible /\ v.nextId = g.nextId /\ v.view = g.view
          /\ v.gen = g.gen /\ v.pending = g.pending /\ v.queued = g.queued /\ v.seqs = w
      BY <1>14, <3>5, <3>6 DEF ShellType
    <3>8. PICK x : x = [v.view EXCEPT !["unread"] = db["unread"]]
      OBVIOUS
    <3>9. /\ x \in [Resources -> 0..Changes]
          /\ \A r \in Resources : x[r] = IF r = "unread" THEN db[r] ELSE g.view[r]
      <4>1. db["unread"] \in 0..Changes
        BY <1>0, <1>15
      <4> QED
        BY <1>15, <3>7, <3>8, <4>1 DEF ShellType
    <3>10. u = [v EXCEPT !.view = x]
      BY <1>9, <1>17, <2>2, <3>3, <3>7, <3>8 DEF Shown, ShellType
    <3>11. /\ u \in ShellType /\ u.compatible /\ u.nextId = v.nextId /\ u.view = x
           /\ u.gen = v.gen /\ u.pending = v.pending /\ u.queued = v.queued /\ u.seqs = v.seqs
      BY <3>7, <3>9, <3>10 DEF ShellType
    <3>12. \A k \in Keys : u.seqs[k] = IF k = "state" /\ Newer THEN clock.revision + 2 ELSE g.seqs[k]
      BY <2>2, <3>5, <3>7, <3>11
    <3>13. \A r \in Resources : u.view[r] = IF r = "unread" /\ Newer THEN db[r] ELSE g.view[r]
      BY <2>2, <3>9, <3>11
    <3> QED
      BY <3>7, <3>11, <3>12, <3>13
  <2> QED
    BY <2>1, <2>2
<1>19. CASE clock.generation < shell.gen
  BY <1>10, <1>11, <1>19
<1>20. CASE ~(clock.generation < shell.gen)
  <2>1. PICK wanted : wanted = {"state", "chats", "outbox"}
    OBVIOUS
  <2>2. Ask(wanted, "plain", u)
    BY <1>10, <1>11, <1>16, <1>17, <1>20, <2>1
  <2>3. wanted \in SUBSET Keys /\ "messages" \notin wanted
    BY <2>1 DEF Keys, Resources, Coalesced
  <2>4. u.nextId # 0
    BY <1>12, <1>14, <1>18
  <2>5. /\ shell' \in ShellType
        /\ shell'.compatible = u.compatible /\ shell'.gen = u.gen
        /\ shell'.seqs = u.seqs /\ shell'.view = u.view
        /\ shell'.nextId # 0
        /\ requests \subseteq requests'
    BY <1>18, <2>2, <2>3, <2>4, AskIs
  <2>6. \A q \in requests' \ requests :
           /\ q \in [id : Nat, res : Keys, value : 0..None]
           /\ q.id # 0 /\ q.value = None /\ Content(q.res) \in watched
           /\ q.res \in wanted \cup {"messages"}
    BY <1>18, <2>2, <2>3, <2>4, AskIs
  <2>7. \A r \in wanted : Content(r) \in watched =>
           \E q \in requests' : q.res = r /\ q.value = None
    BY <1>18, <2>2, <2>3, <2>4, AskIs
  <2>8. u.pending = 0 /\ "messages" \in watched =>
           \E q \in requests' : q.res = "messages" /\ q.value = None /\ q.id = shell'.pending
    BY <1>18, <2>2, <2>3, <2>4, AskIs
  <2>9. ~(u.pending = 0 /\ "messages" \in watched) => shell'.pending = u.pending
    BY <1>18, <2>2, <2>3, <2>4, AskIs
  <2>10. shell'.queued = u.queued
    BY <1>18, <2>2, <2>3, <2>4, AskIs DEF ShellType
  <2>11. u.pending = (IF Begins THEN 0 ELSE shell.pending) /\ u.queued = (IF Begins THEN FALSE ELSE shell.queued)
    BY <1>12, <1>14, <1>18
  <2>12. u.gen = clock.generation
    BY <1>0, <1>12, <1>14, <1>18, <1>20 DEF Begins, ShellType
  <2>13. \A k \in Keys : shell'.seqs[k] =
            IF k = "state" /\ Newer THEN clock.revision + 2
            ELSE IF Begins THEN 0 ELSE shell.seqs[k]
    BY <1>13, <1>14, <1>18, <2>5
  <2>14. \A r \in Resources : shell'.view[r] = IF r = "unread" /\ Newer THEN db[r] ELSE shell.view[r]
    <3>1. g.view = shell.view
      BY <1>12, <1>14
    <3> QED
      BY <1>18, <2>5, <3>1
  <2>15. shell'.compatible /\ shell'.gen = clock.generation
    BY <1>18, <2>5, <2>12
  <2>16. excused' = (excused \ (IF Newer THEN {"unread"} ELSE {})) \cup
            (IF ~Begins /\ shell.pending # 0 THEN {"messages"} ELSE {})
    <3>1. g.pending # 0 <=> ~Begins /\ shell.pending # 0
      BY <1>12, <1>14
    <3>2. excused' = (excused \ (IF Newer THEN {"unread"} ELSE {})) \cup
            (IF g.pending # 0 THEN {"messages"} ELSE {})
      BY <1>10, <1>11, <1>16, <1>20
    <3> QED
      BY <3>1, <3>2
  <2>17. (Begins \/ shell.pending = 0) /\ "messages" \in watched =>
            \E q \in requests' :
               q.res = "messages" /\ q.value = None /\ q.id = shell'.pending
    BY <2>8, <2>11
  <2>18. ~((Begins \/ shell.pending = 0) /\ "messages" \in watched) =>
            shell'.pending = (IF Begins THEN 0 ELSE shell.pending)
    BY <2>9, <2>11
  <2>19. shell'.queued = (IF Begins THEN FALSE ELSE shell.queued)
    BY <2>10, <2>11
  <2>20. \A q \in requests' \ requests :
            /\ q \in [id : Nat, res : Keys, value : 0..None]
            /\ q.id # 0 /\ q.value = None /\ Content(q.res) \in watched
            /\ q.res \in {"state", "chats", "outbox", "messages"}
    BY <2>1, <2>6
  <2>21. \A r \in {"state", "chats", "outbox"} : Content(r) \in watched =>
            \E q \in requests' : q.res = r /\ q.value = None
    BY <2>1, <2>7
  <2> QED
    BY <1>20, <2>5, <2>13, <2>14, <2>15, <2>16, <2>17, <2>18, <2>19, <2>20, <2>21
<1> QED
  BY <1>19, <1>20

Listed == Resources \ {"unread"}

Wire == Told \cup Answered

TellShape(f) ==
    /\ f.id = 0
    /\ \/ f.kind = "invalidated" /\ f.res \in {"chats", "messages"}
       \/ f.kind = "snapshot" /\ f.res \in {"unread", "outbox"}
       \/ f.kind = "state" /\ f.res = "unread"

AnswerShape(f) ==
    /\ f.id # 0
    /\ \/ f.kind = "snapshot" /\ f.res \in Listed
       \/ f.kind = "state" /\ f.res = "unread"
       \/ f.kind = "error"

\* The shapes of what is on its way.
Shapes ==
    /\ TypeOK /\ shell.nextId # 0 /\ shell.gen # 0
    /\ \A f \in Told : TellShape(f)
    /\ \A f \in Answered : AnswerShape(f)
    /\ \A q \in requests : q.res \in Listed \cup {"state"} /\ q.id # 0 /\ Content(q.res) \in watched
    /\ greeting => events = <<>> /\ responses = <<>> /\ requests = {} /\ ~shell.compatible

\* The clock is ahead of every stamp, and of the shell's until the daemon
\* restarts.
Stamps ==
    /\ \A f \in Wire : f.gen # 0 /\ f.gen <= clock.generation /\ f.seq # 0 /\ f.seq <= clock.revision
    /\ \A f, g \in Wire : f.seq < g.seq => f.gen <= g.gen
    /\ Sorted(events)
    /\ ~restarted => \A k \in Keys : shell.seqs[k] <= clock.revision
    /\ ~restarted => shell.gen <= clock.generation
    /\ ~restarted => \A f \in Told : f.res = "unread" /\ f.kind = "snapshot" => shell.seqs["unread"] < f.seq
    /\ shell.gen > clock.generation => ~shell.compatible /\ excused = Resources

\* What the daemon holds is not ahead of the database.
Held ==
    /\ Total(db) <= Changes
    /\ \A r \in Resources : due[r] <= db[r] /\ (r \notin watched => db[r] = 0)
    /\ \A i \in DOMAIN lists : lists[i] <= db["outbox"]
    /\ status # None => status <= db["unread"]
    /\ owner["unread"] = "read" => total <= db["unread"]

\* Nothing is ahead of the database.
Behind ==
    /\ Held
    /\ \A r \in Resources : shell.view[r] <= db[r]
    /\ \A f \in Wire : IsContent(f) => f.value <= db[f.res]
    /\ \A q \in requests : q.value # None => q.value <= db[Content(q.res)]

\* The daemon has still to tell of the newest content.
Due(r) ==
    \/ due[r] > 0
    \/ r \in Coalesced /\ (window[r] = "trailing" \/ owner[r] = "publish")
    \/ r = "unread" /\ owner[r] = "read" /\ total = db[r]
    \/ r = "outbox" /\ \E i \in DOMAIN lists : lists[i] = db[r]

\* The frame brings it, or makes the shell ask for it.
News(f, r) == f.res = r /\ (f.kind = "invalidated" \/ (f.kind = "snapshot" /\ f.value = db[r]))

\* What a stamped frame no longer leaves to tell.
Announces(f) ==
    /\ \A r \in Resources : Due(r) => Due(r)' \/ News(f, r)
    /\ f.kind = "snapshot" /\ f.res = "unread" => owner["unread"] = "read" /\ owner'["unread"] = "sleep"
    /\ owner'["unread"] = "read" => owner["unread"] = "read"

\* A frame is stamped and sent.
Sends(f) ==
    /\ f \in Frames /\ TellShape(f)
    /\ f.gen = clock.generation /\ f.seq = clock.revision + 1
    /\ IsContent(f) => f.value <= db[f.res]
    /\ f.stale <=> IsContent(f) /\ f.value < db[f.res]
    /\ Broadcast(f) /\ Tick /\ Announces(f)
    /\ UNCHANGED <<db, due, window, responses, requests, greeting, shell, watched, left,
                   restarted, excused>>

\* A command is answered.
Replies(q, f) ==
    /\ f \in Frames /\ AnswerShape(f)
    /\ f.id = q.id /\ f.res = Content(q.res)
    /\ f.gen = clock.generation /\ f.seq = clock.revision + 1
    /\ \/ f.kind = "error"
       \/ /\ f.kind = (IF q.res = "state" THEN "state" ELSE "snapshot")
          /\ f.value = q.value /\ q.value # None /\ f.value <= db[f.res]
    /\ f.stale <=> IsContent(f) /\ f.value < db[f.res]
    /\ requests' = requests \ {q}
    /\ responses' = Append(responses, f)
    /\ Tick
    /\ UNCHANGED <<db, due, window, owner, total, lists, status, events, lagged, greeting,
                   shell, watched, restarted, excused>>

LEMMA ContentIs ==
    ASSUME NEW r \in Keys
    PROVE  Content(r) \in Resources /\ (r # "state" => r \in Resources /\ Content(r) = r)
BY DEF Content, Keys, Resources, Coalesced

LEMMA PublishAnnounces ==
    ASSUME Shapes, NEW r \in Coalesced, Publish(r), NEW f, f.res = r,
           IF r = "unread" THEN f.kind = "snapshot" /\ f.value = total ELSE f.kind = "invalidated"
    PROVE  Announces(f)
<1>1. /\ owner[r] = IF r = "unread" THEN "read" ELSE "publish"
      /\ owner' = [owner EXCEPT ![r] = "sleep"]
      /\ total' = IF r = "unread" THEN None ELSE total
      /\ UNCHANGED <<db, due, window, lists>>
  BY DEF Publish
<1>2. owner \in [Coalesced -> {"idle", "publish", "read", "sleep"}] /\ "unread" \in Coalesced
  BY DEF Shapes, TypeOK, Coalesced
<1>3. owner'[r] = "sleep" /\ \A s \in Coalesced \ {r} : owner'[s] = owner[s]
  BY <1>1, <1>2
<1>4. ASSUME NEW s \in Resources, Due(s) PROVE Due(s)' \/ News(f, s)
  <2>1. CASE s # r
    <3>1. s \in Coalesced => owner'[s] = owner[s]
      BY <1>3, <2>1
    <3>2. s = "unread" => total' = total
      BY <1>1, <2>1
    <3> QED
      BY <1>1, <1>2, <1>4, <3>1, <3>2 DEF Due
  <2>2. CASE s = r /\ r # "unread"
    BY <2>2 DEF News
  <2>3. CASE s = r /\ r = "unread"
    BY <1>1, <1>4, <2>3 DEF Due, News
  <2> QED
    BY <2>1, <2>2, <2>3
<1>5. f.kind = "snapshot" /\ f.res = "unread" => owner["unread"] = "read" /\ owner'["unread"] = "sleep"
  BY <1>1, <1>3
<1>6. owner'["unread"] = "read" => owner["unread"] = "read"
  BY <1>2, <1>3
<1> QED
  BY <1>4, <1>5, <1>6 DEF Announces

LEMMA ListAnnounces ==
    ASSUME Shapes, NEW i \in DOMAIN lists, PublishList(i), NEW f,
           f.kind = "snapshot", f.res = "outbox", f.value = lists[i]
    PROVE  Announces(f)
<1>1. /\ lists' = SubSeq(lists, 1, i - 1) \o SubSeq(lists, i + 1, Len(lists))
      /\ UNCHANGED <<db, due, window, owner, total>>
  BY DEF PublishList
<1>2. Carried(lists) \subseteq Carried(lists') \cup {lists[i]}
  <2>1. PICK S : S = 0..Changes
    OBVIOUS
  <2>2. lists \in Seq(S)
    BY <2>1 DEF Shapes, TypeOK
  <2> QED
    BY <1>1, <2>2, RemovedIs
<1>3. (\E j \in DOMAIN lists : lists[j] = db["outbox"]) =>
         lists[i] = db["outbox"] \/ \E j \in DOMAIN lists' : lists'[j] = db["outbox"]
  BY <1>2 DEF Carried
<1>4. ASSUME NEW s \in Resources, Due(s) PROVE Due(s)' \/ News(f, s)
  BY <1>1, <1>3, <1>4 DEF Due, News
<1> QED
  BY <1>1, <1>4 DEF Announces

LEMMA StatusAnnounces ==
    ASSUME PublishStatus, NEW f, f.kind = "state"
    PROVE  Announces(f)
<1>1. UNCHANGED <<db, due, window, owner, total, lists>>
  BY DEF PublishStatus
<1> QED
  BY <1>1 DEF Announces, Due

LEMMA SendsIs ==
    ASSUME Shapes, Behind,
           \/ \E r \in Coalesced : Publish(r)
           \/ \E i \in DOMAIN lists : PublishList(i)
           \/ PublishStatus
    PROVE  \E f : Sends(f)
<1>0. /\ clock \in [generation : Nat \ {0}, revision : Nat] /\ db \in [Resources -> 0..Changes]
      /\ total \in 0..None /\ status \in 0..None
      /\ None = Changes + 1 /\ Changes \in Nat
  BY BoundsAssumption DEF Shapes, TypeOK, None
<1>1. ASSUME NEW r \in Coalesced, Publish(r) PROVE \E f : Sends(f)
  <2>1. CASE r = "unread"
    <3>0. PICK kind \in {"snapshot"}, id \in {0}, res \in {"unread"} : TRUE
      OBVIOUS
    <3>1. PICK f : f = Stamp(kind, res, total, id)
      OBVIOUS
    <3>2. /\ f \in Frames
          /\ f.kind = kind /\ f.res = res /\ f.value = total /\ f.id = id
          /\ f.gen = clock.generation /\ f.seq = clock.revision + 1
          /\ f.stale <=> kind \in {"snapshot", "state"} /\ total < db[res]
      <4>1. kind \in {"invalidated", "snapshot", "state", "error"} /\ res \in Resources /\ id \in Nat
        BY <3>0 DEF Resources, Coalesced
      <4> QED
        BY <1>0, <3>1, <4>1, StampIs
    <3>3. Broadcast(f) /\ Tick
      BY <1>1, <2>1, <3>0, <3>1 DEF Publish
    <3>4. total <= db["unread"]
      BY <1>1, <2>1 DEF Publish, Behind, Held
    <3>5. UNCHANGED <<db, due, window, responses, requests, greeting, shell, watched,
                      left, restarted, excused>>
      BY <1>1 DEF Publish
    <3>6. f.stale <=> IsContent(f) /\ f.value < db[f.res]
      BY <3>0, <3>2 DEF IsContent
    <3>7. TellShape(f)
      BY <3>0, <3>2 DEF TellShape
    <3>8. Announces(f)
      BY <1>1, <2>1, <3>0, <3>2, PublishAnnounces
    <3> QED
      BY <3>0, <3>2, <3>3, <3>4, <3>5, <3>6, <3>7, <3>8 DEF Sends
  <2>2. CASE r # "unread"
    <3>0. PICK kind \in {"invalidated"}, id \in {0} : TRUE
      OBVIOUS
    <3>1. PICK f : f = Stamp(kind, r, None, id)
      OBVIOUS
    <3>2. /\ f \in Frames
          /\ f.kind = kind /\ f.res = r /\ f.id = id
          /\ f.gen = clock.generation /\ f.seq = clock.revision + 1
          /\ f.stale <=> kind \in {"snapshot", "state"} /\ None < db[r]
      <4>1. /\ r \in Resources /\ None \in 0..None /\ id \in Nat
            /\ kind \in {"invalidated", "snapshot", "state", "error"}
        BY <1>0, <3>0 DEF Resources
      <4> QED
        BY <1>0, <3>1, <4>1, StampIs
    <3>3. Broadcast(f) /\ Tick
      BY <1>1, <2>2, <3>0, <3>1 DEF Publish
    <3>5. UNCHANGED <<db, due, window, responses, requests, greeting, shell, watched,
                      left, restarted, excused>>
      BY <1>1 DEF Publish
    <3>6. (f.stale <=> IsContent(f) /\ f.value < db[f.res]) /\ ~IsContent(f)
      BY <3>0, <3>2 DEF IsContent
    <3>7. TellShape(f)
      BY <2>2, <3>0, <3>2 DEF TellShape, Coalesced
    <3>8. Announces(f)
      BY <1>1, <2>2, <3>0, <3>2, PublishAnnounces
    <3> QED
      BY <3>2, <3>3, <3>5, <3>6, <3>7, <3>8 DEF Sends
  <2> QED
    BY <2>1, <2>2
<1>2. ASSUME NEW i \in DOMAIN lists, PublishList(i) PROVE \E f : Sends(f)
  <2>0. PICK kind \in {"snapshot"}, id \in {0}, res \in {"outbox"}, n \in {lists[i]} : TRUE
    OBVIOUS
  <2>1. PICK f : f = Stamp(kind, res, n, id)
    OBVIOUS
  <2>2. lists[i] \in 0..None /\ "outbox" \in Resources /\ lists[i] <= db["outbox"]
    <3>1. lists[i] \in 0..Changes
      <4>1. lists \in Seq(0..Changes)
        BY DEF Shapes, TypeOK
      <4> QED
        BY <4>1, ElementIs
    <3> QED
      BY <1>0, <3>1 DEF Resources, Behind, Held
  <2>3. /\ f \in Frames
        /\ f.kind = kind /\ f.res = res /\ f.value = n /\ f.id = id
        /\ f.gen = clock.generation /\ f.seq = clock.revision + 1
        /\ f.stale <=> kind \in {"snapshot", "state"} /\ n < db[res]
    <3>1. /\ kind \in {"invalidated", "snapshot", "state", "error"}
          /\ res \in Resources /\ id \in Nat /\ n \in 0..None
      BY <2>0, <2>2
    <3>2. clock \in [generation : Nat \ {0}, revision : Nat] /\ db \in [Resources -> 0..Changes]
      BY <1>0
    <3> QED
      BY <2>1, <3>1, <3>2, StampIs
  <2>4. Broadcast(f) /\ Tick
    BY <1>2, <2>0, <2>1 DEF PublishList
  <2>5. UNCHANGED <<db, due, window, responses, requests, greeting, shell, watched, left,
                    restarted, excused>>
    BY <1>2 DEF PublishList
  <2>6. f.stale <=> IsContent(f) /\ f.value < db[f.res]
    BY <2>0, <2>3 DEF IsContent
  <2>7. TellShape(f)
    BY <2>0, <2>3 DEF TellShape
  <2>8. Announces(f)
    BY <1>2, <2>0, <2>3, ListAnnounces
  <2> QED
    BY <2>0, <2>2, <2>3, <2>4, <2>5, <2>6, <2>7, <2>8 DEF Sends
<1>3. CASE PublishStatus
  <2>0. PICK kind \in {"state"}, id \in {0}, res \in {"unread"} : TRUE
    OBVIOUS
  <2>1. PICK f : f = Stamp(kind, res, status, id)
    OBVIOUS
  <2>2. "unread" \in Resources /\ status <= db["unread"]
    BY <1>3 DEF Resources, Coalesced, Behind, Held, PublishStatus
  <2>3. /\ f \in Frames
        /\ f.kind = kind /\ f.res = res /\ f.value = status /\ f.id = id
        /\ f.gen = clock.generation /\ f.seq = clock.revision + 1
        /\ f.stale <=> kind \in {"snapshot", "state"} /\ status < db[res]
    <3>1. /\ kind \in {"invalidated", "snapshot", "state", "error"}
          /\ res \in Resources /\ id \in Nat
      BY <2>0, <2>2
    <3>2. clock \in [generation : Nat \ {0}, revision : Nat] /\ db \in [Resources -> 0..Changes]
      BY <1>0
    <3>3. status \in 0..None
      BY <1>0
    <3> QED
      BY <2>1, <3>1, <3>2, <3>3, StampIs
  <2>4. Broadcast(f) /\ Tick
    BY <1>3, <2>0, <2>1 DEF PublishStatus
  <2>5. UNCHANGED <<db, due, window, responses, requests, greeting, shell, watched, left,
                    restarted, excused>>
    BY <1>3 DEF PublishStatus
  <2>6. f.stale <=> IsContent(f) /\ f.value < db[f.res]
    BY <2>0, <2>3 DEF IsContent
  <2>7. TellShape(f)
    BY <2>0, <2>3 DEF TellShape
  <2>8. Announces(f)
    BY <1>3, <2>0, <2>3, StatusAnnounces
  <2> QED
    BY <2>0, <2>2, <2>3, <2>4, <2>5, <2>6, <2>7, <2>8 DEF Sends
<1> QED
  BY <1>1, <1>2, <1>3

LEMMA RepliesIs ==
    ASSUME Shapes, Behind, NEW q \in requests, Respond(q) \/ Fail(q)
    PROVE  \E f : Replies(q, f)
<1>0. /\ clock \in [generation : Nat \ {0}, revision : Nat] /\ db \in [Resources -> 0..Changes]
      /\ None = Changes + 1 /\ Changes \in Nat
      /\ q \in [id : Nat, res : Keys, value : 0..None]
      /\ q.id # 0 /\ q.res \in Listed \cup {"state"}
  BY BoundsAssumption DEF Shapes, TypeOK, None
<1>1. Content(q.res) \in Resources /\ (q.res # "state" => Content(q.res) = q.res /\ q.res \in Listed)
      /\ (q.res = "state" => Content(q.res) = "unread")
  BY <1>0 DEF Content, Resources, Coalesced, Listed
<1>2. CASE Respond(q)
  <2>1. PICK kind \in {"snapshot", "state"} : kind = IF q.res = "state" THEN "state" ELSE "snapshot"
    OBVIOUS
  <2>2. PICK f : f = Stamp(kind, Content(q.res), q.value, q.id)
    OBVIOUS
  <2>3. /\ f \in Frames
        /\ f.kind = kind /\ f.res = Content(q.res) /\ f.value = q.value /\ f.id = q.id
        /\ f.gen = clock.generation /\ f.seq = clock.revision + 1
        /\ f.stale <=> kind \in {"snapshot", "state"} /\ q.value < db[Content(q.res)]
    <3>1. q.value \in 0..None /\ q.id \in Nat /\ kind \in {"invalidated", "snapshot", "state", "error"}
      BY <1>0, <2>1
    <3> QED
      BY SMTT(60), <1>0, <1>1, <2>2, <3>1, StampIs
  <2>4. requests' = requests \ {q} /\ responses' = Append(responses, f) /\ Tick
    BY <1>2, <2>1, <2>2 DEF Respond
  <2>5. UNCHANGED <<db, due, window, owner, total, lists, status, events, lagged, greeting,
                   shell, watched, restarted, excused>>
    BY <1>2 DEF Respond
  <2>6. f.stale <=> IsContent(f) /\ f.value < db[f.res]
    BY <2>3 DEF IsContent
  <2>7. AnswerShape(f)
    BY <1>0, <1>1, <2>1, <2>3 DEF AnswerShape
  <2>8. q.value # None /\ f.value <= db[f.res]
    BY <1>2, <2>3 DEF Respond, Behind
  <2>9. f.kind = (IF q.res = "state" THEN "state" ELSE "snapshot") /\ f.value = q.value
    BY <2>1, <2>3
  <2> QED
    BY <2>3, <2>4, <2>5, <2>6, <2>7, <2>8, <2>9 DEF Replies
<1>3. CASE Fail(q)
  <2>2. PICK f : f = Stamp("error", Content(q.res), None, q.id)
    OBVIOUS
  <2>3. /\ f \in Frames
        /\ f.kind = "error" /\ f.res = Content(q.res) /\ f.id = q.id
        /\ f.gen = clock.generation /\ f.seq = clock.revision + 1
        /\ f.stale <=> "error" \in {"snapshot", "state"} /\ None < db[Content(q.res)]
    <3>1. None \in 0..None /\ q.id \in Nat
      BY <1>0
    <3> QED
      BY <1>0, <1>1, <2>2, <3>1, StampIs
  <2>4. requests' = requests \ {q} /\ responses' = Append(responses, f) /\ Tick
    BY <1>3, <2>2 DEF Fail
  <2>5. UNCHANGED <<db, due, window, owner, total, lists, status, events, lagged, greeting,
                   shell, watched, restarted, excused>>
    BY <1>3 DEF Fail
  <2>6. f.stale <=> IsContent(f) /\ f.value < db[f.res]
    BY <2>3 DEF IsContent
  <2>7. AnswerShape(f)
    BY <1>0, <2>3 DEF AnswerShape
  <2> QED
    BY <2>3, <2>4, <2>5, <2>6, <2>7 DEF Replies
<1> QED
  BY <1>2, <1>3

\* A frame reaches the shell.
Delivers(f) ==
    /\ f \in Wire /\ f \in Frames /\ ~greeting
    /\ Receive(f)
    /\ events' \in Seq(Frames) /\ Len(events') <= Capacity /\ responses' \in Seq(Frames)
    /\ Told' \subseteq Told /\ Answered' \subseteq Answered
    /\ Told \subseteq Told' \cup {f} /\ Answered \subseteq Answered' \cup {f}
    /\ Sorted(events) => Sorted(events')
    /\ \/ f \in Answered /\ events' = events
       \/ f \in Told /\ responses' = responses /\ (Sorted(events) => \A g \in Told' : f.seq < g.seq)
    /\ UNCHANGED <<daemon, lagged, greeting, watched, left, restarted>>

LEMMA DeliversIs ==
    ASSUME Shapes, WriteEvent \/ WriteResponse
    PROVE  \E f : Delivers(f)
<1>0. /\ events \in Seq(Frames) /\ responses \in Seq(Frames) /\ Len(events) <= Capacity
      /\ Capacity \in Nat
  BY BoundsAssumption DEF Shapes, TypeOK
<1>1. CASE WriteEvent
  <2>1. PICK f : f = Head(events)
    OBVIOUS
  <2>2. events # <<>> /\ ~greeting /\ events' = Tail(events) /\ Receive(f)
    BY <1>1, <2>1 DEF WriteEvent
  <2>3. UNCHANGED <<daemon, lagged, greeting, watched, left,
                    restarted>> /\ responses' = responses
    BY <1>1 DEF WriteEvent
  <2>4. /\ Tail(events) \in Seq(Frames) /\ f \in Frames
        /\ Len(Tail(events)) = Len(events) - 1 /\ Len(events) > 0 /\ f = events[1]
        /\ \A i \in DOMAIN Tail(events) : i + 1 \in DOMAIN events /\ Tail(events)[i] = events[i + 1]
        /\ f \in Carried(events) /\ Carried(Tail(events)) \subseteq Carried(events)
        /\ Carried(events) = Carried(Tail(events)) \cup {f}
    BY <1>0, <2>1, <2>2, TailIs
  <2>5. Told' = Carried(Tail(events)) /\ Answered' = Answered
    BY <2>2, <2>3 DEF Told, Answered, Carried
  <2>6. Len(Tail(events)) \in Nat /\ DOMAIN Tail(events) = 1..Len(Tail(events)) /\ Len(events) \in Nat
    BY <1>0, <2>4
  <2>7. Sorted(events) => Sorted(events')
    <3> SUFFICES ASSUME Sorted(events), NEW i \in DOMAIN Tail(events), NEW j \in DOMAIN Tail(events), i < j
                 PROVE  Tail(events)[i].seq < Tail(events)[j].seq
      BY <2>2 DEF Sorted
    <3>1. i + 1 < j + 1
      BY <2>6
    <3> QED
      BY <2>4, <3>1 DEF Sorted
  <2>8. Sorted(events) => \A g \in Told' : f.seq < g.seq
    <3> SUFFICES ASSUME Sorted(events), NEW g \in Carried(Tail(events)) PROVE f.seq < g.seq
      BY <2>5
    <3>1. PICK i \in DOMAIN Tail(events) : g = Tail(events)[i]
      BY DEF Carried
    <3>2. 1 < i + 1 /\ 1 \in DOMAIN events /\ i + 1 \in DOMAIN events /\ g = events[i + 1]
      BY <1>0, <2>4, <2>6, <3>1
    <3> QED
      BY <2>4, <3>2 DEF Sorted
  <2>9. Len(events') <= Capacity /\ events' \in Seq(Frames) /\ responses' \in Seq(Frames)
    BY <1>0, <2>2, <2>3, <2>4, <2>6
  <2>10. Told' \subseteq Told /\ Told \subseteq Told' \cup {f} /\ f \in Told
    BY <2>4, <2>5 DEF Told
  <2>11. f \in Wire /\ Answered' \subseteq Answered /\ Answered \subseteq Answered' \cup {f}
    BY SMTT(60), <2>5, <2>10 DEF Wire
  <2>12. Delivers(f)
    BY ZenonT(60), <2>2, <2>3, <2>4, <2>7, <2>8, <2>9, <2>10, <2>11 DEF Delivers
  <2> QED
    BY <2>12
<1>2. CASE WriteResponse
  <2>1. PICK f : f = Head(responses)
    OBVIOUS
  <2>2. responses # <<>> /\ ~greeting /\ responses' = Tail(responses) /\ Receive(f)
    BY <1>2, <2>1 DEF WriteResponse
  <2>3. UNCHANGED <<daemon, lagged, greeting, watched, left, restarted>> /\ events' = events
    BY <1>2 DEF WriteResponse
  <2>4. /\ Tail(responses) \in Seq(Frames) /\ f \in Frames
        /\ f \in Carried(responses) /\ Carried(Tail(responses)) \subseteq Carried(responses)
        /\ Carried(responses) = Carried(Tail(responses)) \cup {f}
    BY <1>0, <2>1, <2>2, TailIs
  <2>5. Answered' = Carried(Tail(responses)) /\ Told' = Told
    BY <2>2, <2>3 DEF Told, Answered, Carried
  <2>6. Sorted(events) => Sorted(events')
    BY <2>3
  <2>7. Len(events') <= Capacity /\ events' \in Seq(Frames) /\ responses' \in Seq(Frames)
    BY <1>0, <2>2, <2>3, <2>4
  <2>8. Answered' \subseteq Answered /\ Answered \subseteq Answered' \cup {f} /\ f \in Answered
    BY <2>4, <2>5 DEF Answered
  <2>9. f \in Wire /\ Told' \subseteq Told /\ Told \subseteq Told' \cup {f}
    BY <2>5, <2>8 DEF Wire
  <2>10. Delivers(f)
    BY <2>2, <2>3, <2>4, <2>6, <2>7, <2>8, <2>9 DEF Delivers
  <2> QED
    BY <2>10
<1> QED
  BY <1>1, <1>2

\* The steps of the daemon that send nothing.
Inside ==
    \/ \E r \in Resources : Change(r)
    \/ \E r \in Coalesced : Schedule(r) \/ FinishWindow(r)
    \/ ReadTotal \/ ReadList \/ ReadStatus \/ BeginGeneration

Sending ==
    \/ \E r \in Coalesced : Publish(r)
    \/ \E i \in DOMAIN lists : PublishList(i)
    \/ PublishStatus

LEMMA NextIs ==
    ASSUME Next
    PROVE  \/ Inside \/ Sending \/ WriteSync \/ WriteEvent \/ WriteResponse
           \/ \E q \in requests : ReadSnapshot(q) \/ Respond(q) \/ Fail(q)
           \/ Reconnect \/ RestartDaemon \/ UNCHANGED vars
BY DEF Next, Inside, Sending, Rest

LEMMA InsideIs ==
    ASSUME Inside
    PROVE  /\ UNCHANGED <<connection, shell, watched, restarted, excused>>
           /\ UNCHANGED <<events, lagged, responses, requests, greeting, shell, watched,
                          restarted, excused>>
           /\ UNCHANGED <<Told, Answered, Wire>>
<1>1. UNCHANGED <<events, lagged, responses, requests, greeting, shell, watched,
                  restarted, excused>>
  BY DEF Inside, Change, Schedule, FinishWindow, ReadTotal, ReadList, ReadStatus,
        BeginGeneration, connection
<1>2. UNCHANGED <<Told, Answered, Wire>>
  BY <1>1 DEF Told, Answered, Wire, Carried
<1> QED
  BY <1>1, <1>2 DEF connection

DaemonType ==
    /\ db \in [Resources -> 0..Changes]
    /\ due \in [Resources -> 0..Changes]
    /\ window \in [Coalesced -> {"closed", "open", "trailing"}]
    /\ owner \in [Coalesced -> {"idle", "publish", "read", "sleep"}]
    /\ \A r \in Coalesced : window[r] = "closed" <=> owner[r] = "idle"
    /\ total \in 0..None /\ status \in 0..None
    /\ lists \in Seq(0..Changes)
    /\ clock \in [generation : Nat \ {0}, revision : Nat]
    /\ left \in 0..Happenings

LinkType ==
    /\ events \in Seq(Frames) /\ Len(events) <= Capacity
    /\ responses \in Seq(Frames)
    /\ requests \subseteq [id : Nat, res : Keys, value : 0..None]
    /\ lagged \in BOOLEAN /\ greeting \in BOOLEAN
    /\ shell \in ShellType
    /\ watched \in Watched
    /\ restarted \in BOOLEAN
    /\ excused \subseteq Resources

LEMMA TypesAre == TypeOK <=> DaemonType /\ LinkType
BY DEF TypeOK, DaemonType, LinkType, ShellType

LEMMA TypesAreNext == TypeOK' <=> DaemonType' /\ LinkType'
BY DEF TypeOK, DaemonType, LinkType, ShellType

LEMMA TotalIs ==
    ASSUME NEW d \in [Resources -> Nat], NEW r \in Resources
    PROVE  /\ d[r] <= Total(d) /\ Total(d) \in Nat
           /\ Total([d EXCEPT ![r] = d[r] + 1]) = Total(d) + 1
<1>1. /\ d["chats"] \in Nat /\ d["messages"] \in Nat /\ d["unread"] \in Nat /\ d["outbox"] \in Nat
      /\ r \in {"chats", "messages", "unread", "outbox"}
  BY DEF Resources, Coalesced
<1>2. PICK e : e = [d EXCEPT ![r] = d[r] + 1]
  OBVIOUS
<1>3. \A s \in Resources : e[s] = IF s = r THEN d[s] + 1 ELSE d[s]
  BY <1>2
<1>4. \A s \in {"chats", "messages", "unread", "outbox"} : e[s] = IF s = r THEN d[s] + 1 ELSE d[s]
  BY <1>3 DEF Resources, Coalesced
<1>5. Total(e) = Total(d) + 1
  BY <1>1, <1>4 DEF Total
<1>6. d[r] <= Total(d) /\ Total(d) \in Nat
  BY <1>1 DEF Total
<1> QED
  BY <1>2, <1>5, <1>6

LEMMA ChangeIs ==
    ASSUME DaemonType, Held, NEW r \in Resources, Change(r)
    PROVE  /\ r \in watched
           /\ db' \in [Resources -> 0..Changes] /\ due' \in [Resources -> 0..Changes]
           /\ Total(db') <= Changes
           /\ \A s \in Resources : db'[s] = (IF s = r THEN db[s] + 1 ELSE db[s])
           /\ \A s \in Resources : due'[s] = (IF s = r THEN due[s] + 1 ELSE due[s])
           /\ \A s \in Resources : db[s] <= db'[s]
<1>1. /\ r \in watched /\ Total(db) < Changes
      /\ db' = [db EXCEPT ![r] = db[r] + 1] /\ due' = [due EXCEPT ![r] = due[r] + 1]
  BY DEF Change
<1>2. /\ db \in [Resources -> 0..Changes] /\ due \in [Resources -> 0..Changes] /\ Changes \in Nat
      /\ due[r] <= db[r]
  BY BoundsAssumption DEF DaemonType, Held
<1>3. db \in [Resources -> Nat]
  BY <1>2
<1>4. db[r] <= Total(db) /\ Total(db) \in Nat /\ Total([db EXCEPT ![r] = db[r] + 1]) = Total(db) + 1
  BY <1>3, TotalIs
<1>5. Total(db') <= Changes
  BY <1>1, <1>2, <1>4
<1>6. db[r] + 1 \in 0..Changes /\ due[r] + 1 \in 0..Changes
  BY <1>1, <1>2, <1>4
<1> QED
  BY <1>1, <1>2, <1>5, <1>6

LEMMA InsideHolds ==
    ASSUME DaemonType, Held, Inside
    PROVE  /\ DaemonType' /\ Held'
           /\ \A r \in Resources : db[r] <= db'[r]
           /\ clock'.revision = clock.revision /\ clock.generation <= clock'.generation
<1>0. /\ Changes \in Nat /\ Happenings \in Nat /\ None = Changes + 1
      /\ Coalesced \subseteq Resources /\ "unread" \in Coalesced /\ "outbox" \in Resources
      /\ \A r \in Resources : db[r] \in 0..Changes /\ due[r] \in 0..Changes
      /\ clock.generation \in Nat \ {0} /\ clock.revision \in Nat
  BY BoundsAssumption DEF None, Coalesced, Resources, DaemonType
<1>1. ASSUME NEW r \in Resources, Change(r)
      PROVE  /\ DaemonType' /\ Held'
             /\ \A s \in Resources : db[s] <= db'[s]
             /\ clock' = clock
  <2>1. /\ r \in watched
        /\ db' \in [Resources -> 0..Changes] /\ due' \in [Resources -> 0..Changes]
        /\ Total(db') <= Changes
        /\ \A s \in Resources : db'[s] = (IF s = r THEN db[s] + 1 ELSE db[s])
        /\ \A s \in Resources : due'[s] = (IF s = r THEN due[s] + 1 ELSE due[s])
        /\ \A s \in Resources : db[s] <= db'[s]
    BY <1>1, ChangeIs
  <2>2. UNCHANGED <<window, owner, total, lists, status, clock, left, watched>>
    BY <1>1 DEF Change
  <2>3. DaemonType'
    BY <2>1, <2>2 DEF DaemonType
  <2>4. \A s \in Resources : due'[s] <= db'[s] /\ (s \notin watched' => db'[s] = 0)
    BY <1>0, <2>1, <2>2 DEF Held
  <2>5. \A i \in DOMAIN lists' : lists'[i] <= db'["outbox"]
    <3>1. \A i \in DOMAIN lists : lists[i] \in 0..Changes
      BY ElementIs DEF DaemonType
    <3>2. db'["outbox"] \in 0..Changes
      BY <1>0, <2>1
    <3> QED
      BY <1>0, <2>1, <2>2, <3>1, <3>2 DEF Held
  <2>6. "unread" \in Resources /\ db["unread"] <= db'["unread"] /\ db'["unread"] \in Nat
        /\ total \in Nat /\ status \in Nat /\ db["unread"] \in Nat
    BY <1>0, <2>1 DEF DaemonType
  <2>7. status' # None => status' <= db'["unread"]
    BY <2>2, <2>6 DEF Held, None
  <2>8. owner'["unread"] = "read" => total' <= db'["unread"]
    BY <2>2, <2>6 DEF Held
  <2> QED
    BY <2>1, <2>2, <2>3, <2>4, <2>5, <2>7, <2>8 DEF Held
<1>2. ASSUME NEW r \in Coalesced, Schedule(r) PROVE DaemonType' /\ Held' /\ db' = db /\ clock' = clock
  <2>1. /\ due[r] > 0 /\ due' = [due EXCEPT ![r] = due[r] - 1]
        /\ UNCHANGED <<db, total, lists, status, clock, left, watched>>
    BY <1>2 DEF Schedule
  <2>2. /\ due' \in [Resources -> 0..Changes]
        /\ \A s \in Resources : due'[s] <= due[s]
    BY SMTT(60), <1>0, <2>1 DEF DaemonType
  <2>3. /\ window' \in [Coalesced -> {"closed", "open", "trailing"}]
        /\ owner' \in [Coalesced -> {"idle", "publish", "read", "sleep"}]
        /\ \A s \in Coalesced : window'[s] = "closed" <=> owner'[s] = "idle"
        /\ owner'["unread"] = "read" => owner["unread"] = "read"
    BY ZenonT(90), <1>0, <1>2 DEF Schedule, DaemonType
  <2>4. DaemonType'
    BY <2>1, <2>2, <2>3 DEF DaemonType
  <2>5. \A s \in Resources : due'[s] <= db'[s] /\ (s \notin watched' => db'[s] = 0)
    BY <1>0, <2>1, <2>2 DEF Held
  <2> QED
    BY <2>1, <2>3, <2>4, <2>5 DEF Held
<1>3. ASSUME NEW r \in Coalesced, FinishWindow(r) PROVE DaemonType' /\ Held' /\ db' = db /\ clock' = clock
  <2>1. UNCHANGED <<db, due, total, lists, status, clock, left, watched>>
    BY <1>3 DEF FinishWindow
  <2>3. /\ window' \in [Coalesced -> {"closed", "open", "trailing"}]
        /\ owner' \in [Coalesced -> {"idle", "publish", "read", "sleep"}]
        /\ \A s \in Coalesced : window'[s] = "closed" <=> owner'[s] = "idle"
        /\ owner'["unread"] = "read" => owner["unread"] = "read"
    BY ZenonT(90), <1>0, <1>3 DEF FinishWindow, DaemonType
  <2>4. DaemonType'
    BY <2>1, <2>3 DEF DaemonType
  <2> QED
    BY <2>1, <2>3, <2>4 DEF Held
<1>4. CASE ReadTotal
  <2>1. /\ owner["unread"] = "publish" /\ total' = db["unread"]
        /\ owner' = [owner EXCEPT !["unread"] = "read"]
        /\ UNCHANGED <<db, due, window, lists, status, clock, left, watched>>
    BY <1>4 DEF ReadTotal
  <2>2. /\ owner' \in [Coalesced -> {"idle", "publish", "read", "sleep"}]
        /\ \A s \in Coalesced : window'[s] = "closed" <=> owner'[s] = "idle"
    BY <1>0, <2>1 DEF DaemonType
  <2>3. total' \in 0..None /\ total' <= db'["unread"]
    BY <1>0, <2>1
  <2>4. DaemonType'
    BY <2>1, <2>2, <2>3 DEF DaemonType
  <2> QED
    BY <1>0, <1>4, <2>1, <2>3, <2>4 DEF Held
<1>5. CASE ReadList
  <2>1. /\ due["outbox"] > 0 /\ due' = [due EXCEPT !["outbox"] = due["outbox"] - 1]
        /\ lists' = Append(lists, db["outbox"])
        /\ UNCHANGED <<db, window, owner, total, status, clock, left, watched>>
    BY <1>5 DEF ReadList
  <2>2. /\ due' \in [Resources -> 0..Changes]
        /\ \A s \in Resources : due'[s] <= due[s]
    BY SMTT(60), <1>0, <2>1 DEF DaemonType
  <2>3. PICK S : S = 0..Changes
    OBVIOUS
  <2>4. lists \in Seq(S) /\ db["outbox"] \in S
    BY <1>0, <2>3 DEF DaemonType
  <2>5. lists' \in Seq(S) /\ Carried(lists') = Carried(lists) \cup {db["outbox"]}
    BY <2>1, <2>4, AppendIs
  <2>6. \A i \in DOMAIN lists' : lists'[i] <= db'["outbox"]
    <3>1. TAKE i \in DOMAIN lists'
    <3>2. lists'[i] \in Carried(lists')
      BY DEF Carried
    <3>3. CASE lists'[i] = db["outbox"]
      BY <1>0, <2>1, <3>3
    <3>4. CASE lists'[i] \in Carried(lists)
      BY <2>1, <3>4 DEF Carried, Held
    <3> QED
      BY <2>5, <3>2, <3>3, <3>4
  <2>7. DaemonType'
    BY <2>1, <2>2, <2>3, <2>5 DEF DaemonType
  <2>8. \A s \in Resources : due'[s] <= db'[s] /\ (s \notin watched' => db'[s] = 0)
    BY SMTT(60), <1>0, <2>1, <2>2 DEF Held
  <2>9. Total(db') <= Changes
    BY <2>1 DEF Held
  <2>10. (status' # None => status' <= db'["unread"]) /\ (owner'["unread"] = "read" => total' <= db'["unread"])
    BY <2>1 DEF Held
  <2>11. Held'
    BY <2>6, <2>8, <2>9, <2>10 DEF Held
  <2> QED
    BY <1>0, <2>1, <2>7, <2>11
<1>6. CASE ReadStatus
  <2>1. /\ status' = db["unread"] /\ left > 0 /\ left' = left - 1
        /\ UNCHANGED <<db, due, window, owner, total, lists, clock, watched>>
    BY <1>6 DEF ReadStatus, Happens
  <2>2. status' \in 0..None /\ left' \in 0..Happenings /\ status' <= db'["unread"]
    BY <1>0, <2>1 DEF DaemonType
  <2>3. DaemonType'
    BY <2>1, <2>2 DEF DaemonType
  <2>4. Total(db') <= Changes
    BY <2>1 DEF Held
  <2>5. \A s \in Resources : due'[s] <= db'[s] /\ (s \notin watched' => db'[s] = 0)
    BY <2>1 DEF Held
  <2>6. \A i \in DOMAIN lists' : lists'[i] <= db'["outbox"]
    BY <2>1 DEF Held
  <2>7. (status' # None => status' <= db'["unread"]) /\ (owner'["unread"] = "read" => total' <= db'["unread"])
    BY <2>1, <2>2 DEF Held
  <2>8. Held'
    BY <2>4, <2>5, <2>6, <2>7 DEF Held
  <2>9. \A r \in Resources : db[r] <= db'[r]
    BY <1>0, <2>1
  <2> QED
    BY <1>0, <2>1, <2>3, <2>8, <2>9
<1>7. CASE BeginGeneration
  <2>1. /\ clock' = [clock EXCEPT !.generation = clock.generation + 1] /\ left > 0 /\ left' = left - 1
        /\ UNCHANGED <<db, due, window, owner, total, lists, status, watched>>
    BY <1>7 DEF BeginGeneration, Happens
  <2>2. clock' \in [generation : Nat \ {0}, revision : Nat] /\ left' \in 0..Happenings
        /\ clock'.revision = clock.revision /\ clock'.generation = clock.generation + 1
    <3>1. clock \in [generation : Nat \ {0}, revision : Nat] /\ left \in 0..Happenings
      BY DEF DaemonType
    <3>2. clock.generation + 1 \in Nat \ {0}
      BY <1>0
    <3>3. left' \in 0..Happenings
      BY <1>0, <2>1, <3>1
    <3> QED
      BY <2>1, <3>1, <3>2, <3>3
  <2>3. DaemonType'
    BY <2>1, <2>2 DEF DaemonType
  <2>4. Held'
    BY <2>1 DEF Held
  <2> QED
    BY <1>0, <2>1, <2>2, <2>3, <2>4
<1> QED
  BY <1>0, <1>1, <1>2, <1>3, <1>4, <1>5, <1>6, <1>7 DEF Inside

LEMMA WireIs ==
    ASSUME Shapes
    PROVE  /\ \A f \in Wire : f \in Frames /\ f.res \in Resources /\ f.value \in Nat
                              /\ f.gen \in Nat /\ f.seq \in Nat /\ f.id \in Nat
           /\ Told \subseteq Wire /\ Answered \subseteq Wire
           /\ \A q \in requests : q.id \in Nat /\ q.res \in Keys /\ q.value \in 0..None
                                 /\ Content(q.res) \in Resources
<1>1. events \in Seq(Frames) /\ responses \in Seq(Frames)
      /\ requests \subseteq [id : Nat, res : Keys, value : 0..None]
  BY DEF Shapes, TypeOK
<1>2. Told \subseteq Frames /\ Answered \subseteq Frames
  BY <1>1, ElementIs DEF Told, Answered
<1>3. None \in Nat
  BY BoundsAssumption DEF None
<1>4. \A f \in Frames : f.res \in Resources /\ f.value \in Nat
                              /\ f.gen \in Nat /\ f.seq \in Nat /\ f.id \in Nat
  BY <1>3 DEF Frames
<1> QED
  BY <1>1, <1>2, <1>4, ContentIs DEF Wire

LEMMA DataIs ==
    ASSUME Shapes
    PROVE  /\ \A r \in Resources : db[r] \in 0..Changes /\ due[r] \in 0..Changes
                                   /\ shell.view[r] \in 0..Changes
           /\ \A k \in Keys : shell.seqs[k] \in Nat
           /\ clock.generation \in Nat /\ clock.generation # 0 /\ clock.revision \in Nat
           /\ shell.gen \in Nat /\ shell.pending \in Nat /\ shell.nextId \in Nat
           /\ shell.compatible \in BOOLEAN /\ shell.queued \in BOOLEAN
           /\ shell \in ShellType
           /\ Changes \in Nat /\ None = Changes + 1 /\ Resources \subseteq Keys
BY ZenonT(90), BoundsAssumption DEF Shapes, TypeOK, None, ShellType, Keys

LEMMA InsideKeeps ==
    ASSUME Shapes, Behind, Inside
    PROVE  Shapes' /\ Behind'
<1>0. DaemonType /\ LinkType /\ Held
  BY TypesAre DEF Shapes, Behind
<1>1. UNCHANGED <<events, lagged, responses, requests, greeting, shell, watched,
                  restarted, excused, Told, Answered, Wire>>
  BY InsideIs
<1>2. /\ DaemonType' /\ Held'
      /\ \A r \in Resources : db[r] <= db'[r]
  BY <1>0, InsideHolds
<1>3. LinkType'
  BY <1>0, <1>1 DEF LinkType
<1>4. Shapes'
  <2>1. TypeOK'
    BY <1>2, <1>3, TypesAreNext
  <2> QED
    BY <1>1, <2>1 DEF Shapes
<1>5. \A r \in Resources : db[r] \in Nat /\ db'[r] \in Nat /\ shell.view[r] \in Nat
  <2>1. \A r \in Resources : db'[r] \in Nat
    BY <1>2, BoundsAssumption DEF DaemonType
  <2> QED
    BY <2>1, DataIs
<1>6. \A f \in Wire' : IsContent(f) => f.value <= db'[f.res]
  BY <1>1, <1>2, <1>5, WireIs DEF Behind
<1>7. \A q \in requests' : q.value # None => q.value <= db'[Content(q.res)]
  <2>1. TAKE q \in requests'
  <2>2. q \in requests /\ Content(q.res) \in Resources /\ q.value \in Nat
    BY <1>1, WireIs, DataIs
  <2> QED
    BY <1>2, <1>5, <2>2 DEF Behind
<1>8. \A r \in Resources : shell'.view[r] <= db'[r]
  BY <1>1, <1>2, <1>5 DEF Behind
<1>9. Behind'
  BY <1>2, <1>6, <1>7, <1>8 DEF Behind
<1> QED
  BY <1>4, <1>9

LEMMA TickIs ==
    ASSUME clock \in [generation : Nat \ {0}, revision : Nat], NEW n \in Nat,
           clock' = [clock EXCEPT !.revision = @ + n] \/ (n = 1 /\ Tick)
    PROVE  /\ clock' \in [generation : Nat \ {0}, revision : Nat]
           /\ clock'.generation = clock.generation /\ clock'.revision = clock.revision + n
<1>1. clock' = [clock EXCEPT !.revision = clock.revision + n]
  BY DEF Tick
<1>2. clock.revision + n \in Nat
  OBVIOUS
<1> QED
  BY <1>1, <1>2

\* What a sender keeps to itself.
LEMMA SendingHolds ==
    ASSUME DaemonType, Held, Sending
    PROVE  DaemonType' /\ Held'
<1>0. /\ None \in 0..None /\ "unread" \in Coalesced
      /\ clock.generation \in Nat \ {0} /\ clock.revision \in Nat
  BY BoundsAssumption DEF None, Coalesced, DaemonType
<1>1. Tick => clock' \in [generation : Nat \ {0}, revision : Nat]
  BY TickIs DEF DaemonType
<1>2. ASSUME NEW r \in Coalesced, Publish(r) PROVE DaemonType' /\ Held'
  <2>1. /\ Tick /\ owner' = [owner EXCEPT ![r] = "sleep"]
        /\ total' = IF r = "unread" THEN None ELSE total
        /\ owner[r] # "idle"
        /\ UNCHANGED <<db, due, window, lists, status, left, watched>>
    BY <1>2 DEF Publish
  <2>2. /\ owner' \in [Coalesced -> {"idle", "publish", "read", "sleep"}]
        /\ \A s \in Coalesced : window'[s] = "closed" <=> owner'[s] = "idle"
        /\ owner'["unread"] = "read" => owner["unread"] = "read" /\ r # "unread"
    BY <1>0, <2>1 DEF DaemonType
  <2>3. total' \in 0..None
    BY <1>0, <2>1 DEF DaemonType
  <2>4. DaemonType'
    BY <1>1, <2>1, <2>2, <2>3 DEF DaemonType
  <2>5. owner'["unread"] = "read" => total' <= db'["unread"]
    BY <2>1, <2>2 DEF Held
  <2>6. Held'
    BY <2>1, <2>5 DEF Held
  <2> QED
    BY <2>4, <2>6
<1>3. ASSUME NEW i \in DOMAIN lists, PublishList(i) PROVE DaemonType' /\ Held'
  <2>1. /\ Tick /\ lists' = SubSeq(lists, 1, i - 1) \o SubSeq(lists, i + 1, Len(lists))
        /\ UNCHANGED <<db, due, window, owner, total, status, left, watched>>
    BY <1>3 DEF PublishList
  <2>2. PICK S : S = 0..Changes
    OBVIOUS
  <2>3. lists \in Seq(S)
    BY <2>2 DEF DaemonType
  <2>4. lists' \in Seq(S) /\ Carried(lists') \subseteq Carried(lists)
    BY <2>1, <2>3, RemovedIs
  <2>5. DaemonType'
    BY <1>1, <2>1, <2>2, <2>4 DEF DaemonType
  <2>6. \A j \in DOMAIN lists' : lists'[j] <= db'["outbox"]
    BY <2>1, <2>4 DEF Carried, Held
  <2>7. Held'
    BY <2>1, <2>6 DEF Held
  <2> QED
    BY <2>5, <2>7
<1>4. CASE PublishStatus
  <2>1. /\ Tick /\ status' = None
        /\ UNCHANGED <<db, due, window, owner, total, lists, left, watched>>
    BY <1>4 DEF PublishStatus
  <2>2. DaemonType'
    BY <1>0, <1>1, <2>1 DEF DaemonType
  <2>3. Held'
    BY <2>1 DEF Held
  <2> QED
    BY <2>2, <2>3
<1> QED
  BY <1>2, <1>3, <1>4 DEF Sending

LEMMA SendingKeeps ==
    ASSUME Shapes, Behind, NEW f, Sends(f), DaemonType', Held'
    PROVE  Shapes' /\ Behind'
<1>0. LinkType
  BY TypesAre DEF Shapes
<1>1. /\ f \in Frames /\ TellShape(f) /\ (IsContent(f) => f.value <= db[f.res])
      /\ UNCHANGED <<db, responses, requests, greeting, shell, watched, restarted, excused>>
      /\ Broadcast(f)
  BY DEF Sends
<1>2. /\ events' \in Seq(Frames) /\ Len(events') <= Capacity /\ lagged' \in BOOLEAN
      /\ Told' \subseteq Told \cup {f}
      /\ greeting => events' = events
  BY <1>0, <1>1, BroadcastIs DEF LinkType
<1>3. LinkType'
  BY <1>0, <1>1, <1>2 DEF LinkType
<1>4. Answered' = Answered
  BY <1>1 DEF Answered, Carried
<1>5. Shapes'
  <2>1. TypeOK'
    BY <1>3, TypesAreNext
  <2>2. /\ \A g \in Told' : TellShape(g)
        /\ \A g \in Answered' : AnswerShape(g)
    BY <1>1, <1>2, <1>4 DEF Shapes
  <2> QED
    BY <1>1, <1>2, <2>1, <2>2 DEF Shapes
<1>6. \A g \in Wire' : g \in Wire \/ g = f
  BY <1>2, <1>4 DEF Wire
<1>7. Behind'
  BY <1>1, <1>6 DEF Behind
<1> QED
  BY <1>5, <1>7

LEMMA RepliesKeeps ==
    ASSUME Shapes, Behind, NEW q \in requests, NEW f, Replies(q, f), left' \in 0..Happenings
    PROVE  Shapes' /\ Behind'
<1>0. DaemonType /\ LinkType
  BY TypesAre DEF Shapes
<1>1. /\ f \in Frames /\ AnswerShape(f)
      /\ f.kind = "error" \/ f.value <= db[f.res]
      /\ requests' = requests \ {q} /\ responses' = Append(responses, f) /\ Tick
      /\ UNCHANGED <<db, due, window, owner, total, lists, status, events, lagged, greeting,
                     shell, watched, restarted, excused>>
  BY DEF Replies
<1>2. clock' \in [generation : Nat \ {0}, revision : Nat]
  BY <1>0, <1>1, TickIs DEF DaemonType
<1>3. DaemonType'
  BY <1>0, <1>1, <1>2 DEF DaemonType
<1>4. responses' \in Seq(Frames) /\ Answered' = Answered \cup {f}
  <2>1. /\ Append(responses, f) \in Seq(Frames)
        /\ Carried(Append(responses, f)) = Carried(responses) \cup {f}
    BY <1>0, <1>1, AppendIs DEF LinkType
  <2> QED
    BY <1>1, <2>1 DEF Answered, Carried
<1>5. LinkType'
  BY <1>0, <1>1, <1>4 DEF LinkType
<1>6. Told' = Told
  BY <1>1 DEF Told, Carried
<1>7. Shapes'
  <2>1. TypeOK'
    BY <1>3, <1>5, TypesAreNext
  <2>2. /\ \A g \in Told' : TellShape(g)
        /\ \A g \in Answered' : AnswerShape(g)
    BY <1>1, <1>4, <1>6 DEF Shapes
  <2>3. \A p \in requests' : p.res \in Listed \cup {"state"} /\ p.id # 0 /\ Content(p.res) \in watched
    BY <1>1 DEF Shapes
  <2>4. ~greeting
    BY DEF Shapes
  <2>5. shell'.nextId # 0 /\ shell'.gen # 0 /\ ~greeting'
    BY <1>1, <2>4 DEF Shapes
  <2> QED
    BY <1>1, <2>1, <2>2, <2>3, <2>5 DEF Shapes
<1>8. \A g \in Wire' : g \in Wire \/ g = f
  BY <1>4, <1>6 DEF Wire
<1>9. Held'
  BY <1>1 DEF Behind, Held
<1>10. \A g \in Wire' : IsContent(g) => g.value <= db'[g.res]
  BY <1>1, <1>8 DEF Behind, IsContent
<1>11. Behind'
  BY <1>1, <1>9, <1>10 DEF Behind
<1> QED
  BY <1>7, <1>11

LEMMA ReadSnapshotIs ==
    ASSUME Shapes, NEW q \in requests, ReadSnapshot(q)
    PROVE  /\ q.value = None
           /\ UNCHANGED <<db, due, window, owner, total, lists, status, clock, events,
                          lagged, responses,
                          greeting, shell, watched, left, restarted, excused>>
           /\ \E p : /\ p \in [id : Nat, res : Keys, value : 0..None]
                     /\ p.id = q.id /\ p.res = q.res /\ p.value = db[Content(q.res)]
                     /\ requests' = (requests \ {q}) \cup {p}
<1>1. /\ q.value = None
      /\ requests' = (requests \ {q}) \cup {[q EXCEPT !.value = db[Content(q.res)]]}
      /\ UNCHANGED <<daemon, events, lagged, responses, greeting, shell, watched, left,
                     restarted, excused>>
  BY DEF ReadSnapshot
<1>2. q \in [id : Nat, res : Keys, value : 0..None]
  BY DEF Shapes, TypeOK
<1>3. PICK n : n = db[Content(q.res)]
  OBVIOUS
<1>4. n \in 0..None
  BY <1>3, WireIs, DataIs
<1>5. PICK p : p = [q EXCEPT !.value = n]
  OBVIOUS
<1>6. p \in [id : Nat, res : Keys, value : 0..None] /\ p.id = q.id /\ p.res = q.res /\ p.value = n
  BY <1>2, <1>4, <1>5
<1>7. requests' = (requests \ {q}) \cup {p}
  BY <1>1, <1>3, <1>5
<1>8. UNCHANGED <<db, due, window, owner, total, lists, status, clock, events, lagged,
                  responses,
                  greeting, shell, watched, left, restarted, excused>>
  BY <1>1 DEF daemon
<1> QED
  BY <1>1, <1>3, <1>6, <1>7, <1>8

LEMMA ReadSnapshotKeeps ==
    ASSUME Shapes, Behind, NEW q \in requests, ReadSnapshot(q)
    PROVE  Shapes' /\ Behind'
<1>0. DaemonType /\ LinkType
  BY TypesAre DEF Shapes
<1>1. UNCHANGED <<db, due, window, owner, total, lists, status, clock, events, lagged,
                  responses,
                  greeting, shell, watched, left, restarted, excused>>
  BY ReadSnapshotIs
<1>2. PICK p : /\ p \in [id : Nat, res : Keys, value : 0..None]
               /\ p.id = q.id /\ p.res = q.res /\ p.value = db[Content(q.res)]
               /\ requests' = (requests \ {q}) \cup {p}
  BY ReadSnapshotIs
<1>3. DaemonType'
  BY <1>0, <1>1 DEF DaemonType
<1>4. LinkType'
  BY <1>0, <1>1, <1>2 DEF LinkType
<1>5. UNCHANGED <<Told, Answered, Wire>>
  BY <1>1 DEF Told, Answered, Wire, Carried
<1>6. Shapes'
  <2>1. TypeOK'
    BY <1>3, <1>4, TypesAreNext
  <2>2. /\ \A g \in Told' : TellShape(g)
        /\ \A g \in Answered' : AnswerShape(g)
    BY <1>5 DEF Shapes
  <2>3. \A r \in requests' : r.res \in Listed \cup {"state"} /\ r.id # 0 /\ Content(r.res) \in watched
    BY <1>1, <1>2 DEF Shapes
  <2>4. ~greeting
    BY DEF Shapes
  <2>5. shell'.nextId # 0 /\ shell'.gen # 0 /\ ~greeting'
    BY <1>1, <2>4 DEF Shapes
  <2> QED
    BY <1>1, <2>1, <2>2, <2>3, <2>5 DEF Shapes
<1>7. \A r \in requests' : r.value # None => r.value <= db'[Content(r.res)]
  <2>1. p.value <= db'[Content(p.res)]
    BY <1>1, <1>2, WireIs, DataIs
  <2> QED
    BY <1>1, <1>2, <2>1 DEF Behind
<1>8. Held'
  BY <1>1 DEF Behind, Held
<1>9. Behind'
  BY <1>1, <1>5, <1>7, <1>8 DEF Behind
<1> QED
  BY <1>6, <1>9

LEMMA ReopenedIs ==
    ASSUME shell \in ShellType, Reopened
    PROVE  /\ events' = <<>> /\ lagged' = FALSE /\ responses' = <<>> /\ requests' = {} /\ greeting' = TRUE
           /\ Told' = {} /\ Answered' = {} /\ Wire' = {}
           /\ shell' \in ShellType /\ ~shell'.compatible /\ shell'.gen = shell.gen
           /\ shell'.seqs = shell.seqs /\ shell'.view = shell.view /\ shell'.nextId = shell.nextId
           /\ shell'.pending = 0 /\ ~shell'.queued
<1>1. /\ events' = <<>> /\ lagged' = FALSE /\ responses' = <<>> /\ requests' = {} /\ greeting' = TRUE
      /\ shell' = [Reset(shell) EXCEPT !.compatible = FALSE]
  BY DEF Reopened
<1>2. PICK s : s = Reset(shell)
  OBVIOUS
<1>3. s = [shell EXCEPT !.pending = 0, !.queued = FALSE]
  BY <1>2 DEF Reset
<1>4. /\ s \in ShellType /\ s.gen = shell.gen /\ s.seqs = shell.seqs /\ s.view = shell.view
      /\ s.nextId = shell.nextId /\ s.pending = 0 /\ s.queued = FALSE
  BY <1>3 DEF ShellType
<1>5. shell' = [s EXCEPT !.compatible = FALSE]
  BY <1>1, <1>2
<1>6. /\ shell' \in ShellType /\ shell'.compatible = FALSE /\ shell'.gen = s.gen
      /\ shell'.seqs = s.seqs /\ shell'.view = s.view /\ shell'.nextId = s.nextId
      /\ shell'.pending = s.pending /\ shell'.queued = s.queued
  BY <1>4, <1>5 DEF ShellType
<1>7. Told' = {} /\ Answered' = {}
  BY <1>1 DEF Told, Answered, Carried
<1>8. Wire' = {}
  BY <1>7 DEF Wire
<1> QED
  BY <1>1, <1>4, <1>6, <1>7, <1>8

LEMMA ReopenKeeps ==
    ASSUME Shapes, Behind, Reconnect \/ RestartDaemon
    PROVE  Shapes' /\ Behind'
<1>0. DaemonType /\ LinkType /\ Held /\ shell \in ShellType
  BY TypesAre, DataIs DEF Shapes, Behind
<1>1. Reopened
  BY DEF Reconnect, RestartDaemon
<1>2. /\ events' = <<>> /\ lagged' = FALSE /\ responses' = <<>> /\ requests' = {} /\ greeting' = TRUE
      /\ Told' = {} /\ Answered' = {} /\ Wire' = {}
      /\ shell' \in ShellType /\ ~shell'.compatible /\ shell'.gen = shell.gen
      /\ shell'.view = shell.view /\ shell'.nextId = shell.nextId
  BY <1>0, <1>1, ReopenedIs
<1>3. left' \in 0..Happenings /\ UNCHANGED <<db, watched>>
  <2>1. left > 0 /\ left' = left - 1 /\ left \in 0..Happenings /\ Happenings \in Nat
    BY <1>0, BoundsAssumption DEF Reconnect, RestartDaemon, Happens, DaemonType
  <2>2. UNCHANGED <<db, watched>>
    BY DEF Reconnect, RestartDaemon, daemon
  <2> QED
    BY <2>1, <2>2
<1>4. DaemonType' /\ Held'
  <2>1. CASE Reconnect
    <3>1. UNCHANGED <<db, due, window, owner, total, lists, status, clock, watched>>
      BY <2>1 DEF Reconnect, daemon
    <3>2. DaemonType'
      BY <1>0, <1>3, <3>1 DEF DaemonType
    <3>3. Held'
      BY <1>0, <3>1 DEF Held
    <3> QED
      BY <3>2, <3>3
  <2>2. CASE RestartDaemon
    <3>1. /\ due' = [r \in Resources |-> 0]
          /\ window' = [r \in Coalesced |-> "closed"]
          /\ owner' = [r \in Coalesced |-> "idle"]
          /\ total' = None /\ lists' = <<>> /\ status' = None
          /\ clock' = [generation |-> 1, revision |-> 0]
      BY <2>2 DEF RestartDaemon
    <3>2. None \in 0..None /\ 0 \in 0..Changes /\ "unread" \in Coalesced
      BY BoundsAssumption DEF None, Coalesced
    <3>3. lists' \in Seq(0..Changes)
      BY <3>1
    <3>4. clock' \in [generation : Nat \ {0}, revision : Nat]
      BY <3>1
    <3>5. /\ due' \in [Resources -> 0..Changes]
          /\ window' \in [Coalesced -> {"closed", "open", "trailing"}]
          /\ owner' \in [Coalesced -> {"idle", "publish", "read", "sleep"}]
          /\ \A r \in Coalesced : window'[r] = "closed" <=> owner'[r] = "idle"
          /\ total' \in 0..None /\ status' \in 0..None
      BY <3>1, <3>2
    <3>6. db' \in [Resources -> 0..Changes]
      BY <1>0, <1>3 DEF DaemonType
    <3>7. DaemonType'
      BY <1>3, <3>3, <3>4, <3>5, <3>6 DEF DaemonType
    <3>8. \A r \in Resources : due'[r] <= db'[r] /\ (r \notin watched' => db'[r] = 0)
      <4>1. \A r \in Resources : due'[r] = 0
        BY <3>1
      <4>2. \A r \in Resources : db'[r] \in Nat
        BY <1>3, DataIs
      <4> QED
        BY <1>0, <1>3, <4>1, <4>2 DEF Held
    <3>9. Total(db') <= Changes
      BY <1>0, <1>3 DEF Held
    <3>10. DOMAIN lists' = {} /\ status' = None /\ owner'["unread"] # "read"
      BY <3>1, <3>2
    <3>11. Held'
      BY <3>8, <3>9, <3>10 DEF Held
    <3> QED
      BY <3>7, <3>11
  <2> QED
    BY <2>1, <2>2
<1>5. restarted' \in BOOLEAN /\ excused' \subseteq Resources
  BY <1>0 DEF LinkType, Reconnect, RestartDaemon
<1>6. LinkType'
  <2>1. <<>> \in Seq(Frames) /\ Len(<<>>) <= Capacity
    BY BoundsAssumption
  <2> QED
    BY <1>0, <1>2, <1>3, <1>5, <2>1 DEF LinkType
<1>7. Shapes'
  <2>1. TypeOK'
    BY <1>4, <1>6, TypesAreNext
  <2>2. shell'.nextId # 0 /\ shell'.gen # 0
    BY <1>2 DEF Shapes
  <2> QED
    BY <1>2, <2>1, <2>2 DEF Shapes
<1>8. \A r \in Resources : shell'.view[r] <= db'[r]
  BY <1>2, <1>3 DEF Behind
<1>9. Behind'
  BY <1>2, <1>4, <1>8 DEF Behind
<1> QED
  BY <1>7, <1>9

LEMMA WriteSyncIs ==
    ASSUME Shapes, WriteSync
    PROVE  /\ greeting \/ lagged
           /\ UNCHANGED <<db, due, window, owner, total, lists, status, events,
                          responses, watched, left, restarted>>
           /\ UNCHANGED <<Told, Answered, Wire>>
           /\ ~greeting' /\ ~lagged' /\ greeting' \in BOOLEAN /\ lagged' \in BOOLEAN
           /\ clock' \in [generation : Nat \ {0}, revision : Nat]
           /\ clock'.generation = clock.generation /\ clock'.revision = clock.revision + 3
           /\ Greet(shell) /\ shell.nextId # 0 /\ shell.gen # 0 /\ TypeOK
<1>1. /\ greeting \/ lagged
      /\ UNCHANGED <<db, due, window, owner, total, lists, status, events, responses,
                     watched, left, restarted>>
      /\ greeting' = FALSE /\ lagged' = FALSE
      /\ clock' = [clock EXCEPT !.revision = @ + 3]
      /\ Greet(shell)
  BY DEF WriteSync
<1>2. clock \in [generation : Nat \ {0}, revision : Nat] /\ shell.nextId # 0 /\ shell.gen # 0 /\ TypeOK
  BY DEF Shapes, TypeOK
<1>3. /\ clock' \in [generation : Nat \ {0}, revision : Nat]
      /\ clock'.generation = clock.generation /\ clock'.revision = clock.revision + 3
  BY <1>1, <1>2, TickIs
<1>4. UNCHANGED <<Told, Answered, Wire>>
  BY <1>1 DEF Told, Answered, Wire, Carried
<1> QED
  BY <1>1, <1>2, <1>3, <1>4

LEMMA WriteSyncKeeps ==
    ASSUME Shapes, Behind, WriteSync
    PROVE  Shapes' /\ Behind'
<1>0. DaemonType /\ LinkType /\ Held /\ shell \in ShellType
  BY TypesAre, DataIs DEF Shapes, Behind
<1>1. /\ UNCHANGED <<db, due, window, owner, total, lists, status, events, responses,
                     watched, left, restarted>>
      /\ UNCHANGED <<Told, Answered, Wire>>
      /\ ~greeting' /\ ~lagged' /\ greeting' \in BOOLEAN /\ lagged' \in BOOLEAN
      /\ clock' \in [generation : Nat \ {0}, revision : Nat]
      /\ Greet(shell) /\ shell.nextId # 0 /\ shell.gen # 0 /\ TypeOK
  BY WriteSyncIs
<1>2. /\ shell' \in ShellType /\ shell'.nextId # 0 /\ shell'.gen # 0
      /\ requests \subseteq requests'
      /\ \A q \in requests' \ requests :
            /\ q \in [id : Nat, res : Keys, value : 0..None]
            /\ q.id # 0 /\ q.value = None /\ Content(q.res) \in watched
            /\ q.res \in Listed \cup {"state"}
      /\ excused' \subseteq Resources
      /\ \A r \in Resources : shell'.view[r] \in {shell.view[r], db[r]}
  <2>1. CASE clock.generation < shell.gen
    BY <1>0, <1>1, <2>1, GreetIs DEF LinkType
  <2>2. CASE ~(clock.generation < shell.gen)
    <3>1. /\ shell' \in ShellType /\ shell'.nextId # 0
          /\ shell'.gen = clock.generation
          /\ requests \subseteq requests'
      BY <1>1, <2>2, GreetIs
    <3>2. \A q \in requests' \ requests :
             /\ q \in [id : Nat, res : Keys, value : 0..None]
             /\ q.id # 0 /\ q.value = None /\ Content(q.res) \in watched
             /\ q.res \in {"state", "chats", "outbox", "messages"}
      BY <1>1, <2>2, GreetIs
    <3>3. {"chats", "outbox", "messages"} \subseteq Listed
      BY DEF Listed, Resources, Coalesced
    <3>4. excused' \subseteq Resources
      <4>1. excused' = (excused \ (IF Newer THEN {"unread"} ELSE {})) \cup
                         (IF ~Begins /\ shell.pending # 0 THEN {"messages"} ELSE {})
        BY <1>1, <2>2, GreetIs
      <4> QED
        BY <1>0, <4>1 DEF LinkType, Resources, Coalesced
    <3>5. \A r \in Resources : shell'.view[r] = IF r = "unread" /\ Newer THEN db[r] ELSE shell.view[r]
      BY <1>1, <2>2, GreetIs
    <3>6. clock.generation # 0
      BY DataIs
    <3> QED
      BY <3>1, <3>2, <3>3, <3>4, <3>5, <3>6
  <2> QED
    BY <2>1, <2>2
<1>3. DaemonType'
  BY <1>0, <1>1 DEF DaemonType
<1>4. LinkType'
  BY <1>0, <1>1, <1>2 DEF LinkType
<1>5. Shapes'
  <2>1. TypeOK'
    BY <1>3, <1>4, TypesAreNext
  <2>2. /\ \A g \in Told' : TellShape(g)
        /\ \A g \in Answered' : AnswerShape(g)
    BY <1>1 DEF Shapes
  <2>3. \A q \in requests' : q.res \in Listed \cup {"state"} /\ q.id # 0 /\ Content(q.res) \in watched'
    BY <1>1, <1>2 DEF Shapes
  <2> QED
    BY <1>1, <1>2, <2>1, <2>2, <2>3 DEF Shapes
<1>6. \A r \in Resources : shell'.view[r] <= db'[r]
  BY <1>1, <1>2, DataIs DEF Behind
<1>7. \A q \in requests' : q.value # None => q.value <= db'[Content(q.res)]
  BY <1>1, <1>2 DEF Behind
<1>8. Held'
  BY <1>0, <1>1 DEF Held
<1>9. Behind'
  BY <1>1, <1>6, <1>7, <1>8 DEF Behind
<1> QED
  BY <1>5, <1>9

Takes(f) == shell.compatible /\ Accepted(f)

LEMMA DeliveredIs ==
    ASSUME Shapes, Stamps, Behind, NEW f, Delivers(f)
    PROVE  /\ TypeOK /\ shell.nextId # 0 /\ shell.gen # 0 /\ shell \in ShellType
           /\ f \in Frames /\ f.gen # 0 /\ f.gen \in Nat /\ f.seq \in Nat /\ f.res \in Resources
           /\ f.gen <= clock.generation /\ f.seq <= clock.revision /\ f.seq # 0
           /\ IsContent(f) => f.value \in 0..Changes /\ f.value <= db[f.res]
           /\ Receive(f)
           /\ Wire' \subseteq Wire
           /\ UNCHANGED <<db, due, window, owner, total, lists, status, clock, lagged,
                          greeting,
                          watched, left, restarted>>
           /\ Older(f) <=> f.gen < shell.gen
           /\ Accepted(f) <=> ~Older(f) /\ (f.kind = "error" \/ f.seq > Since(f, Key(f)))
           /\ Key(f) \in Keys
<1>1. f \in Frames /\ f \in Wire /\ Receive(f) /\ f.res \in Resources
  BY WireIs DEF Delivers
<1>2. /\ TypeOK /\ shell.nextId # 0 /\ shell.gen # 0 /\ shell \in ShellType
  BY DataIs DEF Shapes
<1>3. f.gen # 0 /\ f.gen \in Nat /\ f.seq \in Nat /\ f.gen <= clock.generation /\ f.seq <= clock.revision /\ f.seq # 0
  BY <1>1, WireIs DEF Stamps
<1>4. IsContent(f) => f.value \in 0..Changes /\ f.value <= db[f.res]
  BY <1>1, WireIs, DataIs DEF Behind
<1>5. UNCHANGED <<db, due, window, owner, total, lists, status, clock, lagged, greeting,
                  watched, left, restarted>>
  BY DEF Delivers, daemon
<1>6. Wire' \subseteq Wire
  BY DEF Delivers, Wire
<1>7. /\ Accepted(f) <=> ~Older(f) /\ (f.kind = "error" \/ f.seq > Since(f, Key(f)))
      /\ Older(f) <=> f.gen < shell.gen
      /\ Key(f) \in Keys
  BY <1>1, <1>2, <1>3, AcceptedIs
<1> QED
  BY <1>1, <1>2, <1>3, <1>4, <1>5, <1>6, <1>7

LEMMA DeliversKeeps ==
    ASSUME Shapes, Stamps, Behind, NEW f, Delivers(f)
    PROVE  Shapes' /\ Behind'
<1>0. DaemonType /\ LinkType /\ Held /\ TypeOK
  BY TypesAre DEF Shapes, Behind
<1>1. /\ shell.nextId # 0 /\ shell.gen # 0 /\ shell \in ShellType
      /\ f \in Frames /\ f.gen # 0 /\ f.gen \in Nat /\ f.res \in Resources
      /\ IsContent(f) => f.value \in 0..Changes /\ f.value <= db[f.res]
      /\ Receive(f)
      /\ Wire' \subseteq Wire
      /\ UNCHANGED <<db, due, window, owner, total, lists, status, clock, lagged, greeting,
                     watched, left, restarted>>
  BY DeliveredIs
<1>2. /\ events' \in Seq(Frames) /\ Len(events') <= Capacity /\ responses' \in Seq(Frames)
      /\ Told' \subseteq Told /\ Answered' \subseteq Answered /\ ~greeting
  BY DEF Delivers
<1>3. /\ shell' \in ShellType /\ shell'.nextId # 0 /\ shell'.gen # 0
      /\ requests \subseteq requests'
      /\ \A q \in requests' \ requests :
            /\ q \in [id : Nat, res : Keys, value : 0..None]
            /\ q.id # 0 /\ q.value = None /\ Content(q.res) \in watched
            /\ q.res \in Listed \cup {"state"}
      /\ \A r \in Resources : shell'.view[r] <= db[r]
  <2>1. CASE ~Takes(f)
    <3>1. ~(shell.compatible /\ Accepted(f))
      BY <2>1 DEF Takes
    <3>2. /\ shell' \in ShellType /\ shell'.nextId # 0
          /\ shell'.gen = shell.gen /\ shell'.view = shell.view
          /\ requests \subseteq requests'
          /\ \A q \in requests' \ requests :
                /\ q \in [id : Nat, res : Keys, value : 0..None]
                /\ q.id # 0 /\ q.value = None /\ Content(q.res) \in watched
                /\ q.res = "messages"
      BY <1>0, <1>1, <3>1, RefuseIs
    <3>3. "messages" \in Listed
      BY DEF Listed, Resources, Coalesced
    <3> QED
      BY <1>1, <3>2, <3>3 DEF Behind
  <2>2. CASE Takes(f)
    <3>1. shell.compatible /\ Accepted(f)
      BY <2>2 DEF Takes
    <3>2. /\ shell' \in ShellType /\ shell'.nextId # 0
          /\ shell'.gen = f.gen
          /\ requests \subseteq requests'
      BY <1>0, <1>1, <3>1, AcceptIs
    <3>3. \A r \in Resources : shell'.view[r] =
             IF IsContent(f) /\ r = f.res THEN f.value ELSE shell.view[r]
      BY <1>0, <1>1, <3>1, AcceptIs
    <3>4. \A q \in requests' \ requests :
             /\ q \in [id : Nat, res : Keys, value : 0..None]
             /\ q.id # 0 /\ q.value = None /\ Content(q.res) \in watched
             /\ q.res = "messages" \/ (f.kind = "invalidated" /\ q.res = f.res)
      BY <1>0, <1>1, <3>1, AcceptIs
    <3>5. "messages" \in Listed /\ "chats" \in Listed
      BY DEF Listed, Resources, Coalesced
    <3>6. f.kind = "invalidated" => f.res \in Listed
      <4>1. f \in Told \/ f \in Answered
        BY DEF Delivers, Wire
      <4> QED
        BY <3>5, <4>1 DEF Shapes, TellShape, AnswerShape
    <3>7. \A r \in Resources : shell'.view[r] <= db[r]
      BY <1>1, <3>3 DEF Behind
    <3> QED
      BY <1>1, <3>2, <3>4, <3>5, <3>6, <3>7
  <2> QED
    BY <2>1, <2>2
<1>4. excused' \subseteq Resources
  <2>1. Excuses(f) \subseteq Resources
    BY <1>0, <1>1 DEF Excuses, LinkType, Resources, Coalesced
  <2> QED
    BY <1>0, <1>1, <2>1 DEF Receive, LinkType
<1>5. DaemonType'
  BY <1>0, <1>1 DEF DaemonType
<1>6. LinkType'
  <2>1. requests' \subseteq [id : Nat, res : Keys, value : 0..None]
    BY <1>0, <1>3 DEF LinkType
  <2> QED
    BY <1>0, <1>1, <1>2, <1>3, <1>4, <2>1 DEF LinkType
<1>7. Shapes'
  <2>1. TypeOK'
    BY <1>5, <1>6, TypesAreNext
  <2>2. /\ \A g \in Told' : TellShape(g)
        /\ \A g \in Answered' : AnswerShape(g)
    BY <1>2 DEF Shapes
  <2>3. \A q \in requests' : q.res \in Listed \cup {"state"} /\ q.id # 0 /\ Content(q.res) \in watched'
    BY <1>1, <1>3 DEF Shapes
  <2> QED
    BY <1>1, <1>2, <1>3, <2>1, <2>2, <2>3 DEF Shapes
<1>8. \A r \in Resources : shell'.view[r] <= db'[r]
  BY <1>1, <1>3
<1>9. \A q \in requests' : q.value # None => q.value <= db'[Content(q.res)]
  BY <1>1, <1>3 DEF Behind
<1>10. Held'
  BY <1>0, <1>1 DEF Held
<1>11. \A g \in Wire' : IsContent(g) => g.value <= db'[g.res]
  BY <1>1 DEF Behind
<1>12. Behind'
  BY <1>8, <1>9, <1>10, <1>11 DEF Behind
<1> QED
  BY <1>7, <1>12

LEMMA KeepsShapes ==
    ASSUME Shapes, Stamps, Behind, Next
    PROVE  Shapes' /\ Behind'
<1>1. CASE Inside
  BY <1>1, InsideKeeps
<1>2. CASE Sending
  <2>1. DaemonType' /\ Held'
    BY <1>2, SendingHolds, TypesAre DEF Shapes, Behind
  <2>2. PICK f : Sends(f)
    BY <1>2, SendsIs DEF Sending
  <2> QED
    BY <2>1, <2>2, SendingKeeps
<1>3. CASE WriteSync
  BY <1>3, WriteSyncKeeps
<1>4. CASE WriteEvent \/ WriteResponse
  <2>1. PICK f : Delivers(f)
    BY <1>4, DeliversIs
  <2> QED
    BY <2>1, DeliversKeeps
<1>5. ASSUME NEW q \in requests, ReadSnapshot(q) PROVE Shapes' /\ Behind'
  BY <1>5, ReadSnapshotKeeps
<1>6. ASSUME NEW q \in requests, Respond(q) \/ Fail(q) PROVE Shapes' /\ Behind'
  <2>1. PICK f : Replies(q, f)
    BY <1>6, RepliesIs
  <2>2. left' \in 0..Happenings
    <3>1. left \in 0..Happenings /\ Happenings \in Nat
      BY BoundsAssumption DEF Shapes, TypeOK
    <3>2. left' = left \/ (left > 0 /\ left' = left - 1)
      BY <1>6 DEF Respond, Fail, Happens
    <3> QED
      BY <3>1, <3>2
  <2> QED
    BY <2>1, <2>2, RepliesKeeps
<1>7. CASE Reconnect \/ RestartDaemon
  BY <1>7, ReopenKeeps
<1>8. CASE UNCHANGED vars
  <2>1. /\ UNCHANGED <<db, due, window, owner, total, lists, status, clock, events,
                       lagged, responses,
                       requests, greeting, shell, watched, left, restarted, excused>>
    BY <1>8 DEF vars, daemon, connection
  <2>2. UNCHANGED <<Told, Answered, Wire>>
    BY <2>1 DEF Told, Answered, Wire, Carried
  <2>3. TypeOK'
    BY <2>1 DEF Shapes, TypeOK
  <2>4. Shapes'
    BY <2>1, <2>2, <2>3 DEF Shapes
  <2>5. Held'
    BY <2>1 DEF Behind, Held
  <2>6. Behind'
    BY <2>1, <2>2, <2>5 DEF Behind
  <2> QED
    BY <2>4, <2>6
<1> QED
  BY <1>1, <1>2, <1>3, <1>4, <1>5, <1>6, <1>7, <1>8, NextIs

LEMMA KeysAre ==
    /\ "unread" \in Keys /\ "state" \in Keys /\ "unread" \in Resources
    /\ Resources = {"chats", "messages", "unread", "outbox"}
    /\ Listed = {"chats", "messages", "outbox"}
    /\ Coalesced = {"chats", "messages", "unread"}
BY DEF Keys, Resources, Coalesced, Listed

\* The clock is ahead of a new stamp, and the stamp of every other.
LEMMA StampedKeeps ==
    ASSUME Shapes, Stamps, NEW f, f \in Frames,
           f.gen = clock.generation, f.seq = clock.revision + 1, Tick,
           Wire' \subseteq Wire \cup {f}, Told' \subseteq Told \cup {f}, Sorted(events'),
           UNCHANGED <<shell, restarted, excused>>
    PROVE  Stamps'
<1>1. clock'.generation = clock.generation /\ clock'.revision = clock.revision + 1
  <2>1. clock \in [generation : Nat \ {0}, revision : Nat]
    BY DEF Shapes, TypeOK
  <2> QED
    BY <2>1, TickIs
<1>2. clock.generation \in Nat /\ clock.generation # 0 /\ clock.revision \in Nat
      /\ shell.gen \in Nat /\ \A k \in Keys : shell.seqs[k] \in Nat
  BY DataIs
<1>3. \A g \in Wire' : g.gen # 0 /\ g.gen <= clock'.generation /\ g.seq # 0 /\ g.seq <= clock'.revision
  <2>1. TAKE g \in Wire'
  <2>2. CASE g = f
    BY <1>1, <1>2, <2>2
  <2>3. CASE g \in Wire
    <3>1. g.gen \in Nat /\ g.seq \in Nat
      BY <2>3, WireIs
    <3>2. g.gen # 0 /\ g.gen <= clock.generation /\ g.seq # 0 /\ g.seq <= clock.revision
      BY <2>3 DEF Stamps
    <3> QED
      BY <1>1, <1>2, <3>1, <3>2
  <2> QED
    BY <2>2, <2>3
<1>4. \A g, h \in Wire' : g.seq < h.seq => g.gen <= h.gen
  <2>1. TAKE g, h \in Wire'
  <2>2. HAVE g.seq < h.seq
  <2>3. CASE g \in Wire /\ h \in Wire
    BY <2>2, <2>3 DEF Stamps
  <2>4. CASE h = f
    BY <1>1, <1>3, <2>4
  <2>5. CASE g = f /\ h \in Wire
    <3>1. h.seq \in Nat /\ h.seq <= clock.revision
      BY <2>5, WireIs DEF Stamps
    <3> QED
      BY <1>2, <2>2, <2>5, <3>1
  <2> QED
    BY <2>3, <2>4, <2>5
<1>5. ~restarted' => \A k \in Keys : shell'.seqs[k] <= clock'.revision
  BY <1>1, <1>2 DEF Stamps
<1>6. ~restarted' => shell'.gen <= clock'.generation
  BY <1>1 DEF Stamps
<1>7. ~restarted' => \A g \in Told' : g.res = "unread" /\ g.kind = "snapshot" => shell'.seqs["unread"] < g.seq
  <2>1. ASSUME ~restarted PROVE shell.seqs["unread"] < f.seq
    BY <1>2, <2>1, KeysAre DEF Stamps
  <2> QED
    BY <2>1 DEF Stamps
<1>8. shell'.gen > clock'.generation => ~shell'.compatible /\ excused' = Resources
  BY <1>1 DEF Stamps
<1> QED
  BY <1>3, <1>4, <1>5, <1>6, <1>7, <1>8 DEF Stamps

LEMMA SendsWire ==
    ASSUME Shapes, Stamps, NEW f, Sends(f)
    PROVE  /\ Answered' = Answered /\ Told' \subseteq Told \cup {f} /\ Wire' \subseteq Wire \cup {f}
           /\ Answered \subseteq Wire' /\ Sorted(events')
           /\ greeting \/ f \in Told'
           /\ lagged => lagged'
           /\ lagged' \/ Told \subseteq Told'
           /\ greeting => events' = events /\ lagged' = lagged
           /\ \A g, h \in Told : g.seq < h.seq /\ g \in Told' => h \in Told' \/ g = f
           /\ \A g \in Wire : g.seq < f.seq /\ g.gen <= f.gen
           /\ f \notin Wire
<1>1. f \in Frames /\ f.gen = clock.generation /\ f.seq = clock.revision + 1 /\ Broadcast(f) /\ responses' = responses
  BY DEF Sends
<1>2. \A g \in Wire : g.seq < f.seq /\ g.gen <= f.gen
  <2>1. TAKE g \in Wire
  <2>2. g.seq \in Nat /\ g.seq <= clock.revision /\ clock.revision \in Nat /\ g.gen <= clock.generation
    BY WireIs, DataIs DEF Stamps
  <2> QED
    BY <1>1, <2>2
<1>3. f \notin Wire
  <2>1. f.seq \in Nat
    BY <1>1 DEF Frames
  <2> QED
    BY <1>2, <2>1
<1>4. Answered' = Answered
  BY <1>1 DEF Answered, Carried
<1>5. events \in Seq(Frames) /\ Len(events) <= Capacity /\ lagged \in BOOLEAN /\ Sorted(events)
  BY DEF Shapes, TypeOK, Stamps
<1>6. /\ Told' \subseteq Told \cup {f}
      /\ greeting \/ f \in Told'
      /\ lagged => lagged'
      /\ lagged' \/ Told \subseteq Told'
      /\ greeting => events' = events /\ lagged' = lagged
  BY <1>1, <1>5, BroadcastIs
<1>7. \A g, h \in Told : g.seq < h.seq /\ g \in Told' => h \in Told' \/ g = f
  BY <1>1, <1>5, BroadcastIs
<1>8. Sorted(events')
  <2>1. \A g \in Told : g.seq < f.seq
    BY <1>2 DEF Wire
  <2> QED
    BY <1>1, <1>5, <2>1, BroadcastIs
<1>9. Wire' \subseteq Wire \cup {f} /\ Answered \subseteq Wire'
  BY <1>4, <1>6 DEF Wire
<1> QED
  BY <1>2, <1>3, <1>4, <1>6, <1>7, <1>8, <1>9

LEMMA RepliesWire ==
    ASSUME Shapes, Stamps, NEW q, NEW f, Replies(q, f)
    PROVE  /\ Answered' = Answered \cup {f} /\ Told' = Told /\ Wire' = Wire \cup {f}
           /\ \A g \in Wire : g.seq < f.seq /\ g.gen <= f.gen
           /\ f \notin Wire
<1>1. /\ f \in Frames /\ f.gen = clock.generation /\ f.seq = clock.revision + 1
      /\ events' = events /\ responses' = Append(responses, f)
  BY DEF Replies
<1>2. \A g \in Wire : g.seq < f.seq /\ g.gen <= f.gen
  <2>1. TAKE g \in Wire
  <2>2. g.seq \in Nat /\ g.seq <= clock.revision /\ clock.revision \in Nat /\ g.gen <= clock.generation
    BY WireIs, DataIs DEF Stamps
  <2> QED
    BY <1>1, <2>2
<1>3. f \notin Wire
  <2>1. f.seq \in Nat
    BY <1>1 DEF Frames
  <2> QED
    BY <1>2, <2>1
<1>4. Told' = Told
  BY <1>1 DEF Told, Carried
<1>5. Answered' = Answered \cup {f}
  <2>1. responses \in Seq(Frames)
    BY DEF Shapes, TypeOK
  <2>2. Carried(Append(responses, f)) = Carried(responses) \cup {f}
    BY <1>1, <2>1, AppendIs
  <2> QED
    BY <1>1, <2>2 DEF Answered, Carried
<1>6. Wire' = Wire \cup {f}
  BY <1>4, <1>5 DEF Wire
<1> QED
  BY <1>2, <1>3, <1>4, <1>5, <1>6

LEMMA DeliversStamps ==
    ASSUME Shapes, Stamps, Behind, NEW f, Delivers(f)
    PROVE  Stamps'
<1>0. /\ TypeOK /\ shell.nextId # 0 /\ shell.gen # 0 /\ shell \in ShellType
      /\ f \in Frames /\ f.gen # 0 /\ f.gen \in Nat /\ f.seq \in Nat
      /\ f.gen <= clock.generation /\ f.seq <= clock.revision /\ f.seq # 0
      /\ IsContent(f) => f.value \in 0..Changes
      /\ Receive(f)
      /\ Wire' \subseteq Wire
      /\ UNCHANGED <<clock, restarted>>
      /\ Key(f) \in Keys
  BY DeliveredIs
<1>1. /\ \A k \in Keys : shell.seqs[k] \in Nat
      /\ clock.generation \in Nat /\ clock.revision \in Nat /\ shell.gen \in Nat
  BY DataIs
<1>2. /\ Told' \subseteq Told /\ Sorted(events')
      /\ \/ f \in Answered /\ events' = events
         \/ f \in Told /\ \A g \in Told' : f.seq < g.seq
  BY DEF Delivers, Stamps
<1>3. \A g \in Wire' : g.gen # 0 /\ g.gen <= clock'.generation /\ g.seq # 0 /\ g.seq <= clock'.revision
  BY <1>0 DEF Stamps
<1>4. \A g, h \in Wire' : g.seq < h.seq => g.gen <= h.gen
  BY <1>0 DEF Stamps
<1>5. CASE ~Takes(f)
  <2>1. ~(shell.compatible /\ Accepted(f))
    BY <1>5 DEF Takes
  <2>2. shell'.gen = shell.gen /\ shell'.seqs = shell.seqs /\ shell'.compatible = shell.compatible
    BY <1>0, <2>1, RefuseIs
  <2>3. ~restarted' => \A k \in Keys : shell'.seqs[k] <= clock'.revision
    BY <1>0, <2>2 DEF Stamps
  <2>4. ~restarted' => shell'.gen <= clock'.generation
    BY <1>0, <2>2 DEF Stamps
  <2>5. ~restarted' => \A g \in Told' : g.res = "unread" /\ g.kind = "snapshot" => shell'.seqs["unread"] < g.seq
    BY <1>0, <1>2, <2>2 DEF Stamps
  <2>6. shell'.gen > clock'.generation => ~shell'.compatible /\ excused' = Resources
    BY <1>0, <2>2 DEF Stamps, Receive
  <2> QED
    BY <1>2, <1>3, <1>4, <2>3, <2>4, <2>5, <2>6 DEF Stamps
<1>6. CASE Takes(f)
  <2>1. shell.compatible /\ Accepted(f)
    BY <1>6 DEF Takes
  <2>2. /\ shell'.gen = f.gen
        /\ \A k \in Keys : shell'.seqs[k] =
              IF f.kind # "error" /\ k = Key(f) THEN f.seq ELSE Since(f, k)
    BY <1>0, <2>1, AcceptIs
  <2>3. ~restarted' => \A k \in Keys : shell'.seqs[k] <= clock'.revision
    BY <1>0, <1>1, <2>2 DEF Stamps, Since
  <2>4. shell'.gen <= clock'.generation
    BY <1>0, <2>2
  <2>5. ASSUME ~restarted', NEW g \in Told', g.res = "unread", g.kind = "snapshot"
        PROVE  shell'.seqs["unread"] < g.seq
    <3>1. g \in Told /\ g \in Wire /\ g.seq \in Nat /\ g.seq # 0 /\ shell.seqs["unread"] < g.seq
      BY <1>0, <1>2, <2>5, WireIs DEF Stamps
    <3>2. CASE f.kind # "error" /\ "unread" = Key(f)
      <4>1. f.res = "unread" /\ f.kind # "state"
        BY <3>2, KeysAre DEF Key
      <4>2. f \notin Answered
        BY <3>2, <4>1 DEF Shapes, AnswerShape, Listed
      <4>3. f.seq < g.seq
        BY <1>2, <2>5, <4>2
      <4> QED
        BY <2>2, <3>2, <4>3, KeysAre
    <3>3. CASE ~(f.kind # "error" /\ "unread" = Key(f))
      <4>1. shell'.seqs["unread"] = Since(f, "unread")
        BY <2>2, <3>3, KeysAre
      <4> QED
        BY <3>1, <4>1 DEF Since
    <3> QED
      BY <3>2, <3>3
  <2>6. ~(shell'.gen > clock'.generation)
    BY <1>0, <1>1, <2>2, <2>4
  <2> QED
    BY <1>2, <1>3, <1>4, <2>3, <2>4, <2>5, <2>6 DEF Stamps
<1> QED
  BY <1>5, <1>6

LEMMA WriteSyncStamps ==
    ASSUME Shapes, Stamps, WriteSync
    PROVE  Stamps'
<1>1. /\ UNCHANGED <<events, responses, watched, restarted>>
      /\ UNCHANGED <<Told, Answered, Wire>>
      /\ clock'.generation = clock.generation /\ clock'.revision = clock.revision + 3
      /\ Greet(shell) /\ shell.nextId # 0 /\ shell.gen # 0 /\ TypeOK
  BY WriteSyncIs
<1>2. /\ \A k \in Keys : shell.seqs[k] \in Nat
      /\ clock.generation \in Nat /\ clock.revision \in Nat /\ shell.gen \in Nat
  BY DataIs
<1>3. \A g \in Wire' : g.gen # 0 /\ g.gen <= clock'.generation /\ g.seq # 0 /\ g.seq <= clock'.revision
  <2>1. \A g \in Wire : g.seq \in Nat /\ g.seq <= clock.revision
    BY WireIs DEF Stamps
  <2> QED
    BY <1>1, <1>2, <2>1 DEF Stamps
<1>4. (\A g, h \in Wire' : g.seq < h.seq => g.gen <= h.gen) /\ Sorted(events')
  BY <1>1 DEF Stamps, Sorted
<1>5. /\ ~restarted' => \A k \in Keys : shell'.seqs[k] <= clock'.revision
      /\ ~restarted' => shell'.gen <= clock'.generation
      /\ ~restarted' => \A g \in Told' : g.res = "unread" /\ g.kind = "snapshot" => shell'.seqs["unread"] < g.seq
      /\ shell'.gen > clock'.generation => ~shell'.compatible /\ excused' = Resources
  <2>1. CASE clock.generation < shell.gen
    <3>1. shell' = shell /\ excused' = excused
      BY <1>1, <2>1, GreetIs
    <3> QED
      BY <1>1, <1>2, <3>1 DEF Stamps
  <2>2. CASE ~(clock.generation < shell.gen)
    <3>1. /\ shell'.gen = clock.generation
          /\ \A k \in Keys : shell'.seqs[k] =
                IF k = "state" /\ Newer THEN clock.revision + 2
                ELSE IF Begins THEN 0 ELSE shell.seqs[k]
      BY <1>1, <2>2, GreetIs
    <3>2. ~restarted' => \A k \in Keys : shell'.seqs[k] <= clock'.revision
      BY <1>1, <1>2, <3>1 DEF Stamps
    <3>3. shell'.gen <= clock'.generation /\ ~(shell'.gen > clock'.generation)
      BY <1>1, <1>2, <3>1
    <3>4. ASSUME ~restarted', NEW g \in Told', g.res = "unread", g.kind = "snapshot"
          PROVE  shell'.seqs["unread"] < g.seq
      <4>1. g \in Told /\ g \in Wire /\ g.seq \in Nat /\ g.seq # 0 /\ shell.seqs["unread"] < g.seq
        BY <1>1, <3>4, WireIs DEF Stamps
      <4>2. shell'.seqs["unread"] = IF Begins THEN 0 ELSE shell.seqs["unread"]
        BY <3>1, KeysAre
      <4> QED
        BY <4>1, <4>2
    <3> QED
      BY <3>2, <3>3, <3>4
  <2> QED
    BY <2>1, <2>2
<1> QED
  BY <1>3, <1>4, <1>5 DEF Stamps

LEMMA KeepsStamps ==
    ASSUME Shapes, Stamps, Behind, Next
    PROVE  Stamps'
<1>0. /\ clock.generation \in Nat /\ clock.revision \in Nat /\ shell.gen \in Nat
      /\ \A k \in Keys : shell.seqs[k] \in Nat
  BY DataIs
<1>1. CASE Inside
  <2>1. /\ UNCHANGED <<events, shell, restarted, excused, Told, Wire>>
        /\ clock'.revision = clock.revision /\ clock.generation <= clock'.generation
        /\ clock'.generation \in Nat
    <3>1. DaemonType /\ Held
      BY TypesAre DEF Shapes, Behind
    <3>2. DaemonType' /\ clock'.revision = clock.revision /\ clock.generation <= clock'.generation
      BY <1>1, <3>1, InsideHolds
    <3> QED
      BY <1>1, <3>2, InsideIs DEF DaemonType
  <2>2. \A g \in Wire' : g.gen # 0 /\ g.gen <= clock'.generation /\ g.seq # 0 /\ g.seq <= clock'.revision
    <3>1. \A g \in Wire : g.gen \in Nat /\ g.gen <= clock.generation
      BY WireIs DEF Stamps
    <3> QED
      BY <1>0, <2>1, <3>1 DEF Stamps
  <2>3. (\A g, h \in Wire' : g.seq < h.seq => g.gen <= h.gen) /\ Sorted(events')
    BY <2>1 DEF Stamps, Sorted
  <2>4. /\ ~restarted' => \A k \in Keys : shell'.seqs[k] <= clock'.revision
        /\ ~restarted' => shell'.gen <= clock'.generation
        /\ ~restarted' => \A g \in Told' : g.res = "unread" /\ g.kind = "snapshot" => shell'.seqs["unread"] < g.seq
        /\ shell'.gen > clock'.generation => ~shell'.compatible /\ excused' = Resources
    BY <1>0, <2>1 DEF Stamps
  <2> QED
    BY <2>2, <2>3, <2>4 DEF Stamps
<1>2. CASE Sending
  <2>1. PICK f : Sends(f)
    BY <1>2, SendsIs DEF Sending
  <2>2. /\ f \in Frames /\ f.gen = clock.generation /\ f.seq = clock.revision + 1 /\ Tick
        /\ UNCHANGED <<shell, restarted, excused>>
    BY <2>1 DEF Sends
  <2>3. Wire' \subseteq Wire \cup {f} /\ Told' \subseteq Told \cup {f} /\ Sorted(events')
    BY <2>1, SendsWire
  <2> QED
    BY <2>2, <2>3, StampedKeeps
<1>3. CASE WriteSync
  BY <1>3, WriteSyncStamps
<1>4. CASE WriteEvent \/ WriteResponse
  <2>1. PICK f : Delivers(f)
    BY <1>4, DeliversIs
  <2> QED
    BY <2>1, DeliversStamps
<1>5. ASSUME NEW q \in requests, ReadSnapshot(q) PROVE Stamps'
  <2>1. UNCHANGED <<clock, events, responses, shell, restarted, excused>>
    BY <1>5, ReadSnapshotIs
  <2>2. UNCHANGED <<Told, Answered, Wire>>
    BY <2>1 DEF Told, Answered, Wire, Carried
  <2> QED
    BY <2>1, <2>2 DEF Stamps, Sorted
<1>6. ASSUME NEW q \in requests, Respond(q) \/ Fail(q) PROVE Stamps'
  <2>1. PICK f : Replies(q, f)
    BY <1>6, RepliesIs
  <2>2. /\ f \in Frames /\ f.gen = clock.generation /\ f.seq = clock.revision + 1 /\ Tick
        /\ UNCHANGED <<shell, restarted, excused, events>>
    BY <2>1 DEF Replies
  <2>3. Wire' = Wire \cup {f} /\ Told' = Told
    BY <2>1, RepliesWire
  <2>4. Wire' \subseteq Wire \cup {f} /\ Told' \subseteq Told \cup {f} /\ Sorted(events')
    BY <2>2, <2>3 DEF Stamps, Sorted
  <2> QED
    BY <2>2, <2>4, StampedKeeps
<1>7. CASE Reconnect \/ RestartDaemon
  <2>1. Reopened /\ shell \in ShellType
    BY <1>7, DataIs DEF Reconnect, RestartDaemon
  <2>2. /\ events' = <<>> /\ Told' = {} /\ Wire' = {}
        /\ ~shell'.compatible /\ shell'.gen = shell.gen /\ shell'.seqs = shell.seqs
    BY <2>1, ReopenedIs
  <2>3. Sorted(events')
    BY <2>2 DEF Sorted
  <2>4. CASE Reconnect
    <3>1. UNCHANGED <<clock, restarted, excused>>
      BY <2>4 DEF Reconnect, daemon
    <3> QED
      BY <2>2, <2>3, <3>1 DEF Stamps
  <2>5. CASE RestartDaemon
    <3>1. restarted' /\ excused' = Resources
      BY <2>5 DEF RestartDaemon
    <3> QED
      BY <2>2, <2>3, <3>1 DEF Stamps
  <2> QED
    BY <1>7, <2>4, <2>5
<1>8. CASE UNCHANGED vars
  <2>1. UNCHANGED <<clock, events, responses, shell, restarted, excused>>
    BY <1>8 DEF vars, daemon, connection
  <2>2. UNCHANGED <<Told, Answered, Wire>>
    BY <2>1 DEF Told, Answered, Wire, Carried
  <2> QED
    BY <2>1, <2>2 DEF Stamps, Sorted
<1> QED
  BY <1>1, <1>2, <1>3, <1>4, <1>5, <1>6, <1>7, <1>8, NextIs

Carries(x) == x.res = "messages" /\ x.id = shell.pending

\* A pending get_messages is asked for or answered; a shell without a hello
\* has none, and waits for the hello.
Served ==
    /\ shell.queued => shell.pending # 0
    /\ shell.pending # 0 => (\E q \in requests : Carries(q)) \/ (\E f \in Answered : Carries(f))
    /\ ~shell.compatible => shell.pending = 0 /\ ~shell.queued /\ (greeting \/ excused = Resources)

LEMMA ServedIsUnderWay == Served => PendingIsUnderWay
BY DEF Served, PendingIsUnderWay, Carries, Answered, Carried

LEMMA DeliversServed ==
    ASSUME Shapes, Stamps, Behind, Served, NEW f, Delivers(f)
    PROVE  Served'
<1>0. /\ TypeOK /\ shell.nextId # 0 /\ shell.gen # 0 /\ shell \in ShellType
      /\ f \in Frames /\ f.gen # 0 /\ f.gen \in Nat
      /\ IsContent(f) => f.value \in 0..Changes
      /\ Receive(f)
      /\ UNCHANGED <<greeting, watched>>
  BY DeliveredIs
<1>1. Answered \subseteq Answered' \cup {f}
  BY DEF Delivers
<1>2. shell.compatible \in BOOLEAN /\ shell.queued \in BOOLEAN /\ shell.pending \in Nat
  BY DataIs
<1>3. ASSUME shell'.pending = shell.pending, requests \subseteq requests', shell.pending # 0,
             ~(f.res = "messages" /\ f.id = shell.pending)
      PROVE  (\E q \in requests' : Carries(q)') \/ (\E g \in Answered' : Carries(g)')
  <2>1. CASE \E q \in requests : Carries(q)
    BY <1>3, <2>1 DEF Carries
  <2>2. CASE \E g \in Answered : Carries(g)
    BY <1>1, <1>3, <2>2 DEF Carries
  <2> QED
    BY <1>3, <2>1, <2>2 DEF Served
<1>4. CASE ~Takes(f)
  <2>1. ~(shell.compatible /\ Accepted(f))
    BY <1>4 DEF Takes
  <2>2. /\ shell'.compatible = shell.compatible
        /\ requests \subseteq requests'
        /\ (shell.compatible /\ Answers(f, shell)) =>
              IF "messages" \in watched
                THEN \E q \in requests' :
                        q.res = "messages" /\ q.value = None /\ q.id = shell'.pending
                ELSE shell'.pending = 0
        /\ (shell.compatible /\ Answers(f, shell)) => ~shell'.queued
        /\ ~(shell.compatible /\ Answers(f, shell)) =>
              shell' = shell /\ requests' = requests
    BY <1>0, <2>1, RefuseIs
  <2>3. CASE ~shell.compatible
    <3>1. excused' = excused
      BY <1>0, <2>3 DEF Receive
    <3> QED
      BY <1>0, <2>2, <2>3, <3>1 DEF Served
  <2>4. CASE shell.compatible /\ Answers(f, shell)
    <3>1. shell'.pending # 0 => \E q \in requests' : Carries(q)'
      BY <2>2, <2>4 DEF Carries
    <3> QED
      BY <2>2, <2>4, <3>1 DEF Served
  <2>5. CASE shell.compatible /\ ~Answers(f, shell)
    <3>1. shell' = shell /\ requests' = requests
      BY <2>2, <2>5
    <3>2. shell'.pending # 0 => (\E q \in requests' : Carries(q)') \/ (\E g \in Answered' : Carries(g)')
      BY <1>3, <2>5, <3>1 DEF Answers
    <3> QED
      BY <2>5, <3>1, <3>2 DEF Served
  <2> QED
    BY <2>3, <2>4, <2>5
<1>5. CASE Takes(f)
  <2>1. shell.compatible /\ Accepted(f)
    BY <1>5 DEF Takes
  <2>2. /\ shell'.compatible
        /\ requests \subseteq requests'
        /\ (Mode(f) # "none" /\ After(f).pending = 0 /\ "messages" \in watched) =>
              \E q \in requests' : q.res = "messages" /\ q.value = None /\ q.id = shell'.pending
        /\ ~(Mode(f) # "none" /\ After(f).pending = 0 /\ "messages" \in watched) =>
              shell'.pending = After(f).pending
        /\ shell'.queued = (After(f).queued \/ (Mode(f) = "queue" /\ After(f).pending # 0))
    BY <1>0, <2>1, AcceptIs
  <2>3. /\ After(f).pending = IF Done(f) THEN 0 ELSE Taken(f).pending
        /\ After(f).queued = IF Done(f) THEN FALSE ELSE Taken(f).queued
    BY <1>0, <2>1, AfterIs
  <2>4. /\ Taken(f).pending = IF f.gen > shell.gen THEN 0 ELSE shell.pending
        /\ Taken(f).queued = IF f.gen > shell.gen THEN FALSE ELSE shell.queued
    BY <1>0, <2>1, TakenIs
  <2>5. After(f).queued => After(f).pending # 0
    BY <2>3, <2>4 DEF Served
  <2>6. CASE Mode(f) # "none" /\ After(f).pending = 0 /\ "messages" \in watched
    <3>1. \E q \in requests' : Carries(q)'
      BY <2>2, <2>6 DEF Carries
    <3>2. ~shell'.queued
      BY <2>2, <2>5, <2>6
    <3> QED
      BY <2>2, <3>1, <3>2 DEF Served
  <2>7. CASE ~(Mode(f) # "none" /\ After(f).pending = 0 /\ "messages" \in watched)
    <3>1. shell'.pending = After(f).pending
      BY <2>2, <2>7
    <3>2. shell'.queued => shell'.pending # 0
      BY <2>2, <2>5, <3>1
    <3>3. ASSUME shell'.pending # 0
          PROVE  (\E q \in requests' : Carries(q)') \/ (\E g \in Answered' : Carries(g)')
      <4>1. ~Done(f) /\ shell'.pending = shell.pending /\ Taken(f).pending = shell.pending
        BY <2>3, <2>4, <3>1, <3>3
      <4>2. shell.pending # 0
        BY <3>3, <4>1
      <4>3. ~(f.res = "messages" /\ f.id = shell.pending)
        BY <4>1, <4>2 DEF Done, Answers
      <4> QED
        BY <1>3, <2>2, <4>1, <4>2, <4>3
    <3> QED
      BY <2>2, <3>2, <3>3 DEF Served
  <2> QED
    BY <2>6, <2>7
<1> QED
  BY <1>4, <1>5

LEMMA KeepsServed ==
    ASSUME Shapes, Stamps, Behind, Served, Next
    PROVE  Served'
<1>0. shell.compatible \in BOOLEAN /\ shell.queued \in BOOLEAN /\ shell.pending \in Nat
      /\ clock.generation \in Nat /\ shell.gen \in Nat
  BY DataIs
<1>1. CASE Inside
  <2>1. UNCHANGED <<requests, greeting, shell, excused, Answered>>
    BY <1>1, InsideIs
  <2> QED
    BY <2>1 DEF Served, Carries
<1>2. CASE Sending
  <2>1. PICK f : Sends(f)
    BY <1>2, SendsIs DEF Sending
  <2>2. UNCHANGED <<requests, greeting, shell, excused, Answered>>
    BY <2>1, SendsWire DEF Sends
  <2> QED
    BY <2>2 DEF Served, Carries
<1>3. CASE WriteSync
  <2>1. /\ UNCHANGED <<Answered, watched>>
        /\ Greet(shell) /\ shell.nextId # 0 /\ shell.gen # 0 /\ TypeOK
    BY <1>3, WriteSyncIs
  <2>2. CASE clock.generation < shell.gen
    <3>1. shell' = shell /\ requests' = requests /\ excused' = excused
      BY <2>1, <2>2, GreetIs
    <3>2. shell.gen > clock.generation
      BY <1>0, <2>2
    <3> QED
      BY <2>1, <3>1, <3>2 DEF Served, Carries, Stamps
  <2>3. CASE ~(clock.generation < shell.gen)
    <3>1. /\ shell'.compatible
          /\ requests \subseteq requests'
          /\ (Begins \/ shell.pending = 0) /\ "messages" \in watched =>
                \E q \in requests' :
                   q.res = "messages" /\ q.value = None /\ q.id = shell'.pending
          /\ ~((Begins \/ shell.pending = 0) /\ "messages" \in watched) =>
                shell'.pending = (IF Begins THEN 0 ELSE shell.pending)
          /\ shell'.queued = (IF Begins THEN FALSE ELSE shell.queued)
      BY <2>1, <2>3, GreetIs
    <3>2. CASE (Begins \/ shell.pending = 0) /\ "messages" \in watched
      <4>1. \E q \in requests' : Carries(q)'
        BY <3>1, <3>2 DEF Carries
      <4>2. ~shell'.queued
        BY <3>1, <3>2 DEF Served
      <4> QED
        BY <3>1, <4>1, <4>2 DEF Served
    <3>3. CASE ~((Begins \/ shell.pending = 0) /\ "messages" \in watched)
      <4>1. CASE Begins
        BY <3>1, <3>3, <4>1 DEF Served
      <4>2. CASE ~Begins
        <5>1. shell'.pending = shell.pending /\ shell'.queued = shell.queued
          BY <3>1, <3>3, <4>2
        <5> QED
          BY <2>1, <3>1, <5>1 DEF Served, Carries
      <4> QED
        BY <4>1, <4>2
    <3> QED
      BY <3>2, <3>3
  <2> QED
    BY <2>2, <2>3
<1>4. CASE WriteEvent \/ WriteResponse
  <2>1. PICK f : Delivers(f)
    BY <1>4, DeliversIs
  <2> QED
    BY <2>1, DeliversServed
<1>5. ASSUME NEW q \in requests, ReadSnapshot(q) PROVE Served'
  <2>1. UNCHANGED <<greeting, shell, excused, responses>>
    BY <1>5, ReadSnapshotIs
  <2>2. Answered' = Answered
    BY <2>1 DEF Answered, Carried
  <2>3. PICK p : p.id = q.id /\ p.res = q.res /\ requests' = (requests \ {q}) \cup {p}
    BY <1>5, ReadSnapshotIs
  <2>4. (\E x \in requests : Carries(x)) => \E x \in requests' : Carries(x)'
    BY <2>1, <2>3 DEF Carries
  <2> QED
    BY <2>1, <2>2, <2>4 DEF Served, Carries
<1>6. ASSUME NEW q \in requests, Respond(q) \/ Fail(q) PROVE Served'
  <2>1. PICK f : Replies(q, f)
    BY <1>6, RepliesIs
  <2>2. /\ f.id = q.id /\ f.res = Content(q.res) /\ requests' = requests \ {q}
        /\ UNCHANGED <<greeting, shell, excused>>
    BY <2>1 DEF Replies
  <2>3. Answered' = Answered \cup {f}
    BY <2>1, RepliesWire
  <2>4. Carries(q) => Carries(f)'
    BY <2>2 DEF Carries, Content
  <2>5. (\E x \in requests : Carries(x)) =>
           (\E x \in requests' : Carries(x)') \/ (\E g \in Answered' : Carries(g)')
    BY <2>2, <2>3, <2>4 DEF Carries
  <2> QED
    BY <2>2, <2>3, <2>5 DEF Served, Carries
<1>7. CASE Reconnect \/ RestartDaemon
  <2>1. Reopened /\ shell \in ShellType
    BY <1>7, DataIs DEF Reconnect, RestartDaemon
  <2>2. shell'.pending = 0 /\ ~shell'.queued /\ greeting'
    BY <2>1, ReopenedIs
  <2> QED
    BY <2>2 DEF Served
<1>8. CASE UNCHANGED vars
  <2>1. UNCHANGED <<greeting, requests, responses, shell, excused>>
    BY <1>8 DEF vars, daemon, connection
  <2>2. Answered' = Answered
    BY <2>1 DEF Answered, Carried
  <2> QED
    BY <2>1, <2>2 DEF Served, Carries
<1> QED
  BY <1>1, <1>2, <1>3, <1>4, <1>5, <1>6, <1>7, <1>8, NextIs

\* The shell has gone past the frame.
Passed(f) == f.gen < shell.gen \/ (f.gen = shell.gen /\ f.seq <= shell.seqs[f.res])

Snap(f, r) == f.kind = "snapshot" /\ f.res = r

\* A frame that was up to date when it was stamped is older than one with more,
\* and passed when the shell shows more.
InOrder ==
    \A r \in Listed :
        /\ \A f, g \in Wire : Snap(f, r) /\ Snap(g, r) /\ ~f.stale /\ f.value < g.value => f.seq < g.seq
        /\ \A f \in Wire : Snap(f, r) /\ ~f.stale /\ f.value < shell.view[r] => Passed(f)

LEMMA StampedInOrder ==
    ASSUME Shapes, Behind, InOrder, NEW f, f \in Frames,
           \A g \in Wire : g.seq < f.seq, Wire' \subseteq Wire \cup {f}, shell' = shell,
           f.stale <=> IsContent(f) /\ f.value < db[f.res]
    PROVE  InOrder'
<1> SUFFICES ASSUME NEW r \in Listed
             PROVE  /\ \A g, h \in Wire' : Snap(g, r) /\ Snap(h, r) /\ ~g.stale /\ g.value < h.value => g.seq < h.seq
                    /\ \A g \in Wire' : Snap(g, r) /\ ~g.stale /\ g.value < shell.view[r] => Passed(g)'
  BY DEF InOrder
<1>0. r \in Resources /\ db[r] \in Nat /\ shell.view[r] \in Nat /\ shell.view[r] <= db[r] /\ f.value \in Nat
  <2>1. f.value \in Nat
    BY BoundsAssumption DEF Frames, None
  <2> QED
    BY <2>1, DataIs DEF Listed, Behind
<1>1. ASSUME NEW g \in Wire' PROVE Passed(g) => Passed(g)'
  BY DEF Passed
<1>2. Snap(f, r) /\ ~f.stale => ~(f.value < db[r])
  BY DEF Snap, IsContent
<1>3. ASSUME NEW g \in Wire', NEW h \in Wire', Snap(g, r), Snap(h, r), ~g.stale, g.value < h.value
      PROVE  g.seq < h.seq
  <2>1. CASE g \in Wire /\ h \in Wire
    BY <1>3, <2>1 DEF InOrder
  <2>2. CASE g = f /\ h \in Wire
    <3>1. h.value \in Nat /\ h.value <= db[r]
      BY <1>3, <2>2, WireIs DEF Behind, Snap, IsContent
    <3> QED
      BY <1>0, <1>2, <1>3, <2>2, <3>1
  <2>3. CASE g \in Wire /\ h = f
    BY <2>3
  <2>4. CASE g = f /\ h = f
    BY <1>0, <1>3, <2>4
  <2> QED
    BY <2>1, <2>2, <2>3, <2>4
<1>4. ASSUME NEW g \in Wire', Snap(g, r), ~g.stale, g.value < shell.view[r]
      PROVE  Passed(g)'
  <2>1. CASE g \in Wire
    <3>1. Passed(g)
      BY <1>4, <2>1 DEF InOrder
    <3> QED
      BY <1>1, <3>1
  <2>2. CASE g = f
    BY <1>0, <1>2, <1>4, <2>2
  <2> QED
    BY <2>1, <2>2
<1> QED
  BY <1>3, <1>4

\* What makes the shell go past frames.
LEMMA PassedStays ==
    ASSUME Shapes, NEW g \in Wire, g.res \in Listed, Passed(g),
           shell'.gen \in Nat, shell.gen <= shell'.gen,
           shell'.gen = shell.gen => shell.seqs[g.res] <= shell'.seqs[g.res],
           shell'.seqs[g.res] \in Nat
    PROVE  Passed(g)'
<1>1. /\ g.gen \in Nat /\ g.seq \in Nat /\ shell.gen \in Nat /\ shell.seqs[g.res] \in Nat
  BY WireIs, DataIs
<1> QED
  BY <1>1 DEF Passed

\* How the sequences move with an accepted frame.
LEMMA TakenSequences ==
    ASSUME Shapes, Stamps, Behind, NEW f, Delivers(f), Takes(f)
    PROVE  /\ shell'.gen = f.gen /\ shell.gen <= f.gen
           /\ \A k \in Keys : shell'.seqs[k] \in Nat
           /\ f.gen = shell.gen => \A k \in Keys : shell.seqs[k] <= shell'.seqs[k]
           /\ f.kind # "error" => shell'.seqs[Key(f)] = f.seq
           /\ f.kind # "error" /\ f.gen = shell.gen => shell.seqs[Key(f)] < f.seq
           /\ \A r \in Resources : shell'.view[r] =
                 IF IsContent(f) /\ r = f.res THEN f.value ELSE shell.view[r]
           /\ excused' = Excuses(f) /\ shell.compatible /\ shell'.compatible
<1>0. /\ TypeOK /\ shell.nextId # 0 /\ shell.gen # 0 /\ shell \in ShellType
      /\ f \in Frames /\ f.gen # 0 /\ f.gen \in Nat /\ f.seq \in Nat
      /\ IsContent(f) => f.value \in 0..Changes
      /\ Receive(f)
      /\ Older(f) <=> f.gen < shell.gen
      /\ Accepted(f) <=> ~Older(f) /\ (f.kind = "error" \/ f.seq > Since(f, Key(f)))
      /\ Key(f) \in Keys
  BY DeliveredIs
<1>1. shell.compatible /\ Accepted(f)
  BY DEF Takes
<1>2. /\ shell'.gen = f.gen /\ shell'.compatible
      /\ \A k \in Keys : shell'.seqs[k] =
            IF f.kind # "error" /\ k = Key(f) THEN f.seq ELSE Since(f, k)
      /\ \A r \in Resources : shell'.view[r] =
            IF IsContent(f) /\ r = f.res THEN f.value ELSE shell.view[r]
  BY <1>0, <1>1, AcceptIs
<1>3. /\ shell.gen \in Nat /\ \A k \in Keys : shell.seqs[k] \in Nat
  BY DataIs
<1>4. shell.gen <= f.gen
  BY <1>0, <1>1, <1>3
<1>5. f.kind # "error" /\ f.gen = shell.gen => shell.seqs[Key(f)] < f.seq
  BY <1>0, <1>1, <1>3 DEF Since
<1>6. (\A k \in Keys : shell'.seqs[k] \in Nat)
      /\ (f.gen = shell.gen => \A k \in Keys : shell.seqs[k] <= shell'.seqs[k])
  BY <1>0, <1>2, <1>3, <1>5 DEF Since
<1>7. excused' = Excuses(f)
  BY <1>0, <1>1 DEF Receive
<1>8. f.kind # "error" => shell'.seqs[Key(f)] = f.seq
  BY <1>0, <1>2
<1> QED
  BY <1>1, <1>2, <1>4, <1>5, <1>6, <1>7, <1>8

LEMMA DeliversInOrder ==
    ASSUME Shapes, Stamps, Behind, InOrder, NEW f, Delivers(f)
    PROVE  InOrder'
<1> SUFFICES ASSUME NEW r \in Listed
             PROVE  /\ \A g, h \in Wire' : Snap(g, r) /\ Snap(h, r) /\ ~g.stale /\ g.value < h.value => g.seq < h.seq
                    /\ \A g \in Wire' : Snap(g, r) /\ ~g.stale /\ g.value < shell'.view[r] => Passed(g)'
  BY DEF InOrder
<1>0. /\ TypeOK /\ shell.nextId # 0 /\ shell.gen # 0 /\ shell \in ShellType
      /\ f \in Frames /\ f \in Wire /\ f.seq \in Nat /\ f.gen \in Nat
      /\ Receive(f)
      /\ Wire' \subseteq Wire
      /\ r \in Resources
  BY DeliveredIs DEF Listed, Delivers
<1>1. \A g, h \in Wire' : Snap(g, r) /\ Snap(h, r) /\ ~g.stale /\ g.value < h.value => g.seq < h.seq
  BY <1>0 DEF InOrder
<1>2. ASSUME NEW g \in Wire', Snap(g, r), ~g.stale, g.value < shell'.view[r]
      PROVE  Passed(g)'
  <2>1. g \in Wire /\ g.res = r
    BY <1>0, <1>2 DEF Snap
  <2>2. CASE ~Takes(f)
    <3>1. ~(shell.compatible /\ Accepted(f))
      BY <2>2 DEF Takes
    <3>2. shell'.gen = shell.gen /\ shell'.seqs = shell.seqs /\ shell'.view = shell.view
      BY <1>0, <3>1, RefuseIs
    <3>3. Passed(g)
      BY <1>2, <2>1, <3>2 DEF InOrder
    <3> QED
      BY <3>2, <3>3 DEF Passed
  <2>3. CASE Takes(f)
    <3>1. /\ shell'.gen = f.gen /\ shell.gen <= f.gen
          /\ \A k \in Keys : shell'.seqs[k] \in Nat
          /\ f.gen = shell.gen => \A k \in Keys : shell.seqs[k] <= shell'.seqs[k]
          /\ f.kind # "error" => shell'.seqs[Key(f)] = f.seq
          /\ \A s \in Resources : shell'.view[s] =
                IF IsContent(f) /\ s = f.res THEN f.value ELSE shell.view[s]
      BY <2>3, TakenSequences
    <3>2. r \in Keys
      BY <1>0, DataIs
    <3>3. CASE IsContent(f) /\ r = f.res
      <4>1. f.kind = "snapshot" /\ f.value = shell'.view[r]
        <5>1. f.kind # "state"
          BY <1>0, <3>3, KeysAre DEF Wire, Shapes, TellShape, AnswerShape
        <5> QED
          BY <1>0, <3>1, <3>3, <5>1 DEF IsContent
      <4>2. g.seq < f.seq
        BY <1>0, <1>2, <2>1, <3>3, <4>1 DEF InOrder, Snap
      <4>3. g.gen <= f.gen /\ g.gen \in Nat /\ g.seq \in Nat
        BY <1>0, <2>1, <4>2, WireIs DEF Stamps
      <4>4. shell'.seqs[r] = f.seq
        BY <3>1, <3>3, <4>1 DEF Key
      <4> QED
        BY <1>0, <2>1, <3>1, <4>2, <4>3, <4>4 DEF Passed
    <3>4. CASE ~(IsContent(f) /\ r = f.res)
      <4>1. shell'.view[r] = shell.view[r]
        BY <1>0, <3>1, <3>4
      <4>2. Passed(g)
        BY <1>2, <2>1, <4>1 DEF InOrder
      <4> QED
        <5>1. /\ shell'.gen \in Nat /\ shell.gen <= shell'.gen /\ g.res \in Listed /\ g.res \in Keys
              /\ shell'.gen = shell.gen => f.gen = shell.gen
          BY <1>0, <2>1, <3>1, <3>2
        <5>2. /\ shell'.seqs[g.res] \in Nat
              /\ shell'.gen = shell.gen => shell.seqs[g.res] <= shell'.seqs[g.res]
          <6>1. \A k \in Keys : shell'.seqs[k] \in Nat
            BY <3>1
          <6>2. ASSUME shell'.gen = shell.gen PROVE shell.seqs[g.res] <= shell'.seqs[g.res]
            BY <3>1, <5>1, <6>2
          <6> QED
            BY <5>1, <6>1, <6>2
        <5> QED
          BY <2>1, <4>2, <5>1, <5>2, PassedStays
    <3> QED
      BY <3>3, <3>4
  <2> QED
    BY <2>2, <2>3
<1> QED
  BY <1>1, <1>2

LEMMA KeepsInOrder ==
    ASSUME Shapes, Stamps, Behind, InOrder, Next
    PROVE  InOrder'
<1>1. CASE Inside
  <2>1. UNCHANGED <<shell, Wire>>
    BY <1>1, InsideIs
  <2> QED
    BY <2>1 DEF InOrder, Passed
<1>2. CASE Sending
  <2>1. PICK f : Sends(f)
    BY <1>2, SendsIs DEF Sending
  <2>2. f \in Frames /\ shell' = shell /\ (f.stale <=> IsContent(f) /\ f.value < db[f.res])
    BY <2>1 DEF Sends
  <2>3. Wire' \subseteq Wire \cup {f} /\ \A g \in Wire : g.seq < f.seq
    BY <2>1, SendsWire
  <2> QED
    BY <2>2, <2>3, StampedInOrder
<1>3. CASE WriteSync
  <2>1. /\ UNCHANGED Wire
        /\ Greet(shell) /\ shell.nextId # 0 /\ shell.gen # 0 /\ TypeOK
    BY <1>3, WriteSyncIs
  <2>2. CASE clock.generation < shell.gen
    <3>1. shell' = shell
      BY <2>1, <2>2, GreetIs
    <3> QED
      BY <2>1, <3>1 DEF InOrder, Passed
  <2>3. CASE ~(clock.generation < shell.gen)
    <3>1. /\ shell'.gen = clock.generation
          /\ \A k \in Keys : shell'.seqs[k] =
                IF k = "state" /\ Newer THEN clock.revision + 2
                ELSE IF Begins THEN 0 ELSE shell.seqs[k]
          /\ \A r \in Resources : shell'.view[r] =
                IF r = "unread" /\ Newer THEN db[r] ELSE shell.view[r]
      BY <2>1, <2>3, GreetIs
    <3>2. clock.generation \in Nat /\ shell.gen \in Nat /\ \A k \in Keys : shell.seqs[k] \in Nat
      BY DataIs
    <3>3. \A r \in Listed : r \in Keys /\ r \in Resources /\ r # "state" /\ r # "unread"
      BY DEF Listed, Keys, Resources, Coalesced
    <3>4. ASSUME NEW g \in Wire, g.res \in Listed, Passed(g) PROVE Passed(g)'
      <4>1. shell.gen <= shell'.gen /\ shell'.gen \in Nat
        BY <2>3, <3>1, <3>2
      <4>2. shell'.seqs[g.res] = IF Begins THEN 0 ELSE shell.seqs[g.res]
        BY <3>1, <3>3, <3>4
      <4>3. shell'.gen = shell.gen => ~Begins
        BY <3>1, <3>2 DEF Begins
      <4>4. shell'.seqs[g.res] \in Nat
        BY <3>2, <3>3, <3>4, <4>2
      <4>5. shell'.gen = shell.gen => shell.seqs[g.res] <= shell'.seqs[g.res]
        BY <3>2, <3>3, <3>4, <4>2, <4>3
      <4> QED
        BY <3>4, <4>1, <4>4, <4>5, PassedStays
    <3>5. ASSUME NEW r \in Listed, NEW g \in Wire, Snap(g, r), ~g.stale, g.value < shell'.view[r]
          PROVE  Passed(g)'
      <4>1. shell'.view[r] = shell.view[r]
        BY <3>1, <3>3
      <4>2. Passed(g) /\ g.res \in Listed
        BY <3>5, <4>1 DEF InOrder, Snap
      <4> QED
        BY <3>4, <4>2
    <3> QED
      BY <2>1, <3>5 DEF InOrder
  <2> QED
    BY <2>2, <2>3
<1>4. CASE WriteEvent \/ WriteResponse
  <2>1. PICK f : Delivers(f)
    BY <1>4, DeliversIs
  <2> QED
    BY <2>1, DeliversInOrder
<1>5. ASSUME NEW q \in requests, ReadSnapshot(q) PROVE InOrder'
  <2>1. UNCHANGED <<events, responses, shell>>
    BY <1>5, ReadSnapshotIs
  <2>2. UNCHANGED Wire
    BY <2>1 DEF Told, Answered, Wire, Carried
  <2> QED
    BY <2>1, <2>2 DEF InOrder, Passed
<1>6. ASSUME NEW q \in requests, Respond(q) \/ Fail(q) PROVE InOrder'
  <2>1. PICK f : Replies(q, f)
    BY <1>6, RepliesIs
  <2>2. f \in Frames /\ shell' = shell /\ (f.stale <=> IsContent(f) /\ f.value < db[f.res])
    BY <2>1 DEF Replies
  <2>3. Wire' = Wire \cup {f} /\ \A g \in Wire : g.seq < f.seq
    BY <2>1, RepliesWire
  <2>4. Wire' \subseteq Wire \cup {f}
    BY <2>3
  <2> QED
    BY <2>2, <2>3, <2>4, StampedInOrder
<1>7. CASE Reconnect \/ RestartDaemon
  <2>1. Wire' = {}
    BY <1>7, ReopenedIs, DataIs DEF Reconnect, RestartDaemon
  <2> QED
    BY <2>1 DEF InOrder
<1>8. CASE UNCHANGED vars
  <2>1. UNCHANGED <<events, responses, shell>>
    BY <1>8 DEF vars, daemon, connection
  <2>2. UNCHANGED Wire
    BY <2>1 DEF Told, Answered, Wire, Carried
  <2> QED
    BY <2>1, <2>2 DEF InOrder, Passed
<1> QED
  BY <1>1, <1>2, <1>3, <1>4, <1>5, <1>6, <1>7, <1>8, NextIs

LEMMA StepRegressIsStamped ==
    ASSUME Shapes, Stamps, Behind, InOrder, [Next]_vars
    PROVE  RegressIsStamped
<1> SUFFICES ASSUME NEW r \in Listed, shell'.view[r] < shell.view[r]
             PROVE  r \in excused'
  BY DEF RegressIsStamped, Listed
<1>0. r \in Resources /\ shell.view[r] \in Nat /\ r # "unread"
  BY DataIs DEF Listed
<1>1. ASSUME shell'.view[r] = shell.view[r] PROVE FALSE
  BY <1>0, <1>1
<1>2. ASSUME NEW f, Delivers(f) PROVE r \in excused'
  <2>0. /\ TypeOK /\ shell.nextId # 0 /\ f \in Frames /\ f \in Wire /\ Receive(f)
        /\ f.gen \in Nat /\ f.seq \in Nat
    BY <1>2, DeliveredIs DEF Delivers
  <2>1. Takes(f)
    <3>1. SUFFICES ASSUME ~(shell.compatible /\ Accepted(f)) PROVE FALSE
      BY DEF Takes
    <3>2. shell'.view = shell.view
      BY <2>0, <3>1, RefuseIs
    <3> QED
      BY <1>1, <3>2
  <2>2. /\ shell'.gen = f.gen /\ shell.gen <= f.gen
        /\ f.kind # "error" /\ f.gen = shell.gen => shell.seqs[Key(f)] < f.seq
        /\ \A s \in Resources : shell'.view[s] =
              IF IsContent(f) /\ s = f.res THEN f.value ELSE shell.view[s]
        /\ excused' = Excuses(f)
    BY <1>2, <2>1, TakenSequences
  <2>3. IsContent(f) /\ r = f.res /\ f.value < shell.view[r]
    BY <1>0, <1>1, <2>2
  <2>4. f.kind = "snapshot"
    BY <1>0, <2>0, <2>3, KeysAre DEF IsContent, Wire, Shapes, TellShape, AnswerShape
  <2>5. ~Passed(f)
    <3>1. shell.gen \in Nat /\ shell.seqs[r] \in Nat
      BY <1>0, DataIs
    <3>2. Key(f) = r
      BY <2>3, <2>4 DEF Key
    <3> QED
      BY <2>0, <2>2, <2>3, <2>4, <3>1, <3>2 DEF Passed
  <2>6. f.stale
    BY <2>0, <2>3, <2>4, <2>5 DEF InOrder, Snap
  <2> QED
    BY <2>1, <2>2, <2>3, <2>6 DEF Takes, Excuses
<1>3. CASE Inside \/ Sending \/ \E q \in requests : ReadSnapshot(q) \/ Respond(q) \/ Fail(q)
  <2>1. shell' = shell
    BY <1>3, InsideIs DEF Sending, Publish, PublishList, PublishStatus, ReadSnapshot,
          Respond, Fail
  <2> QED
    BY <1>1, <2>1
<1>4. CASE WriteSync
  <2>1. Greet(shell) /\ shell.nextId # 0 /\ shell.gen # 0 /\ TypeOK
    BY <1>4, WriteSyncIs
  <2>2. CASE clock.generation < shell.gen
    BY <1>1, <2>1, <2>2, GreetIs
  <2>3. CASE ~(clock.generation < shell.gen)
    <3>1. \A s \in Resources : shell'.view[s] = IF s = "unread" /\ Newer THEN db[s] ELSE shell.view[s]
      BY <2>1, <2>3, GreetIs
    <3> QED
      BY <1>0, <1>1, <3>1
  <2> QED
    BY <2>2, <2>3
<1>5. CASE Reconnect \/ RestartDaemon
  <2>1. shell'.view = shell.view
    BY <1>5, ReopenedIs, DataIs DEF Reconnect, RestartDaemon
  <2> QED
    BY <1>1, <2>1
<1>6. CASE UNCHANGED vars
  BY <1>1, <1>6 DEF vars
<1> QED
  BY <1>2, <1>3, <1>4, <1>5, <1>6, NextIs, DeliversIs

\* What the shell has asked for, and what it takes for a repeat.
Asked(r) ==
    \/ \E q \in requests : q.res = r /\ q.value \in {None, db[r]}
    \/ \E f \in Answered : f.kind = "error" /\ f.res = r
    \/ r = "messages" /\ shell.queued

Skipped(f) == ~restarted /\ f.gen = shell.gen /\ f.seq <= shell.seqs[f.res]

Soon(r) == r \in excused \/ Due(r) \/ greeting \/ lagged \/ Asked(r)

Follows(r) == shell.view[r] = db[r] \/ Soon(r) \/ \E f \in Wire : News(f, r) /\ ~Skipped(f)

Outdated(g, r) == Snap(g, r) /\ ~g.stale /\ g.value < db[r] /\ ~Passed(g)

Comes(r) ==
    /\ Follows(r)
    /\ \A g \in Wire : Outdated(g, r) => Soon(r) \/ \E f \in Wire : News(f, r) /\ g.seq < f.seq

\* The newest content of chats, conversation and outbox is shown, excused, or
\* still to come; a snapshot older than it has the rest behind it.
RefreshComes == \A r \in Listed : Comes(r)

\* The same of the unread total, which no invalidation asks for.
TotalComes ==
    /\ owner["unread"] = "read" => Due("unread")
    /\ \/ shell.view["unread"] = db["unread"] \/ "unread" \in excused
       \/ Due("unread") \/ greeting \/ lagged
       \/ restarted /\ \E q \in requests : q.res = "state"
       \/ restarted /\ \E f \in Answered : f.res = "unread"
       \/ \E f \in Told : Snap(f, "unread")
    /\ ~Due("unread") => \A f \in Told : Snap(f, "unread") =>
          \E g \in Told : Snap(g, "unread") /\ (f = g \/ f.seq < g.seq) /\ g.value = db["unread"]

LEMMA InsideDue ==
    ASSUME DaemonType, Inside
    PROVE  /\ \A r \in Resources : Due(r)' \/ (db'[r] = db[r] /\ ~Due(r))
           /\ owner'["unread"] = "read" => owner["unread"] = "read" \/ Due("unread")'
<1>0. /\ owner \in [Coalesced -> {"idle", "publish", "read", "sleep"}]
      /\ window \in [Coalesced -> {"closed", "open", "trailing"}]
      /\ due \in [Resources -> Nat] /\ db \in [Resources -> Nat]
      /\ Coalesced \subseteq Resources /\ "unread" \in Coalesced /\ "outbox" \in Resources
      /\ "outbox" \notin Coalesced
  BY DEF DaemonType, Coalesced, Resources
<1> DEFINE Fine == /\ \A r \in Resources : Due(r)' \/ (db'[r] = db[r] /\ ~Due(r))
                   /\ owner'["unread"] = "read" => owner["unread"] = "read" \/ Due("unread")'
<1>1. ASSUME NEW s \in Resources, Change(s) PROVE Fine
  <2>1. /\ db' = [db EXCEPT ![s] = db[s] + 1] /\ due' = [due EXCEPT ![s] = due[s] + 1]
        /\ UNCHANGED <<window, owner, total, lists>>
    BY <1>1 DEF Change
  <2>2. Due(s)'
    <3>1. due'[s] > 0
      BY <1>0, <2>1
    <3> QED
      BY <3>1 DEF Due
  <2>3. ASSUME NEW r \in Resources, r # s PROVE db'[r] = db[r] /\ (Due(r) => Due(r)')
    <3>1. db'[r] = db[r] /\ due'[r] = due[r]
      BY <1>0, <2>1, <2>3
    <3>2. r = "outbox" => db'["outbox"] = db["outbox"]
      BY <3>1
    <3> QED
      BY <2>1, <3>1, <3>2 DEF Due
  <2> QED
    BY <2>1, <2>2, <2>3
<1>2. ASSUME NEW s \in Coalesced, Schedule(s) PROVE Fine
  <2>1. /\ due' = [due EXCEPT ![s] = due[s] - 1]
        /\ IF window[s] = "closed"
             THEN /\ window' = [window EXCEPT ![s] = "open"]
                  /\ owner' = [owner EXCEPT ![s] = "publish"]
             ELSE /\ window' = [window EXCEPT ![s] = "trailing"]
                  /\ owner' = owner
        /\ UNCHANGED <<db, total, lists>>
    BY <1>2 DEF Schedule
  <2>2. owner'[s] = "publish" \/ window'[s] = "trailing"
    BY <1>0, <2>1
  <2>3. Due(s)'
    BY <2>2 DEF Due
  <2>4. ASSUME NEW r \in Resources, r # s
        PROVE  due'[r] = due[r] /\ (r \in Coalesced => window'[r] = window[r] /\ owner'[r] = owner[r])
    BY <1>0, <2>1, <2>4
  <2>5. ASSUME NEW r \in Resources, r # s PROVE Due(r) => Due(r)'
    <3>1. due'[r] = due[r] /\ (r \in Coalesced => window'[r] = window[r] /\ owner'[r] = owner[r])
      BY <2>4, <2>5
    <3>2. r = "unread" => r \in Coalesced
      BY <1>0
    <3> QED
      BY <2>1, <3>1, <3>2 DEF Due
  <2>6. owner'["unread"] = "read" => owner["unread"] = "read"
    BY <1>0, <2>1
  <2> QED
    BY <2>1, <2>3, <2>5, <2>6
<1>3. ASSUME NEW s \in Coalesced, FinishWindow(s) PROVE Fine
  <2>1. /\ owner[s] = "sleep"
        /\ IF window[s] = "trailing"
             THEN /\ window' = [window EXCEPT ![s] = "open"]
                  /\ owner' = [owner EXCEPT ![s] = "publish"]
             ELSE /\ window' = [window EXCEPT ![s] = "closed"]
                  /\ owner' = [owner EXCEPT ![s] = "idle"]
        /\ UNCHANGED <<db, due, total, lists>>
    BY <1>3 DEF FinishWindow
  <2>2. Due(s) => Due(s)'
    <3>1. CASE window[s] = "trailing"
      <4>1. owner'[s] = "publish"
        BY <1>0, <2>1, <3>1
      <4> QED
        BY <4>1 DEF Due
    <3>2. CASE window[s] # "trailing"
      <4>1. s # "outbox"
        BY <1>0
      <4> QED
        BY <2>1, <3>2, <4>1 DEF Due
    <3> QED
      BY <3>1, <3>2
  <2>4. ASSUME NEW r \in Resources, r # s
        PROVE  r \in Coalesced => window'[r] = window[r] /\ owner'[r] = owner[r]
    BY <1>0, <2>1, <2>4
  <2>5. ASSUME NEW r \in Resources, r # s PROVE Due(r) => Due(r)'
    <3>1. r \in Coalesced => window'[r] = window[r] /\ owner'[r] = owner[r]
      BY <2>4, <2>5
    <3>2. r = "unread" => r \in Coalesced
      BY <1>0
    <3> QED
      BY <2>1, <3>1, <3>2 DEF Due
  <2>6. owner'["unread"] = "read" => owner["unread"] = "read"
    BY <1>0, <2>1
  <2> QED
    BY <2>1, <2>2, <2>5, <2>6
<1>4. CASE ReadTotal
  <2>1. /\ total' = db["unread"] /\ owner' = [owner EXCEPT !["unread"] = "read"]
        /\ UNCHANGED <<db, due, window, lists>>
    BY <1>4 DEF ReadTotal
  <2>2. owner'["unread"] = "read" /\ \A r \in Coalesced : r # "unread" => owner'[r] = owner[r]
    BY <1>0, <2>1
  <2>3. Due("unread")'
    BY <2>1, <2>2 DEF Due
  <2>4. ASSUME NEW r \in Resources, r # "unread" PROVE Due(r) => Due(r)'
    <3>1. r \in Coalesced => owner'[r] = owner[r]
      BY <2>2, <2>4
    <3> QED
      BY <2>1, <2>4, <3>1 DEF Due
  <2> QED
    BY <2>1, <2>3, <2>4
<1>5. CASE ReadList
  <2>1. /\ due' = [due EXCEPT !["outbox"] = due["outbox"] - 1] /\ lists' = Append(lists, db["outbox"])
        /\ UNCHANGED <<db, window, owner, total>>
    BY <1>5 DEF ReadList
  <2>2. Due("outbox")'
    <3>1. PICK S : S = 0..Changes
      OBVIOUS
    <3>2. lists \in Seq(S) /\ db["outbox"] \in S
      BY <1>0, <3>1 DEF DaemonType
    <3>3. Carried(lists') = Carried(lists) \cup {db["outbox"]}
      BY <2>1, <3>2, AppendIs
    <3>4. \E i \in DOMAIN lists' : lists'[i] = db'["outbox"]
      BY <2>1, <3>3 DEF Carried
    <3> QED
      BY <3>4 DEF Due
  <2>3. ASSUME NEW r \in Resources, r # "outbox" PROVE Due(r) => Due(r)'
    <3>1. due'[r] = due[r]
      BY <1>0, <2>1, <2>3
    <3> QED
      BY <2>1, <2>3, <3>1 DEF Due
  <2> QED
    BY <2>1, <2>2, <2>3
<1>6. CASE ReadStatus \/ BeginGeneration
  <2>1. UNCHANGED <<db, due, window, owner, total, lists>>
    BY <1>6 DEF ReadStatus, BeginGeneration
  <2> QED
    BY <2>1 DEF Due
<1> QED
  BY <1>1, <1>2, <1>3, <1>4, <1>5, <1>6 DEF Inside

LEMMA InsideComes ==
    ASSUME Shapes, RefreshComes, TotalComes, Inside
    PROVE  RefreshComes' /\ TotalComes'
<1>0. DaemonType
  BY TypesAre DEF Shapes
<1>1. UNCHANGED <<lagged, requests, greeting, shell, restarted, excused, Told, Answered, Wire>>
  BY InsideIs
<1>2. /\ \A r \in Resources : Due(r)' \/ (db'[r] = db[r] /\ ~Due(r))
      /\ owner'["unread"] = "read" => owner["unread"] = "read" \/ Due("unread")'
  BY <1>0, InsideDue
<1>3. ASSUME NEW r \in Listed PROVE Comes(r)'
  <2>1. CASE Due(r)'
    BY <2>1 DEF Comes, Follows, Soon
  <2>2. CASE db'[r] = db[r] /\ ~Due(r)
    <3>1. Comes(r)
      BY DEF RefreshComes
    <3>2. Asked(r) => Asked(r)'
      BY <1>1, <2>2 DEF Asked
    <3>3. Soon(r) => Soon(r)'
      BY <1>1, <2>2, <3>2 DEF Soon
    <3>4. \A f \in Wire : (News(f, r) => News(f, r)') /\ (Skipped(f)' => Skipped(f))
      BY <1>1, <2>2 DEF News, Skipped
    <3>5. \A g \in Wire : Outdated(g, r)' => Outdated(g, r)
      BY <1>1, <2>2 DEF Outdated, Passed
    <3>6. Follows(r)'
      BY <1>1, <2>2, <3>1, <3>3, <3>4 DEF Comes, Follows
    <3>7. \A g \in Wire' : Outdated(g, r)' => Soon(r)' \/ \E f \in Wire' : News(f, r)' /\ g.seq < f.seq
      BY <1>1, <3>1, <3>3, <3>4, <3>5 DEF Comes
    <3> QED
      BY <3>6, <3>7 DEF Comes
  <2>3. r \in Resources
    BY DEF Listed
  <2> QED
    BY <1>2, <2>1, <2>2, <2>3
<1>4. TotalComes'
  <2>1. CASE Due("unread")'
    BY <2>1 DEF TotalComes
  <2>2. CASE db'["unread"] = db["unread"] /\ ~Due("unread")
    BY <1>1, <1>2, <2>2 DEF TotalComes
  <2> QED
    BY <1>2, <2>1, <2>2, KeysAre
<1> QED
  BY <1>3, <1>4 DEF RefreshComes

\* A new stamp is past none.
LEMMA StampedIsNews ==
    ASSUME Shapes, Stamps, NEW f, f.seq = clock.revision + 1, f.res \in Resources,
           UNCHANGED <<shell, restarted>>
    PROVE  ~Skipped(f)'
<1>1. f.res \in Keys /\ shell.seqs[f.res] \in Nat /\ clock.revision \in Nat
  BY DataIs
<1>2. ~restarted => shell.seqs[f.res] <= clock.revision
  BY <1>1 DEF Stamps
<1> QED
  BY <1>1, <1>2 DEF Skipped

LEMMA SendsComes ==
    ASSUME Shapes, Stamps, Behind, RefreshComes, NEW f, Sends(f), NEW r \in Listed
    PROVE  Comes(r)'
<1>0. /\ f \in Frames /\ f.seq = clock.revision + 1 /\ Announces(f) /\ r \in Resources
      /\ f.stale <=> IsContent(f) /\ f.value < db[f.res]
      /\ UNCHANGED <<db, requests, greeting, shell, restarted, excused>>
  BY DEF Sends, Listed
<1>1. /\ Answered' = Answered /\ Wire' \subseteq Wire \cup {f} /\ Answered \subseteq Wire'
      /\ greeting \/ f \in Told'
      /\ lagged => lagged'
      /\ lagged' \/ Told \subseteq Told'
      /\ \A g \in Wire : g.seq < f.seq
  BY SendsWire
<1>2. Comes(r)
  BY DEF RefreshComes
<1>3. CASE greeting
  BY <1>0, <1>3 DEF Comes, Follows, Soon
<1>4. CASE lagged'
  BY <1>4 DEF Comes, Follows, Soon
<1>5. CASE ~greeting /\ ~lagged'
  <2>1. f \in Wire' /\ Wire \subseteq Wire'
    BY <1>1, <1>5 DEF Wire
  <2>2. Asked(r) => Asked(r)'
    BY <1>0, <1>1 DEF Asked
  <2>3. Soon(r) => Soon(r)' \/ News(f, r)
    BY <1>0, <1>1, <2>2 DEF Soon, Announces
  <2>4. News(f, r)' <=> News(f, r)
    BY <1>0 DEF News
  <2>5. ~Skipped(f)'
    <3>1. f.res \in Resources
      BY <1>0 DEF Frames
    <3> QED
      BY <1>0, <3>1, StampedIsNews
  <2>6. Follows(r)'
    <3>1. CASE shell.view[r] = db[r]
      BY <1>0, <3>1 DEF Follows
    <3>2. CASE Soon(r)
      BY <2>1, <2>3, <2>4, <2>5, <3>2 DEF Follows
    <3>3. CASE \E g \in Wire : News(g, r) /\ ~Skipped(g)
      <4>1. PICK g \in Wire : News(g, r) /\ ~Skipped(g)
        BY <3>3
      <4>2. News(g, r)' /\ ~Skipped(g)'
        BY <1>0, <4>1 DEF News, Skipped
      <4> QED
        BY <2>1, <4>2 DEF Follows
    <3> QED
      BY <1>2, <3>1, <3>2, <3>3 DEF Comes, Follows
  <2>7. ASSUME NEW g \in Wire', Outdated(g, r)'
        PROVE  Soon(r)' \/ \E h \in Wire' : News(h, r)' /\ g.seq < h.seq
    <3>1. g # f
      BY <1>0, <2>7 DEF Outdated, Snap, IsContent
    <3>2. g \in Wire /\ Outdated(g, r)
      BY <1>0, <1>1, <2>7, <3>1 DEF Outdated, Passed
    <3>3. CASE Soon(r)
      BY <1>1, <2>1, <2>3, <2>4, <3>2, <3>3
    <3>4. CASE \E h \in Wire : News(h, r) /\ g.seq < h.seq
      <4>1. PICK h \in Wire : News(h, r) /\ g.seq < h.seq
        BY <3>4
      <4>2. News(h, r)'
        BY <1>0, <4>1 DEF News
      <4> QED
        BY <2>1, <4>1, <4>2
    <3> QED
      BY <1>2, <3>2, <3>3, <3>4 DEF Comes
  <2> QED
    BY <2>6, <2>7 DEF Comes
<1> QED
  BY <1>3, <1>4, <1>5

LEMMA SendsTotal ==
    ASSUME Shapes, Stamps, TotalComes, NEW f, Sends(f)
    PROVE  TotalComes'
<1>0. /\ TellShape(f) /\ f \in Frames /\ Announces(f)
      /\ UNCHANGED <<db, requests, greeting, shell, restarted, excused>>
  BY DEF Sends
<1>1. /\ Answered' = Answered /\ Told' \subseteq Told \cup {f}
      /\ greeting \/ f \in Told'
      /\ lagged => lagged'
      /\ lagged' \/ Told \subseteq Told'
      /\ greeting => events' = events
      /\ \A g, h \in Told : g.seq < h.seq /\ g \in Told' => h \in Told' \/ g = f
      /\ \A g \in Wire : g.seq < f.seq
      /\ f \notin Wire
  BY SendsWire
<1>2. Due("unread") => Due("unread")' \/ News(f, "unread")
  BY <1>0, KeysAre DEF Announces
<1>3. News(f, "unread") => Snap(f, "unread") /\ f.value = db["unread"]
  BY <1>0 DEF News, TellShape, Snap
<1>4. Snap(f, "unread") => Due("unread") /\ owner'["unread"] # "read"
  BY <1>0 DEF Snap, Announces, TotalComes
<1>5. owner'["unread"] = "read" => Due("unread")'
  BY <1>0, <1>2, <1>3, <1>4 DEF Announces, TotalComes
<1>6. greeting => Told' = {}
  BY <1>1 DEF Shapes, Told, Carried
<1>7. \/ shell'.view["unread"] = db'["unread"] \/ "unread" \in excused'
      \/ Due("unread")' \/ greeting' \/ lagged'
      \/ restarted' /\ \E q \in requests' : q.res = "state"
      \/ restarted' /\ \E g \in Answered' : g.res = "unread"
      \/ \E g \in Told' : Snap(g, "unread")
  <2>1. CASE Due("unread")
    BY <1>0, <1>1, <1>2, <1>3, <2>1
  <2>2. CASE ~Due("unread")
    BY <1>0, <1>1, <2>2 DEF TotalComes
  <2> QED
    BY <2>1, <2>2
<1>8. ASSUME ~Due("unread")', NEW g \in Told', Snap(g, "unread")
      PROVE  \E h \in Told' : Snap(h, "unread") /\ (g = h \/ g.seq < h.seq) /\ h.value = db'["unread"]
  <2>1. ~greeting
    BY <1>6, <1>8
  <2>2. CASE Due("unread")
    <3>1. f \in Told' /\ Snap(f, "unread") /\ f.value = db'["unread"]
      BY <1>0, <1>1, <1>2, <1>3, <1>8, <2>1, <2>2
    <3>2. g = f \/ g.seq < f.seq
      BY <1>1, <1>8 DEF Wire
    <3> QED
      BY <3>1, <3>2
  <2>3. CASE ~Due("unread")
    <3>1. g # f /\ g \in Told
      BY <1>1, <1>4, <1>8, <2>3
    <3>2. PICK h \in Told : Snap(h, "unread") /\ (g = h \/ g.seq < h.seq) /\ h.value = db["unread"]
      BY <1>8, <2>3, <3>1 DEF TotalComes
    <3>3. h \in Told'
      BY <1>1, <1>8, <3>1, <3>2
    <3> QED
      BY <1>0, <3>2, <3>3
  <2> QED
    BY <2>2, <2>3
<1> QED
  BY <1>5, <1>7, <1>8 DEF TotalComes

\* The daemon's own work stands still.
LEMMA DueIs ==
    ASSUME UNCHANGED <<db, due, window, owner, total, lists>>, NEW r
    PROVE  Due(r)' <=> Due(r)
BY DEF Due

LEMMA ReadSnapshotComes ==
    ASSUME Shapes, RefreshComes, TotalComes, NEW q \in requests, ReadSnapshot(q)
    PROVE  RefreshComes' /\ TotalComes'
<1>1. /\ q.value = None
      /\ UNCHANGED <<db, due, window, owner, total, lists, events, lagged, responses,
                     greeting, shell, watched, restarted, excused>>
  BY ReadSnapshotIs
<1>2. UNCHANGED <<Told, Answered, Wire>>
  BY <1>1 DEF Told, Answered, Wire, Carried
<1>3. PICK p : /\ p.res = q.res /\ p.value = db[Content(q.res)]
               /\ requests' = (requests \ {q}) \cup {p}
  BY ReadSnapshotIs
<1>4. \A r \in Resources : Due(r)' <=> Due(r)
  BY <1>1, DueIs
<1>5. ASSUME NEW r \in Listed PROVE Comes(r)'
  <2>1. Asked(r) => Asked(r)'
    <3>1. q.res = r => p.value = db[r]
      BY <1>3, KeysAre DEF Content
    <3> QED
      BY <1>1, <1>2, <1>3, <3>1 DEF Asked
  <2>2. Soon(r) => Soon(r)'
    BY <1>1, <1>4, <2>1 DEF Soon, Listed
  <2>3. Comes(r)
    BY DEF RefreshComes
  <2>4. \A g \in Wire : (News(g, r)' <=> News(g, r)) /\ (Skipped(g)' <=> Skipped(g)) /\ (Outdated(g, r)' <=> Outdated(g, r))
    BY <1>1 DEF News, Skipped, Outdated, Passed
  <2>5. Follows(r)'
    BY <1>1, <1>2, <2>2, <2>3, <2>4 DEF Comes, Follows
  <2> QED
    BY <1>2, <2>2, <2>3, <2>4, <2>5 DEF Comes
<1>6. (\E x \in requests : x.res = "state") => \E x \in requests' : x.res = "state"
  BY <1>3
<1>7. TotalComes'
  BY <1>1, <1>2, <1>4, <1>6, KeysAre DEF TotalComes
<1> QED
  BY <1>5, <1>7 DEF RefreshComes

LEMMA RepliesComes ==
    ASSUME Shapes, Stamps, Behind, RefreshComes, TotalComes, NEW q \in requests, NEW f, Replies(q, f)
    PROVE  RefreshComes' /\ TotalComes'
<1>0. /\ f \in Frames /\ f.seq = clock.revision + 1 /\ f.res = Content(q.res)
      /\ f.kind = "error" \/ (/\ f.kind = (IF q.res = "state" THEN "state" ELSE "snapshot")
                              /\ f.value = q.value /\ q.value # None)
      /\ f.stale <=> IsContent(f) /\ f.value < db[f.res]
      /\ requests' = requests \ {q}
      /\ UNCHANGED <<db, due, window, owner, total, lists, lagged, greeting, shell,
                     restarted, excused>>
  BY DEF Replies
<1>1. /\ Answered' = Answered \cup {f} /\ Told' = Told /\ Wire' = Wire \cup {f}
      /\ \A g \in Wire : g.seq < f.seq
  BY RepliesWire
<1>2. \A r \in Resources : Due(r)' <=> Due(r)
  BY <1>0, DueIs
<1>3. ~Skipped(f)'
  <2>1. f.res \in Resources
    BY <1>0 DEF Frames
  <2> QED
    BY <1>0, <2>1, StampedIsNews
<1>4. ASSUME NEW r \in Listed PROVE Comes(r)'
  <2>1. Asked(r) => Asked(r)' \/ News(f, r)'
    <3>1. CASE \E x \in requests : x.res = r /\ x.value \in {None, db[r]}
      <4>1. PICK x \in requests : x.res = r /\ x.value \in {None, db[r]}
        BY <3>1
      <4>2. CASE x # q
        BY <1>0, <4>1, <4>2 DEF Asked
      <4>3. CASE x = q
        <5>1. f.res = r /\ q.res # "state"
          BY <1>0, <4>1, <4>3, KeysAre DEF Content
        <5>2. CASE f.kind = "error"
          BY <1>1, <5>1, <5>2 DEF Asked
        <5>3. CASE f.kind # "error"
          BY <1>0, <4>1, <4>3, <5>1, <5>3 DEF News
        <5> QED
          BY <5>2, <5>3
      <4> QED
        BY <4>2, <4>3
    <3>2. CASE (\E g \in Answered : g.kind = "error" /\ g.res = r) \/ (r = "messages" /\ shell.queued)
      BY <1>0, <1>1, <3>2 DEF Asked
    <3> QED
      BY <3>1, <3>2 DEF Asked
  <2>2. Soon(r) => Soon(r)' \/ News(f, r)'
    BY <1>0, <1>2, <2>1 DEF Soon, Listed
  <2>3. Comes(r)
    BY DEF RefreshComes
  <2>4. \A g \in Wire : (News(g, r)' <=> News(g, r)) /\ (Skipped(g)' <=> Skipped(g)) /\ (Outdated(g, r)' <=> Outdated(g, r))
    BY <1>0 DEF News, Skipped, Outdated, Passed
  <2>5. Follows(r)'
    <3>1. CASE shell.view[r] = db[r]
      BY <1>0, <3>1 DEF Follows
    <3>2. CASE Soon(r)
      BY <1>1, <1>3, <2>2, <3>2 DEF Follows
    <3>3. CASE \E g \in Wire : News(g, r) /\ ~Skipped(g)
      BY <1>1, <2>4, <3>3 DEF Follows
    <3> QED
      BY <2>3, <3>1, <3>2, <3>3 DEF Comes, Follows
  <2>6. ASSUME NEW g \in Wire', Outdated(g, r)'
        PROVE  Soon(r)' \/ \E h \in Wire' : News(h, r)' /\ g.seq < h.seq
    <3>1. g # f
      BY <1>0, <2>6 DEF Outdated, Snap, IsContent
    <3>2. g \in Wire /\ Outdated(g, r)
      BY <1>1, <2>4, <2>6, <3>1
    <3>3. CASE Soon(r)
      BY <1>1, <2>2, <3>2, <3>3
    <3>4. CASE \E h \in Wire : News(h, r) /\ g.seq < h.seq
      BY <1>1, <2>4, <3>4
    <3> QED
      BY <2>3, <3>2, <3>3, <3>4 DEF Comes
  <2> QED
    BY <2>5, <2>6 DEF Comes
<1>5. TotalComes'
  <2>1. (\E x \in requests : x.res = "state") =>
           (\E x \in requests' : x.res = "state") \/ \E g \in Answered' : g.res = "unread"
    BY <1>0, <1>1 DEF Content
  <2> QED
    BY <1>0, <1>1, <1>2, <2>1, KeysAre DEF TotalComes
<1> QED
  BY <1>4, <1>5 DEF RefreshComes

\* What nobody watches has no content to catch up with.
LEMMA UnwatchedComes ==
    ASSUME Shapes, Behind, NEW r \in Resources, r \notin watched
    PROVE  shell.view[r] = db[r] /\ \A g : Snap(g, r) /\ g \in Wire => ~(g.value < db[r])
<1>1. db[r] = 0 /\ shell.view[r] <= db[r] /\ shell.view[r] \in Nat
  BY DataIs DEF Behind, Held
<1>2. \A g \in Wire : g.value \in Nat
  BY WireIs
<1> QED
  BY <1>1, <1>2

LEMMA WriteSyncComes ==
    ASSUME Shapes, Stamps, Behind, TotalComes, WriteSync
    PROVE  RefreshComes' /\ TotalComes'
<1>1. /\ UNCHANGED <<db, due, window, owner, total, lists, watched, restarted>>
      /\ UNCHANGED <<Told, Answered, Wire>>
      /\ Greet(shell) /\ shell.nextId # 0 /\ shell.gen # 0 /\ TypeOK
  BY WriteSyncIs
<1>2. \A r \in Resources : Due(r)' <=> Due(r)
  BY <1>1, DueIs
<1>3. /\ clock.generation \in Nat /\ clock.revision \in Nat /\ shell.gen \in Nat
      /\ shell.seqs["state"] \in Nat
  BY DataIs, KeysAre
<1>4. /\ owner'["unread"] = "read" => Due("unread")'
      /\ ~Due("unread")' => \A f \in Told' : Snap(f, "unread") =>
            \E g \in Told' : Snap(g, "unread") /\ (f = g \/ f.seq < g.seq) /\ g.value = db'["unread"]
  BY <1>1, <1>2, KeysAre DEF TotalComes
<1>5. CASE clock.generation < shell.gen
  <2>1. excused' = excused
    BY <1>1, <1>5, GreetIs
  <2>2. excused' = Resources
    BY <1>3, <1>5, <2>1 DEF Stamps
  <2> QED
    BY <1>4, <2>2, KeysAre DEF RefreshComes, Comes, Follows, Soon, Listed, TotalComes
<1>6. CASE ~(clock.generation < shell.gen)
  <2>1. /\ \A r \in Resources : shell'.view[r] = IF r = "unread" /\ Newer THEN db[r] ELSE shell.view[r]
        /\ \A r \in {"state", "chats", "outbox"} : Content(r) \in watched =>
              \E q \in requests' : q.res = r /\ q.value = None
    BY <1>1, <1>6, GreetIs
  <2>2. /\ (Begins \/ shell.pending = 0) /\ "messages" \in watched =>
              \E q \in requests' :
                 q.res = "messages" /\ q.value = None /\ q.id = shell'.pending
        /\ excused' = (excused \ (IF Newer THEN {"unread"} ELSE {})) \cup
              (IF ~Begins /\ shell.pending # 0 THEN {"messages"} ELSE {})
    BY <1>1, <1>6, GreetIs
  <2>3. ASSUME NEW r \in Listed PROVE Comes(r)'
    <3>1. CASE r \notin watched
      <4>1. shell.view[r] = db[r] /\ \A g : Snap(g, r) /\ g \in Wire => ~(g.value < db[r])
        BY <3>1, UnwatchedComes DEF Listed
      <4>2. shell'.view[r] = db'[r]
        BY <1>1, <2>1, <4>1 DEF Listed
      <4> QED
        BY <1>1, <4>1, <4>2 DEF Comes, Follows, Outdated
    <3>2. CASE r \in watched /\ r # "messages"
      <4>1. \E q \in requests' : q.res = r /\ q.value = None
        BY <2>1, <3>2, KeysAre DEF Content
      <4>2. Asked(r)'
        BY <4>1 DEF Asked
      <4> QED
        BY <4>2 DEF Comes, Follows, Soon
    <3>3. CASE r \in watched /\ r = "messages"
      <4>1. CASE Begins \/ shell.pending = 0
        <5>1. Asked(r)'
          BY <2>2, <3>3, <4>1 DEF Asked
        <5> QED
          BY <5>1 DEF Comes, Follows, Soon
      <4>2. CASE ~(Begins \/ shell.pending = 0)
        <5>1. r \in excused'
          BY <2>2, <3>3, <4>2
        <5> QED
          BY <5>1 DEF Comes, Follows, Soon
      <4> QED
        BY <4>1, <4>2
    <3> QED
      BY <3>1, <3>2, <3>3
  <2>4. shell'.view["unread"] = db'["unread"] \/ (restarted' /\ \E q \in requests' : q.res = "state")
    <3>1. CASE Newer
      BY <1>1, <2>1, <3>1, KeysAre
    <3>2. CASE ~Newer /\ "unread" \notin watched
      <4>1. shell.view["unread"] = db["unread"]
        BY <3>2, UnwatchedComes, KeysAre
      <4> QED
        BY <1>1, <2>1, <4>1, KeysAre
    <3>3. CASE ~Newer /\ "unread" \in watched
      <4>1. restarted
        <5>1. ~(shell.seqs["state"] <= clock.revision)
          BY <1>3, <3>3 DEF Newer
        <5> QED
          BY <5>1, KeysAre DEF Stamps
      <4>2. \E q \in requests' : q.res = "state"
        BY <2>1, <3>3 DEF Content
      <4> QED
        BY <1>1, <4>1, <4>2
    <3> QED
      BY <3>1, <3>2, <3>3
  <2> QED
    BY <1>4, <2>3, <2>4 DEF RefreshComes, TotalComes
<1> QED
  BY <1>5, <1>6

LEMMA ReopenComes ==
    ASSUME Shapes, TotalComes, Reconnect \/ RestartDaemon
    PROVE  RefreshComes' /\ TotalComes'
<1>1. Reopened
  BY DEF Reconnect, RestartDaemon
<1>2. greeting' /\ Told' = {}
  BY <1>1, ReopenedIs, DataIs
<1>3. owner'["unread"] = "read" => Due("unread")'
  <2>1. CASE Reconnect
    <3>1. UNCHANGED <<db, due, window, owner, total, lists>>
      BY <2>1 DEF Reconnect, daemon
    <3> QED
      BY <3>1, DueIs DEF TotalComes
  <2>2. CASE RestartDaemon
    <3>1. owner' = [r \in Coalesced |-> "idle"]
      BY <2>2 DEF RestartDaemon
    <3> QED
      BY <3>1, KeysAre
  <2> QED
    BY <2>1, <2>2
<1> QED
  BY <1>2, <1>3 DEF RefreshComes, Comes, Follows, Soon, TotalComes

\* A refused frame was old, or the shell is past it.
LEMMA RefusedIsPast ==
    ASSUME Shapes, Stamps, Behind, NEW f, Delivers(f), shell.compatible, ~Accepted(f),
           f.kind \in {"invalidated", "snapshot"}
    PROVE  /\ excused' = Excuses(f)
           /\ shell'.gen = shell.gen /\ shell'.seqs = shell.seqs /\ shell'.view = shell.view
           /\ requests \subseteq requests'
           /\ f.res \in excused' \/ (~restarted /\ f.gen = shell.gen /\ f.seq <= shell.seqs[f.res])
<1>0. /\ TypeOK /\ shell.nextId # 0 /\ f \in Frames /\ f.gen \in Nat /\ f.seq \in Nat /\ f.seq # 0
      /\ Receive(f) /\ f.res \in Resources
      /\ Older(f) <=> f.gen < shell.gen
      /\ Accepted(f) <=> ~Older(f) /\ (f.kind = "error" \/ f.seq > Since(f, Key(f)))
  BY DeliveredIs
<1>1. /\ shell'.gen = shell.gen /\ shell'.seqs = shell.seqs /\ shell'.view = shell.view
      /\ requests \subseteq requests'
  BY <1>0, RefuseIs
<1>2. excused' = Excuses(f)
  BY <1>0 DEF Receive
<1>3. CASE Older(f) \/ restarted
  BY <1>1, <1>2, <1>3 DEF Excuses
<1>4. CASE ~Older(f) /\ ~restarted
  <2>1. Key(f) = f.res /\ f.res \in Keys /\ shell.seqs[f.res] \in Nat /\ shell.gen \in Nat
    BY DataIs, <1>0 DEF Key
  <2>2. ~(f.seq > Since(f, f.res)) /\ ~(f.gen < shell.gen)
    BY <1>0, <1>4, <2>1
  <2>3. ~(f.gen > shell.gen)
    BY <1>0, <2>2 DEF Since
  <2>4. f.gen = shell.gen
    BY <1>0, <2>1, <2>2, <2>3
  <2>5. f.seq <= shell.seqs[f.res]
    BY <1>0, <2>1, <2>2, <2>3 DEF Since
  <2> QED
    BY <1>1, <1>2, <1>4, <2>4, <2>5
<1> QED
  BY <1>1, <1>2, <1>3, <1>4

\* An invalidation is asked after.
LEMMA TakenIsAsked ==
    ASSUME Shapes, Stamps, Behind, NEW f, Delivers(f), Takes(f), f.kind = "invalidated",
           f.res \in watched
    PROVE  Asked(f.res)'
<1>0. /\ TypeOK /\ shell.nextId # 0 /\ shell.gen # 0 /\ f \in Frames /\ f.gen # 0
      /\ IsContent(f) => f.value \in 0..Changes
      /\ Receive(f) /\ f.res \in Resources
  BY DeliveredIs
<1>1. shell.compatible /\ Accepted(f)
  BY DEF Takes
<1>2. CASE f.res # "messages"
  <2>1. \E q \in requests' : q.res = f.res /\ q.value = None
    BY <1>0, <1>1, <1>2, AcceptIs
  <2> QED
    BY <2>1 DEF Asked
<1>3. CASE f.res = "messages"
  <2>1. Mode(f) = "queue"
    BY <1>3 DEF Mode
  <2>2. /\ (Mode(f) # "none" /\ After(f).pending = 0 /\ "messages" \in watched) =>
              \E q \in requests' : q.res = "messages" /\ q.value = None /\ q.id = shell'.pending
        /\ shell'.queued = (After(f).queued \/ (Mode(f) = "queue" /\ After(f).pending # 0))
    BY <1>0, <1>1, AcceptIs
  <2>3. CASE After(f).pending = 0
    BY <1>3, <2>1, <2>2, <2>3 DEF Asked
  <2>4. CASE After(f).pending # 0
    BY <1>3, <2>1, <2>2, <2>4 DEF Asked
  <2> QED
    BY <2>3, <2>4
<1> QED
  BY <1>2, <1>3

\* What repairs a view stays until the newest content is shown.
LEMMA DeliversSoon ==
    ASSUME Shapes, Stamps, Behind, NEW f, Delivers(f), shell.compatible,
           NEW r \in Listed, r \in watched, Soon(r)
    PROVE  Soon(r)' \/ (Takes(f) /\ Snap(f, r) /\ f.value = db[r])
<1>0. /\ TypeOK /\ shell.nextId # 0 /\ shell.gen # 0 /\ f \in Frames /\ f.gen # 0
      /\ IsContent(f) => f.value \in 0..Changes
      /\ Receive(f) /\ f.res \in Resources /\ f \in Wire
      /\ UNCHANGED <<db, due, window, owner, total, lists, lagged, greeting, watched>>
  BY DeliveredIs DEF Delivers
<1>1. r \in Resources /\ r # "unread"
  BY DEF Listed
<1>2. excused' = Excuses(f)
  BY <1>0 DEF Receive
<1>3. CASE r \in excused
  <2>1. f.kind = "state" => f.res = "unread"
    BY <1>0 DEF Wire, Shapes, TellShape, AnswerShape
  <2>2. r \in Excuses(f) \/ (Accepted(f) /\ r = f.res /\ f.kind \in {"snapshot", "state"} /\ f.value = db[r])
    BY <1>3 DEF Excuses
  <2> QED
    BY <1>1, <1>2, <2>1, <2>2 DEF Soon, Takes, Snap
<1>4. CASE Due(r) \/ greeting \/ lagged
  <2>1. Due(r)' <=> Due(r)
    BY <1>0, DueIs
  <2> QED
    BY <1>0, <1>4, <2>1 DEF Soon
<1>5. CASE Asked(r)
  <2>1. requests \subseteq requests'
    <3>1. CASE Accepted(f)
      BY <1>0, <3>1, AcceptIs
    <3>2. CASE ~Accepted(f)
      BY <1>0, <3>2, RefuseIs
    <3> QED
      BY <3>1, <3>2
  <2>2. CASE \E q \in requests : q.res = r /\ q.value \in {None, db[r]}
    BY <1>0, <2>1, <2>2 DEF Asked, Soon
  <2>3. CASE \E g \in Answered : g.kind = "error" /\ g.res = r
    <3>1. PICK g \in Answered : g.kind = "error" /\ g.res = r
      BY <2>3
    <3>2. CASE g = f
      BY <1>2, <3>1, <3>2 DEF Excuses, Soon
    <3>3. CASE g # f
      BY <3>1, <3>3 DEF Delivers, Asked, Soon
    <3> QED
      BY <3>2, <3>3
  <2>4. CASE r = "messages" /\ shell.queued
    <3>1. CASE ~Accepted(f)
      <4>1. /\ (shell.compatible /\ Answers(f, shell)) =>
                 IF "messages" \in watched
                   THEN \E q \in requests' :
                           q.res = "messages" /\ q.value = None /\ q.id = shell'.pending
                   ELSE shell'.pending = 0
            /\ ~(shell.compatible /\ Answers(f, shell)) => shell' = shell
        BY <1>0, <3>1, RefuseIs
      <4> QED
        BY <2>4, <4>1 DEF Asked, Soon
    <3>2. CASE Accepted(f) /\ f.gen > shell.gen
      BY <1>2, <2>4, <3>2 DEF Excuses, Soon
    <3>3. CASE Accepted(f) /\ ~(f.gen > shell.gen)
      <4>1. Taken(f).queued = shell.queued
        BY <1>0, <3>3, TakenIs, DataIs
      <4>2. /\ After(f).pending = IF Done(f) THEN 0 ELSE Taken(f).pending
            /\ After(f).queued = IF Done(f) THEN FALSE ELSE Taken(f).queued
        BY <1>0, <3>3, AfterIs, DataIs
      <4>3. /\ (Mode(f) # "none" /\ After(f).pending = 0 /\ "messages" \in watched) =>
                  \E q \in requests' : q.res = "messages" /\ q.value = None /\ q.id = shell'.pending
            /\ shell'.queued = (After(f).queued \/ (Mode(f) = "queue" /\ After(f).pending # 0))
        BY <1>0, <3>3, AcceptIs
      <4>4. CASE Done(f)
        <5>1. Mode(f) # "none" /\ After(f).pending = 0
          BY <2>4, <4>1, <4>2, <4>4 DEF Mode
        <5> QED
          BY <2>4, <4>3, <5>1 DEF Asked, Soon
      <4>5. CASE ~Done(f)
        <5>1. shell'.queued
          BY <2>4, <4>1, <4>2, <4>3, <4>5
        <5> QED
          BY <2>4, <5>1 DEF Asked, Soon
      <4> QED
        BY <4>4, <4>5
    <3> QED
      BY <3>1, <3>2, <3>3
  <2> QED
    BY <1>5, <2>2, <2>3, <2>4 DEF Asked
<1> QED
  BY <1>3, <1>4, <1>5 DEF Soon

\* A snapshot that is taken and not the newest has the rest behind it.
LEMMA TakenHasMore ==
    ASSUME Shapes, Stamps, Behind, RefreshComes, NEW f, Delivers(f), Takes(f),
           NEW r \in Listed, r \in watched, Snap(f, r), f.value # db[r]
    PROVE  Soon(r)' \/ \E h \in Wire' : News(h, r)' /\ ~Skipped(h)'
<1>0. /\ f \in Wire /\ f.seq \in Nat /\ f.gen \in Nat /\ f.value \in Nat /\ f.value <= db[r]
      /\ db[r] \in Nat /\ db' = db /\ f.res = r /\ r \in Resources /\ IsContent(f)
  <2>1. IsContent(f) /\ f.res = r /\ r \in Resources
    BY DEF Snap, IsContent, Listed
  <2>2. f \in Wire /\ db[r] \in Nat
    BY <2>1, DataIs DEF Delivers
  <2>3. f.seq \in Nat /\ f.gen \in Nat /\ f.value \in Nat
    BY <2>2, WireIs
  <2>4. f.value <= db[r] /\ db' = db
    BY <2>1, DeliveredIs
  <2> QED
    BY <2>1, <2>2, <2>3, <2>4
<1>1. /\ shell'.gen = f.gen /\ shell.gen <= f.gen
      /\ shell'.seqs[r] = f.seq
      /\ f.gen = shell.gen => shell.seqs[r] < f.seq
      /\ excused' = Excuses(f) /\ shell.compatible
  <2>1. Key(f) = r /\ f.kind # "error"
    BY DEF Key, Snap
  <2> QED
    BY <2>1, TakenSequences
<1>2. CASE f.stale
  BY <1>0, <1>1, <1>2 DEF Takes, Excuses, Soon
<1>3. CASE ~f.stale
  <2>1. ~Passed(f)
    <3>1. shell.gen \in Nat /\ shell.seqs[r] \in Nat
      BY <1>0, DataIs
    <3> QED
      BY <1>0, <1>1, <3>1 DEF Passed
  <2>2. f.value < db[r]
    BY <1>0
  <2>3. Outdated(f, r)
    BY <1>3, <2>1, <2>2 DEF Outdated
  <2>4. Soon(r) \/ \E h \in Wire : News(h, r) /\ f.seq < h.seq
    BY <1>0, <2>3 DEF RefreshComes, Comes
  <2>5. CASE Soon(r)
    BY <1>1, <2>5, DeliversSoon
  <2>6. CASE \E h \in Wire : News(h, r) /\ f.seq < h.seq
    <3>1. PICK h \in Wire : News(h, r) /\ f.seq < h.seq
      BY <2>6
    <3>2. h \in Wire' /\ h.seq \in Nat
      BY <1>0, <3>1, WireIs DEF Delivers, Wire
    <3>3. News(h, r)' /\ h.res = r
      BY <1>0, <3>1 DEF News
    <3>4. ~(h.seq <= shell'.seqs[r])
      BY <1>0, <1>1, <3>1, <3>2
    <3>5. ~Skipped(h)'
      BY <3>3, <3>4 DEF Skipped
    <3> QED
      BY <3>2, <3>3, <3>5
  <2> QED
    BY <2>4, <2>5, <2>6
<1> QED
  BY <1>2, <1>3

LEMMA DeliversFollows ==
    ASSUME Shapes, Stamps, Behind, RefreshComes, NEW f, Delivers(f), shell.compatible,
           NEW r \in Listed, r \in watched
    PROVE  Follows(r)'
<1>0. /\ f \in Wire /\ f \in Frames /\ f.seq \in Nat /\ f.gen \in Nat
      /\ f.kind \in {"invalidated", "snapshot", "state", "error"}
      /\ db' = db /\ r \in Resources /\ r # "unread" /\ r # "state" /\ r \in Keys /\ restarted' = restarted
      /\ Wire \subseteq Wire' \cup {f}
      /\ f.kind = "state" => f.res = "unread"
  <2>1. f.kind = "state" => f.res = "unread"
    BY DEF Delivers, Wire, Shapes, TellShape, AnswerShape
  <2>2. r # "state" /\ r \in Keys
    BY KeysAre DEF Keys
  <2> QED
    BY <2>1, <2>2, DeliveredIs DEF Delivers, Wire, Listed, Frames
<1>1. Follows(r)
  BY DEF RefreshComes, Comes
<1>2. CASE Soon(r) /\ ~(Takes(f) /\ Snap(f, r) /\ f.value = db[r])
  BY <1>2, DeliversSoon DEF Follows
<1>3. CASE ~Takes(f)
  <2>1. ~Accepted(f)
    BY <1>3 DEF Takes
  <2>2. /\ shell'.gen = shell.gen /\ shell'.seqs = shell.seqs /\ shell'.view = shell.view
    <3>1. TypeOK /\ shell.nextId # 0 /\ Receive(f)
      BY DeliveredIs
    <3> QED
      BY <1>0, <2>1, <3>1, RefuseIs
  <2>3. CASE shell.view[r] = db[r]
    BY <1>0, <2>2, <2>3 DEF Follows
  <2>4. CASE \E h \in Wire : News(h, r) /\ ~Skipped(h)
    <3>1. PICK h \in Wire : News(h, r) /\ ~Skipped(h)
      BY <2>4
    <3>2. News(h, r)' /\ ~Skipped(h)'
      BY <1>0, <2>2, <3>1 DEF News, Skipped
    <3>3. CASE h = f
      <4>1. f.res = r /\ f.kind \in {"invalidated", "snapshot"}
        BY <3>1, <3>3 DEF News
      <4>2. f.res \in excused'
        BY <2>1, <3>1, <3>3, <4>1, RefusedIsPast DEF Skipped
      <4> QED
        BY <4>1, <4>2 DEF Follows, Soon
    <3>4. CASE h # f
      BY <1>0, <3>1, <3>2, <3>4 DEF Follows
    <3> QED
      BY <3>3, <3>4
  <2> QED
    BY <1>1, <1>2, <1>3, <2>3, <2>4 DEF Follows
<1>4. CASE Takes(f)
  <2>0. /\ shell'.gen = f.gen /\ shell.gen <= f.gen
        /\ f.kind # "error" => shell'.seqs[Key(f)] = f.seq
        /\ \A s \in Resources : shell'.view[s] =
              IF IsContent(f) /\ s = f.res THEN f.value ELSE shell.view[s]
        /\ excused' = Excuses(f)
    BY <1>4, TakenSequences
  <2>1. CASE Snap(f, r) /\ f.value = db[r]
    <3>1. shell'.view[r] = db'[r]
      BY <1>0, <2>0, <2>1 DEF Snap, IsContent
    <3> QED
      BY <3>1 DEF Follows
  <2>2. CASE Snap(f, r) /\ f.value # db[r]
    BY <1>4, <2>2, TakenHasMore DEF Follows
  <2>3. CASE f.kind = "invalidated" /\ f.res = r
    BY <1>4, <2>3, TakenIsAsked DEF Follows, Soon
  <2>4. CASE f.kind = "error" /\ f.res = r
    BY <2>0, <2>4 DEF Excuses, Follows, Soon
  <2>5. CASE f.res # r
    <3>1. shell'.view[r] = shell.view[r]
      BY <1>0, <2>0, <2>5
    <3>2. shell'.seqs[r] = Since(f, r)
      <4>1. Key(f) # r
        BY <1>0, <2>5 DEF Key
      <4>2. /\ TypeOK /\ shell.nextId # 0 /\ shell.gen # 0 /\ f.gen # 0 /\ Receive(f)
            /\ IsContent(f) => f.value \in 0..Changes
        BY DeliveredIs
      <4>3. shell.compatible /\ Accepted(f)
        BY <1>4 DEF Takes
      <4> QED
        BY <1>0, <4>1, <4>2, <4>3, AcceptIs
    <3>3. CASE shell.view[r] = db[r]
      BY <1>0, <3>1, <3>3 DEF Follows
    <3>4. CASE \E h \in Wire : News(h, r) /\ ~Skipped(h)
      <4>1. PICK h \in Wire : News(h, r) /\ ~Skipped(h)
        BY <3>4
      <4>2. h # f /\ h \in Wire' /\ News(h, r)' /\ h.res = r
        BY <1>0, <2>5, <4>1 DEF News
      <4>3. h.seq \in Nat /\ h.seq # 0 /\ shell.gen \in Nat
        BY <4>1, WireIs, DataIs DEF Stamps
      <4>4. ~Skipped(h)'
        <5>1. CASE f.gen > shell.gen
          <6>1. ~(h.seq <= shell'.seqs[h.res])
            BY <3>2, <4>2, <4>3, <5>1 DEF Since
          <6> QED
            BY <6>1 DEF Skipped
        <5>2. CASE ~(f.gen > shell.gen)
          <6>1. f.gen = shell.gen /\ shell'.seqs[h.res] = shell.seqs[h.res]
            BY <1>0, <2>0, <3>2, <4>2, <4>3, <5>2 DEF Since
          <6> QED
            BY <1>0, <2>0, <4>1, <6>1 DEF Skipped
        <5> QED
          BY <5>1, <5>2
      <4> QED
        BY <4>2, <4>4 DEF Follows
    <3>5. CASE Soon(r)
      BY <1>2, <2>5, <3>5 DEF Snap
    <3> QED
      BY <1>1, <3>3, <3>4, <3>5 DEF Follows
  <2>6. \/ Snap(f, r) \/ f.res # r
        \/ f.res = r /\ f.kind \in {"invalidated", "error"}
    BY <1>0 DEF Snap
  <2> QED
    BY <2>1, <2>2, <2>3, <2>4, <2>5, <2>6
<1> QED
  BY <1>3, <1>4

LEMMA DeliversOutdated ==
    ASSUME Shapes, Stamps, Behind, InOrder, RefreshComes, NEW f, Delivers(f), shell.compatible,
           NEW r \in Listed, r \in watched, NEW g \in Wire', Outdated(g, r)'
    PROVE  Soon(r)' \/ \E h \in Wire' : News(h, r)' /\ g.seq < h.seq
<1>0. /\ f \in Wire /\ f \in Frames /\ f.seq \in Nat /\ f.gen \in Nat
      /\ db' = db /\ r \in Resources /\ r \in Keys
      /\ Wire' \subseteq Wire /\ Wire \subseteq Wire' \cup {f}
      /\ TypeOK /\ shell.nextId # 0 /\ Receive(f)
  BY DeliveredIs, DataIs DEF Delivers, Wire, Listed
<1>1. Snap(g, r) /\ g.res = r /\ ~g.stale /\ g.value < db[r] /\ ~Passed(g)' /\ g \in Wire
      /\ g.seq \in Nat /\ g.gen \in Nat
  BY <1>0, WireIs DEF Outdated, Snap
<1>2. ~(Takes(f) /\ Snap(f, r) /\ f.value = db[r])
  <2>1. SUFFICES ASSUME Takes(f), Snap(f, r), f.value = db[r] PROVE FALSE
    OBVIOUS
  <2>2. /\ shell'.view[r] = f.value
    BY <1>0, <2>1, TakenSequences DEF Snap, IsContent
  <2>3. InOrder'
    BY DeliversInOrder
  <2>4. g.value < shell'.view[r]
    BY <1>1, <2>1, <2>2
  <2> QED
    BY <1>1, <2>3, <2>4 DEF InOrder
<1>3. ~Passed(g)
  <2>1. SUFFICES ASSUME Passed(g) PROVE FALSE
    OBVIOUS
  <2>2. CASE Takes(f)
    <3>1. /\ shell'.gen = f.gen /\ shell.gen <= f.gen
          /\ \A k \in Keys : shell'.seqs[k] \in Nat
          /\ f.gen = shell.gen => \A k \in Keys : shell.seqs[k] <= shell'.seqs[k]
      BY <2>2, TakenSequences
    <3>2. shell'.seqs[g.res] \in Nat /\ (shell'.gen = shell.gen => shell.seqs[g.res] <= shell'.seqs[g.res])
      BY <1>0, <1>1, <3>1
    <3>3. g.res \in Listed /\ shell'.gen \in Nat /\ shell.gen <= shell'.gen
      BY <1>0, <1>1, <3>1
    <3> QED
      BY <1>1, <2>1, <3>2, <3>3, PassedStays
  <2>3. CASE ~Takes(f)
    <3>1. shell'.gen = shell.gen /\ shell'.seqs = shell.seqs
      BY <1>0, <2>3, RefuseIs DEF Takes
    <3> QED
      BY <1>1, <2>1, <3>1 DEF Passed
  <2> QED
    BY <2>2, <2>3
<1>4. Soon(r) \/ \E h \in Wire : News(h, r) /\ g.seq < h.seq
  BY <1>1, <1>3 DEF RefreshComes, Comes, Outdated
<1>5. CASE Soon(r)
  BY <1>2, <1>5, DeliversSoon
<1>6. CASE \E h \in Wire : News(h, r) /\ g.seq < h.seq
  <2>1. PICK h \in Wire : News(h, r) /\ g.seq < h.seq
    BY <1>6
  <2>2. News(h, r)'
    BY <1>0, <2>1 DEF News
  <2>3. CASE h # f
    BY <1>0, <2>1, <2>2, <2>3
  <2>4. CASE h = f /\ Takes(f)
    <3>1. f.kind = "invalidated" /\ f.res = r
      BY <1>2, <2>1, <2>4 DEF News, Snap
    <3> QED
      BY <2>4, <3>1, TakenIsAsked DEF Soon
  <2>5. CASE h = f /\ ~Takes(f)
    <3>1. f.res = r /\ f.kind \in {"invalidated", "snapshot"} /\ g.seq < f.seq
      BY <2>1, <2>5 DEF News
    <3>2. ~Accepted(f)
      BY <2>5 DEF Takes
    <3>3. CASE f.res \in excused'
      BY <3>1, <3>3 DEF Soon
    <3>4. CASE f.gen = shell.gen /\ f.seq <= shell.seqs[f.res]
      <4>1. g.gen <= f.gen
        BY <1>0, <1>1, <3>1 DEF Stamps
      <4>2. shell.seqs[r] \in Nat /\ shell.gen \in Nat
        BY <1>0, DataIs
      <4> QED
        BY <1>0, <1>1, <1>3, <3>1, <3>4, <4>1, <4>2 DEF Passed
    <3> QED
      BY <3>1, <3>2, <3>3, <3>4, RefusedIsPast
  <2> QED
    BY <2>3, <2>4, <2>5
<1> QED
  BY <1>4, <1>5, <1>6

LEMMA DeliversTotal ==
    ASSUME Shapes, Stamps, Behind, Served, TotalComes, NEW f, Delivers(f)
    PROVE  TotalComes'
<1>0. /\ f \in Wire /\ f \in Frames /\ f.value \in Nat /\ Receive(f) /\ ~greeting
      /\ UNCHANGED <<db, due, window, owner, total, lists, lagged, greeting, restarted>>
      /\ Told' \subseteq Told /\ Told \subseteq Told' \cup {f} /\ Answered \subseteq Answered' \cup {f}
      /\ \/ f \in Answered /\ events' = events
         \/ f \in Told /\ \A g \in Told' : f.seq < g.seq
      /\ TypeOK /\ shell.nextId # 0 /\ shell.gen # 0 /\ f.gen # 0
      /\ IsContent(f) => f.value \in 0..Changes /\ f.value <= db[f.res]
  BY DeliveredIs, WireIs DEF Delivers, Stamps
<1>1. Due("unread")' <=> Due("unread")
  BY <1>0, DueIs
<1>2. \A g \in Told : g.seq \in Nat
  BY WireIs
<1>3. f \in Told' \/ (f \in Told /\ \A g \in Told' : f.seq < g.seq) \/ Told' = Told
  BY <1>0 DEF Told, Carried
<1>4. ASSUME ~Due("unread")', NEW g \in Told', Snap(g, "unread")
      PROVE  \E h \in Told' : Snap(h, "unread") /\ (g = h \/ g.seq < h.seq) /\ h.value = db'["unread"]
  <2>1. PICK h \in Told : Snap(h, "unread") /\ (g = h \/ g.seq < h.seq) /\ h.value = db["unread"]
    BY <1>0, <1>1, <1>4 DEF TotalComes
  <2>2. h \in Told'
    <3>1. SUFFICES ASSUME h \notin Told' PROVE FALSE
      OBVIOUS
    <3>2. h = f /\ f.seq < g.seq /\ g.seq < f.seq
      BY <1>0, <1>3, <1>4, <2>1, <3>1
    <3>3. f.seq \in Nat /\ g.seq \in Nat
      BY <1>0, <1>2, <1>4, <2>1, <3>2
    <3> QED
      BY <3>2, <3>3
  <2> QED
    BY <1>0, <2>1, <2>2
<1>5. owner'["unread"] = "read" => Due("unread")'
  BY <1>0, <1>1 DEF TotalComes
<1> DEFINE Total1 ==
      \/ shell'.view["unread"] = db'["unread"] \/ "unread" \in excused'
      \/ Due("unread")' \/ greeting' \/ lagged'
      \/ restarted' /\ \E q \in requests' : q.res = "state"
      \/ restarted' /\ \E g \in Answered' : g.res = "unread"
      \/ \E g \in Told' : Snap(g, "unread")
<1>6. CASE ~shell.compatible
  <2>1. excused' = excused /\ excused = Resources
    BY <1>0, <1>6 DEF Receive, Served
  <2> QED
    BY <1>4, <1>5, <2>1, KeysAre DEF TotalComes
<1>7. CASE shell.compatible
  <2>1. excused' = Excuses(f)
    BY <1>0, <1>7 DEF Receive
  <2>2. requests \subseteq requests'
        /\ shell'.view["unread"] = IF Accepted(f) /\ IsContent(f) /\ f.res = "unread" THEN f.value ELSE shell.view["unread"]
    <3>1. CASE Accepted(f)
      BY <1>0, <1>7, <3>1, AcceptIs, KeysAre
    <3>2. CASE ~Accepted(f)
      BY <1>0, <1>7, <3>2, RefuseIs, KeysAre
    <3> QED
      BY <3>1, <3>2
  <2>3. CASE "unread" \in excused
    <3>1. "unread" \in Excuses(f) \/ (Accepted(f) /\ f.res = "unread" /\ IsContent(f) /\ f.value = db["unread"])
      BY <2>3 DEF Excuses, IsContent
    <3>2. Total1
      BY <1>0, <2>1, <2>2, <3>1
    <3> QED
      BY <1>4, <1>5, <3>2 DEF TotalComes
  <2>4. CASE Due("unread") \/ greeting \/ lagged \/ (restarted /\ \E q \in requests : q.res = "state")
    <3>1. Total1
      BY <1>0, <1>1, <2>2, <2>4
    <3> QED
      BY <1>4, <1>5, <3>1 DEF TotalComes
  <2>5. CASE restarted /\ \E g \in Answered : g.res = "unread"
    <3>1. PICK g \in Answered : g.res = "unread"
      BY <2>5
    <3>2. CASE g # f
      <4>1. Total1
        BY <1>0, <2>5, <3>1, <3>2
      <4> QED
        BY <1>4, <1>5, <4>1 DEF TotalComes
    <3>3. CASE g = f
      <4>1. f.kind \in {"state", "error"} /\ f.res = "unread"
        BY <3>1, <3>3, KeysAre DEF Shapes, AnswerShape
      <4>2. CASE f.kind = "error" \/ ~Accepted(f)
        <5>1. "unread" \in excused'
          BY <2>1, <2>5, <4>1, <4>2 DEF Excuses
        <5> QED
          BY <1>4, <1>5, <5>1 DEF TotalComes
      <4>3. CASE f.kind = "state" /\ Accepted(f)
        <5>1. f.value = db["unread"] \/ f.value < db["unread"]
          <6>1. IsContent(f) /\ db["unread"] \in Nat
            BY <4>3, DataIs, KeysAre DEF IsContent
          <6> QED
            BY <1>0, <4>1, <6>1
        <5>2. f.value < db["unread"] => "unread" \in excused'
          BY <2>1, <4>1, <4>3 DEF Excuses
        <5>3. shell'.view["unread"] = f.value
          BY <2>2, <4>1, <4>3 DEF IsContent
        <5>4. Total1
          BY <1>0, <5>1, <5>2, <5>3
        <5> QED
          BY <1>4, <1>5, <5>4 DEF TotalComes
      <4> QED
        BY <4>1, <4>2, <4>3
    <3> QED
      BY <3>2, <3>3
  <2>6. CASE ~Due("unread") /\ \E g \in Told : Snap(g, "unread")
    <3>1. PICK h \in Told : Snap(h, "unread") /\ h.value = db["unread"]
      BY <2>6 DEF TotalComes
    <3>2. CASE h \in Told'
      <4>1. Total1
        BY <3>1, <3>2
      <4> QED
        BY <1>4, <1>5, <4>1 DEF TotalComes
    <3>3. CASE h \notin Told'
      <4>1. h = f /\ f.kind = "snapshot" /\ f.res = "unread" /\ f \in Told /\ IsContent(f)
        BY <1>0, <3>1, <3>3 DEF Snap, IsContent
      <4>2. CASE Accepted(f)
        <5>1. shell'.view["unread"] = db'["unread"]
          BY <1>0, <2>2, <3>1, <4>1, <4>2
        <5> QED
          BY <1>4, <1>5, <5>1 DEF TotalComes
      <4>3. CASE ~Accepted(f)
        <5>1. "unread" \in excused'
          <6>1. f.res \in excused' \/ (~restarted /\ f.seq <= shell.seqs[f.res])
            BY <1>7, <4>1, <4>3, RefusedIsPast
          <6>2. ~restarted => shell.seqs["unread"] < f.seq
            BY <4>1 DEF Stamps
          <6>3. shell.seqs["unread"] \in Nat /\ f.seq \in Nat
            BY <1>2, <4>1, DataIs, KeysAre
          <6> QED
            BY <4>1, <6>1, <6>2, <6>3
        <5> QED
          BY <1>4, <1>5, <5>1 DEF TotalComes
      <4> QED
        BY <4>2, <4>3
    <3> QED
      BY <3>2, <3>3
  <2>7. CASE shell.view["unread"] = db["unread"] /\ ~Due("unread")
    <3>1. CASE ~(Accepted(f) /\ IsContent(f) /\ f.res = "unread" /\ f.value # db["unread"])
      <4>1. shell'.view["unread"] = db'["unread"]
        BY <1>0, <2>2, <2>7, <3>1
      <4> QED
        BY <1>4, <1>5, <4>1 DEF TotalComes
    <3>2. CASE Accepted(f) /\ IsContent(f) /\ f.res = "unread" /\ f.value # db["unread"]
      <4>1. f.value < db["unread"]
        <5>1. db["unread"] \in Nat
          BY DataIs, KeysAre
        <5> QED
          BY <1>0, <3>2, <5>1
      <4>2. CASE f.kind = "state"
        <5>1. "unread" \in excused'
          BY <2>1, <3>2, <4>1, <4>2 DEF Excuses
        <5> QED
          BY <1>4, <1>5, <5>1 DEF TotalComes
      <4>3. CASE f.kind = "snapshot"
        <5>1. f \in Told
          BY <1>0, <3>2, <4>3, KeysAre DEF Wire, Shapes, AnswerShape
        <5>2. PICK h \in Told : Snap(h, "unread") /\ h.value = db["unread"]
          BY <2>7, <3>2, <4>3, <5>1 DEF TotalComes, Snap
        <5>3. h # f
          BY <3>2, <5>2
        <5>4. Total1
          BY <1>0, <5>2, <5>3
        <5> QED
          BY <1>4, <1>5, <5>4 DEF TotalComes
      <4> QED
        BY <3>2, <4>2, <4>3 DEF IsContent
    <3> QED
      BY <3>1, <3>2
  <2> QED
    BY <2>3, <2>4, <2>5, <2>6, <2>7 DEF TotalComes
<1> QED
  BY <1>6, <1>7

LEMMA DeliversComes ==
    ASSUME Shapes, Stamps, Behind, InOrder, Served, RefreshComes, NEW f, Delivers(f)
    PROVE  RefreshComes'
<1> SUFFICES ASSUME NEW r \in Listed PROVE Comes(r)'
  BY DEF RefreshComes
<1>1. CASE ~shell.compatible
  <2>1. excused' = excused /\ excused = Resources
    BY <1>1, DeliveredIs DEF Receive, Served, Delivers
  <2> QED
    BY <2>1 DEF Listed, Comes, Follows, Soon
<1>2. CASE r \notin watched
  <2>1. Shapes' /\ Behind'
    BY DeliversKeeps
  <2>2. watched' = watched /\ r \in Resources
    BY DeliveredIs DEF Listed
  <2>3. db'[r] = 0 /\ shell'.view[r] <= db'[r]
    BY <1>2, <2>1, <2>2 DEF Behind, Held
  <2>4. shell'.view[r] \in Nat /\ \A g \in Wire' : g.value \in Nat
    <3>1. shell'.view[r] \in Nat
      BY <2>1, <2>2, BoundsAssumption DEF Shapes, TypeOK
    <3>2. Wire' \subseteq Wire
      BY DeliveredIs
    <3> QED
      BY <3>1, <3>2, WireIs
  <2>5. shell'.view[r] = db'[r]
    BY <2>3, <2>4
  <2>6. \A g \in Wire' : ~Outdated(g, r)'
    BY <2>3, <2>4 DEF Outdated
  <2> QED
    BY <2>5, <2>6 DEF Comes, Follows
<1>3. CASE shell.compatible /\ r \in watched
  <2>1. Follows(r)'
    BY <1>3, DeliversFollows
  <2>2. ASSUME NEW g \in Wire', Outdated(g, r)'
        PROVE  Soon(r)' \/ \E h \in Wire' : News(h, r)' /\ g.seq < h.seq
    BY <1>3, <2>2, DeliversOutdated
  <2> QED
    BY <2>1, <2>2 DEF Comes
<1> QED
  BY <1>1, <1>2, <1>3

LEMMA KeepsComes ==
    ASSUME Shapes, Stamps, Behind, InOrder, Served, RefreshComes, TotalComes, Next
    PROVE  RefreshComes' /\ TotalComes'
<1>1. CASE Inside
  BY <1>1, InsideComes
<1>2. CASE Sending
  <2>1. PICK f : Sends(f)
    BY <1>2, SendsIs DEF Sending
  <2> QED
    BY <2>1, SendsComes, SendsTotal DEF RefreshComes
<1>3. CASE WriteSync
  BY <1>3, WriteSyncComes
<1>4. CASE WriteEvent \/ WriteResponse
  <2>1. PICK f : Delivers(f)
    BY <1>4, DeliversIs
  <2> QED
    BY <2>1, DeliversComes, DeliversTotal
<1>5. ASSUME NEW q \in requests, ReadSnapshot(q) PROVE RefreshComes' /\ TotalComes'
  BY <1>5, ReadSnapshotComes
<1>6. ASSUME NEW q \in requests, Respond(q) \/ Fail(q) PROVE RefreshComes' /\ TotalComes'
  <2>1. PICK f : Replies(q, f)
    BY <1>6, RepliesIs
  <2> QED
    BY <2>1, RepliesComes
<1>7. CASE Reconnect \/ RestartDaemon
  BY <1>7, ReopenComes
<1>8. CASE UNCHANGED vars
  <2>1. UNCHANGED <<db, due, window, owner, total, lists, events, lagged, responses,
                    requests, greeting,
                    shell, restarted, excused>>
    BY <1>8 DEF vars, daemon, connection
  <2>2. UNCHANGED <<Told, Answered, Wire>>
    BY <2>1 DEF Told, Answered, Wire, Carried
  <2>3. \A r : Due(r)' <=> Due(r)
    BY <2>1, DueIs
  <2>4. RefreshComes'
    BY <2>1, <2>2, <2>3 DEF RefreshComes, Comes, Follows, Soon, Asked, News, Skipped,
          Outdated, Passed, Snap
  <2>5. TotalComes'
    BY <2>1, <2>2, <2>3 DEF TotalComes
  <2> QED
    BY <2>4, <2>5
<1> QED
  BY <1>1, <1>2, <1>3, <1>4, <1>5, <1>6, <1>7, <1>8, NextIs

\* Once nothing is under way, nothing is due or asked for.
LEMMA SettledIsExplained ==
    ASSUME Shapes, Served, RefreshComes, TotalComes
    PROVE  StaleViewsAreExplained
<1> SUFFICES ASSUME Quiescent, NEW r \in Resources \ excused PROVE shell.view[r] = db[r]
  BY DEF StaleViewsAreExplained
<1>1. Wire = {} /\ Told = {} /\ Answered = {} /\ requests = {} /\ ~greeting /\ ~lagged
  BY DEF Quiescent, Told, Answered, Wire, Carried
<1>2. ~shell.queued
  BY <1>1 DEF Served
<1>3. ~Due(r)
  <2>1. due[r] = 0 /\ lists = <<>>
    BY DEF Quiescent
  <2>2. r \in Coalesced => owner[r] = "idle" /\ window[r] = "closed"
    BY DEF Quiescent, Shapes, TypeOK
  <2>3. r = "unread" => r \in Coalesced
    BY DEF Coalesced
  <2>4. ~\E i \in DOMAIN lists : lists[i] = db[r]
    BY <2>1
  <2> QED
    BY <2>1, <2>2, <2>3, <2>4 DEF Due
<1>4. ~Asked(r)
  BY <1>1, <1>2 DEF Asked
<1>5. CASE r \in Listed
  BY <1>1, <1>3, <1>4, <1>5 DEF RefreshComes, Comes, Follows, Soon
<1>6. CASE r = "unread"
  BY <1>1, <1>3, <1>6 DEF TotalComes
<1> QED
  BY <1>5, <1>6 DEF Listed

\* What makes the views catch up: the shapes, the clock ahead of the stamps,
\* the database ahead of everything, the order of the snapshots, the pending
\* request, and the newest content still coming where it is not shown.
CatchUpInv ==
    /\ Shapes /\ Stamps /\ Behind /\ InOrder /\ Served
    /\ RefreshComes /\ TotalComes

LEMMA CatchUpStarts == Init => CatchUpInv
<1> SUFFICES ASSUME Init PROVE CatchUpInv
  OBVIOUS
<1>0. /\ Changes \in Nat /\ Happenings \in Nat /\ None = Changes + 1 /\ Capacity \in Nat \ {0}
      /\ 0 \in 0..Changes
  BY BoundsAssumption DEF None
<1>1. /\ db = [r \in Resources |-> 0] /\ due = [r \in Resources |-> 0]
      /\ window = [r \in Coalesced |-> "closed"] /\ owner = [r \in Coalesced |-> "idle"]
      /\ total = None /\ lists = <<>> /\ status = None
      /\ clock = [generation |-> 1, revision |-> 0]
      /\ events = <<>> /\ ~lagged /\ lagged = FALSE /\ responses = <<>> /\ requests = {}
      /\ ~greeting /\ greeting = FALSE
      /\ watched \in Watched /\ left = Happenings /\ ~restarted /\ restarted = FALSE /\ excused = {}
  BY DEF Init
<1>2. shell = [compatible |-> TRUE, gen |-> 1, seqs |-> NoSequences, pending |-> 0,
               queued |-> FALSE, nextId |-> 1, view |-> [r \in Resources |-> 0]]
  BY DEF Init
<1>3. /\ shell \in ShellType /\ shell.compatible /\ shell.gen = 1 /\ shell.nextId = 1
      /\ shell.pending = 0 /\ ~shell.queued
      /\ \A k \in Keys : shell.seqs[k] = 0
      /\ \A r \in Resources : shell.view[r] = 0
  BY <1>0, <1>2 DEF ShellType, NoSequences
<1>4. Told = {} /\ Answered = {} /\ Wire = {}
  BY <1>1 DEF Told, Answered, Wire, Carried
<1>5. \A r \in Resources : db[r] = 0 /\ due[r] = 0
  BY <1>1
<1>6. Shapes
  <2>1. DaemonType
    <3>1. lists \in Seq(0..Changes)
      BY <1>1
    <3>2. total \in 0..None /\ status \in 0..None /\ left \in 0..Happenings
      BY <1>0, <1>1
    <3>3. /\ db \in [Resources -> 0..Changes] /\ due \in [Resources -> 0..Changes]
      BY <1>0, <1>1
    <3>4. /\ window \in [Coalesced -> {"closed", "open", "trailing"}]
          /\ owner \in [Coalesced -> {"idle", "publish", "read", "sleep"}]
          /\ \A r \in Coalesced : window[r] = "closed" <=> owner[r] = "idle"
      BY <1>1
    <3>5. clock \in [generation : Nat \ {0}, revision : Nat]
      BY <1>1
    <3> QED
      BY <3>1, <3>2, <3>3, <3>4, <3>5 DEF DaemonType
  <2>2. LinkType
    <3>1. events \in Seq(Frames) /\ responses \in Seq(Frames) /\ Len(events) <= Capacity
      BY <1>0, <1>1
    <3> QED
      BY <1>1, <1>3, <3>1 DEF LinkType
  <2>3. TypeOK
    BY <2>1, <2>2, TypesAre
  <2> QED
    BY <1>1, <1>3, <1>4, <2>3 DEF Shapes
<1>7. Stamps
  <2>1. clock.generation = 1 /\ clock.revision = 0
    BY <1>1
  <2>2. Sorted(events)
    BY <1>1 DEF Sorted
  <2> QED
    BY <1>3, <1>4, <2>1, <2>2 DEF Stamps
<1>8. Behind
  <2>1. Total(db) <= Changes
    BY <1>0, <1>5, KeysAre DEF Total
  <2>2. Held
    BY <1>1, <1>5, <2>1, KeysAre DEF Held
  <2> QED
    BY <1>1, <1>3, <1>4, <1>5, <2>2 DEF Behind
<1>9. InOrder
  BY <1>4 DEF InOrder
<1>10. Served
  BY <1>3 DEF Served
<1>11. RefreshComes
  BY <1>3, <1>4, <1>5 DEF RefreshComes, Comes, Follows, Listed
<1>12. TotalComes
  BY <1>1, <1>3, <1>4, <1>5, KeysAre DEF TotalComes
<1> QED
  BY <1>6, <1>7, <1>8, <1>9, <1>10, <1>11, <1>12 DEF CatchUpInv

LEMMA CatchUpStays == CatchUpInv /\ [Next]_vars => CatchUpInv'
<1>1. ASSUME CatchUpInv, Next PROVE CatchUpInv'
  BY <1>1, KeepsShapes, KeepsStamps, KeepsInOrder, KeepsServed, KeepsComes DEF CatchUpInv
<1>2. ASSUME CatchUpInv, UNCHANGED vars PROVE CatchUpInv'
  <2>1. UNCHANGED <<db, due, window, owner, total, lists, status, clock, events, lagged,
                    responses,
                    requests, greeting, shell, watched, left, restarted, excused>>
    BY <1>2 DEF vars, daemon, connection
  <2>2. UNCHANGED <<Told, Answered, Wire>>
    BY <2>1 DEF Told, Answered, Wire, Carried
  <2>3. Shapes' /\ Stamps' /\ Behind'
    BY <1>2, <2>1, <2>2 DEF CatchUpInv, Shapes, TypeOK, Stamps, Sorted, Behind, Held
  <2>4. InOrder' /\ Served'
    BY <1>2, <2>1, <2>2 DEF CatchUpInv, InOrder, Passed, Served, Carries
  <2>5. \A r : Due(r)' <=> Due(r)
    BY <2>1, DueIs
  <2>6. RefreshComes'
    BY <1>2, <2>1, <2>2, <2>5 DEF CatchUpInv, RefreshComes, Comes, Follows, Soon, Asked,
          News, Skipped, Outdated, Passed, Snap
  <2>7. TotalComes'
    BY <1>2, <2>1, <2>2, <2>5 DEF CatchUpInv, TotalComes
  <2> QED
    BY <2>3, <2>4, <2>6, <2>7 DEF CatchUpInv
<1> QED
  BY <1>1, <1>2

LEMMA CatchUpInvariant == Spec => []CatchUpInv
BY CatchUpStarts, CatchUpStays, PTL DEF Spec

\* The state of the daemon, of the connection and of Service.qml keeps its shape:
\* the queue of the connection stays within its capacity and a window has an
\* owner exactly while it is open (InvalidationCoalescer, broadcast channel), for
\* any number of changes, frames and reconnections.
THEOREM PublicationTypeCorrect == Spec => []TypeOK
<1>1. CatchUpInv => TypeOK
  BY DEF CatchUpInv, Shapes
<1> QED
  BY <1>1, CatchUpInvariant, PTL

\* The shell catches up: a pending get_messages is asked for or answered, once
\* nothing is under way every view is the database's or one of the named causes
\* has left it behind, and delivery in another order than the stamps' never sets
\* one back (acceptFrame, handleLine, InvalidationBroadcaster, write_connection_sync),
\* for any number of changes, frames, reconnections and restarts.
THEOREM ViewsFollow == Spec => ViewsCatchUp
<1>1. CatchUpInv => StaleViewsAreExplained /\ PendingIsUnderWay
  BY SettledIsExplained, ServedIsUnderWay DEF CatchUpInv
<1>2. CatchUpInv /\ [Next]_vars => [RegressIsStamped]_vars
  BY StepRegressIsStamped DEF CatchUpInv
<1>3. Spec => [](StaleViewsAreExplained /\ PendingIsUnderWay)
  BY <1>1, CatchUpInvariant, PTL
<1>4. Spec => [][RegressIsStamped]_vars
  BY <1>2, CatchUpInvariant, PTL DEF Spec
<1> QED
  BY <1>3, <1>4 DEF ViewsCatchUp

=============================================================================
