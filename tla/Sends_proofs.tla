----------------------------- MODULE Sends_proofs -----------------------------
(* Theorems about what the daemon hands to WhatsApp: the text outbox, for every *)
(* set of deliveries, clock and bound, and the commands that send without one,  *)
(* for every value of their constants.                                         *)
EXTENDS TextOutbox, DirectSend, FiniteSetTheorems, TLAPS

-----------------------------------------------------------------------------
(* The text outbox (text_outbox.rs, outbox.rs) *)

(* Abbreviation of the next-state relation as its actions, for case analysis. *)
LEMMA NextCases ==
    ASSUME Next
    PROVE  \/ \E d \in Deliveries, now \in Times : SendMessage(d, now)
           \/ \E d \in Deliveries : ResubmitMessage(d)
           \/ \E d \in Deliveries : RetryTextMessage(d)
           \/ \E d \in Deliveries : DiscardTextMessage(d)
           \/ CheckClient
           \/ AwaitNotified
           \/ \E d \in Deliveries : Claim(d)
           \/ NothingQueued
           \/ SendSucceeds
           \/ \E reached \in {{}, {job}} : SendFails(reached)
           \/ RecordSent
           \/ CompleteTextMessage
           \/ FailTextMessage
           \/ StoreError
           \/ OnConnected
           \/ RetryAllTextMessages
           \/ RetryAllError
           \/ NotifyOutbox
           \/ Disconnect
           \/ Restart
           \/ ClearAccountData
  BY DEF Next, Command, LoopStep, Attempt, HandlerStep

(* Rewriting statuses keeps the table a table and touches only the rows named. *)
LEMMA RestatusType ==
    ASSUME outbox \in [Deliveries -> Rows], NEW S, NEW s \in Statuses
    PROVE  /\ Restatus(S, s) \in [Deliveries -> Rows]
           /\ \A d \in Deliveries :
                 Restatus(S, s)[d].status = IF d \in S THEN s ELSE outbox[d].status
  BY DEF Restatus, Rows

(* So does deleting rows. *)
LEMMA WithoutType ==
    ASSUME outbox \in [Deliveries -> Rows], NEW S
    PROVE  /\ Without(S) \in [Deliveries -> Rows]
           /\ \A d \in Deliveries :
                 Without(S)[d] = IF d \in S THEN NoRow ELSE outbox[d]
  BY DEF Without, Rows, NoRow, Statuses

(* Type correctness of the outbox: every variable keeps its type, and the      *)
(* loop of run_text_outbox holds a claimed job exactly while it is sending.    *)
THEOREM TypeCorrect == Spec => []TypeOK
<1> USE DeliveriesAssumption, TimesAssumption DEF TypeOK, NoJob, InFlight
<1>1. Init => TypeOK
  <2>1. NoRow \in Rows
    BY DEF NoRow, Rows, Statuses
  <2> QED BY <2>1 DEF Init
<1>2. TypeOK /\ [Next]_vars => TypeOK'
  <2> SUFFICES ASSUME TypeOK, [Next]_vars PROVE TypeOK'
    OBVIOUS
  <2>1. ASSUME NEW d \in Deliveries, NEW now \in Times, SendMessage(d, now)
        PROVE  TypeOK'
    <3>1. PICK pruned \in SUBSET Failed :
             /\ outbox' = [Without(pruned) EXCEPT
                             ![d] = [status |-> "queued", created |-> now]]
             /\ owed' = (owed \ pruned) \cup {d}
      BY <2>1 DEF SendMessage
    <3>2. outbox' \in [Deliveries -> Rows]
      BY <3>1, WithoutType DEF Rows, Statuses
    <3> QED BY <2>1, <3>1, <3>2 DEF SendMessage
  <2>2. ASSUME NEW d \in Deliveries, ResubmitMessage(d) PROVE TypeOK'
    BY <2>2 DEF ResubmitMessage, store, ghosts
  <2>3. ASSUME NEW d \in Deliveries, RetryTextMessage(d) PROVE TypeOK'
    BY <2>3, RestatusType DEF RetryTextMessage, ghosts, Statuses
  <2>4. ASSUME NEW d \in Deliveries, DiscardTextMessage(d) PROVE TypeOK'
    BY <2>4, WithoutType DEF DiscardTextMessage, runtime
  <2>5. CASE CheckClient
    BY <2>5 DEF CheckClient, store, ghosts
  <2>6. CASE AwaitNotified
    BY <2>6 DEF AwaitNotified, store, ghosts
  <2>7. ASSUME NEW d \in Deliveries, Claim(d) PROVE TypeOK'
    BY <2>7, RestatusType DEF Claim, Statuses
  <2>8. CASE NothingQueued
    BY <2>8 DEF NothingQueued, store, ghosts
  <2>9. CASE SendSucceeds
    BY <2>9 DEF SendSucceeds, store, ghosts
  <2>10. ASSUME NEW reached \in {{}, {job}}, SendFails(reached) PROVE TypeOK'
    BY <2>10 DEF SendFails, store, ghosts
  <2>11. CASE RecordSent
    BY <2>11 DEF RecordSent, ghosts
  <2>12. CASE CompleteTextMessage
    BY <2>12, WithoutType DEF CompleteTextMessage, ghosts
  <2>13. CASE FailTextMessage
    BY <2>13, RestatusType DEF FailTextMessage, ghosts, Statuses
  <2>14. CASE StoreError
    <3>1. CASE loop = "sent"
      BY <2>14, <3>1 DEF StoreError, store
    <3>2. CASE loop # "sent"
      <4>1. /\ loop \in {"claim", "inserted", "failing"}
            /\ loop' = "wait" /\ job' = NoJob /\ stalled' = TRUE
            /\ stuck' \subseteq stuck \cup ({job} \cap Deliveries)
            /\ UNCHANGED <<outbox, recorded, permit, client, handler, wire,
                           owed, dropped, detached, known>>
        BY <2>14, <3>2 DEF StoreError, store, Having
      <4>2. stuck' \subseteq Deliveries
        BY <4>1
      <4> QED BY <4>1, <4>2
    <3> QED BY <3>1, <3>2
  <2>15. CASE OnConnected
    BY <2>15 DEF OnConnected, store, ghosts
  <2>16. CASE RetryAllTextMessages
    BY <2>16, RestatusType DEF RetryAllTextMessages, Detaching, Statuses
  <2>17. CASE RetryAllError
    BY <2>17 DEF RetryAllError, store, ghosts
  <2>18. CASE NotifyOutbox
    BY <2>18 DEF NotifyOutbox, store, ghosts
  <2>19. CASE Disconnect
    BY <2>19 DEF Disconnect, store, ghosts
  <2>20. CASE Restart
    BY <2>20, RestatusType DEF Restart, ghosts, Statuses
  <2>21. CASE ClearAccountData
    BY <2>21, WithoutType DEF ClearAccountData, Detaching, runtime
  <2>22. CASE UNCHANGED vars
    BY <2>22 DEF vars
  <2> QED
    BY <2>1, <2>2, <2>3, <2>4, <2>5, <2>6, <2>7, <2>8, <2>9, <2>10, <2>11,
       <2>12, <2>13, <2>14, <2>15, <2>16, <2>17, <2>18, <2>19, <2>20, <2>21,
       <2>22, NextCases
<1> QED BY <1>1, <1>2, PTL DEF Spec

-----------------------------------------------------------------------------
(* The inductive invariant behind the safety properties.  Its parts say what   *)
(* the loop knows at each await point about the row it claimed, although       *)
(* retry_all_text_messages and clear_account_data may take the row from it.    *)

\* A row the loop is about to complete is in the history.
CompletingIsRecorded ==
    (loop = "inserted" /\ outbox[job].status = "sending") => job \in recorded

\* A discarded delivery has no row.
DroppedHasNoRow == \A d \in dropped : outbox[d].status = "none"

\* A send has either its Sending row or the mark that the row was taken away.
SendHasRowOrMark ==
    loop = "sending" => (outbox[job].status = "sending" \/ job \in detached)

\* Only submitted texts have rows or are carried, and what the loop is about
\* to record has reached WhatsApp.
CarriedIsKnown ==
    /\ \A d \in Deliveries : outbox[d].status # "none" => d \in known
    /\ job # NoJob => job \in known
    /\ loop = "sent" => job \in wire

Inductive ==
    /\ TypeOK
    /\ NoAcceptedTextLost
    /\ DiscardIsFinalUnlessDetached
    /\ SendingIsCarried
    /\ NoLostWakeup
    /\ CompletingIsRecorded
    /\ DroppedHasNoRow
    /\ SendHasRowOrMark
    /\ CarriedIsKnown

(* The invariant above is inductive; the theorems below project from it.       *)
THEOREM InductiveHolds == Spec => []Inductive
<1> USE DeliveriesAssumption, TimesAssumption
      DEF NoJob, InFlight, Having, Queued, Failed
<1> DEFINE Parts ==
      /\ NoAcceptedTextLost
      /\ DiscardIsFinalUnlessDetached
      /\ SendingIsCarried
      /\ NoLostWakeup
      /\ CompletingIsRecorded
      /\ DroppedHasNoRow
      /\ SendHasRowOrMark
      /\ CarriedIsKnown
<1>1. Init => Parts
  BY DEF Init, NoRow, NoAcceptedTextLost, DiscardIsFinalUnlessDetached,
         SendingIsCarried, NoLostWakeup, CompletingIsRecorded, DroppedHasNoRow,
         SendHasRowOrMark, CarriedIsKnown
<1>2. TypeOK /\ TypeOK' /\ Parts /\ [Next]_vars => Parts'
  <2> SUFFICES ASSUME TypeOK, TypeOK', Parts, [Next]_vars PROVE Parts'
    OBVIOUS
  <2> USE DEF TypeOK, NoAcceptedTextLost, DiscardIsFinalUnlessDetached,
         SendingIsCarried, NoLostWakeup, CompletingIsRecorded, DroppedHasNoRow,
         SendHasRowOrMark, CarriedIsKnown
  <2>1. ASSUME NEW d \in Deliveries, NEW now \in Times, SendMessage(d, now)
        PROVE  Parts'
    <3>1. PICK pruned \in SUBSET Failed :
             /\ outbox' = [Without(pruned) EXCEPT
                             ![d] = [status |-> "queued", created |-> now]]
             /\ owed' = (owed \ pruned) \cup {d}
      BY <2>1 DEF SendMessage
    <3>2. /\ outbox[d].status = "none"
          /\ outbox'[d].status = "queued"
          /\ \A e \in Deliveries \ {d} :
                outbox'[e].status = IF e \in pruned THEN "none" ELSE outbox[e].status
      BY <2>1, <3>1, WithoutType DEF SendMessage, NoRow
    <3> QED BY <2>1, <3>1, <3>2 DEF SendMessage
  <2>2. ASSUME NEW d \in Deliveries, ResubmitMessage(d) PROVE Parts'
    BY <2>2 DEF ResubmitMessage, store, ghosts
  <2>3. ASSUME NEW d \in Deliveries, RetryTextMessage(d) PROVE Parts'
    BY <2>3, RestatusType DEF RetryTextMessage, ghosts, Statuses
  <2>4. ASSUME NEW d \in Deliveries, DiscardTextMessage(d) PROVE Parts'
    <3>1. /\ outbox[d].status \in {"queued", "failed"}
          /\ \A e \in Deliveries :
                outbox'[e].status = IF e = d THEN "none" ELSE outbox[e].status
      BY <2>4, WithoutType DEF DiscardTextMessage, NoRow
    <3>2. /\ UNCHANGED <<loop, job, permit, client, handler>>
          /\ UNCHANGED <<wire, recorded, detached, known>>
          /\ UNCHANGED stuck
          /\ stalled' = stalled
          /\ owed' = owed \ {d}
      BY <2>4 DEF DiscardTextMessage, runtime
    <3>3. dropped' \subseteq dropped \cup ({d} \ wire)
      BY <2>4 DEF DiscardTextMessage
    <3>4. NoAcceptedTextLost' /\ SendingIsCarried' /\ NoLostWakeup'
      BY ZenonT(90), <3>1, <3>2
    <3>5. DiscardIsFinalUnlessDetached'
      BY <3>2, <3>3
    <3>6. DroppedHasNoRow'
      BY <3>1, <3>3
    <3>7. CompletingIsRecorded' /\ CarriedIsKnown'
      BY <3>1, <3>2
    <3>8. SendHasRowOrMark'
      BY <3>1, <3>2
    <3> QED BY <3>4, <3>5, <3>6, <3>7, <3>8
  <2>5. CASE CheckClient
    BY <2>5 DEF CheckClient, store, ghosts
  <2>6. CASE AwaitNotified
    BY <2>6 DEF AwaitNotified, store, ghosts
  <2>7. ASSUME NEW d \in Deliveries, Claim(d) PROVE Parts'
    BY <2>7, RestatusType DEF Claim, Statuses
  <2>8. CASE NothingQueued
    BY <2>8 DEF NothingQueued, store, ghosts
  <2>9. CASE SendSucceeds
    BY <2>9 DEF SendSucceeds, store, ghosts
  <2>10. ASSUME NEW reached \in {{}, {job}}, SendFails(reached) PROVE Parts'
    BY <2>10 DEF SendFails, store, ghosts
  <2>11. CASE RecordSent
    BY <2>11 DEF RecordSent, ghosts
  <2>12. CASE CompleteTextMessage
    BY <2>12, WithoutType DEF CompleteTextMessage, ghosts, NoRow
  <2>13. CASE FailTextMessage
    BY <2>13, RestatusType DEF FailTextMessage, ghosts, Statuses
  <2>14. CASE StoreError
    <3>1. CASE loop = "sent"
      BY <2>14, <3>1 DEF StoreError, store
    <3>2. CASE loop # "sent"
      <4>1. /\ loop \in {"claim", "inserted", "failing"}
            /\ loop' = "wait" /\ job' = NoJob /\ stalled' = TRUE
            /\ stuck' = stuck \cup ({job} \cap Having("sending"))
            /\ UNCHANGED <<outbox, recorded, permit, client, handler, wire,
                           owed, dropped, detached, known>>
        BY <2>14, <3>2 DEF StoreError, store
      <4>2. SendingIsCarried'
        BY <4>1
      <4> QED BY <4>1, <4>2
    <3> QED BY <3>1, <3>2
  <2>15. CASE OnConnected
    BY <2>15 DEF OnConnected, store, ghosts
  <2>16. CASE RetryAllTextMessages
    BY <2>16, RestatusType DEF RetryAllTextMessages, Detaching, Statuses
  <2>17. CASE RetryAllError
    BY <2>17 DEF RetryAllError, store, ghosts
  <2>18. CASE NotifyOutbox
    BY <2>18 DEF NotifyOutbox, store, ghosts
  <2>19. CASE Disconnect
    BY <2>19 DEF Disconnect, store, ghosts
  <2>20. CASE Restart
    BY <2>20, RestatusType DEF Restart, ghosts, Statuses
  <2>21. CASE ClearAccountData
    BY <2>21, WithoutType DEF ClearAccountData, Detaching, runtime, NoRow
  <2>22. CASE UNCHANGED vars
    BY <2>22 DEF vars
  <2> QED
    BY <2>1, <2>2, <2>3, <2>4, <2>5, <2>6, <2>7, <2>8, <2>9, <2>10, <2>11,
       <2>12, <2>13, <2>14, <2>15, <2>16, <2>17, <2>18, <2>19, <2>20, <2>21,
       <2>22, NextCases
<1>3. Inductive <=> TypeOK /\ Parts
  BY DEF Inductive
<1> HIDE DEF Parts
<1> QED BY <1>1, <1>2, <1>3, TypeCorrect, PTL DEF Spec

(* No accepted text is lost, whatever interleaving of sends, reconnects,       *)
(* failures, restarts and commands (claim to completion in outbox.rs).         *)
THEOREM NoTextLost == Spec => []NoAcceptedTextLost
<1>1. Inductive => NoAcceptedTextLost
  BY DEF Inductive
<1> QED BY <1>1, InductiveHolds, PTL

(* An acknowledged discard is final except in the one race the model names:    *)
(* retry_all_text_messages, or a logout, during the send.                      *)
THEOREM DiscardFinal == Spec => []DiscardIsFinalUnlessDetached
<1>1. Inductive => DiscardIsFinalUnlessDetached
  BY DEF Inductive
<1> QED BY <1>1, InductiveHolds, PTL

(* Every Sending row is the one the loop carries, and the loop never sleeps    *)
(* over a queued row, but for a statement that failed (run_text_outbox).       *)
THEOREM LoopOwnsItsRow == Spec => []QueueIsCarried
<1>1. Inductive => QueueIsCarried
  BY DEF Inductive, QueueIsCarried
<1> QED BY <1>1, InductiveHolds, PTL

-----------------------------------------------------------------------------
(* The outbox implements TextDelivery: every step of the loop, the handlers    *)
(* and the commands is a step of the promise or leaves it unchanged.           *)
THEOREM Refines == Spec => ImplementsPromise
<1> USE DeliveriesAssumption, TimesAssumption
      DEF NoJob, InFlight, Having, Queued, Failed, Phase
<1>1. Init => Promise!Init
  BY DEF Init, NoRow, Promise!Init
<1>2. Inductive /\ [Next]_vars => [Promise!Next]_Promise!vars
  <2> SUFFICES ASSUME Inductive, [Next]_vars
               PROVE  Promise!Next \/ UNCHANGED Promise!vars
    OBVIOUS
  <2> USE DEF Inductive, TypeOK, Promise!vars
  <2>1. ASSUME NEW d \in Deliveries, NEW now \in Times, SendMessage(d, now)
        PROVE  Promise!Accept(d)
    <3>1. PICK pruned \in SUBSET Failed :
             outbox' = [Without(pruned) EXCEPT
                          ![d] = [status |-> "queued", created |-> now]]
      BY <2>1 DEF SendMessage
    <3>2. /\ outbox[d].status = "none"
          /\ \A e \in Deliveries :
                outbox'[e].status = IF e = d THEN "queued"
                                   ELSE IF e \in pruned THEN "none"
                                   ELSE outbox[e].status
      BY <2>1, <3>1, WithoutType DEF SendMessage, NoRow
    <3> DEFINE before == [e \in Deliveries |-> Phase(e)]
    <3>3. pruned \in SUBSET {e \in Deliveries : before[e] = "failed"}
      OBVIOUS
    <3>4. before' = [e \in Deliveries |->
                       IF e = d THEN "pending"
                       ELSE IF e \in pruned THEN "none" ELSE before[e]]
      BY <3>2
    <3>5. before[d] = "none"
      BY <3>2
    <3>6. known' = known \cup {d} /\ UNCHANGED <<wire, recorded>>
      BY <2>1 DEF SendMessage
    <3> HIDE DEF before
    <3>7. \E S \in SUBSET {e \in Deliveries : before[e] = "failed"} :
             before' = [e \in Deliveries |->
                          IF e = d THEN "pending"
                          ELSE IF e \in S THEN "none" ELSE before[e]]
      BY <3>3, <3>4
    <3> QED BY <3>5, <3>6, <3>7 DEF before, Promise!Accept
  <2>2. ASSUME NEW d \in Deliveries, ResubmitMessage(d)
        PROVE  UNCHANGED Promise!vars
    BY <2>2 DEF ResubmitMessage, store, ghosts
  <2>3. ASSUME NEW d \in Deliveries, RetryTextMessage(d)
        PROVE  Promise!Rearm({d})
    BY <2>3, RestatusType DEF RetryTextMessage, ghosts, Statuses, Promise!Rearm
  <2>4. ASSUME NEW d \in Deliveries, DiscardTextMessage(d)
        PROVE  Promise!Discard(d)
    <3>1. /\ outbox[d].status \in {"queued", "failed"}
          /\ \A e \in Deliveries :
                outbox'[e].status = IF e = d THEN "none" ELSE outbox[e].status
      BY <2>4, WithoutType DEF DiscardTextMessage, NoRow
    <3>2. UNCHANGED <<known, wire, recorded>>
      BY <2>4 DEF DiscardTextMessage
    <3> QED BY <3>1, <3>2 DEF Promise!Discard
  <2>5. ASSUME CheckClient \/ AwaitNotified \/ NothingQueued \/ StoreError
        PROVE  UNCHANGED Promise!vars
    BY <2>5 DEF CheckClient, AwaitNotified, NothingQueued, StoreError, store, ghosts
  <2>6. ASSUME NEW d \in Deliveries, Claim(d)
        PROVE  UNCHANGED Promise!vars
    BY <2>6, RestatusType DEF Claim, Statuses
  <2>7. CASE SendSucceeds
    BY <2>7 DEF SendSucceeds, store, ghosts, Promise!Next, Promise!Deliver,
                CarriedIsKnown
  <2>8. ASSUME NEW reached \in {{}, {job}}, SendFails(reached)
        PROVE  Promise!Deliver(job) \/ UNCHANGED Promise!vars
    BY <2>8 DEF SendFails, store, ghosts, Promise!Deliver, CarriedIsKnown
  <2>9. CASE RecordSent
    BY <2>9 DEF RecordSent, ghosts, Promise!Next, Promise!Record, CarriedIsKnown
  <2>10. CASE CompleteTextMessage
    <3>1. \A e \in Deliveries :
             outbox'[e].status = IF e = job /\ outbox[job].status = "sending"
                                 THEN "none" ELSE outbox[e].status
      BY <2>10, WithoutType DEF CompleteTextMessage, NoRow
    <3>2. CASE outbox[job].status = "sending"
      BY ZenonT(90), <2>10, <3>1, <3>2 DEF CompleteTextMessage, ghosts, Promise!Next,
                               Promise!Settle, CompletingIsRecorded
    <3>3. CASE outbox[job].status # "sending"
      BY <2>10, <3>1, <3>3 DEF CompleteTextMessage, ghosts
    <3> QED BY <3>2, <3>3
  <2>11. CASE FailTextMessage
    <3>1. \A e \in Deliveries :
             outbox'[e].status = IF e = job /\ outbox[job].status = "sending"
                                 THEN "failed" ELSE outbox[e].status
      BY <2>11, RestatusType DEF FailTextMessage, Statuses
    <3>2. CASE outbox[job].status = "sending"
      BY ZenonT(90), <2>11, <3>1, <3>2 DEF FailTextMessage, ghosts, Promise!Next, Promise!Fail
    <3>3. CASE outbox[job].status # "sending"
      BY <2>11, <3>1, <3>3 DEF FailTextMessage, ghosts
    <3> QED BY <3>2, <3>3
  <2>12. CASE RetryAllTextMessages
    <3>1. Promise!Rearm(Deliveries)
      BY <2>12, RestatusType DEF RetryAllTextMessages, Statuses, Rows, Promise!Rearm
    <3> QED BY <3>1 DEF Promise!Next
  <2>13. ASSUME OnConnected \/ RetryAllError \/ NotifyOutbox \/ Disconnect
         PROVE  UNCHANGED Promise!vars
    BY <2>13 DEF OnConnected, RetryAllError, NotifyOutbox, Disconnect, store, ghosts
  <2>14. CASE Restart
    BY <2>14, RestatusType DEF Restart, ghosts, Statuses
  <2>15. CASE ClearAccountData
    BY <2>15, WithoutType DEF ClearAccountData, runtime, NoRow, Promise!Next,
                              Promise!Wipe
  <2>16. CASE UNCHANGED vars
    BY <2>16 DEF vars
  <2>17. Promise!Deliver(job) => Promise!Next
    BY DEF Promise!Next, Promise!Deliver, CarriedIsKnown
  <2> QED
    BY <2>1, <2>2, <2>3, <2>4, <2>5, <2>6, <2>7, <2>8, <2>9, <2>10, <2>11,
       <2>12, <2>13, <2>14, <2>15, <2>16, <2>17, NextCases DEF Promise!Next
<1> QED BY <1>1, <1>2, InductiveHolds, PTL DEF Spec, ImplementsPromise, Promise!Spec

-----------------------------------------------------------------------------
(* Commands that ask WhatsApp first (commands.rs) *)

SenderRows ==
    [step : {"idle", "resolve", "upload", "send", "copy", "insert", "secret"},
     value : Values, id : Ids, sent : BOOLEAN, accepted : BOOLEAN, alone : BOOLEAN]

SendTypes ==
    /\ subject \in Registers \cup {"poll", "image"}
    /\ sender \in [Senders -> SenderRows]
    /\ \A o \in orphans : o.id \in Ids /\ o.value \in Values
    /\ remote \in Values
    /\ local \in [value : Values, at : 0 .. second, removed : 0 .. second]
    /\ \A e \in event : e.value \in Values /\ e.at \in 0 .. second
    /\ \A e, f \in event : e = f
    /\ explained \in BOOLEAN
    /\ posted \in [Ids -> Nat] /\ cards \subseteq Ids /\ secrets \subseteq Ids /\ lost \subseteq Ids
    /\ second \in Nat /\ issued \in 0 .. SendEvents

\* A command has sent what was accepted, and is where its answers took it.
SenderSound(c) ==
    /\ sender[c].accepted =>
          sender[c].sent /\ sender[c].step \in {"send", "copy", "insert", "secret"}
    /\ sender[c].alone => sender[c].accepted
    /\ sender[c].step = "send" => sender[c].sent
    /\ sender[c].sent /\ ~sender[c].accepted => sender[c].step = "send"
    /\ sender[c].step \in {"copy", "insert", "secret"} =>
          sender[c].accepted /\ subject \notin Registers
    /\ sender[c].step = "secret" => subject = "poll"
    /\ sender[c].step = "upload" => subject = "image"
    /\ sender[c].id <= issued
    /\ subject = "image" => sender[c].id = 0

SendersSound == SendTypes /\ \A c \in Senders : SenderSound(c)

\* What keeps each posted message on record until it is shown or lost.
Carried(c, i) == sender[c].accepted /\ sender[c].step # "secret" /\ sender[c].id = i
SecretDue(c, i) == sender[c].step = "secret" /\ sender[c].id = i
Unposted(i) == posted[i] = 0 \/ i \in lost \/ explained
PastResolve(c) == sender[c].step \notin {"idle", "resolve"}

PostsKept ==
    /\ \A o \in orphans : o.id \in lost
    /\ \A i \in lost : i <= issued
    /\ \A i \in cards : posted[i] # 0
    /\ \A i \in Ids : posted[i] # 0 => i <= issued
    /\ \A i \in Ids : posted[i] # 0 =>
          i \in cards \cup lost \/ \E c \in Senders : Carried(c, i)
    /\ subject = "poll" =>
          \A i \in cards : i \in secrets \cup lost \/ \E c \in Senders : SecretDue(c, i)
    /\ \A i \in Ids : posted[i] > 1 => i \in lost \/ explained
    /\ subject \notin Registers =>
          \A c \in Senders : sender[c].accepted => posted[sender[c].id] # 0

\* Nothing is posted again behind the back of its command.
PollsFresh ==
    subject = "poll" =>
        /\ \A c \in Busy : ~sender[c].accepted => Unposted(sender[c].id)
        /\ \A c, d \in Busy : sender[c].id = sender[d].id => c = d

ImagesFresh ==
    subject = "image" =>
        /\ \A c \in Senders : PastResolve(c) /\ ~sender[c].accepted => Unposted(0)
        /\ \A c, d \in Senders : PastResolve(c) /\ PastResolve(d) => c = d \/ explained

RegistersPostNothing == subject \in Registers => \A i \in Ids : posted[i] = 0

PostsInv == PostsKept /\ PollsFresh /\ ImagesFresh /\ RegistersPostNothing

\* The value that was last alone on its way is the one WhatsApp has.
ValuesInv ==
    subject \in Registers =>
        /\ \A c \in Senders : sender[c].alone => TakenUp = {c} /\ remote = sender[c].value
        /\ ~explained /\ TakenUp # {} => \E c \in TakenUp : sender[c].alone
        /\ ~explained /\ TakenUp = {} /\ event = {} => local.value = remote
        /\ ~explained /\ TakenUp = {} =>
              \A e \in event : SameSecond(e.at) \/ Applied(e.value, e.at).value = remote

\* A message changes no value.
MessagesChooseNothing ==
    subject \notin Registers => remote = NoChoice /\ local.value = NoChoice /\ event = {}

SendInv == SendersSound /\ PostsInv /\ ValuesInv /\ MessagesChooseNothing

LEMMA GoneIs ==
    /\ Gone \in SenderRows /\ Gone.step = "idle" /\ Gone.id = 0
    /\ Gone.sent = FALSE /\ Gone.accepted = FALSE /\ Gone.alone = FALSE
    /\ 0 \in Ids /\ NoChoice \in Values
<1>1. 0 \in Ids /\ NoChoice \in Values
  BY SendAssumption DEF Ids, Values
<1> QED
  BY <1>1 DEF Gone, SenderRows

\* A step of one command.
LEMMA Putting ==
    ASSUME SendersSound, NEW c \in Senders, NEW x \in SenderRows, Put(c, x)
    PROVE  /\ sender' \in [Senders -> SenderRows]
           /\ sender'[c] = x
           /\ \A d \in Senders : d # c => sender'[d] = sender[d]
BY DEF SendersSound, SendTypes, Put

\* None is alone any more.
LEMMA Dimming ==
    ASSUME SendersSound
    PROVE  /\ NoneAlone(sender) \in [Senders -> SenderRows]
           /\ \A d \in Senders :
                 /\ NoneAlone(sender)[d].step = sender[d].step
                 /\ NoneAlone(sender)[d].value = sender[d].value
                 /\ NoneAlone(sender)[d].id = sender[d].id
                 /\ NoneAlone(sender)[d].sent = sender[d].sent
                 /\ NoneAlone(sender)[d].accepted = sender[d].accepted
                 /\ ~NoneAlone(sender)[d].alone
<1>1. ASSUME NEW d \in Senders
      PROVE  /\ NoneAlone(sender)[d] \in SenderRows
             /\ NoneAlone(sender)[d].step = sender[d].step
             /\ NoneAlone(sender)[d].value = sender[d].value
             /\ NoneAlone(sender)[d].id = sender[d].id
             /\ NoneAlone(sender)[d].sent = sender[d].sent
             /\ NoneAlone(sender)[d].accepted = sender[d].accepted
             /\ ~NoneAlone(sender)[d].alone
  <2> PICK x : x = sender[d]
    OBVIOUS
  <2>1. x \in SenderRows /\ (x.alone => x.accepted)
    BY DEF SendersSound, SendTypes, SenderSound
  <2>2. NoneAlone(sender)[d] = IF x.accepted THEN [x EXCEPT !.alone = FALSE] ELSE x
    BY DEF NoneAlone
  <2> QED
    BY <2>1, <2>2 DEF SenderRows
<1> QED
  BY <1>1 DEF NoneAlone

LEMMA IssueIs ==
    ASSUME SendersSound, NEW c \in Senders, NEW v \in Values, Issue(c, v)
    PROVE  /\ sender' \in [Senders -> SenderRows]
           /\ \A d \in Senders : d # c => sender'[d] = sender[d]
           /\ sender'[c].step = "resolve" /\ sender'[c].value = v
           /\ sender'[c].id = IF subject = "poll" THEN issued + 1 ELSE 0
           /\ ~sender'[c].sent /\ ~sender'[c].accepted /\ ~sender'[c].alone
           /\ sender[c].step = "idle"
           /\ issued' = issued + 1 /\ issued' \in 0 .. SendEvents
<1> PICK i : i = IF subject = "poll" THEN issued + 1 ELSE 0
  OBVIOUS
<1>1. issued + 1 \in 0 .. SendEvents
  BY SendAssumption DEF SendersSound, SendTypes, Issue
<1>2. i \in Ids
  BY <1>1, GoneIs DEF Ids
<1> PICK g : g = Gone
  OBVIOUS
<1> PICK x : x = [g EXCEPT !.step = "resolve", !.value = v, !.id = i]
  OBVIOUS
<1>3. /\ x \in SenderRows /\ x.step = "resolve" /\ x.value = v /\ x.id = i
      /\ ~x.sent /\ ~x.accepted /\ ~x.alone
  BY <1>2, GoneIs DEF SenderRows
<1>4. Put(c, x) /\ sender[c].step = "idle" /\ issued' = issued + 1
  BY DEF Issue
<1> QED
  BY <1>1, <1>3, <1>4, Putting

LEMMA ResolveIs ==
    ASSUME SendersSound, NEW c \in Senders, Resolve(c)
    PROVE  /\ sender' \in [Senders -> SenderRows]
           /\ \A d \in Senders : d # c => sender'[d] = sender[d]
           /\ \/ AlreadyStored(c) /\ sender'[c] = Gone
              \/ /\ ~AlreadyStored(c)
                 /\ sender'[c].id = sender[c].id /\ sender'[c].value = sender[c].value
                 /\ sender'[c].accepted = sender[c].accepted
                 /\ sender'[c].alone = sender[c].alone
                 /\ \/ subject = "image" /\ sender'[c].step = "upload" /\ ~sender'[c].sent
                    \/ subject # "image" /\ sender'[c].step = "send" /\ sender'[c].sent
           /\ ~sender[c].accepted /\ ~sender[c].alone /\ sender[c].step = "resolve"
<1> PICK s : s = sender[c]
  OBVIOUS
<1>1. s \in SenderRows /\ s.step = "resolve" /\ ~s.accepted /\ ~s.alone
  BY DEF SendersSound, SendTypes, SenderSound, Resolve
<1>2. CASE AlreadyStored(c)
  <2>1. Put(c, Gone)
    BY <1>2 DEF Resolve, Ends
  <2> QED
    BY <1>1, <1>2, <2>1, GoneIs, Putting
<1>3. CASE ~AlreadyStored(c) /\ subject = "image"
  <2> PICK x : x = [s EXCEPT !.step = "upload", !.sent = FALSE]
    OBVIOUS
  <2>1. /\ x \in SenderRows /\ x.step = "upload" /\ ~x.sent /\ x.id = s.id
        /\ x.value = s.value /\ x.accepted = s.accepted /\ x.alone = s.alone
    BY <1>1 DEF SenderRows
  <2>2. Put(c, [s EXCEPT !.step = IF subject = "image" THEN "upload" ELSE "send",
                         !.sent = subject # "image"])
    BY <1>3 DEF Resolve
  <2>3. Put(c, x)
    BY <2>2, <1>3
  <2> QED
    BY <1>1, <1>3, <2>1, <2>3, Putting
<1>4. CASE ~AlreadyStored(c) /\ subject # "image"
  <2> PICK x : x = [s EXCEPT !.step = "send", !.sent = TRUE]
    OBVIOUS
  <2>1. /\ x \in SenderRows /\ x.step = "send" /\ x.sent /\ x.id = s.id
        /\ x.value = s.value /\ x.accepted = s.accepted /\ x.alone = s.alone
    BY <1>1 DEF SenderRows
  <2>2. Put(c, [s EXCEPT !.step = IF subject = "image" THEN "upload" ELSE "send",
                         !.sent = subject # "image"])
    BY <1>4 DEF Resolve
  <2>3. Put(c, x)
    BY <2>2, <1>4
  <2> QED
    BY <1>1, <1>4, <2>1, <2>3, Putting
<1> QED
  BY <1>2, <1>3, <1>4

LEMMA TakeIs ==
    ASSUME SendersSound, NEW c \in Senders, Take(c)
    PROVE  /\ sender' \in [Senders -> SenderRows]
           /\ \A d \in Senders :
                 /\ sender'[d].step = sender[d].step /\ sender'[d].value = sender[d].value
                 /\ sender'[d].id = sender[d].id /\ sender'[d].sent = sender[d].sent
                 /\ d # c => sender'[d].accepted = sender[d].accepted /\ ~sender'[d].alone
           /\ sender'[c].accepted /\ (sender'[c].alone <=> TakenUp = {})
           /\ sender[c].sent /\ ~sender[c].accepted /\ sender[c].step = "send"
<1> PICK N : N = NoneAlone(sender)
  OBVIOUS
<1> PICK s : s = sender[c]
  OBVIOUS
<1>1. s \in SenderRows /\ s.sent /\ ~s.accepted /\ s.step = "send"
  BY DEF SendersSound, SendTypes, SenderSound, Take
<1> PICK b : b = (TakenUp = {}) /\ b \in BOOLEAN
  OBVIOUS
<1> PICK x : x = [s EXCEPT !.accepted = TRUE, !.alone = b]
  OBVIOUS
<1>2. /\ x \in SenderRows /\ x.accepted /\ (x.alone <=> b) /\ x.step = s.step /\ x.sent = s.sent
      /\ x.value = s.value /\ x.id = s.id
  BY <1>1 DEF SenderRows
<1>3. sender' = [N EXCEPT ![c] = x]
  BY DEF Take
<1> QED
  BY <1>1, <1>2, <1>3, Dimming

\* A step that changes where a command is, and not what it sent.
LEMMA StepIs ==
    ASSUME SendersSound, NEW c \in Senders,
           NEW step \in {"copy", "insert", "secret"},
           Put(c, [sender[c] EXCEPT !.step = step])
    PROVE  /\ sender' \in [Senders -> SenderRows]
           /\ \A d \in Senders : d # c => sender'[d] = sender[d]
           /\ sender'[c].step = step /\ sender'[c].id = sender[c].id
           /\ sender'[c].value = sender[c].value
           /\ sender'[c].sent = sender[c].sent /\ sender'[c].accepted = sender[c].accepted
           /\ sender'[c].alone = sender[c].alone
<1> PICK s : s = sender[c]
  OBVIOUS
<1>1. s \in SenderRows
  BY DEF SendersSound, SendTypes
<1> PICK x : x = [s EXCEPT !.step = step]
  OBVIOUS
<1>2. /\ x \in SenderRows /\ x.step = step /\ x.sent = s.sent /\ x.value = s.value
      /\ x.id = s.id /\ x.accepted = s.accepted /\ x.alone = s.alone
  BY <1>1 DEF SenderRows
<1> QED
  BY <1>2, Putting

LEMMA UploadIs ==
    ASSUME SendersSound, NEW c \in Senders, Upload(c)
    PROVE  /\ sender' \in [Senders -> SenderRows]
           /\ \A d \in Senders : d # c => sender'[d] = sender[d]
           /\ sender'[c].step = "send" /\ sender'[c].id = sender[c].id
           /\ sender'[c].sent /\ sender[c].step = "upload"
           /\ ~sender'[c].accepted /\ ~sender'[c].alone
           /\ ~sender[c].accepted /\ ~sender[c].alone
<1> PICK s : s = sender[c]
  OBVIOUS
<1>1. s \in SenderRows /\ s.step = "upload" /\ ~s.accepted /\ ~s.alone
  BY DEF SendersSound, SendTypes, SenderSound, Upload
<1> PICK x : x = [s EXCEPT !.step = "send", !.sent = TRUE]
  OBVIOUS
<1>2. /\ x \in SenderRows /\ x.step = "send" /\ x.sent
      /\ x.id = s.id /\ x.accepted = s.accepted /\ x.alone = s.alone
  BY <1>1 DEF SenderRows
<1>3. Put(c, x)
  BY DEF Upload
<1> QED
  BY <1>1, <1>2, <1>3, Putting

LEMMA AppliedTyped ==
    ASSUME SendTypes, NEW v \in Values, NEW t \in 0 .. second
    PROVE  Applied(v, t) \in [value : Values, at : 0 .. second, removed : 0 .. second]
<1> PICK L : L = local
  OBVIOUS
<1>1. L \in [value : Values, at : 0 .. second, removed : 0 .. second]
  BY DEF SendTypes
<1>z. 0 \in 0 .. second /\ NoChoice \in Values
  BY GoneIs DEF SendTypes
<1>2. [L EXCEPT !.removed = 0] \in [value : Values, at : 0 .. second, removed : 0 .. second]
  BY <1>1, <1>z
<1>3. [L EXCEPT !.value = v, !.at = t] \in [value : Values, at : 0 .. second, removed : 0 .. second]
  BY <1>1
<1>4. [value |-> v, at |-> t, removed |-> 0]
         \in [value : Values, at : 0 .. second, removed : 0 .. second]
  BY <1>z
<1>5. [value |-> IF L.at <= t THEN NoChoice ELSE L.value,
       at |-> IF L.at <= t THEN 0 ELSE L.at,
       removed |-> IF t > L.removed THEN t ELSE L.removed]
         \in [value : Values, at : 0 .. second, removed : 0 .. second]
  BY <1>1, <1>z
<1>6. Reacted(L, v, t) \in [value : Values, at : 0 .. second, removed : 0 .. second]
  BY <1>1, <1>2, <1>4, <1>5 DEF Reacted
<1>7. Chosen(L, v, t) \in [value : Values, at : 0 .. second, removed : 0 .. second]
  BY <1>1, <1>3 DEF Chosen
<1> QED
  BY <1>6, <1>7 DEF Applied

LEMMA EndsIs ==
    ASSUME SendersSound, NEW c \in Senders, Ends(c)
    PROVE  /\ sender' \in [Senders -> SenderRows]
           /\ \A d \in Senders : d # c => sender'[d] = sender[d]
           /\ sender'[c].step = "idle" /\ sender'[c].id = 0
           /\ ~sender'[c].sent /\ ~sender'[c].accepted /\ ~sender'[c].alone
<1>1. Put(c, Gone)
  BY DEF Ends
<1> QED
  BY <1>1, GoneIs, Putting

\* What a step of one command leaves of the others.
LEMMA OneSends ==
    ASSUME SendersSound, NEW c \in Senders, SenderSound(c)',
           \A d \in Senders : d # c => sender'[d] = sender[d],
           subject' = subject, issued' \in Nat, issued <= issued'
    PROVE  \A d \in Senders : SenderSound(d)'
<1> SUFFICES ASSUME NEW d \in Senders, d # c PROVE SenderSound(d)'
  OBVIOUS
<1>1. SenderSound(d) /\ sender'[d] = sender[d]
  BY DEF SendersSound
<1>2. sender[d].id \in Nat /\ issued \in Nat
  BY SendAssumption DEF SendersSound, SendTypes, SenderRows, Ids
<1>3. sender'[d].id <= issued'
  BY <1>1, <1>2 DEF SenderSound
<1> QED
  BY <1>1, <1>3 DEF SenderSound

LEMMA LeavingIs ==
    ASSUME SendersSound, NEW S \in SUBSET Senders
    PROVE  /\ \A o \in Leaving(S) : o.id \in Ids /\ o.value \in Values
           /\ Abandoned(S) \subseteq Ids
           /\ {sender[c].id : c \in S} \subseteq Ids
           /\ \A o \in Leaving(S) : \E c \in S : o.id = sender[c].id /\ sender[c].sent /\ ~sender[c].accepted
           /\ \A c \in S : sender[c].sent /\ sender[c].step # "secret" => sender[c].id \in Abandoned(S)
           /\ \A i \in Abandoned(S) : \E c \in S : i = sender[c].id
<1>1. \A c \in Senders : sender[c].id \in Ids /\ sender[c].value \in Values
  BY DEF SendersSound, SendTypes, SenderRows
<1> QED
  BY <1>1 DEF Leaving, Abandoned

-----------------------------------------------------------------------------

LEMMA IssueSound ==
    ASSUME SendersSound, NEW c \in Senders, NEW v \in Values, Issue(c, v)
    PROVE  SendersSound'
<1>1. SendTypes'
  BY ZenonT(90), IssueIs DEF SendersSound, SendTypes, Issue, valueVars, postVars
<1>2. issued \in Nat /\ issued' = issued + 1
  BY IssueIs DEF SendersSound, SendTypes
<1>a. sender'[c].id = (IF subject = "poll" THEN issued + 1 ELSE 0) /\ subject' = subject
  BY IssueIs DEF Issue
<1>3. sender'[c].id <= issued' /\ (subject' = "image" => sender'[c].id = 0)
  BY <1>2, <1>a
<1>4. SenderSound(c)'
  BY <1>3, IssueIs DEF SenderSound
<1>5. issued' \in Nat /\ issued <= issued' /\ subject' = subject
  BY <1>2 DEF Issue
<1> QED
  BY SMTT(60), <1>1, <1>4, <1>5, IssueIs, OneSends DEF SendersSound

LEMMA ResolveSound ==
    ASSUME SendersSound, NEW c \in Senders, Resolve(c)
    PROVE  SendersSound'
<1>0. /\ explained' \in BOOLEAN
      /\ UNCHANGED <<subject, orphans, remote, local, event, posted, cards, secrets, lost, second, issued>>
  BY DEF SendersSound, SendTypes, Resolve, postVars
<1>1. SendTypes'
  BY <1>0, ResolveIs DEF SendersSound, SendTypes
<1>2. issued \in Nat /\ issued <= issued
  BY DEF SendersSound, SendTypes
<1>3. sender'[c].id <= issued' /\ (subject' = "image" => sender'[c].id = 0)
  BY <1>0, <1>2, ResolveIs, GoneIs DEF SendersSound, SenderSound
<1>4. SenderSound(c)'
  BY <1>0, <1>3, ResolveIs, GoneIs DEF SenderSound
<1> QED
  BY <1>0, <1>1, <1>2, <1>4, ResolveIs, OneSends DEF SendersSound

LEMMA UploadSound ==
    ASSUME SendersSound, NEW c \in Senders, Upload(c)
    PROVE  SendersSound'
<1>0. UNCHANGED <<subject, orphans, remote, local, event, explained, posted, cards, secrets, lost, second, issued>>
  BY DEF Upload, valueVars, postVars
<1>1. SendTypes'
  BY <1>0, UploadIs DEF SendersSound, SendTypes
<1>2. issued \in Nat /\ issued <= issued /\ subject = "image"
  BY DEF SendersSound, SendTypes, Upload, SenderSound
<1>4. SenderSound(c)'
  BY <1>0, <1>2, UploadIs DEF SendersSound, SenderSound
<1> QED
  BY <1>0, <1>1, <1>2, <1>4, UploadIs, OneSends DEF SendersSound

LEMMA TakeSound ==
    ASSUME SendersSound, NEW c \in Senders, Take(c)
    PROVE  SendersSound'
<1>0. UNCHANGED <<subject, orphans, local, event, cards, secrets, lost, second, issued>>
  BY DEF Take
<1>1. remote' \in Values
  BY DEF Take, Takes, SendersSound, SendTypes, SenderRows
<1>2. posted' \in [Ids -> Nat]
  <2>1. sender[c].id \in Ids /\ posted \in [Ids -> Nat]
    BY DEF SendersSound, SendTypes, SenderRows
  <2>2. posted[sender[c].id] + 1 \in Nat
    BY <2>1
  <2>3. posted' = posted \/ posted' = [posted EXCEPT ![sender[c].id] = posted[sender[c].id] + 1]
    BY DEF Take, Takes
  <2> QED
    BY <2>1, <2>2, <2>3
<1>3. explained' \in BOOLEAN
  BY DEF Take, SendersSound, SendTypes
<1>4. SendTypes'
  BY <1>0, <1>1, <1>2, <1>3, TakeIs DEF SendersSound, SendTypes
<1>5. ASSUME NEW d \in Senders PROVE SenderSound(d)'
  BY <1>0, TakeIs DEF SendersSound, SenderSound
<1> QED
  BY <1>4, <1>5 DEF SendersSound

LEMMA TakeOrphanSound ==
    ASSUME SendersSound, NEW o \in orphans, TakeOrphan(o)
    PROVE  SendersSound'
<1>0. UNCHANGED <<subject, local, event, cards, secrets, lost, second, issued>> /\ explained'
  BY DEF TakeOrphan
<1>o. o.id \in Ids /\ o.value \in Values /\ orphans' \subseteq orphans
  BY DEF SendersSound, SendTypes, TakeOrphan
<1>1. remote' \in Values
  BY <1>o DEF TakeOrphan, Takes, SendersSound, SendTypes
<1>2. posted' \in [Ids -> Nat]
  <2>1. posted \in [Ids -> Nat]
    BY DEF SendersSound, SendTypes
  <2>2. posted[o.id] + 1 \in Nat
    BY <2>1, <1>o
  <2>3. posted' = posted \/ posted' = [posted EXCEPT ![o.id] = posted[o.id] + 1]
    BY DEF TakeOrphan, Takes
  <2> QED
    BY <2>1, <2>2, <2>3
<1>a. sender' = NoneAlone(sender)
  BY DEF TakeOrphan
<1>b. explained' \in BOOLEAN
  BY <1>0
<1>c. explained' = TRUE
  BY DEF TakeOrphan
<1>4. SendTypes'
  BY <1>0, <1>1, <1>2, <1>a, <1>c, <1>o, Dimming DEF SendersSound, SendTypes
<1>5. ASSUME NEW d \in Senders PROVE SenderSound(d)'
  BY <1>0, <1>a, Dimming DEF SendersSound, SenderSound
<1> QED
  BY <1>4, <1>5 DEF SendersSound

LEMMA RecordValueSound ==
    ASSUME SendersSound, NEW c \in Senders, RecordValue(c)
    PROVE  SendersSound'
<1>0. UNCHANGED <<subject, orphans, remote, event, posted, cards, secrets, lost, second, issued>>
  BY DEF RecordValue, postVars
<1>1. explained' \in BOOLEAN
  <2>1. explained' = (IF SameSecond(second) THEN TRUE ELSE explained /\ ~sender[c].alone)
    BY DEF RecordValue
  <2> QED
    BY <2>1
<1>2. SendTypes /\ sender[c].value \in Values /\ second \in 0 .. second
  BY DEF SendersSound, SendTypes, SenderRows
<1>3. local' \in [value : Values, at : 0 .. second, removed : 0 .. second]
  BY <1>2, AppliedTyped DEF RecordValue
<1>e. Ends(c)
  BY DEF RecordValue
<1>4. SendTypes'
  BY <1>0, <1>1, <1>3, <1>e, EndsIs DEF SendersSound, SendTypes
<1>5. issued \in Nat /\ issued <= issued /\ 0 <= issued
  BY DEF SendersSound, SendTypes
<1>6. SenderSound(c)'
  BY <1>0, <1>5, <1>e, EndsIs DEF SenderSound
<1> QED
  BY <1>0, <1>4, <1>5, <1>6, <1>e, EndsIs, OneSends DEF SendersSound

LEMMA SentSound ==
    ASSUME SendersSound, NEW c \in Senders, Sent(c)
    PROVE  SendersSound'
<1>0. UNCHANGED <<subject, orphans, remote, local, event, explained, posted, cards, secrets, lost, second, issued>>
  BY DEF Sent, valueVars, postVars
<1> PICK step : step = IF subject = "image" THEN "copy" ELSE "insert"
  OBVIOUS
<1>1. step \in {"copy", "insert"} /\ Put(c, [sender[c] EXCEPT !.step = step])
  BY DEF Sent
<1>2. SendTypes'
  BY <1>0, <1>1, StepIs DEF SendersSound, SendTypes
<1>3. issued \in Nat /\ issued <= issued
  BY DEF SendersSound, SendTypes
<1>4. sender[c].accepted /\ subject \notin Registers /\ SenderSound(c)
  BY DEF Sent, SendersSound
<1>5. SenderSound(c)'
  BY <1>0, <1>1, <1>4, StepIs DEF SenderSound
<1> QED
  BY <1>0, <1>1, <1>2, <1>3, <1>5, StepIs, OneSends DEF SendersSound

LEMMA InsertCardSound ==
    ASSUME SendersSound, NEW c \in Senders, InsertCard(c)
    PROVE  SendersSound'
<1>0. UNCHANGED <<subject, orphans, remote, local, event, explained, posted, secrets, lost, second, issued>>
  BY DEF InsertCard, valueVars
<1>1. cards' \subseteq Ids
  BY DEF InsertCard, SendersSound, SendTypes, SenderRows
<1>3. issued \in Nat /\ issued <= issued /\ 0 <= issued
  BY DEF SendersSound, SendTypes
<1>4. sender[c].accepted /\ subject \notin Registers /\ SenderSound(c)
  BY DEF InsertCard, SendersSound, SenderSound
<1>5. CASE subject = "poll"
  <2>1. Put(c, [sender[c] EXCEPT !.step = "secret"])
    BY <1>5 DEF InsertCard
  <2>2. SendTypes'
    BY <1>0, <1>1, <2>1, StepIs DEF SendersSound, SendTypes
  <2>3. SenderSound(c)'
    BY <1>0, <1>4, <1>5, <2>1, StepIs DEF SenderSound
  <2> QED
    BY <1>0, <1>3, <2>1, <2>2, <2>3, StepIs, OneSends DEF SendersSound
<1>6. CASE subject # "poll"
  <2>1. Ends(c)
    BY <1>6 DEF InsertCard
  <2>2. SendTypes'
    BY <1>0, <1>1, <2>1, EndsIs DEF SendersSound, SendTypes
  <2>3. SenderSound(c)'
    BY <1>0, <1>3, <2>1, EndsIs DEF SenderSound
  <2> QED
    BY <1>0, <1>3, <2>1, <2>2, <2>3, EndsIs, OneSends DEF SendersSound
<1> QED
  BY <1>5, <1>6

LEMMA StoreSecretSound ==
    ASSUME SendersSound, NEW c \in Senders, StoreSecret(c)
    PROVE  SendersSound'
<1>0. UNCHANGED <<subject, orphans, remote, local, event, explained, posted, cards, lost, second, issued>>
  BY DEF StoreSecret, valueVars
<1>1. secrets' \subseteq Ids /\ Ends(c)
  BY DEF StoreSecret, SendersSound, SendTypes, SenderRows
<1>3. issued \in Nat /\ issued <= issued /\ 0 <= issued
  BY DEF SendersSound, SendTypes
<1>4. SendTypes'
  BY <1>0, <1>1, EndsIs DEF SendersSound, SendTypes
<1>5. SenderSound(c)'
  BY <1>0, <1>1, <1>3, EndsIs DEF SenderSound
<1> QED
  BY <1>0, <1>1, <1>3, <1>4, <1>5, EndsIs, OneSends DEF SendersSound

LEMMA AbandonSound ==
    ASSUME SendersSound, NEW c \in Senders, Abandon(c)
    PROVE  SendersSound'
<1>0. UNCHANGED <<subject, remote, local, event, posted, cards, secrets, second, issued>>
  BY DEF Abandon
<1>1. Ends(c)
  BY DEF Abandon
<1>2. \A o \in orphans' : o.id \in Ids /\ o.value \in Values
  <2>1. orphans' = orphans \cup Leaving({c})
    BY DEF Abandon
  <2>2. \A o \in Leaving({c}) : o.id \in Ids /\ o.value \in Values
    BY LeavingIs
  <2> QED
    BY <2>1, <2>2 DEF SendersSound, SendTypes
<1>3. lost' \subseteq Ids
  <2>1. Abandoned({c}) \subseteq Ids
    BY LeavingIs
  <2> QED
    BY <2>1 DEF Abandon, SendersSound, SendTypes
<1>4. explained' \in BOOLEAN
  BY DEF Abandon, SendersSound, SendTypes, SenderRows
<1>5. SendTypes'
  BY <1>0, <1>1, <1>2, <1>3, <1>4, EndsIs DEF SendersSound, SendTypes
<1>6. issued \in Nat /\ issued <= issued /\ 0 <= issued
  BY DEF SendersSound, SendTypes
<1>7. SenderSound(c)'
  BY <1>0, <1>1, <1>6, EndsIs DEF SenderSound
<1> QED
  BY <1>0, <1>1, <1>5, <1>6, <1>7, EndsIs, OneSends DEF SendersSound

LEMMA AllGone ==
    ASSUME sender' = [c \in Senders |-> Gone]
    PROVE  /\ sender' \in [Senders -> SenderRows]
           /\ \A c \in Senders :
                 /\ sender'[c].step = "idle" /\ sender'[c].id = 0
                 /\ ~sender'[c].sent /\ ~sender'[c].accepted /\ ~sender'[c].alone
BY GoneIs

LEMMA StopSound ==
    ASSUME SendersSound, StopDaemon
    PROVE  SendersSound'
<1>0. UNCHANGED <<subject, remote, local, event, posted, cards, secrets, second, issued>>
  BY DEF StopDaemon
<1>1. sender' = [c \in Senders |-> Gone]
  BY DEF StopDaemon
<1>b. Busy \subseteq Senders
  BY DEF Busy
<1>2. \A o \in orphans' : o.id \in Ids /\ o.value \in Values
  <2>1. orphans' = orphans \cup Leaving(Busy)
    BY DEF StopDaemon
  <2>2. \A o \in Leaving(Busy) : o.id \in Ids /\ o.value \in Values
    BY <1>b, LeavingIs
  <2> QED
    BY <2>1, <2>2 DEF SendersSound, SendTypes
<1>3. lost' \subseteq Ids
  <2>1. Abandoned(Busy) \subseteq Ids /\ {sender[c].id : c \in Busy} \subseteq Ids
    BY <1>b, LeavingIs
  <2>2. lost' = lost \cup Abandoned(Busy) \cup {sender[c].id : c \in Busy}
    BY DEF StopDaemon
  <2> QED
    BY <2>1, <2>2 DEF SendersSound, SendTypes
<1>4. explained' \in BOOLEAN
  BY DEF StopDaemon, SendersSound, SendTypes, SenderRows
<1>5. SendTypes'
  BY <1>0, <1>1, <1>2, <1>3, <1>4, AllGone DEF SendersSound, SendTypes
<1>6. 0 <= issued
  BY DEF SendersSound, SendTypes
<1>7. ASSUME NEW c \in Senders PROVE SenderSound(c)'
  BY <1>0, <1>1, <1>6, AllGone DEF SenderSound
<1> QED
  BY <1>5, <1>7 DEF SendersSound

LEMMA OtherDeviceSound ==
    ASSUME SendersSound, NEW v \in Values, OtherDevice(v)
    PROVE  SendersSound'
<1>0. /\ UNCHANGED <<subject, orphans, local, posted, cards, secrets, lost, second>>
      /\ sender' = NoneAlone(sender) /\ issued' = issued + 1 /\ remote' = v
  BY DEF OtherDevice, postVars
<1>1. issued' \in 0 .. SendEvents /\ issued \in Nat
  BY SendAssumption DEF OtherDevice, SendersSound, SendTypes
<1>2. event' = {[value |-> v, at |-> second]} /\ second \in 0 .. second
  BY DEF OtherDevice, SendersSound, SendTypes
<1>3. explained' \in BOOLEAN
  BY DEF OtherDevice, SendersSound, SendTypes
<1>4. SendTypes'
  BY <1>0, <1>1, <1>2, <1>3, Dimming DEF SendersSound, SendTypes
<1>5. ASSUME NEW d \in Senders PROVE SenderSound(d)'
  <2>1. sender[d].id \in Nat /\ sender[d].id <= issued
    BY SendAssumption DEF SendersSound, SendTypes, SenderSound, SenderRows, Ids
  <2>2. sender'[d].id <= issued'
    BY <1>0, <1>1, <2>1, Dimming
  <2> QED
    BY <1>0, <2>2, Dimming DEF SendersSound, SenderSound
<1> QED
  BY <1>4, <1>5 DEF SendersSound

LEMMA DeliverSound ==
    ASSUME SendersSound, DeliverEvent
    PROVE  SendersSound'
<1> PICK e \in event : /\ event' = {} /\ local' = Applied(e.value, e.at)
                       /\ explained' = (explained \/ SameSecond(e.at))
                       /\ UNCHANGED <<subject, sender, orphans, remote, posted, cards, secrets, lost, second, issued>>
  BY DEF DeliverEvent, postVars
<1>1. SendTypes /\ e.value \in Values /\ e.at \in 0 .. second
  BY DEF SendersSound, SendTypes
<1>2. local' \in [value : Values, at : 0 .. second, removed : 0 .. second]
  BY <1>1, AppliedTyped
<1>3. explained' \in BOOLEAN
  OBVIOUS
<1>4. SendTypes'
  BY <1>1, <1>2, <1>3 DEF SendTypes
<1> QED
  BY <1>4 DEF SendersSound, SenderSound

LEMMA SecondSound ==
    ASSUME SendersSound, SecondPasses
    PROVE  SendersSound'
<1>0. /\ UNCHANGED <<subject, sender, orphans, remote, local, event, explained, posted, cards, secrets, lost, issued>>
      /\ second' = second + 1
  BY DEF SecondPasses, valueVars, postVars
<1>1. second \in Nat /\ 0 .. second \subseteq 0 .. second'
  BY <1>0 DEF SendersSound, SendTypes
<1>2. SendTypes'
  <2>1. second' \in Nat
    BY <1>0, <1>1
  <2>2. local' \in [value : Values, at : 0 .. second', removed : 0 .. second']
    BY <1>0, <1>1 DEF SendersSound, SendTypes
  <2>3. \A e \in event' : e.value \in Values /\ e.at \in 0 .. second'
    BY <1>0, <1>1 DEF SendersSound, SendTypes
  <2> QED
    BY <1>0, <2>1, <2>2, <2>3 DEF SendersSound, SendTypes
<1> QED
  BY <1>0, <1>2 DEF SendersSound, SenderSound

LEMMA SendersStay ==
    ASSUME SendersSound, SendNext
    PROVE  SendersSound'
<1>1. ASSUME NEW c \in Senders, NEW v \in Values, Issue(c, v) PROVE SendersSound'
  BY <1>1, IssueSound
<1>2. ASSUME NEW c \in Senders,
             \/ Resolve(c) \/ Upload(c) \/ Take(c) \/ RecordValue(c) \/ Sent(c)
             \/ InsertCard(c) \/ StoreSecret(c) \/ Abandon(c)
      PROVE SendersSound'
  BY <1>2, ResolveSound, UploadSound, TakeSound, RecordValueSound, SentSound,
     InsertCardSound, StoreSecretSound, AbandonSound
<1>3. ASSUME NEW o \in orphans, TakeOrphan(o) PROVE SendersSound'
  BY <1>3, TakeOrphanSound
<1>4. ASSUME NEW v \in Values, OtherDevice(v) PROVE SendersSound'
  BY <1>4, OtherDeviceSound
<1>5. ASSUME StopDaemon \/ DeliverEvent \/ SecondPasses PROVE SendersSound'
  BY <1>5, StopSound, DeliverSound, SecondSound
<1> QED
  BY <1>1, <1>2, <1>3, <1>4, <1>5 DEF SendNext

-----------------------------------------------------------------------------

\* A step that posts nothing and stores nothing.
LEMMA PostsFrame ==
    ASSUME SendersSound, PostsInv, issued' \in Nat, issued <= issued',
           subject' = subject, posted' = posted, cards' = cards, secrets' = secrets,
           lost \subseteq lost', explained => explained',
           \A o \in orphans' : o.id \in lost',
           \A i \in lost' : i \in Nat /\ i <= issued',
           \A d \in Senders, i \in Ids : Carried(d, i) => Carried(d, i)' \/ i \in lost',
           \A d \in Senders, i \in Ids : SecretDue(d, i) => SecretDue(d, i)' \/ i \in lost',
           \A d \in Senders : sender'[d].accepted =>
                                 sender[d].accepted /\ sender'[d].id = sender[d].id
    PROVE  PostsKept'
<1>t. issued \in Nat /\ Ids \subseteq Nat /\ cards \subseteq Ids
  BY DEF SendersSound, SendTypes, Ids
<1>1. (\A o \in orphans : o.id \in lost)' /\ (\A i \in lost : i <= issued)'
  OBVIOUS
<1>2. (\A i \in cards : posted[i] # 0)'
  BY DEF PostsInv, PostsKept
<1>3. ASSUME NEW i \in Ids, posted[i] # 0 PROVE i <= issued'
  <2>1. i <= issued
    BY <1>3 DEF PostsInv, PostsKept
  <2> QED
    BY <2>1, <1>t
<1>4. ASSUME NEW i \in Ids, posted[i] # 0
      PROVE  i \in cards' \cup lost' \/ \E c \in Senders : Carried(c, i)'
  BY <1>4 DEF PostsInv, PostsKept
<1>5. ASSUME subject = "poll", NEW i \in cards
      PROVE  i \in secrets' \cup lost' \/ \E c \in Senders : SecretDue(c, i)'
  BY <1>5, <1>t DEF PostsInv, PostsKept
<1>6. \A i \in Ids : posted[i] > 1 => i \in lost' \/ explained'
  BY DEF PostsInv, PostsKept
<1>7. subject \notin Registers =>
         \A c \in Senders : sender'[c].accepted => posted[sender'[c].id] # 0
  BY DEF PostsInv, PostsKept
<1> QED
  BY <1>1, <1>2, <1>3, <1>4, <1>5, <1>6, <1>7 DEF PostsKept

\* ... and after which no other command is on its way to post.
LEMMA FreshFrame ==
    ASSUME PostsInv, subject' = subject, posted' = posted,
           lost \subseteq lost', explained => explained',
           \A d \in Senders : sender'[d].step # "idle" =>
               /\ sender[d].step # "idle" /\ sender'[d].id = sender[d].id
               /\ sender[d].accepted => sender'[d].accepted
               /\ PastResolve(d)' => PastResolve(d)
    PROVE  PollsFresh' /\ ImagesFresh' /\ RegistersPostNothing'
<1>1. \A i : Unposted(i) => Unposted(i)'
  BY DEF Unposted
<1>2. PollsFresh'
  BY <1>1 DEF PostsInv, PollsFresh, Busy
<1>3. ImagesFresh'
  <2>1. \A d \in Senders : PastResolve(d)' =>
           PastResolve(d) /\ (sender[d].accepted => sender'[d].accepted)
    BY DEF PastResolve
  <2> QED
    BY <1>1, <2>1 DEF PostsInv, ImagesFresh
<1>4. RegistersPostNothing'
  BY DEF PostsInv, RegistersPostNothing
<1> QED
  BY <1>2, <1>3, <1>4

\* A command about a register posts nothing.
LEMMA RegisterFrame ==
    ASSUME SendersSound, PostsInv, subject \in Registers, subject' = subject,
           posted' = posted, cards' = cards,
           \A o \in orphans' : o.id \in lost',
           \A i \in lost' : i <= issued'
    PROVE  PostsInv'
<1>1. subject # "poll" /\ subject # "image"
  BY DEF Registers
<1>2. \A i \in Ids : posted[i] = 0
  BY DEF PostsInv, RegistersPostNothing
<1>3. cards = {}
  BY <1>2 DEF PostsInv, PostsKept, SendersSound, SendTypes
<1> QED
  BY <1>1, <1>2, <1>3
     DEF PostsInv, PostsKept, PollsFresh, ImagesFresh, RegistersPostNothing

LEMMA OrphansLost ==
    ASSUME SendersSound, PostsInv, orphans' \subseteq orphans, lost' = lost, issued' \in Nat,
           issued <= issued'
    PROVE  /\ \A o \in orphans' : o.id \in lost'
           /\ \A i \in lost' : i \in Nat /\ i <= issued'
<1>1. \A i \in lost : i \in Nat /\ i <= issued
  BY DEF SendersSound, SendTypes, PostsInv, PostsKept, Ids
<1>2. issued \in Nat
  BY DEF SendersSound, SendTypes
<1>3. \A o \in orphans' : o.id \in lost'
  BY DEF PostsInv, PostsKept
<1> QED
  BY <1>1, <1>2, <1>3

LEMMA IssuePosts ==
    ASSUME SendersSound, PostsInv, NEW c \in Senders, NEW v \in Values, Issue(c, v)
    PROVE  PostsInv'
<1>a. UNCHANGED <<subject, orphans, explained, posted, cards, secrets, lost>>
  BY DEF Issue, valueVars, postVars
<1>b. issued \in Nat /\ issued' = issued + 1
  BY IssueIs DEF SendersSound, SendTypes
<1>c. issued' \in Nat /\ issued <= issued'
  BY <1>b
<1>0. /\ UNCHANGED <<subject, orphans, explained, posted, cards, secrets, lost>>
      /\ issued \in Nat /\ issued' = issued + 1 /\ issued' \in Nat /\ issued <= issued'
  BY <1>a, <1>b, <1>c
<1>1. /\ \A o \in orphans' : o.id \in lost'
      /\ \A i \in lost' : i \in Nat /\ i <= issued'
  BY <1>0, OrphansLost
<1>2. /\ sender[c].step = "idle" /\ ~sender[c].accepted
      /\ sender'[c].step = "resolve" /\ ~sender'[c].accepted
      /\ \A d \in Senders : d # c => sender'[d] = sender[d]
  BY IssueIs DEF SendersSound, SenderSound
<1>3. PostsKept'
  BY <1>0, <1>1, <1>2, PostsFrame DEF Carried, SecretDue
<1>4. PollsFresh'
  <2> SUFFICES ASSUME subject = "poll" PROVE PollsFresh'
    BY <1>0 DEF PollsFresh
  <2> PICK n : n = issued + 1
    OBVIOUS
  <2>1. sender'[c].id = n
    BY IssueIs
  <2>2. posted[n] = 0 \/ n \notin Ids
    BY <1>0 DEF PostsInv, PostsKept
  <2>3. n \in Ids
    BY <1>0, IssueIs DEF Ids
  <2>4. \A d \in Senders : sender[d].id # n
    BY <1>0, SendAssumption DEF SendersSound, SenderSound, SendTypes, SenderRows, Ids
  <2>5. Unposted(n)'
    BY <1>a, <2>2, <2>3 DEF Unposted
  <2>6. \A i : Unposted(i) => Unposted(i)'
    BY <1>0 DEF Unposted
  <2>7. \A d \in Busy' : d = c \/ (d \in Busy /\ sender'[d] = sender[d])
    <3> SUFFICES ASSUME NEW d \in Senders, sender'[d].step # "idle", d # c
                 PROVE  d \in Busy /\ sender'[d] = sender[d]
      BY DEF Busy
    <3> QED
      BY <1>2 DEF Busy
  <2> QED
    BY <1>2, <2>1, <2>4, <2>5, <2>6, <2>7 DEF PostsInv, PollsFresh, Busy
<1>5. ImagesFresh' /\ RegistersPostNothing'
  <2>1. \A d \in Senders : PastResolve(d)' => d # c /\ PastResolve(d) /\ sender'[d] = sender[d]
    BY <1>2 DEF PastResolve
  <2> QED
    BY <1>0, <2>1 DEF PostsInv, ImagesFresh, RegistersPostNothing, Unposted
<1> QED
  BY <1>3, <1>4, <1>5 DEF PostsInv

LEMMA ResolvePosts ==
    ASSUME SendersSound, PostsInv, NEW c \in Senders, Resolve(c)
    PROVE  PostsInv'
<1>a. UNCHANGED <<subject, orphans, posted, cards, secrets, lost, issued>>
  BY DEF Resolve, postVars
<1>b. explained' = (explained \/ (subject = "image" /\ Busy # {c}))
  BY DEF Resolve
<1>c. issued \in Nat /\ issued <= issued
  BY DEF SendersSound, SendTypes
<1>0. /\ UNCHANGED <<subject, orphans, posted, cards, secrets, lost, issued>>
      /\ issued \in Nat /\ issued <= issued /\ (explained => explained')
      /\ (subject = "image" /\ Busy # {c} => explained')
  BY <1>a, <1>b, <1>c
<1>1. /\ \A o \in orphans' : o.id \in lost'
      /\ \A i \in lost' : i \in Nat /\ i <= issued'
  BY <1>0, OrphansLost
<1>d. sender[c].step = "resolve" /\ ~sender[c].accepted
  BY ResolveIs
<1>2. /\ sender[c].step = "resolve" /\ ~sender[c].accepted
      /\ ~sender'[c].accepted
      /\ (sender'[c].step # "idle" => sender'[c].id = sender[c].id)
      /\ \A d \in Senders : d # c => sender'[d] = sender[d]
  <2>1. CASE AlreadyStored(c)
    BY <1>d, <2>1, ResolveIs, GoneIs
  <2>2. CASE ~AlreadyStored(c)
    BY <1>d, <2>2, ResolveIs
  <2> QED
    BY <2>1, <2>2
<1>3. PostsKept'
  BY <1>0, <1>1, <1>2, PostsFrame DEF Carried, SecretDue
<1>4. PollsFresh' /\ RegistersPostNothing'
  <2>1. \A i : Unposted(i) => Unposted(i)'
    BY <1>0 DEF Unposted
  <2> QED
    BY <1>0, <1>2, <2>1 DEF PostsInv, PollsFresh, Busy, RegistersPostNothing
<1>5. ImagesFresh'
  <2> SUFFICES ASSUME subject = "image" PROVE ImagesFresh'
    BY <1>0 DEF ImagesFresh
  <2>1. \A d \in Senders : PastResolve(d) => d \in Busy
    BY DEF PastResolve, Busy
  <2>2. \A d \in Senders : d # c => (PastResolve(d)' <=> PastResolve(d))
    BY <1>2 DEF PastResolve
  <2>3. CASE Busy # {c}
    BY <1>0, <2>3 DEF ImagesFresh, Unposted
  <2>4. CASE Busy = {c}
    <3>1. \A d \in Senders : PastResolve(d)' => d = c
      BY <2>1, <2>2, <2>4
    <3>2. ASSUME PastResolve(c)' PROVE Unposted(0)'
      <4>1. ~AlreadyStored(c)
        BY <3>2, ResolveIs, GoneIs DEF PastResolve
      <4>2. 0 \notin cards
        BY <4>1 DEF AlreadyStored, SendersSound, SenderSound
      <4>3. \A d \in Senders : ~Carried(d, 0)
        <5>1. \A d \in Senders : sender[d].accepted => d \in Busy
          BY DEF SendersSound, SenderSound, Busy
        <5> QED
          BY <5>1, <1>2, <2>4 DEF Carried
      <4>4. posted[0] = 0 \/ 0 \in lost
        BY <4>2, <4>3, GoneIs DEF PostsInv, PostsKept
      <4> QED
        BY <4>4, <1>0 DEF Unposted
    <3> QED
      BY <3>1, <3>2 DEF ImagesFresh
  <2> QED
    BY <2>3, <2>4
<1> QED
  BY <1>3, <1>4, <1>5 DEF PostsInv

LEMMA UploadPosts ==
    ASSUME SendersSound, PostsInv, NEW c \in Senders, Upload(c)
    PROVE  PostsInv'
<1>0. /\ UNCHANGED <<subject, orphans, posted, cards, secrets, lost, issued, explained>>
      /\ issued \in Nat /\ issued <= issued
  BY DEF Upload, valueVars, postVars, SendersSound, SendTypes
<1>1. /\ \A o \in orphans' : o.id \in lost'
      /\ \A i \in lost' : i \in Nat /\ i <= issued'
  BY <1>0, OrphansLost
<1>2. /\ sender[c].step = "upload" /\ ~sender[c].accepted
      /\ ~sender'[c].accepted /\ sender'[c].step = "send" /\ sender'[c].id = sender[c].id
      /\ \A d \in Senders : d # c => sender'[d] = sender[d]
  BY UploadIs
<1>3. PostsKept'
  BY <1>0, <1>1, <1>2, PostsFrame DEF Carried, SecretDue
<1>4. PollsFresh' /\ ImagesFresh' /\ RegistersPostNothing'
  BY <1>0, <1>2, FreshFrame DEF PastResolve
<1> QED
  BY <1>3, <1>4 DEF PostsInv

LEMMA SentPosts ==
    ASSUME SendersSound, PostsInv, NEW c \in Senders, Sent(c)
    PROVE  PostsInv'
<1>0. /\ UNCHANGED <<subject, orphans, posted, cards, secrets, lost, issued, explained>>
      /\ issued \in Nat /\ issued <= issued
  BY DEF Sent, valueVars, postVars, SendersSound, SendTypes
<1>1. /\ \A o \in orphans' : o.id \in lost'
      /\ \A i \in lost' : i \in Nat /\ i <= issued'
  BY <1>0, OrphansLost
<1> PICK step : step = IF subject = "image" THEN "copy" ELSE "insert"
  OBVIOUS
<1>a. step \in {"copy", "insert"} /\ Put(c, [sender[c] EXCEPT !.step = step])
  BY DEF Sent
<1>2. /\ sender[c].step = "send" /\ sender[c].accepted
      /\ sender'[c].accepted /\ sender'[c].step \in {"copy", "insert"}
      /\ sender'[c].id = sender[c].id
      /\ \A d \in Senders : d # c => sender'[d] = sender[d]
  BY <1>a, StepIs DEF Sent
<1>3. PostsKept'
  BY <1>0, <1>1, <1>2, PostsFrame DEF Carried, SecretDue
<1>4. PollsFresh' /\ ImagesFresh' /\ RegistersPostNothing'
  BY <1>0, <1>2, FreshFrame DEF PastResolve
<1> QED
  BY <1>3, <1>4 DEF PostsInv

LEMMA AbandonPosts ==
    ASSUME SendersSound, PostsInv, NEW c \in Senders, Abandon(c)
    PROVE  PostsInv'
<1>0. /\ UNCHANGED <<subject, posted, cards, secrets, issued>>
      /\ issued \in Nat /\ issued <= issued
      /\ orphans' = orphans \cup Leaving({c}) /\ lost' = lost \cup Abandoned({c})
      /\ explained => explained'
  BY DEF Abandon, SendersSound, SendTypes
<1>2. /\ sender[c].step \notin {"idle", "secret"} /\ sender'[c].step = "idle"
      /\ ~sender'[c].accepted
      /\ \A d \in Senders : d # c => sender'[d] = sender[d]
  BY EndsIs DEF Abandon
<1>3. sender[c].sent => sender[c].id \in lost'
  BY <1>0, <1>2, LeavingIs
<1>4. \A o \in orphans' : o.id \in lost'
  <2>1. \A o \in orphans : o.id \in lost
    BY DEF PostsInv, PostsKept
  <2>2. \A o \in Leaving({c}) : o.id = sender[c].id /\ sender[c].sent
    BY LeavingIs
  <2> QED
    BY <1>0, <1>3, <2>1, <2>2
<1>5. \A i \in lost' : i \in Nat /\ i <= issued'
  <2>1. \A i \in lost : i \in Nat /\ i <= issued
    BY DEF SendersSound, SendTypes, PostsInv, PostsKept, Ids
  <2>2. sender[c].id \in Nat /\ sender[c].id <= issued
    BY DEF SendersSound, SendTypes, SenderRows, SenderSound, Ids
  <2>3. \A i \in Abandoned({c}) : i = sender[c].id
    BY LeavingIs
  <2> QED
    BY <1>0, <2>1, <2>2, <2>3
<1>6. \A d \in Senders, i \in Ids : Carried(d, i) => Carried(d, i)' \/ i \in lost'
  BY <1>2, <1>3 DEF Carried, SendersSound, SenderSound
<1>7. \A d \in Senders, i \in Ids : SecretDue(d, i) => SecretDue(d, i)' \/ i \in lost'
  BY <1>2 DEF SecretDue
<1>8. PostsKept'
  BY <1>0, <1>2, <1>4, <1>5, <1>6, <1>7, PostsFrame
<1>9. PollsFresh' /\ ImagesFresh' /\ RegistersPostNothing'
  BY <1>0, <1>2, FreshFrame DEF PastResolve
<1> QED
  BY <1>8, <1>9 DEF PostsInv

LEMMA StopPosts ==
    ASSUME SendersSound, PostsInv, StopDaemon
    PROVE  PostsInv'
<1>0. /\ UNCHANGED <<subject, posted, cards, secrets, issued>>
      /\ issued \in Nat /\ issued <= issued
      /\ orphans' = orphans \cup Leaving(Busy)
      /\ lost' = lost \cup Abandoned(Busy) \cup {sender[c].id : c \in Busy}
      /\ explained => explained'
  BY DEF StopDaemon, SendersSound, SendTypes
<1>1. Busy \in SUBSET Senders
  BY DEF Busy
<1>2. \A d \in Senders : sender'[d].step = "idle" /\ ~sender'[d].accepted
  BY AllGone DEF StopDaemon
<1>3. \A d \in Busy : sender[d].id \in lost'
  BY <1>0
<1>4. \A o \in orphans' : o.id \in lost'
  <2>1. \A o \in orphans : o.id \in lost
    BY DEF PostsInv, PostsKept
  <2>2. \A o \in Leaving(Busy) : \E d \in Busy : o.id = sender[d].id
    BY <1>1, LeavingIs
  <2> QED
    BY <1>0, <1>3, <2>1, <2>2
<1>5. \A i \in lost' : i \in Nat /\ i <= issued'
  <2>1. \A i \in lost : i \in Nat /\ i <= issued
    BY DEF SendersSound, SendTypes, PostsInv, PostsKept, Ids
  <2>2. \A d \in Senders : sender[d].id \in Nat /\ sender[d].id <= issued
    BY DEF SendersSound, SendTypes, SenderRows, SenderSound, Ids
  <2>3. \A i \in Abandoned(Busy) : \E d \in Busy : i = sender[d].id
    BY <1>1, LeavingIs
  <2> QED
    BY <1>0, <1>1, <2>1, <2>2, <2>3
<1>6. \A d \in Senders, i \in Ids : Carried(d, i) => i \in lost'
  BY <1>3 DEF Carried, SendersSound, SenderSound, Busy
<1>7. \A d \in Senders, i \in Ids : SecretDue(d, i) => i \in lost'
  BY <1>3 DEF SecretDue, Busy
<1>8. PostsKept'
  BY <1>0, <1>2, <1>4, <1>5, <1>6, <1>7, PostsFrame
<1>9. PollsFresh' /\ ImagesFresh' /\ RegistersPostNothing'
  BY <1>0, <1>2, FreshFrame DEF PastResolve
<1> QED
  BY <1>8, <1>9 DEF PostsInv

LEMMA OtherPosts ==
    ASSUME SendersSound, PostsInv,
           \/ \E v \in Values : OtherDevice(v)
           \/ DeliverEvent \/ SecondPasses
           \/ \E c \in Senders : RecordValue(c)
    PROVE  PostsInv'
<1>t. issued \in Nat /\ issued <= issued /\ issued <= issued + 1
  BY DEF SendersSound, SendTypes
<1>1. ASSUME NEW v \in Values, OtherDevice(v) PROVE PostsInv'
  <2>1. /\ UNCHANGED <<subject, orphans, posted, cards, lost>> /\ issued' = issued + 1
        /\ subject \in Registers
    BY <1>1 DEF OtherDevice, postVars
  <2>2. issued' \in Nat /\ issued <= issued'
    BY <1>t, <2>1
  <2> QED
    BY <2>1, <2>2, RegisterFrame, OrphansLost
<1>2. ASSUME NEW c \in Senders, RecordValue(c) PROVE PostsInv'
  <2>1. /\ UNCHANGED <<subject, orphans, posted, cards, lost, issued>> /\ subject \in Registers
    BY <1>2 DEF RecordValue, postVars
  <2> QED
    BY <1>t, <2>1, RegisterFrame, OrphansLost
<1>3. ASSUME DeliverEvent \/ SecondPasses PROVE PostsInv'
  <2>a. UNCHANGED <<subject, sender, orphans, posted, cards, secrets, lost, issued>>
    BY <1>3 DEF DeliverEvent, SecondPasses, postVars, valueVars
  <2>1. /\ UNCHANGED <<subject, sender, orphans, posted, cards, secrets, lost, issued>>
        /\ (explained => explained')
    <3>1. CASE DeliverEvent
      <4> PICK e \in event : explained' = (explained \/ SameSecond(e.at))
        BY <3>1 DEF DeliverEvent
      <4> QED
        BY <2>a
    <3>2. CASE SecondPasses
      BY <2>a, <3>2 DEF SecondPasses, valueVars
    <3> QED
      BY <1>3, <3>1, <3>2
  <2>2. /\ \A o \in orphans' : o.id \in lost'
        /\ \A i \in lost' : i \in Nat /\ i <= issued'
    BY <1>t, <2>1, OrphansLost
  <2>3. PostsKept'
    BY <1>t, <2>1, <2>2, PostsFrame DEF Carried, SecretDue
  <2>4. PollsFresh' /\ ImagesFresh' /\ RegistersPostNothing'
    BY <2>1, FreshFrame DEF PastResolve
  <2> QED
    BY <2>3, <2>4 DEF PostsInv
<1> QED
  BY <1>1, <1>2, <1>3

\* WhatsApp accepts a message: of a command in time, or of one that is gone.
LEMMA TakesIs ==
    ASSUME SendersSound, NEW v, NEW i \in Ids, Takes(v, i)
    PROVE  /\ subject \in Registers => posted' = posted
           /\ subject \notin Registers =>
                 /\ posted' \in [Ids -> Nat]
                 /\ posted'[i] = posted[i] + 1
                 /\ \A j \in Ids : j # i => posted'[j] = posted[j]
BY DEF Takes, SendersSound, SendTypes

LEMMA TakePosts ==
    ASSUME SendersSound, PostsInv, NEW c \in Senders, Take(c)
    PROVE  PostsInv'
<1>0. UNCHANGED <<subject, orphans, cards, secrets, lost, issued>>
  BY DEF Take
<1>t. issued \in Nat /\ issued <= issued
  BY DEF SendersSound, SendTypes
<1>l. /\ \A o \in orphans' : o.id \in lost'
      /\ \A i \in lost' : i \in Nat /\ i <= issued'
  BY <1>0, <1>t, OrphansLost
<1>1. CASE subject \in Registers
  <2>1. posted' = posted
    BY <1>1 DEF Take, Takes
  <2> QED
    BY <1>0, <1>1, <1>l, <2>1, RegisterFrame
<1>2. CASE subject \notin Registers
  <2> PICK n : n = sender[c].id
    OBVIOUS
  <2>1. n \in Ids /\ n <= issued
    BY DEF SendersSound, SendTypes, SenderRows, SenderSound
  <2>2. /\ posted \in [Ids -> Nat]
        /\ posted' \in [Ids -> Nat] /\ posted'[n] = posted[n] + 1
        /\ \A j \in Ids : j # n => posted'[j] = posted[j]
    BY <1>2, <2>1, TakesIs DEF Take, SendersSound, SendTypes
  <2>3. posted'[n] # 0 /\ \A i \in Ids : posted[i] # 0 => posted'[i] # 0
    BY <2>1, <2>2
  <2>4. /\ \A d \in Senders : /\ sender'[d].step = sender[d].step
                              /\ sender'[d].id = sender[d].id
                              /\ d # c => sender'[d].accepted = sender[d].accepted
        /\ sender'[c].accepted /\ ~sender[c].accepted /\ sender[c].step = "send"
    BY TakeIs
  <2>5. Unposted(n)
    <3>1. CASE subject = "poll"
      BY <2>4, <3>1 DEF PostsInv, PollsFresh, Busy
    <3>2. CASE subject = "image"
      BY <2>4, <3>2 DEF PostsInv, ImagesFresh, PastResolve, SendersSound, SenderSound
    <3> QED
      BY <1>2, <3>1, <3>2 DEF SendersSound, SendTypes
  <2>e. explained' = (explained \/ TakenUp # {})
    BY DEF Take
  <2>6. PostsKept'
    <3>1. \A i \in cards' : posted'[i] # 0
      BY <1>0, <2>3 DEF PostsInv, PostsKept, SendersSound, SendTypes
    <3>2. \A i \in Ids : posted'[i] # 0 => i <= issued'
      BY <1>0, <2>1, <2>2 DEF PostsInv, PostsKept
    <3>3. ASSUME NEW i \in Ids, posted'[i] # 0
          PROVE  i \in cards' \cup lost' \/ \E d \in Senders : Carried(d, i)'
      <4>1. CASE i = n
        BY <4>1, <2>4 DEF Carried
      <4>2. CASE i # n
        <5>1. i \in cards \cup lost \/ \E d \in Senders : Carried(d, i)
          BY <2>2, <3>3, <4>2 DEF PostsInv, PostsKept
        <5>2. \A d \in Senders : Carried(d, i) => Carried(d, i)'
          BY <2>4 DEF Carried
        <5> QED
          BY <1>0, <5>1, <5>2
      <4> QED
        BY <4>1, <4>2
    <3>4. subject' = "poll" =>
             \A i \in cards' : i \in secrets' \cup lost' \/ \E d \in Senders : SecretDue(d, i)'
      BY <1>0, <2>4 DEF PostsInv, PostsKept, SecretDue
    <3>5. ASSUME NEW i \in Ids, posted'[i] > 1 PROVE i \in lost' \/ explained'
      <4>1. CASE i = n
        <5>1. posted[n] # 0
          BY <2>2, <3>5, <4>1
        <5> QED
          BY <1>0, <2>5, <2>e, <4>1, <5>1 DEF Unposted
      <4>2. CASE i # n
        BY <1>0, <2>2, <2>e, <3>5, <4>2 DEF PostsInv, PostsKept
      <4> QED
        BY <4>1, <4>2
    <3>6. ASSUME NEW d \in Senders, sender'[d].accepted PROVE posted'[sender'[d].id] # 0
      <4>1. CASE d = c
        BY <2>3, <2>4, <4>1
      <4>2. CASE d # c
        <5>1. sender[d].id \in Ids
          BY DEF SendersSound, SendTypes, SenderRows
        <5> QED
          BY <1>2, <2>3, <2>4, <3>6, <4>2, <5>1 DEF PostsInv, PostsKept
      <4> QED
        BY <4>1, <4>2
    <3> QED
      BY <1>l, <3>1, <3>2, <3>3, <3>4, <3>5, <3>6 DEF PostsKept
  <2>7. PollsFresh'
    <3> SUFFICES ASSUME subject = "poll" PROVE PollsFresh'
      BY <1>0 DEF PollsFresh
    <3>1. Busy' = Busy /\ c \in Busy
      BY <2>4 DEF Busy
    <3>2. \A d \in Busy : sender[d].id = n => d = c
      BY <3>1 DEF PostsInv, PollsFresh
    <3>3. ASSUME NEW d \in Busy, ~sender'[d].accepted
          PROVE  posted'[sender'[d].id] = 0 \/ sender'[d].id \in lost' \/ explained'
      <4>1. d \in Senders /\ d # c /\ sender'[d].id = sender[d].id
        BY <2>4, <3>3 DEF Busy
      <4>2. sender[d].id \in Ids /\ sender[d].id # n
        BY <3>2, <4>1 DEF SendersSound, SendTypes, SenderRows
      <4>3. Unposted(sender[d].id)
        BY <2>4, <3>3, <4>1 DEF PostsInv, PollsFresh
      <4> QED
        BY <1>0, <2>2, <2>e, <4>1, <4>2, <4>3 DEF Unposted
    <3>4. \A d, f \in Busy : sender'[d].id = sender'[f].id => d = f
      BY <2>4 DEF PostsInv, PollsFresh, Busy
    <3> QED
      BY <3>1, <3>3, <3>4 DEF PollsFresh, Unposted
  <2>8. ImagesFresh'
    <3> SUFFICES ASSUME subject = "image" PROVE ImagesFresh'
      BY <1>0 DEF ImagesFresh
    <3>1. \A d \in Senders : (PastResolve(d)' <=> PastResolve(d)) /\ PastResolve(c)
      BY <2>4 DEF PastResolve
    <3>2. \A d, f \in Senders : PastResolve(d) /\ PastResolve(f) => d = f \/ explained
      BY DEF PostsInv, ImagesFresh
    <3>3. ASSUME NEW d \in Senders, PastResolve(d), ~sender'[d].accepted PROVE explained
      <4>1. d # c
        BY <2>4, <3>3
      <4> QED
        BY <3>1, <3>2, <3>3, <4>1
    <3> QED
      BY <2>e, <3>1, <3>2, <3>3 DEF ImagesFresh, Unposted
  <2>9. RegistersPostNothing'
    BY <1>0, <1>2 DEF RegistersPostNothing
  <2> QED
    BY <2>6, <2>7, <2>8, <2>9 DEF PostsInv
<1> QED
  BY <1>1, <1>2

LEMMA TakeOrphanPosts ==
    ASSUME SendersSound, PostsInv, NEW o \in orphans, TakeOrphan(o)
    PROVE  PostsInv'
<1>0. UNCHANGED <<subject, cards, secrets, lost, issued>> /\ explained' = TRUE
      /\ orphans' \subseteq orphans /\ sender' = NoneAlone(sender)
  BY DEF TakeOrphan
<1>t. issued \in Nat /\ issued <= issued
  BY DEF SendersSound, SendTypes
<1>l. /\ \A p \in orphans' : p.id \in lost'
      /\ \A i \in lost' : i \in Nat /\ i <= issued'
  BY <1>0, <1>t, OrphansLost
<1>1. CASE subject \in Registers
  <2>1. posted' = posted
    BY <1>1 DEF TakeOrphan, Takes
  <2> QED
    BY <1>0, <1>1, <1>l, <2>1, RegisterFrame
<1>2. CASE subject \notin Registers
  <2> PICK n : n = o.id
    OBVIOUS
  <2>1. n \in Ids /\ n \in lost /\ n <= issued
    BY DEF SendersSound, SendTypes, PostsInv, PostsKept
  <2>2. /\ posted \in [Ids -> Nat]
        /\ posted' \in [Ids -> Nat] /\ posted'[n] = posted[n] + 1
        /\ \A j \in Ids : j # n => posted'[j] = posted[j]
    BY <1>2, <2>1, TakesIs DEF TakeOrphan, SendersSound, SendTypes
  <2>3. posted'[n] # 0 /\ \A i \in Ids : posted[i] # 0 => posted'[i] # 0
    BY <2>1, <2>2
  <2>4. \A d \in Senders : /\ sender'[d].step = sender[d].step
                           /\ sender'[d].id = sender[d].id
                           /\ sender'[d].accepted = sender[d].accepted
    BY <1>0, Dimming
  <2>6. PostsKept'
    <3>1. \A i \in cards' : posted'[i] # 0
      BY <1>0, <2>3 DEF PostsInv, PostsKept, SendersSound, SendTypes
    <3>2. \A i \in Ids : posted'[i] # 0 => i <= issued'
      BY <1>0, <2>1, <2>2 DEF PostsInv, PostsKept
    <3>3. ASSUME NEW i \in Ids, posted'[i] # 0
          PROVE  i \in cards' \cup lost' \/ \E d \in Senders : Carried(d, i)'
      <4>1. CASE i = n
        BY <1>0, <2>1, <4>1
      <4>2. CASE i # n
        <5>1. i \in cards \cup lost \/ \E d \in Senders : Carried(d, i)
          BY <2>2, <3>3, <4>2 DEF PostsInv, PostsKept
        <5>2. \A d \in Senders : Carried(d, i) => Carried(d, i)'
          BY <2>4 DEF Carried
        <5> QED
          BY <1>0, <5>1, <5>2
      <4> QED
        BY <4>1, <4>2
    <3>4. subject' = "poll" =>
             \A i \in cards' : i \in secrets' \cup lost' \/ \E d \in Senders : SecretDue(d, i)'
      BY <1>0, <2>4 DEF PostsInv, PostsKept, SecretDue
    <3>6. ASSUME NEW d \in Senders, sender'[d].accepted PROVE posted'[sender'[d].id] # 0
      <4>1. sender[d].id \in Ids
        BY DEF SendersSound, SendTypes, SenderRows
      <4> QED
        BY <1>2, <2>3, <2>4, <3>6, <4>1 DEF PostsInv, PostsKept
    <3> QED
      BY <1>0, <1>l, <3>1, <3>2, <3>3, <3>4, <3>6 DEF PostsKept
  <2>7. PollsFresh'
    BY <1>0, <2>4 DEF PostsInv, PollsFresh, Busy, Unposted
  <2>8. ImagesFresh'
    BY <1>0 DEF ImagesFresh, Unposted
  <2>9. RegistersPostNothing'
    BY <1>0, <1>2 DEF RegistersPostNothing
  <2> QED
    BY <2>6, <2>7, <2>8, <2>9 DEF PostsInv
<1> QED
  BY <1>1, <1>2

LEMMA InsertCardPosts ==
    ASSUME SendersSound, PostsInv, NEW c \in Senders, InsertCard(c)
    PROVE  PostsInv'
<1>0. UNCHANGED <<subject, orphans, posted, secrets, lost, issued, explained>>
      /\ cards' = cards \cup {sender[c].id}
  BY DEF InsertCard, valueVars
<1>t. issued \in Nat /\ issued <= issued
  BY DEF SendersSound, SendTypes
<1>l. /\ \A o \in orphans' : o.id \in lost'
      /\ \A i \in lost' : i \in Nat /\ i <= issued'
  BY <1>0, <1>t, OrphansLost
<1>1. sender[c].accepted /\ subject \notin Registers /\ sender[c].step \in {"copy", "insert"}
  BY DEF InsertCard, SendersSound, SenderSound
<1>2. /\ \A d \in Senders : d # c => sender'[d] = sender[d]
      /\ \/ sender'[c].step = "idle" /\ ~sender'[c].accepted /\ subject # "poll"
         \/ /\ sender'[c].step = "secret" /\ sender'[c].id = sender[c].id
            /\ sender'[c].accepted /\ subject = "poll"
  <2>1. CASE subject = "poll"
    <3>1. Put(c, [sender[c] EXCEPT !.step = "secret"])
      BY <2>1 DEF InsertCard
    <3> QED
      BY <1>1, <2>1, <3>1, StepIs
  <2>2. CASE subject # "poll"
    <3>1. Ends(c)
      BY <2>2 DEF InsertCard
    <3> QED
      BY <2>2, <3>1, EndsIs
  <2> QED
    BY <2>1, <2>2
<1>3. PostsKept'
  <2>1. \A i \in cards' : posted'[i] # 0
    BY <1>0, <1>1 DEF PostsInv, PostsKept
  <2>2. \A i \in Ids : posted'[i] # 0 => i <= issued'
    BY <1>0 DEF PostsInv, PostsKept
  <2>3. ASSUME NEW i \in Ids, posted'[i] # 0
        PROVE  i \in cards' \cup lost' \/ \E d \in Senders : Carried(d, i)'
    <3>1. i \in cards \cup lost \/ \E d \in Senders : Carried(d, i)
      BY <1>0, <2>3 DEF PostsInv, PostsKept
    <3>2. ASSUME NEW d \in Senders, Carried(d, i) PROVE Carried(d, i)' \/ i \in cards'
      BY <1>0, <1>2, <3>2 DEF Carried
    <3> QED
      BY <1>0, <3>1, <3>2
  <2>4. ASSUME subject' = "poll", NEW i \in cards'
        PROVE  i \in secrets' \cup lost' \/ \E d \in Senders : SecretDue(d, i)'
    <3>1. CASE i = sender[c].id
      BY <1>0, <1>2, <2>4, <3>1 DEF SecretDue
    <3>2. CASE i # sender[c].id
      <4>1. i \in secrets \cup lost \/ \E d \in Senders : SecretDue(d, i)
        BY <1>0, <2>4, <3>2 DEF PostsInv, PostsKept
      <4>2. \A d \in Senders : SecretDue(d, i) => SecretDue(d, i)'
        BY <1>1, <1>2 DEF SecretDue
      <4> QED
        BY <1>0, <4>1, <4>2
    <3> QED
      BY <3>1, <3>2
  <2>5. \A i \in Ids : posted'[i] > 1 => i \in lost' \/ explained'
    BY <1>0 DEF PostsInv, PostsKept
  <2>6. \A d \in Senders : sender'[d].accepted => posted'[sender'[d].id] # 0
    BY <1>0, <1>1, <1>2 DEF PostsInv, PostsKept
  <2> QED
    BY <1>l, <2>1, <2>2, <2>3, <2>4, <2>5, <2>6 DEF PostsKept
<1>4. PollsFresh' /\ ImagesFresh' /\ RegistersPostNothing'
  BY <1>0, <1>1, <1>2, FreshFrame DEF PastResolve
<1> QED
  BY <1>3, <1>4 DEF PostsInv

LEMMA StoreSecretPosts ==
    ASSUME SendersSound, PostsInv, NEW c \in Senders, StoreSecret(c)
    PROVE  PostsInv'
<1>0. UNCHANGED <<subject, orphans, posted, cards, lost, issued, explained>>
      /\ secrets' = secrets \cup {sender[c].id} /\ Ends(c) /\ sender[c].step = "secret"
  BY DEF StoreSecret, valueVars
<1>t. issued \in Nat /\ issued <= issued
  BY DEF SendersSound, SendTypes
<1>l. /\ \A o \in orphans' : o.id \in lost'
      /\ \A i \in lost' : i \in Nat /\ i <= issued'
  BY <1>0, <1>t, OrphansLost
<1>2. /\ \A d \in Senders : d # c => sender'[d] = sender[d]
      /\ sender'[c].step = "idle" /\ ~sender'[c].accepted
  BY <1>0, EndsIs
<1>3. PostsKept'
  <2>1. \A i \in cards' : posted'[i] # 0
    BY <1>0 DEF PostsInv, PostsKept
  <2>2. \A i \in Ids : posted'[i] # 0 => i <= issued'
    BY <1>0 DEF PostsInv, PostsKept
  <2>3. ASSUME NEW i \in Ids, posted'[i] # 0
        PROVE  i \in cards' \cup lost' \/ \E d \in Senders : Carried(d, i)'
    <3>1. i \in cards \cup lost \/ \E d \in Senders : Carried(d, i)
      BY <1>0, <2>3 DEF PostsInv, PostsKept
    <3>2. ASSUME NEW d \in Senders, Carried(d, i) PROVE Carried(d, i)'
      BY <1>0, <1>2, <3>2 DEF Carried
    <3> QED
      BY <1>0, <3>1, <3>2
  <2>4. ASSUME subject' = "poll", NEW i \in cards'
        PROVE  i \in secrets' \cup lost' \/ \E d \in Senders : SecretDue(d, i)'
    <3>1. i \in secrets \cup lost \/ \E d \in Senders : SecretDue(d, i)
      BY <1>0, <2>4 DEF PostsInv, PostsKept
    <3>2. \A d \in Senders : SecretDue(d, i) => SecretDue(d, i)' \/ i \in secrets'
      BY <1>0, <1>2 DEF SecretDue
    <3> QED
      BY <1>0, <3>1, <3>2
  <2>5. \A i \in Ids : posted'[i] > 1 => i \in lost' \/ explained'
    BY <1>0 DEF PostsInv, PostsKept
  <2>6. subject' \notin Registers =>
           \A d \in Senders : sender'[d].accepted => posted'[sender'[d].id] # 0
    BY <1>0, <1>2 DEF PostsInv, PostsKept
  <2> QED
    BY <1>l, <2>1, <2>2, <2>3, <2>4, <2>5, <2>6 DEF PostsKept
<1>4. PollsFresh' /\ ImagesFresh' /\ RegistersPostNothing'
  BY <1>0, <1>2, FreshFrame DEF PastResolve
<1> QED
  BY <1>3, <1>4 DEF PostsInv

LEMMA PostsStay ==
    ASSUME SendersSound, PostsInv, SendNext
    PROVE  PostsInv'
<1>1. ASSUME NEW c \in Senders, NEW v \in Values, Issue(c, v) PROVE PostsInv'
  BY <1>1, IssuePosts
<1>2. ASSUME NEW c \in Senders,
             \/ Resolve(c) \/ Upload(c) \/ Take(c) \/ RecordValue(c) \/ Sent(c)
             \/ InsertCard(c) \/ StoreSecret(c) \/ Abandon(c)
      PROVE PostsInv'
  BY <1>2, ResolvePosts, UploadPosts, TakePosts, OtherPosts, SentPosts,
     InsertCardPosts, StoreSecretPosts, AbandonPosts
<1>3. ASSUME NEW o \in orphans, TakeOrphan(o) PROVE PostsInv'
  BY <1>3, TakeOrphanPosts
<1>4. ASSUME NEW v \in Values, OtherDevice(v) PROVE PostsInv'
  BY <1>4, OtherPosts
<1>5. ASSUME StopDaemon \/ DeliverEvent \/ SecondPasses PROVE PostsInv'
  BY <1>5, StopPosts, OtherPosts
<1> QED
  BY <1>1, <1>2, <1>3, <1>4, <1>5 DEF SendNext

-----------------------------------------------------------------------------

\* A change of this very second, the only one, is the value afterwards ...
LEMMA AppliesLatest ==
    ASSUME SendTypes, NEW v \in Values, ~SameSecond(second)
    PROVE  /\ Applied(v, second).value = v
           /\ \/ Applied(v, second).at = second
              \/ /\ subject = "reaction" /\ Applied(v, second).value = NoChoice
                 /\ Applied(v, second).removed = second
<1> PICK L : L = local
  OBVIOUS
<1>1. /\ L \in [value : Values, at : 0 .. second, removed : 0 .. second]
      /\ second \in Nat /\ L.at < second /\ L.removed < second
  BY DEF SendTypes, SameSecond
<1>2. CASE subject = "reaction" /\ v = NoChoice
  <2>1. Applied(v, second) = Reacted(L, v, second)
    BY <1>2 DEF Applied
  <2>2. Reacted(L, v, second).value = NoChoice /\ Reacted(L, v, second).removed = second
    BY <1>1, <1>2 DEF Reacted
  <2> QED
    BY <1>2, <2>1, <2>2
<1>3. CASE subject = "reaction" /\ v # NoChoice
  <2>1. Applied(v, second) = Reacted(L, v, second)
    BY <1>3 DEF Applied
  <2>2. Reacted(L, v, second) = [value |-> v, at |-> second, removed |-> 0]
    BY <1>1, <1>3 DEF Reacted
  <2> QED
    BY <2>1, <2>2
<1>4. CASE subject # "reaction"
  <2>1. Applied(v, second) = [L EXCEPT !.value = v, !.at = second]
    BY <1>1, <1>4 DEF Applied, Chosen
  <2> QED
    BY <1>1, <2>1
<1> QED
  BY <1>2, <1>3, <1>4

\* ... and none of an earlier second changes it again.
LEMMA AppliesOld ==
    ASSUME NEW n \in Nat, NEW t \in 0 .. n, t < n, NEW v \in Values,
           NEW L \in [value : Values, at : 0 .. n, removed : 0 .. n]
    PROVE  /\ L.at = n \/ (L.value = NoChoice /\ L.removed = n) =>
                 Reacted(L, v, t).value = L.value
           /\ L.at = n => Chosen(L, v, t).value = L.value
<1>1. CASE v = NoChoice
  <2>1. Reacted(L, v, t).value = (IF L.at <= t THEN NoChoice ELSE L.value)
    BY <1>1 DEF Reacted
  <2> QED
    BY <2>1 DEF Chosen
<1>2. CASE v # NoChoice
  <2>1. CASE L.removed >= t
    <3>1. Reacted(L, v, t) = L
      BY <1>2, <2>1 DEF Reacted
    <3> QED
      BY <3>1 DEF Chosen
  <2>2. CASE ~(L.removed >= t) /\ L.at > t
    <3>1. Reacted(L, v, t) = [L EXCEPT !.removed = 0]
      BY <1>2, <2>2 DEF Reacted
    <3> QED
      BY <3>1 DEF Chosen
  <2>3. CASE ~(L.removed >= t) /\ ~(L.at > t)
    BY <2>3
  <2> QED
    BY <2>1, <2>2, <2>3
<1> QED
  BY <1>1, <1>2

\* Steps that neither send nor record anything.
LEMMA ValuesFrame ==
    ASSUME ValuesInv, subject' = subject, remote' = remote, local' = local,
           event' = event, explained' = explained,
           \A d \in Senders :
               /\ sender'[d].accepted = sender[d].accepted
               /\ sender'[d].alone = sender[d].alone
               /\ sender[d].alone => sender'[d].value = sender[d].value
    PROVE  ValuesInv'
<1>1. TakenUp' = TakenUp
  BY DEF TakenUp
<1>2. TakenUp \subseteq Senders
  BY DEF TakenUp
<1> QED
  BY <1>1, <1>2 DEF ValuesInv, SameSecond, Applied

LEMMA QuietValues ==
    ASSUME SendersSound, ValuesInv, NEW c \in Senders,
           (\E v \in Values : Issue(c, v)) \/ Resolve(c) \/ SecondPasses
    PROVE  ValuesInv'
<1>1. ASSUME NEW v \in Values, Issue(c, v) PROVE ValuesInv'
  <2>1. UNCHANGED <<subject, remote, local, event, explained>>
    BY <1>1 DEF Issue, valueVars
  <2>2. /\ \A d \in Senders : d # c => sender'[d] = sender[d]
        /\ ~sender[c].accepted /\ ~sender[c].alone /\ ~sender'[c].accepted /\ ~sender'[c].alone
        /\ sender[c] \in SenderRows /\ sender'[c] \in SenderRows
    BY <1>1, IssueIs DEF SendersSound, SendTypes, SenderSound
  <2>3. sender'[c].accepted = sender[c].accepted /\ sender'[c].alone = sender[c].alone
    BY <2>2 DEF SenderRows
  <2> QED
    BY <2>1, <2>2, <2>3, ValuesFrame
<1>2. ASSUME Resolve(c) PROVE ValuesInv'
  <2> SUFFICES ASSUME subject \in Registers PROVE ValuesInv'
    BY <1>2 DEF ValuesInv, Resolve
  <2>0. subject # "image"
    BY DEF Registers
  <2>1. UNCHANGED <<subject, remote, local, event>> /\ explained' = explained
    BY <1>2, <2>0 DEF Resolve, SendersSound, SendTypes
  <2>2. /\ \A d \in Senders : d # c => sender'[d] = sender[d]
        /\ ~sender[c].alone
        /\ sender'[c].accepted = sender[c].accepted /\ sender'[c].alone = sender[c].alone
    BY <1>2, <2>0, ResolveIs DEF AlreadyStored
  <2> QED
    BY <2>1, <2>2, ValuesFrame
<1>3. ASSUME SecondPasses PROVE ValuesInv'
  <2>1. UNCHANGED <<subject, sender, remote, local, event, explained>>
    BY <1>3 DEF SecondPasses, valueVars
  <2> QED
    BY <2>1, ValuesFrame
<1> QED
  BY <1>1, <1>2, <1>3

LEMMA TakeValues ==
    ASSUME SendersSound, ValuesInv, NEW c \in Senders, Take(c)
    PROVE  ValuesInv'
<1> SUFFICES ASSUME subject \in Registers PROVE ValuesInv'
  BY DEF ValuesInv, Take
<1>1. remote' = sender[c].value /\ subject' = subject
      /\ explained' = (explained \/ TakenUp # {})
  BY DEF Take, Takes
<1>2. /\ sender'[c].accepted /\ (sender'[c].alone <=> TakenUp = {})
      /\ sender'[c].value = sender[c].value
      /\ \A d \in Senders : d # c => sender'[d].accepted = sender[d].accepted /\ ~sender'[d].alone
      /\ ~sender[c].accepted
  BY TakeIs
<1>3. TakenUp' = TakenUp \cup {c}
  BY <1>2 DEF TakenUp
<1> QED
  BY <1>1, <1>2, <1>3 DEF ValuesInv

LEMMA TakeOrphanValues ==
    ASSUME SendersSound, ValuesInv, NEW o \in orphans, TakeOrphan(o)
    PROVE  ValuesInv'
<1>1. explained' = TRUE /\ sender' = NoneAlone(sender)
  BY DEF TakeOrphan
<1>2. \A d \in Senders : ~sender'[d].alone
  BY <1>1, Dimming
<1> QED
  BY <1>1, <1>2 DEF ValuesInv

LEMMA RecordValueValues ==
    ASSUME SendersSound, ValuesInv, NEW c \in Senders, RecordValue(c)
    PROVE  ValuesInv'
<1>0. /\ subject \in Registers /\ sender[c].accepted /\ Ends(c)
      /\ UNCHANGED <<subject, remote, event, second>>
      /\ local' = Applied(sender[c].value, second)
      /\ explained' = (IF SameSecond(second) THEN TRUE ELSE explained /\ ~sender[c].alone)
  BY DEF RecordValue
<1>t. SendTypes /\ SendTypes' /\ sender[c].value \in Values
  BY RecordValueSound DEF SendersSound, SendTypes, SenderRows
<1>1. /\ ~sender'[c].accepted /\ ~sender'[c].alone
      /\ \A d \in Senders : d # c => sender'[d] = sender[d]
  BY <1>0, EndsIs
<1>2. c \in TakenUp /\ TakenUp' = TakenUp \ {c}
  BY <1>0, <1>1 DEF TakenUp
<1>3. \A d \in Senders : ~sender'[d].alone
  BY <1>0, <1>1, <1>2 DEF ValuesInv
<1>4. ASSUME ~explained'
      PROVE  /\ TakenUp' = {} /\ local'.value = remote'
             /\ \A e \in event' : SameSecond(e.at)' \/ Applied(e.value, e.at)'.value = remote'
  <2>1. ~SameSecond(second) /\ (~explained \/ sender[c].alone)
    BY <1>0, <1>4
  <2>a. sender[c].alone
    <3> SUFFICES ASSUME ~explained PROVE sender[c].alone
      BY <2>1
    <3>1. PICK d \in TakenUp : sender[d].alone
      BY <1>0, <1>2 DEF ValuesInv
    <3>2. TakenUp = {d}
      BY <1>0, <3>1 DEF ValuesInv, TakenUp
    <3> QED
      BY <1>2, <3>1, <3>2
  <2>2. TakenUp = {c} /\ remote = sender[c].value
    BY <1>0, <2>a DEF ValuesInv
  <2>3. /\ local'.value = sender[c].value
        /\ \/ local'.at = second
           \/ subject = "reaction" /\ local'.value = NoChoice /\ local'.removed = second
    BY <1>0, <1>t, <2>1, AppliesLatest
  <2>4. ASSUME NEW e \in event
        PROVE  SameSecond(e.at)' \/ Applied(e.value, e.at)'.value = remote'
    <3>1. e.value \in Values /\ e.at \in 0 .. second
      BY <1>t DEF SendTypes
    <3> PICK v \in Values, t \in 0 .. second : v = e.value /\ t = e.at
      BY <3>1
    <3>2. CASE t = second
      <4>1. SameSecond(t)'
        BY <2>3, <3>2 DEF SameSecond
      <4> QED
        BY <4>1 DEF SameSecond
    <3>3. CASE t < second
      <4>1. Applied(v, t)'.value = local'.value
        <5>1. /\ second \in Nat
              /\ local' \in [value : Values, at : 0 .. second, removed : 0 .. second]
          BY <1>0, <1>t DEF SendTypes
        <5>2. Applied(v, t)' = (IF subject = "reaction" THEN Reacted(local', v, t)
                                                        ELSE Chosen(local', v, t))
          BY <1>0 DEF Applied
        <5>3. CASE subject = "reaction"
          BY <2>3, <3>3, <5>1, <5>2, <5>3, AppliesOld
        <5>4. CASE subject # "reaction"
          BY <2>3, <3>3, <5>1, <5>2, <5>4, AppliesOld
        <5> QED
          BY <5>3, <5>4
      <4> QED
        BY <1>0, <2>2, <2>3, <4>1
    <3> QED
      BY <1>t, <3>2, <3>3 DEF SendTypes
  <2> QED
    BY <1>0, <1>2, <2>2, <2>3, <2>4
<1> QED
  BY <1>0, <1>3, <1>4 DEF ValuesInv

LEMMA AbandonValues ==
    ASSUME SendersSound, ValuesInv, NEW c \in Senders, Abandon(c)
    PROVE  ValuesInv'
<1>0. /\ UNCHANGED <<subject, remote, local, event>> /\ Ends(c)
      /\ explained' = (explained \/ sender[c].sent)
  BY DEF Abandon
<1>1. /\ ~sender'[c].accepted /\ ~sender'[c].alone
      /\ \A d \in Senders : d # c => sender'[d] = sender[d]
      /\ sender'[c] \in SenderRows /\ sender[c] \in SenderRows
  BY <1>0, EndsIs DEF SendersSound, SendTypes
<1>2. CASE sender[c].sent
  <2>1. \A d \in Senders : sender'[d].alone => sender[d].alone /\ sender'[d].value = sender[d].value
    BY <1>1
  <2>2. \A d \in Senders : sender[d].alone => d \in TakenUp
    BY DEF SendersSound, SenderSound, TakenUp
  <2>3. TakenUp' = TakenUp \ {c}
    BY <1>1 DEF TakenUp
  <2>4. \A d \in Senders : sender'[d].alone => d # c
    BY <1>1
  <2> QED
    BY <1>0, <1>2, <2>1, <2>2, <2>3, <2>4 DEF ValuesInv
<1>3. CASE ~sender[c].sent
  <2>1. ~sender[c].accepted /\ ~sender[c].alone
    BY <1>3 DEF SendersSound, SenderSound
  <2>2. sender'[c].accepted = sender[c].accepted /\ sender'[c].alone = sender[c].alone
    BY <1>1, <2>1 DEF SenderRows
  <2>3. explained' = explained
    BY <1>0, <1>3 DEF SendersSound, SendTypes
  <2> QED
    BY <1>0, <1>1, <2>1, <2>2, <2>3, ValuesFrame
<1> QED
  BY <1>2, <1>3

LEMMA StopValues ==
    ASSUME SendersSound, ValuesInv, StopDaemon
    PROVE  ValuesInv'
<1>0. /\ UNCHANGED <<subject, remote, local, event>>
      /\ explained' = (explained \/ \E c \in Busy : sender[c].sent)
  BY DEF StopDaemon
<1>1. \A d \in Senders : ~sender'[d].accepted /\ ~sender'[d].alone
  BY AllGone DEF StopDaemon
<1>2. TakenUp' = {}
  BY <1>1 DEF TakenUp
<1>3. ~explained' => ~explained /\ TakenUp = {}
  BY <1>0 DEF TakenUp, Busy, SendersSound, SenderSound
<1> QED
  BY <1>0, <1>1, <1>2, <1>3 DEF ValuesInv, SameSecond, Applied

LEMMA OtherDeviceValues ==
    ASSUME SendersSound, ValuesInv, NEW v \in Values, OtherDevice(v)
    PROVE  ValuesInv'
<1>0. /\ UNCHANGED <<subject, local, second>> /\ remote' = v
      /\ event' = {[value |-> v, at |-> second]}
      /\ explained' = (explained \/ TakenUp # {})
      /\ sender' = NoneAlone(sender)
  BY DEF OtherDevice
<1>1. \A d \in Senders : ~sender'[d].alone /\ sender'[d].accepted = sender[d].accepted
  BY <1>0, Dimming
<1>2. TakenUp' = TakenUp
  BY <1>1 DEF TakenUp
<1>3. SameSecond(second) \/ Applied(v, second).value = v
  BY AppliesLatest DEF SendersSound
<1>4. \A e \in event' : SameSecond(e.at)' \/ Applied(e.value, e.at)'.value = remote'
  BY <1>0, <1>3 DEF SameSecond, Applied
<1> QED
  BY <1>0, <1>1, <1>2, <1>4 DEF ValuesInv

LEMMA DeliverValues ==
    ASSUME SendersSound, ValuesInv, DeliverEvent
    PROVE  ValuesInv'
<1> PICK e \in event : /\ event' = {} /\ local' = Applied(e.value, e.at)
                       /\ explained' = (explained \/ SameSecond(e.at))
                       /\ UNCHANGED <<subject, sender, remote>>
  BY DEF DeliverEvent
<1>1. TakenUp' = TakenUp
  BY DEF TakenUp
<1>2. ~explained' => ~explained /\ ~SameSecond(e.at)
  OBVIOUS
<1> QED
  BY <1>1, <1>2 DEF ValuesInv

LEMMA ValuesStay ==
    ASSUME SendersSound, ValuesInv, SendNext
    PROVE  ValuesInv'
<1>1. ASSUME NEW c \in Senders, NEW v \in Values, Issue(c, v) PROVE ValuesInv'
  BY <1>1, QuietValues
<1>2. ASSUME NEW c \in Senders,
             Resolve(c) \/ Take(c) \/ RecordValue(c) \/ Abandon(c)
      PROVE ValuesInv'
  BY <1>2, QuietValues, TakeValues, RecordValueValues, AbandonValues
<1>3. ASSUME NEW c \in Senders,
             Upload(c) \/ Sent(c) \/ InsertCard(c) \/ StoreSecret(c)
      PROVE ValuesInv'
  <2>1. subject \notin Registers /\ subject' = subject
    BY <1>3 DEF Upload, Sent, InsertCard, StoreSecret, SendersSound, SenderSound, Registers
  <2> QED
    BY <2>1 DEF ValuesInv
<1>4. ASSUME NEW o \in orphans, TakeOrphan(o) PROVE ValuesInv'
  BY <1>4, TakeOrphanValues
<1>5. ASSUME NEW v \in Values, OtherDevice(v) PROVE ValuesInv'
  BY <1>5, OtherDeviceValues
<1>6. ASSUME StopDaemon \/ DeliverEvent PROVE ValuesInv'
  BY <1>6, StopValues, DeliverValues
<1>7. ASSUME SecondPasses PROVE ValuesInv'
  <2>1. UNCHANGED <<subject, sender, remote, local, event, explained>>
    BY <1>7 DEF SecondPasses, valueVars
  <2> QED
    BY <2>1, ValuesFrame
<1> QED
  BY <1>1, <1>2, <1>3, <1>4, <1>5, <1>6, <1>7 DEF SendNext

LEMMA NoChoiceStays ==
    ASSUME MessagesChooseNothing, SendNext
    PROVE  MessagesChooseNothing'
<1> USE DEF MessagesChooseNothing, valueVars
<1>1. ASSUME NEW c \in Senders,
             \/ \E v \in Values : Issue(c, v)
             \/ Resolve(c) \/ Upload(c) \/ Take(c) \/ RecordValue(c) \/ Sent(c)
             \/ InsertCard(c) \/ StoreSecret(c) \/ Abandon(c)
      PROVE MessagesChooseNothing'
  BY <1>1 DEF Issue, Resolve, Upload, Take, Takes, RecordValue, Sent, InsertCard,
              StoreSecret, Abandon
<1>2. ASSUME NEW o \in orphans, TakeOrphan(o) PROVE MessagesChooseNothing'
  BY <1>2 DEF TakeOrphan, Takes
<1>3. ASSUME NEW v \in Values, OtherDevice(v) PROVE MessagesChooseNothing'
  BY <1>3 DEF OtherDevice
<1>4. ASSUME StopDaemon \/ DeliverEvent \/ SecondPasses PROVE MessagesChooseNothing'
  BY <1>4 DEF StopDaemon, DeliverEvent, SecondPasses
<1> QED
  BY SMTT(60), <1>1, <1>2, <1>3, <1>4 DEF SendNext

-----------------------------------------------------------------------------

LEMMA SendInvariant == SendSpec => []SendInv
<1>1. SendInit => SendInv
  <2> SUFFICES ASSUME SendInit PROVE SendInv
    OBVIOUS
  <2>1. \A c \in Senders : sender[c] = Gone
    BY DEF SendInit
  <2>2. SendTypes
    <3>1. 1 \in Nat /\ 0 \in 0 .. 1 /\ 0 \in 0 .. SendEvents
      BY SendAssumption
    <3>2. local \in [value : Values, at : 0 .. second, removed : 0 .. second]
      BY <3>1, GoneIs DEF SendInit
    <3>3. /\ sender \in [Senders -> SenderRows] /\ posted \in [Ids -> Nat]
          /\ explained \in BOOLEAN /\ issued \in 0 .. SendEvents /\ second \in Nat
      BY <3>1, GoneIs DEF SendInit
    <3> QED
      BY <3>2, <3>3, GoneIs DEF SendInit, SendTypes
  <2>3. SendersSound
    BY <2>1, <2>2, GoneIs DEF SendInit, SendersSound, SenderSound
  <2>4. PostsInv
    BY <2>1, GoneIs
       DEF SendInit, PostsInv, PostsKept, PollsFresh, ImagesFresh, RegistersPostNothing,
           Busy, PastResolve
  <2>5. ValuesInv
    BY <2>1, GoneIs DEF SendInit, ValuesInv, TakenUp
  <2>6. MessagesChooseNothing
    BY DEF SendInit, MessagesChooseNothing
  <2> QED
    BY <2>3, <2>4, <2>5, <2>6 DEF SendInv
<1>2. SendInv /\ [SendNext]_sendVars => SendInv'
  <2> SUFFICES ASSUME SendInv, [SendNext]_sendVars PROVE SendInv'
    OBVIOUS
  <2>1. CASE SendNext
    BY <2>1, SendersStay, PostsStay, ValuesStay, NoChoiceStays DEF SendInv
  <2>2. CASE UNCHANGED sendVars
    <3>1. UNCHANGED <<subject, sender, orphans, remote, local, event, explained,
                      posted, cards, secrets, lost, second, issued>>
      BY <2>2 DEF sendVars, valueVars, postVars
    <3>2. SendersSound'
      BY <3>1 DEF SendInv, SendersSound, SendTypes, SenderSound
    <3>3. PostsInv'
      BY <3>1 DEF SendInv, PostsInv, PostsKept, PollsFresh, ImagesFresh, RegistersPostNothing,
                  Busy, PastResolve, Carried, SecretDue, Unposted
    <3>4. ValuesInv'
      BY <3>1, ValuesFrame DEF SendInv
    <3>5. MessagesChooseNothing'
      BY <3>1 DEF SendInv, MessagesChooseNothing
    <3> QED
      BY <3>2, <3>3, <3>4, <3>5 DEF SendInv
  <2> QED
    BY <2>1, <2>2
<1> QED
  BY <1>1, <1>2, PTL DEF SendSpec

\* Our own reaction, vote or pin is WhatsApp's once all is quiet and nothing on record
\* disturbed it; every message WhatsApp accepted is shown once, with its secret, unless
\* its command was cut off (React, VotePoll, SetChatPinned, CreatePoll, send_image).
THEOREM LocalFollows == SendSpec => []LocalFollowsRemote
<1>1. SendInv => LocalFollowsRemote
  <2> SUFFICES ASSUME SendInv PROVE LocalFollowsRemote
    OBVIOUS
  <2>1. Busy = {} => \A c \in Senders : sender[c].step = "idle" /\ ~sender[c].accepted
    BY DEF SendInv, SendersSound, SenderSound, Busy
  <2>2. Settled => local.value = remote \/ explained
    <3> SUFFICES ASSUME Settled, ~explained PROVE local.value = remote
      OBVIOUS
    <3>1. TakenUp = {} /\ event = {}
      BY <2>1 DEF Settled, TakenUp
    <3>2. CASE subject \in Registers
      BY <3>1, <3>2 DEF SendInv, ValuesInv
    <3>3. CASE subject \notin Registers
      BY <3>3 DEF SendInv, MessagesChooseNothing
    <3> QED
      BY <3>2, <3>3
  <2>3. ASSUME NEW i \in Ids
        PROVE  /\ i \in cards => posted[i] > 0
               /\ Busy = {} /\ posted[i] > 0 => i \in cards \cup lost
               /\ subject = "poll" /\ Busy = {} /\ i \in cards => i \in secrets \cup lost
               /\ posted[i] > 1 => i \in lost \/ explained
    <3>1. posted[i] \in Nat
      BY DEF SendInv, SendersSound, SendTypes
    <3>2. Busy = {} => \A c \in Senders : ~Carried(c, i) /\ ~SecretDue(c, i)
      BY <2>1 DEF Carried, SecretDue
    <3>3. PostsKept
      BY DEF SendInv, PostsInv
    <3> QED
      BY <3>1, <3>2, <3>3 DEF PostsKept
  <2> QED
    BY <2>2, <2>3 DEF LocalFollowsRemote
<1> QED
  BY <1>1, SendInvariant, PTL
=============================================================================
