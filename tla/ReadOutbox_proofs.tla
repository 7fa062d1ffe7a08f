--------------------------- MODULE ReadOutbox_proofs ---------------------------
(* Theorems about ReadOutbox, for all chats, messages, clocks and limits.      *)
EXTENDS ReadOutbox, TLAPS

\* What the loop knows about the batch it carries.
Sending == loop \in {"receipts", "marking", "finish"}

BatchIsAccountedFor ==
    /\ Sending => batch.receipts \subseteq sent \cup UNION todo
    /\ loop \in {"marking", "finish"} => todo = {}

BatchHasItsIntent == Sending => (batch.chat \in due => batch.chat \in Pending)

FinishAnswers ==
    (loop = "finish" /\ batch.chat \in due) => batch.chat \in late

\* What a MarkRead in progress knows about the messages it will flag.
MarkIsAccountedFor ==
    /\ mark.selected \subseteq In(mark.chat)
    /\ mark.step # "idle" => Unread(mark.chat) \subseteq mark.selected \cup over \cup racing
    /\ mark.step \in {"boundary", "apply"} => mark.selected \subseteq receipts \cup sent

\* A boundary is the stamp of a message that was read with it, and the one a
\* MarkRead is about to apply that of a stored one: what a boundary covers on
\* arrival comes after a message as new.
Boundaries ==
    /\ silent \subseteq read
    /\ \A c \in Chats : boundary[c] # 0 =>
          \E n \in read \cap In(c) : boundary[c] <= StampOf[n]
    /\ mark.step = "apply" /\ mark.bound # 0 =>
          \E n \in stored \cap In(mark.chat) : mark.bound = StampOf[n]

Parts ==
    /\ ReceiptsKept
    /\ ReceiptsHaveTheirIntent
    /\ SilentReadsAreExplained
    /\ IntentsLostOnlyBehindACall
    /\ SleepsOnlyAfterFailure
    /\ BatchIsAccountedFor
    /\ BatchHasItsIntent
    /\ FinishAnswers
    /\ MarkIsAccountedFor

(* The groups of a batch are its receipts: none is left out, none added.       *)
LEMMA GroupsCover ==
    ASSUME NEW mine, NEW f
    PROVE  /\ UNION {{n \in mine : f[n] = f[m]} : m \in mine} = mine
           /\ UNION ({mine} \ {{}}) = mine
<1>1. \A m \in mine : m \in {n \in mine : f[n] = f[m]}
  OBVIOUS
<1> QED BY <1>1

(* Queueing an intent adds its chat to the pending ones and removes none.      *)
LEMMA QueueAdds ==
    ASSUME intents \in [Chats -> Times \cup {0}],
           NEW c \in Chats, NEW at \in Times, Queue(c, at)
    PROVE  /\ intents' \in [Chats -> Times \cup {0}]
           /\ \A d \in Chats : intents'[d] # 0 <=> (d = c \/ intents[d] # 0)
  BY TimesAssumption DEF Queue

LEMMA NextCases ==
    ASSUME Next
    PROVE  \/ \E m \in Messages : Arrive(m)
           \/ \E m \in Messages : ArriveFocused(m)
           \/ \E c \in Chats : UnreadReceipts(c)
           \/ \E now \in Times : QueueReadReceipts(now)
           \/ ReadBoundary \/ ApplyBoundary \/ MarkReadFails
           \/ CheckClient \/ AwaitNotified
           \/ \E c \in Chats : NextReadBatch(c)
           \/ NothingPending
           \/ MarkAsRead \/ MarkChatAsRead \/ ChatMarked
           \/ FinishReadBatch \/ DeliveryFails
           \/ OnConnected \/ Disconnect \/ Restart \/ ClearAccountData
  BY DEF Next, MarkRead, LoopStep

(* Type correctness: every variable keeps its type and the loop has a batch    *)
(* exactly while deliver_pending_read delivers one.                            *)
THEOREM TypeCorrect == Spec => []TypeOK
<1> USE ChatsAssumption, MessagesAssumption, TimesAssumption
      DEF TypeOK, Idle, NoBatch, In, Unread, NoteIntent, tables, history,
          delivery, ghosts
<1>1. Init => TypeOK
  <2>1. Idle \in [step : {"idle", "queue", "boundary", "apply"}, chat : Chats \cup {0},
                  selected : SUBSET Messages, bound : Times \cup {0}]
    OBVIOUS
  <2>2. NoBatch \in [chat : Chats \cup {0}, receipts : SUBSET Messages]
    OBVIOUS
  <2>3. [c \in Chats |-> 0] \in [Chats -> Times \cup {0}]
    OBVIOUS
  <2>4. Idle.chat = 0 /\ Idle.step = "idle" /\ NoBatch.chat = 0
        /\ {} \subseteq SUBSET NoBatch.receipts
    OBVIOUS
  <2> HIDE DEF Idle, NoBatch
  <2> QED BY <2>1, <2>2, <2>3, <2>4 DEF Init
<1>2. TypeOK /\ [Next]_vars => TypeOK'
  <2> SUFFICES ASSUME TypeOK, [Next]_vars PROVE TypeOK'
    OBVIOUS
  <2>1. ASSUME NEW m \in Messages, Arrive(m) PROVE TypeOK'
    BY <2>1 DEF Arrive
  <2>2. ASSUME NEW m \in Messages, ArriveFocused(m) PROVE TypeOK'
    <3>1. intents' \in [Chats -> Times \cup {0}]
      <4>1. ChatOf[m] \in Chats /\ StampOf[m] \in Times
        OBVIOUS
      <4> QED BY <2>2, <4>1, QueueAdds DEF ArriveFocused
    <3>2. /\ receipts' \subseteq Messages /\ stored' \subseteq Messages
          /\ read' \subseteq stored' /\ wanted' \subseteq Messages
          /\ due' \subseteq Chats /\ late' \subseteq Chats /\ permit' = TRUE
      BY ZenonT(90), <2>2 DEF ArriveFocused
    <3>3. UNCHANGED <<boundary, mark, loop, batch, todo, client, stalled, sent,
                      silent, racing, over, overtaken>>
      BY <2>2 DEF ArriveFocused
    <3> QED BY <3>1, <3>2, <3>3
  <2>3. ASSUME NEW c \in Chats, UnreadReceipts(c) PROVE TypeOK'
    BY <2>3 DEF UnreadReceipts, Newest
  <2>4. ASSUME NEW now \in Times, QueueReadReceipts(now) PROVE TypeOK'
    <3>1. mark.chat \in Chats
      BY <2>4 DEF QueueReadReceipts
    <3>2. intents' \in [Chats -> Times \cup {0}]
      BY <2>4, <3>1, QueueAdds DEF QueueReadReceipts
    <3> QED BY <2>4, <3>1, <3>2 DEF QueueReadReceipts
  <2>5. CASE ReadBoundary
    <3>1. PICK top \in {StampOf[m] : m \in stored \cap In(mark.chat)} \cup {0} :
             mark' = [mark EXCEPT !.step = "apply", !.bound = top]
      BY <2>5, Zenon DEF ReadBoundary
    <3>2. top \in Times \cup {0}
      OBVIOUS
    <3>3. mark.chat # 0
      BY <2>5 DEF ReadBoundary
    <3>4. mark' = [step |-> "apply", chat |-> mark.chat,
                   selected |-> mark.selected, bound |-> top]
      BY <3>1
    <3> QED BY <2>5, <3>2, <3>3, <3>4 DEF ReadBoundary
  <2>6. CASE ApplyBoundary
    BY <2>6 DEF ApplyBoundary
  <2>7. CASE CheckClient
    BY <2>7 DEF CheckClient
  <2>8. CASE AwaitNotified
    BY <2>8 DEF AwaitNotified
  <2>9. ASSUME NEW c \in Chats, NextReadBatch(c) PROVE TypeOK'
    BY <2>9 DEF NextReadBatch
  <2>10. CASE NothingPending
    BY <2>10 DEF NothingPending
  <2>11. CASE MarkAsRead
    BY <2>11 DEF MarkAsRead
  <2>12. CASE MarkChatAsRead
    BY <2>12 DEF MarkChatAsRead
  <2>13. CASE ChatMarked
    BY <2>13 DEF ChatMarked
  <2>14. CASE FinishReadBatch
    <3>1. intents' \in [Chats -> Times \cup {0}]
      BY <2>14 DEF FinishReadBatch
    <3>2. receipts' \subseteq Messages
      BY <2>14 DEF FinishReadBatch
    <3>3. loop' = "check" /\ batch' = NoBatch /\ todo' = {}
      BY <2>14 DEF FinishReadBatch
    <3>4. UNCHANGED <<stored, read, boundary, mark, permit, client, stalled, sent,
                      wanted, silent, racing, over, overtaken, due, late>>
      BY <2>14 DEF FinishReadBatch
    <3> QED BY <3>1, <3>2, <3>3, <3>4
  <2>15. CASE DeliveryFails
    BY <2>15 DEF DeliveryFails
  <2>16. CASE OnConnected
    BY <2>16 DEF OnConnected
  <2>17. CASE Disconnect
    BY <2>17 DEF Disconnect
  <2>18. CASE Restart
    BY <2>18 DEF Restart
  <2>19. CASE ClearAccountData
    BY <2>19 DEF ClearAccountData
  <2>20. CASE UNCHANGED vars
    BY <2>20 DEF vars
  <2>21. CASE MarkReadFails
    BY <2>21 DEF MarkReadFails
  <2> QED
    BY <2>1, <2>2, <2>3, <2>4, <2>5, <2>6, <2>7, <2>8, <2>9, <2>10, <2>11,
       <2>12, <2>13, <2>14, <2>15, <2>16, <2>17, <2>18, <2>19, <2>20, <2>21, NextCases
<1> QED BY <1>1, <1>2, PTL DEF Spec

\* No step makes an applied boundary, or one about to be applied, outlast the
\* messages it is of.
LEMMA BoundariesStep == TypeOK /\ TypeOK' /\ Boundaries /\ [Next]_vars => Boundaries'
<1> SUFFICES ASSUME TypeOK, TypeOK', Boundaries, [Next]_vars PROVE Boundaries'
  OBVIOUS
<1> USE ChatsAssumption, MessagesAssumption, TimesAssumption
      DEF TypeOK, tables, history, delivery, ghosts
<1>a. ASSUME silent' = silent, read' = read, stored' = stored, boundary' = boundary,
             mark'.step = "apply" => mark' = mark
      PROVE  Boundaries'
  BY <1>a DEF Boundaries
<1>1. ASSUME NEW m \in Messages, Arrive(m) PROVE Boundaries'
  BY <1>1 DEF Arrive, Boundaries
<1>2. ASSUME NEW m \in Messages, ArriveFocused(m) PROVE Boundaries'
  <2>1. /\ stored \subseteq stored' /\ read \subseteq read'
        /\ silent' = silent /\ boundary' = boundary /\ mark' = mark
    BY <1>2 DEF ArriveFocused
  <2> QED
    BY <2>1 DEF Boundaries
<1>3. ASSUME NEW c \in Chats, UnreadReceipts(c) PROVE Boundaries'
  BY <1>3, <1>a DEF UnreadReceipts
<1>4. ASSUME NEW now \in Times, QueueReadReceipts(now) PROVE Boundaries'
  BY <1>4, <1>a DEF QueueReadReceipts
<1>5. CASE ReadBoundary
  <2>1. PICK top \in {StampOf[m] : m \in stored \cap In(mark.chat)} \cup {0} :
           mark' = [mark EXCEPT !.step = "apply", !.bound = top]
    BY <1>5, Zenon DEF ReadBoundary
  <2>2. mark'.chat = mark.chat /\ mark'.bound = top
    BY <2>1
  <2>3. top # 0 => \E n \in stored \cap In(mark.chat) : top = StampOf[n]
    BY DEF In
  <2>4. UNCHANGED <<stored, read, silent, boundary>>
    BY <1>5 DEF ReadBoundary
  <2> QED
    BY <2>2, <2>3, <2>4 DEF Boundaries
<1>6. CASE ApplyBoundary
  <2> DEFINE c == mark.chat
             bound == IF mark.bound < boundary[c] THEN boundary[c] ELSE mark.bound
             newly == {m \in Unread(c) : StampOf[m] <= bound}
  <2>1. /\ boundary' = [boundary EXCEPT ![c] = bound] /\ read' = read \cup newly
        /\ silent' \subseteq silent \cup newly /\ stored' = stored
    BY <1>6 DEF ApplyBoundary
  <2>2. mark'.step = "idle" /\ c \in Chats
    BY <1>6 DEF ApplyBoundary, Idle
  <2>3. \A d \in Chats \ {c} : boundary'[d] = boundary[d]
    BY <2>1
  <2>4. boundary'[c] = bound
    BY <2>1, <2>2
  <2>5. ASSUME bound # 0 PROVE \E n \in read' \cap In(c) : bound <= StampOf[n]
    <3>1. CASE bound = boundary[c]
      BY <2>1, <2>2, <2>5, <3>1 DEF Boundaries
    <3>2. CASE bound # boundary[c]
      <4>1. bound = mark.bound /\ mark.step = "apply"
        BY <1>6, <3>2 DEF ApplyBoundary
      <4>2. PICK n \in stored \cap In(c) : bound = StampOf[n]
        BY <2>5, <4>1 DEF Boundaries
      <4> HIDE DEF bound
      <4>3. StampOf[n] \in Nat
        OBVIOUS
      <4>4. n \in read' \cap In(c)
        BY <2>1, <4>2, <4>3 DEF Unread
      <4> QED
        BY <4>2, <4>3, <4>4
    <3> QED
      BY <3>1, <3>2
  <2> QED
    BY <2>1, <2>2, <2>3, <2>4, <2>5 DEF Boundaries
<1>7. CASE ClearAccountData
  BY <1>7 DEF ClearAccountData, Boundaries, Idle
<1>8. CASE Restart
  BY <1>8, <1>a DEF Restart, Idle
<1>9. CASE MarkReadFails
  BY <1>9, <1>a DEF MarkReadFails, Idle
<1>10. ASSUME NEW c \in Chats, NextReadBatch(c) PROVE Boundaries'
  BY <1>10, <1>a DEF NextReadBatch
<1>11. CASE \/ CheckClient \/ AwaitNotified \/ NothingPending \/ MarkAsRead
            \/ MarkChatAsRead \/ ChatMarked \/ FinishReadBatch \/ DeliveryFails
            \/ OnConnected \/ Disconnect
  BY <1>11, <1>a DEF CheckClient, AwaitNotified, NothingPending, MarkAsRead,
     MarkChatAsRead, ChatMarked, FinishReadBatch, DeliveryFails, OnConnected, Disconnect
<1>12. CASE UNCHANGED vars
  BY <1>12, <1>a DEF vars
<1> QED
  BY <1>1, <1>2, <1>3, <1>4, <1>5, <1>6, <1>7, <1>8, <1>9, <1>10, <1>11, <1>12, NextCases

\* What a boundary covers on arrival comes after a message as new that was read.
LEMMA CoveredIsOvertaken ==
    ASSUME TypeOK, Boundaries, NEW m \in Messages, Arrive(m),
           StampOf[m] <= boundary[ChatOf[m]]
    PROVE  m \in overtaken'
<1>1. ChatOf[m] \in Chats /\ StampOf[m] \in Nat /\ StampOf[m] # 0
  BY MessagesAssumption, TimesAssumption
<1>2. boundary[ChatOf[m]] \in Nat /\ boundary[ChatOf[m]] # 0
  <2>1. boundary \in [Chats -> Times \cup {0}]
    BY DEF TypeOK
  <2>2. Times \cup {0} \subseteq Nat
    BY TimesAssumption
  <2>3. boundary[ChatOf[m]] \in Times \cup {0}
    BY <1>1, <2>1, Zenon
  <2>4. boundary[ChatOf[m]] \in Nat
    BY <2>2, <2>3
  <2> QED
    BY <1>1, <2>4
<1> USE MessagesAssumption, TimesAssumption DEF TypeOK
<1>3. PICK n \in read \cap In(ChatOf[m]) : boundary[ChatOf[m]] <= StampOf[n]
  BY <1>1, <1>2 DEF Boundaries
<1>4. n \in Messages /\ StampOf[n] \in Nat
  BY DEF In
<1>5. StampOf[m] <= StampOf[n]
  BY <1>1, <1>2, <1>3, <1>4
<1>6. \E k \in Messages : Overtakes(k, m)
  BY <1>4, <1>5 DEF Overtakes
<1>7. overtaken' = IF \E k \in Messages : Overtakes(k, m) THEN overtaken \cup {m}
                                                          ELSE overtaken
  BY Zenon DEF Arrive
<1> HIDE DEF TypeOK
<1>8. overtaken' = overtaken \cup {m}
  BY <1>6, <1>7, Zenon
<1> QED
  BY <1>8

(* The inductive invariant: the safety properties with what the loop and the   *)
(* command know at each of their lock acquisitions.                            *)
THEOREM PartsHold == Spec => []Parts
<1> USE ChatsAssumption, MessagesAssumption, TimesAssumption
      DEF Idle, NoBatch, In, Unread, Pending, Sending, tables, history, delivery,
          ghosts
<1>1. Init => Parts
  BY SMTT(60) DEF Init, Parts, ReceiptsKept, ReceiptsHaveTheirIntent,
         SilentReadsAreExplained, IntentsLostOnlyBehindACall,
         SleepsOnlyAfterFailure, BatchIsAccountedFor, BatchHasItsIntent,
         FinishAnswers, MarkIsAccountedFor
<1>b. Init => Boundaries
  BY DEF Init, Boundaries
<1>2. TypeOK /\ TypeOK' /\ Boundaries /\ Parts /\ [Next]_vars => Parts'
  <2> SUFFICES ASSUME TypeOK, TypeOK', Boundaries, Parts, [Next]_vars PROVE Parts'
    OBVIOUS
  <2> USE DEF TypeOK, Parts, ReceiptsKept, ReceiptsHaveTheirIntent,
         SilentReadsAreExplained, IntentsLostOnlyBehindACall,
         SleepsOnlyAfterFailure, BatchIsAccountedFor, BatchHasItsIntent,
         FinishAnswers, MarkIsAccountedFor
  <2>1. ASSUME NEW m \in Messages, Arrive(m) PROVE Parts'
    <3>1. StampOf[m] <= boundary[ChatOf[m]] => m \in overtaken'
      BY <2>1, CoveredIsOvertaken
    <3>2. overtaken \subseteq overtaken' /\ racing \subseteq racing' /\ over' = over
      BY <2>1 DEF Arrive
    <3>3. silent' \subseteq silent \cup {n \in {m} : StampOf[n] <= boundary[ChatOf[n]]}
      BY <2>1 DEF Arrive
    <3>4. SilentReadsAreExplained'
      BY <3>1, <3>2, <3>3
    <3>5. MarkIsAccountedFor'
      BY <2>1 DEF Arrive
    <3>6. UNCHANGED <<intents, receipts, mark, loop, batch, todo, permit, client,
                      stalled, sent, wanted, due, late>>
      BY <2>1 DEF Arrive
    <3> QED BY <3>4, <3>5, <3>6
  <2>2. ASSUME NEW m \in Messages, ArriveFocused(m) PROVE Parts'
    <3>1. /\ ChatOf[m] \in Chats /\ StampOf[m] \in Times
      OBVIOUS
    <3>2. \A d \in Chats : intents'[d] # 0 <=> (d = ChatOf[m] \/ intents[d] # 0)
      BY ZenonT(90), <2>2, <3>1, QueueAdds DEF ArriveFocused
    <3>3. ReceiptsKept' /\ SilentReadsAreExplained' /\ BatchIsAccountedFor'
      BY <2>2 DEF ArriveFocused
    <3>4. ReceiptsHaveTheirIntent'
      BY <2>2, <3>2 DEF ArriveFocused
    <3>5. IntentsLostOnlyBehindACall' /\ BatchHasItsIntent' /\ FinishAnswers'
      BY <2>2, <3>1, <3>2 DEF ArriveFocused, NoteIntent, Behind
    <3>6. SleepsOnlyAfterFailure'
      BY <2>2 DEF ArriveFocused
    <3>7. MarkIsAccountedFor'
      BY <2>2 DEF ArriveFocused
    <3> QED BY <3>3, <3>4, <3>5, <3>6, <3>7
  <2>3. ASSUME NEW c \in Chats, UnreadReceipts(c) PROVE Parts'
    <3>1. PICK S \in SUBSET Unread(c) :
             /\ mark' = [step |-> "queue", chat |-> c, selected |-> S, bound |-> 0]
             /\ over' = (over \ S) \cup (Unread(c) \ S)
             /\ racing' = racing \ Unread(c)
      BY <2>3, Zenon DEF UnreadReceipts
    <3>2. UNCHANGED <<intents, receipts, stored, read, boundary, loop, batch, todo,
                      permit, client, stalled, sent, wanted, silent, overtaken, due,
                      late>>
      BY <2>3 DEF UnreadReceipts
    <3>3. SilentReadsAreExplained'
      <4>1. silent \cap Unread(c) = {}
        BY DEF Boundaries
      <4> QED BY <3>1, <3>2, <4>1
    <3>4. MarkIsAccountedFor'
      BY <3>1, <3>2
    <3>5. SleepsOnlyAfterFailure'
      <4>1. mark.step = "idle"
        BY <2>3 DEF UnreadReceipts
      <4> QED BY <3>2, <4>1
    <3> QED BY <3>1, <3>2, <3>3, <3>4, <3>5
  <2>4. ASSUME NEW now \in Times, QueueReadReceipts(now) PROVE Parts'
    <3>1. mark.chat \in Chats
      BY <2>4 DEF QueueReadReceipts
    <3>2. \A d \in Chats : intents'[d] # 0 <=> (d = mark.chat \/ intents[d] # 0)
      BY <2>4, <3>1, QueueAdds DEF QueueReadReceipts
    <3>3. ReceiptsKept' /\ SilentReadsAreExplained' /\ BatchIsAccountedFor'
      BY <2>4 DEF QueueReadReceipts
    <3>4. ReceiptsHaveTheirIntent'
      BY <2>4, <3>2 DEF QueueReadReceipts
    <3>5. IntentsLostOnlyBehindACall' /\ BatchHasItsIntent' /\ FinishAnswers'
      BY <2>4, <3>1, <3>2 DEF QueueReadReceipts, NoteIntent, Behind
    <3>6. SleepsOnlyAfterFailure'
      BY <2>4 DEF QueueReadReceipts
    <3>7. MarkIsAccountedFor'
      BY <2>4 DEF QueueReadReceipts
    <3> QED BY <3>3, <3>4, <3>5, <3>6, <3>7
  <2>5. CASE ReadBoundary
    <3>1. PICK top \in {StampOf[m] : m \in stored \cap In(mark.chat)} \cup {0} :
             mark' = [mark EXCEPT !.step = "apply", !.bound = top]
      BY <2>5, Zenon DEF ReadBoundary
    <3>2. mark' = [step |-> "apply", chat |-> mark.chat,
                   selected |-> mark.selected, bound |-> top]
      BY ZenonT(90), <3>1
    <3>3. mark.step = "boundary"
      BY <2>5 DEF ReadBoundary
    <3>4. UNCHANGED <<intents, receipts, stored, read, boundary, loop, batch, todo,
                      permit, client, stalled, sent, wanted, silent, racing, over,
                      overtaken, due, late>>
      BY <2>5 DEF ReadBoundary
    <3> QED BY <3>2, <3>3, <3>4
  <2>6. CASE ApplyBoundary
    BY <2>6 DEF ApplyBoundary
  <2>7. CASE CheckClient
    BY <2>7 DEF CheckClient
  <2>8. CASE AwaitNotified
    BY <2>8 DEF AwaitNotified
  <2>9. ASSUME NEW c \in Chats, NextReadBatch(c) PROVE Parts'
    <3> DEFINE mine == receipts \cap In(c)
    <3>1. batch' = [chat |-> c, receipts |-> mine] /\ loop' = "receipts"
      BY <2>9 DEF NextReadBatch
    <3>2. UNION todo' = mine
      <4>1. \/ todo' = {{n \in mine : SenderOf[n] = SenderOf[m]} : m \in mine}
            \/ todo' = {mine} \ {{}}
        BY <2>9, Zenon DEF NextReadBatch
      <4> HIDE DEF mine
      <4>2. /\ UNION {{n \in mine : SenderOf[n] = SenderOf[m]} : m \in mine} = mine
            /\ UNION ({mine} \ {{}}) = mine
        BY GroupsCover
      <4> QED BY <4>1, <4>2
    <3>3. c \in Pending
      BY <2>9 DEF NextReadBatch
    <3>4. UNCHANGED <<intents, receipts, stored, read, boundary, mark, permit,
                      client, stalled, sent, wanted, silent, racing, over, overtaken,
                      due, late>>
      BY <2>9 DEF NextReadBatch
    <3> HIDE DEF mine
    <3> QED BY <3>1, <3>2, <3>3, <3>4
  <2>10. CASE NothingPending
    BY <2>10 DEF NothingPending
  <2>11. CASE MarkAsRead
    BY <2>11 DEF MarkAsRead
  <2>12. CASE MarkChatAsRead
    BY <2>12 DEF MarkChatAsRead
  <2>13. CASE ChatMarked
    BY <2>13 DEF ChatMarked
  <2>14. CASE FinishReadBatch
    BY <2>14 DEF FinishReadBatch
  <2>15. CASE DeliveryFails
    BY <2>15 DEF DeliveryFails
  <2>16. CASE OnConnected
    BY <2>16 DEF OnConnected
  <2>17. CASE Disconnect
    BY <2>17 DEF Disconnect
  <2>18. CASE Restart
    BY <2>18 DEF Restart
  <2>19. CASE ClearAccountData
    BY <2>19 DEF ClearAccountData
  <2>20. CASE UNCHANGED vars
    BY <2>20 DEF vars
  <2>21. CASE MarkReadFails
    <3>1. /\ mark'.step = "idle" /\ mark'.chat = 0 /\ mark'.selected = {} /\ mark' = Idle
          /\ UNCHANGED <<intents, receipts, stored, read, boundary, loop, batch, todo,
                         permit, client, sent, wanted, silent, racing, over, overtaken,
                         due, late>>
      BY <2>21 DEF MarkReadFails
    <3>2. stalled' = (stalled \/ mark.step # "queue") /\ mark.step # "idle"
      BY <2>21 DEF MarkReadFails
    <3>3. SleepsOnlyAfterFailure'
      BY <3>1, <3>2
    <3> QED BY <3>1, <3>3
  <2> QED
    BY <2>1, <2>2, <2>3, <2>4, <2>5, <2>6, <2>7, <2>8, <2>9, <2>10, <2>11,
       <2>12, <2>13, <2>14, <2>15, <2>16, <2>17, <2>18, <2>19, <2>20, <2>21, NextCases
<1> QED BY <1>1, <1>b, <1>2, BoundariesStep, TypeCorrect, PTL DEF Spec

(* No queued receipt is lost before WhatsApp took it (finish_read_batch).      *)
THEOREM NoReceiptLost == Spec => []NoReceiptIsLost
<1>1. Parts => NoReceiptIsLost
  BY DEF Parts, NoReceiptIsLost
<1> QED BY <1>1, PartsHold, PTL

(* A message is read without a receipt only in the three explained cases.      *)
THEOREM SilentReads == Spec => []SilentReadsAreExplained
<1>1. Parts => SilentReadsAreExplained
  BY DEF Parts
<1> QED BY <1>1, PartsHold, PTL

(* A read intent is lost only behind a mark_chat_as_read already begun, and    *)
(* the loop sleeps over an intent only after a delivery, or the command that    *)
(* queued it, failed.                                                          *)
THEOREM IntentsLostOnlyThere ==
    Spec => [](IntentsLostOnlyBehindACall /\ SleepsOnlyAfterFailure)
<1>1. Parts => IntentsLostOnlyBehindACall /\ SleepsOnlyAfterFailure
  BY DEF Parts
<1> QED BY <1>1, PartsHold, PTL

(* Together: what is read here and not told to WhatsApp has a known cause, for  *)
(* any chats, messages and limit.                                              *)
THEOREM ReadLosses == Spec => []ReadLossesAreExplained
<1>1. SilentReadsAreExplained /\ IntentsLostOnlyBehindACall => ReadLossesAreExplained
  BY DEF ReadLossesAreExplained
<1> QED BY <1>1, SilentReads, IntentsLostOnlyThere, PTL
=============================================================================
