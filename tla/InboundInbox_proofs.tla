-------------------------- MODULE InboundInbox_proofs --------------------------
(* Theorems about what comes in: the inbound inbox, for every set of messages  *)
(* and every bound, and the media directory that messages and downloads fill,  *)
(* for every medium, draft and budget.                                         *)
EXTENDS InboundInbox, MediaCache, FiniteSetTheorems, SequenceTheorems,
        WellFoundedInduction, TLAPS

(* The actions of the next-state relation, for case analysis. *)
LEMMA NextCases ==
    ASSUME Next
    PROVE  \/ Connect \/ Disconnect \/ Callback
           \/ \E m \in Messages : Receive(m)
           \/ \E m \in Messages : DeleteMessage(m)
           \/ \E w \in passing : Enqueue(w)
           \/ TakeDrain \/ TakeLive \/ TakeBarrier \/ NextRecord \/ SkipUndecodable
           \/ CheckGeneration \/ ApplyText \/ ApplyOther \/ NotAccepted
           \/ FinishInbound \/ FinishError
           \/ BeginGeneration \/ RetireGeneration \/ SendBarrier \/ KeepAccount
           \/ WipeAccount \/ Restart
  BY DEF Next, Reduce, GenerationLoop

(* The first rows of the inbox are a sequence of messages. *)
LEMMA PrefixType ==
    ASSUME NEW S, NEW s \in Seq(S), NEW n \in Nat \ {0}
    PROVE  SubSeq(s, 1, IF Len(s) < n THEN Len(s) ELSE n) \in Seq(S)
<1>1. Len(s) \in Nat
  BY LenProperties
<1> QED BY <1>1, SubSeqProperties

(* Deleting a row leaves a sequence of rows with every other message. *)
LEMMA RemoveRowKeeps ==
    ASSUME inbox \in Seq(Messages), NEW m, RemoveRow(m)
    PROVE  /\ inbox' \in Seq(Messages)
           /\ Rows \ {m} \subseteq Rows'
<1>1. CASE m \notin Rows /\ inbox' = inbox
  BY <1>1 DEF Rows, Elements
<1>2. CASE \E i \in DOMAIN inbox :
             /\ inbox[i] = m
             /\ inbox' = [j \in 1 .. Len(inbox) - 1 |->
                            IF j < i THEN inbox[j] ELSE inbox[j + 1]]
  <2>1. PICK i \in DOMAIN inbox :
             /\ inbox[i] = m
             /\ inbox' = [j \in 1 .. Len(inbox) - 1 |->
                            IF j < i THEN inbox[j] ELSE inbox[j + 1]]
    BY <1>2
  <2>2. Len(inbox) \in Nat /\ DOMAIN inbox = 1 .. Len(inbox)
    BY LenProperties
  <2>3. \A j \in 1 .. Len(inbox) : inbox[j] \in Messages
    BY ElementOfSeq
  <2>4. Len(inbox) - 1 \in Nat
    BY <2>2
  <2>5. \A j \in 1 .. Len(inbox) - 1 : (IF j < i THEN inbox[j] ELSE inbox[j + 1]) \in Messages
    BY <2>2, <2>3
  <2>6. inbox' \in Seq(Messages)
    BY <2>1, <2>4, <2>5, IsASeq
  <2>7. DOMAIN inbox' = 1 .. Len(inbox) - 1
    BY <2>1
  <2>8. ASSUME NEW x \in Rows \ {m} PROVE x \in Rows'
    <3>1. PICK k \in 1 .. Len(inbox) : inbox[k] = x
      BY <2>2, <2>8 DEF Rows, Elements
    <3>2. k # i
      BY <2>1, <2>8, <3>1
    <3>3. CASE k < i
      <4>1. k \in 1 .. Len(inbox) - 1 /\ inbox'[k] = x
        BY <2>1, <2>2, <3>1, <3>3
      <4> QED BY <4>1, <2>7 DEF Rows, Elements
    <3>4. CASE k > i
      <4>1. k - 1 \in 1 .. Len(inbox) - 1 /\ inbox'[k - 1] = x
        BY <2>1, <2>2, <3>1, <3>4
      <4> QED BY <4>1, <2>7 DEF Rows, Elements
    <3> QED BY <2>2, <3>2, <3>3, <3>4
  <2> QED BY <2>6, <2>8
<1> QED BY <1>1, <1>2 DEF RemoveRow

(* Works of every kind are works, and the channel and the callbacks keep them. *)
LEMMA WorkTypes ==
    ASSUME NEW g \in Nat
    PROVE  /\ Drain(g) \in Work /\ Barrier \in Work
           /\ \A m \in Messages : Live(g, m) \in Work
  BY DEF Drain, Live, Barrier, Work

LEMMA QueueTypes ==
    ASSUME NEW q \in Seq(Work)
    PROVE  /\ \A w \in Work : Append(q, w) \in Seq(Work)
           /\ q # <<>> => Head(q) \in Work /\ Tail(q) \in Seq(Work)
  BY AppendProperties, HeadTailProperties

LEMMA RestingType == Resting \in Reducers
  BY EmptySeq DEF Resting, Reducers

(* What the steps of a reduction make of the reducer. *)
LEMMA ReducerTypes ==
    ASSUME reducer \in Reducers
    PROVE  /\ Onward \in Reducers /\ Onward.step = "next"
           /\ Finishing \in Reducers /\ Finishing.step = "finish"
           /\ Finishing.msg = reducer.msg
           /\ [reducer EXCEPT !.step = "apply"] \in Reducers
  BY DEF Onward, Finishing, Reducers

(* Type correctness: works, rows and counters of the reducer keep their types. *)
THEOREM TypeCorrect == Spec => []TypeOK
<1> USE MessagesAssumption, BoundsAssumption DEF TypeOK
<1>1. Init => TypeOK
  <2>1. <<>> \in Seq(Work) /\ <<>> \in Seq(Messages)
    BY EmptySeq
  <2>2. Resting.step = "idle"
    BY DEF Resting
  <2>3. [m \in Messages |-> 0] \in [Messages -> 0 .. 2]
    OBVIOUS
  <2>4. Init => /\ reducer \in Reducers /\ reducer.step = "idle"
                /\ toasts \in [Messages -> 0 .. 2]
                /\ events \in Seq(Work) /\ queue \in Seq(Work) /\ inbox \in Seq(Messages)
    BY <2>1, <2>2, <2>3, RestingType DEF Init
  <2>5. Init => /\ phase = "ended" /\ clock = 0 /\ link = FALSE
                /\ wiped = 0 /\ passing = {} /\ stored = {} /\ gone = {}
                /\ answered = {} /\ acked = {} /\ strayed = {} /\ left = {}
    BY DEF Init
  <2>6. 0 \in Nat
    OBVIOUS
  <2> QED BY <2>4, <2>5, <2>6
<1>2. TypeOK /\ [Next]_vars => TypeOK'
  <2> SUFFICES ASSUME TypeOK, [Next]_vars PROVE TypeOK'
    OBVIOUS
  <2>1. CASE Connect
    <3>1. events' \in Seq(Work)
      BY <2>1, WorkTypes, QueueTypes DEF Connect
    <3> QED BY <2>1, <3>1 DEF Connect, tables, ghosts
  <2>2. CASE Disconnect
    BY <2>2 DEF Disconnect, pipeline, tables, ghosts
  <2>3. CASE Callback
    BY <2>3, QueueTypes DEF Callback, session, tables, ghosts
  <2>4. ASSUME NEW m \in Messages, Receive(m) PROVE TypeOK'
    <3>1. inbox' \in Seq(Messages)
      BY <2>4, AppendProperties DEF Receive
    <3>2. events' \in Seq(Work)
      BY <2>4, WorkTypes, QueueTypes DEF Receive
    <3> QED BY <2>4, <3>1, <3>2 DEF Receive, session, ghosts
  <2>5. ASSUME NEW m \in Messages, DeleteMessage(m) PROVE TypeOK'
    BY <2>5 DEF DeleteMessage, session, pipeline, ghosts
  <2>6. ASSUME NEW w \in passing, Enqueue(w) PROVE TypeOK'
    BY <2>6, QueueTypes DEF Enqueue, session, tables, ghosts
  <2>7. CASE TakeDrain
    <3> DEFINE read == SubSeq(inbox, 1, IF Len(inbox) < DrainLimit THEN Len(inbox)
                                        ELSE DrainLimit)
    <3>1. read \in Seq(Messages)
      BY PrefixType
    <3>2. queue' \in Seq(Work) /\ Head(queue).gen \in Nat
      BY <2>7, QueueTypes DEF TakeDrain, Taking, Work
    <3>3. Rows \subseteq Messages
      BY LenProperties, ElementOfSeq DEF Rows, Elements
    <3>4. left' \subseteq Messages
      BY <2>7, <3>3 DEF TakeDrain
    <3>5. \/ reducer' = [step |-> "next", gen |-> Head(queue).gen, msg |-> NoMessage,
                        todo |-> read]
          \/ reducer' = reducer
      BY <2>7 DEF TakeDrain
    <3> HIDE DEF read
    <3>6. /\ reducer' \in Reducers
          /\ reducer'.step \in {"check", "apply", "finish"} => reducer'.msg \in Messages
      BY <3>1, <3>2, <3>5 DEF Reducers
    <3> QED BY <2>7, <3>2, <3>4, <3>6 DEF TakeDrain, session, tables
  <2>8. CASE TakeLive
    <3>1. queue' \in Seq(Work) /\ Head(queue) \in Work /\ Head(queue).kind = "live"
      BY <2>8, QueueTypes DEF TakeLive, Taking
    <3>2. <<>> \in Seq(Messages)
      BY EmptySeq
    <3>3. reducer' \in Reducers /\ reducer'.msg \in Messages
      BY <2>8, <3>1, <3>2 DEF TakeLive, Work, Reducers
    <3> QED BY <2>8, <3>1, <3>3 DEF TakeLive, session, tables, ghosts
  <2>9. CASE TakeBarrier
    BY <2>9, QueueTypes DEF TakeBarrier, Taking, tables, ghosts
  <2>10. CASE NextRecord
    <3>1. reducer.todo # <<>> => /\ Head(reducer.todo) \in Messages
                                /\ Tail(reducer.todo) \in Seq(Messages)
      <4>1. reducer.todo \in Seq(Messages)
        BY DEF Reducers
      <4> QED BY <4>1, HeadTailProperties
    <3>2. /\ reducer' \in Reducers
          /\ reducer'.step \in {"check", "apply", "finish"} => reducer'.msg \in Messages
      <4>1. CASE reducer' = Resting
        BY <4>1, RestingType DEF Resting
      <4>2. CASE reducer.todo # <<>> /\ reducer' # Resting
        <5>1. reducer' = [step |-> "check", gen |-> reducer.gen,
                          msg |-> Head(reducer.todo), todo |-> Tail(reducer.todo)]
          BY <2>10, <4>2 DEF NextRecord
        <5>2. reducer.gen \in Nat
          BY DEF Reducers
        <5> QED BY <3>1, <4>2, <5>1, <5>2 DEF Reducers
      <4> QED BY <2>10, <4>1, <4>2 DEF NextRecord
    <3> QED BY <2>10, <3>2 DEF NextRecord, session, tables, ghosts
  <2>11. CASE SkipUndecodable
    <3>1. Head(reducer.todo) \in Messages /\ Tail(reducer.todo) \in Seq(Messages)
      <4>1. reducer.todo \in Seq(Messages)
        BY DEF Reducers
      <4> QED BY <2>11, <4>1, HeadTailProperties DEF SkipUndecodable
    <3>2. reducer' \in Reducers /\ reducer'.step = "next"
      BY <2>11, <3>1 DEF SkipUndecodable, Reducers
    <3> QED BY <2>11, <3>1, <3>2 DEF SkipUndecodable, session, tables
  <2>12. CASE CheckGeneration
    BY <2>12, ReducerTypes DEF CheckGeneration, Reducers, session, tables, ghosts
  <2>13. CASE ApplyText
    <3>1. reducer' \in Reducers /\ reducer'.msg \in Messages /\ reducer.msg \in Texts
      BY <2>13, ReducerTypes DEF ApplyText
    <3>2. stored' \subseteq Texts /\ strayed' \subseteq Messages
      BY <2>13 DEF ApplyText
    <3>3. toasts' \in [Messages -> 0 .. 2]
      <4>1. toasts' = toasts \/
            toasts' = [toasts EXCEPT ![reducer.msg] = IF @ < 2 THEN @ + 1 ELSE @]
        BY <2>13 DEF ApplyText
      <4>2. \A n \in 0 .. 2 : (IF n < 2 THEN n + 1 ELSE n) \in 0 .. 2
        OBVIOUS
      <4> QED BY <4>1, <4>2
    <3> QED BY <2>13, <3>1, <3>2, <3>3 DEF ApplyText, session
  <2>14. CASE ApplyOther
    BY <2>14, ReducerTypes DEF ApplyOther, session, ghosts
  <2>15. CASE NotAccepted
    BY <2>15, ReducerTypes DEF NotAccepted, session, tables
  <2>16. CASE FinishInbound
    BY <2>16, ReducerTypes, RemoveRowKeeps DEF FinishInbound, session
  <2>17. CASE FinishError
    BY <2>17, ReducerTypes DEF FinishError, session, tables
  <2>18. CASE BeginGeneration
    BY <2>18 DEF BeginGeneration, pipeline, tables, ghosts
  <2>19. CASE RetireGeneration
    <3>1. clock' \in Nat
      BY <2>19 DEF RetireGeneration
    <3> QED BY <2>19, <3>1 DEF RetireGeneration, pipeline, tables, ghosts
  <2>20. CASE SendBarrier
    <3>1. queue' \in Seq(Work)
      BY <2>20, QueueTypes, WorkTypes DEF SendBarrier
    <3> QED BY <2>20, <3>1 DEF SendBarrier, tables, ghosts
  <2>21. CASE KeepAccount
    BY <2>21 DEF KeepAccount, pipeline, tables, ghosts
  <2>22. CASE WipeAccount
    <3>1. <<>> \in Seq(Messages)
      BY EmptySeq
    <3> QED BY <2>22, <3>1 DEF WipeAccount, pipeline
  <2>23. CASE Restart
    <3>1. <<>> \in Seq(Work) /\ Resting.step = "idle"
      BY EmptySeq DEF Resting
    <3> QED BY <2>23, <3>1, RestingType DEF Restart, tables
  <2>24. CASE UNCHANGED vars
    BY <2>24 DEF vars
  <2> QED
    BY NextCases, <2>1, <2>2, <2>3, <2>4, <2>5, <2>6, <2>7, <2>8, <2>9, <2>10, <2>11,
       <2>12, <2>13, <2>14, <2>15, <2>16, <2>17, <2>18, <2>19, <2>20, <2>21, <2>22,
       <2>23, <2>24
<1> QED BY <1>1, <1>2, PTL DEF Spec

-----------------------------------------------------------------------------
(* The generation discipline and what the reducer may delete. *)

Carried == Elements(events) \cup passing \cup Elements(queue)

\* A generation that is current only while its client runs.
Dated(g) == g <= clock /\ (g = clock => g = 0 \/ phase = "running")

\* Only the running client's works are current; the reducer writes only before
\* the barrier is answered, and never for a client from before the wipe.
Disciplined ==
    /\ \A w \in Carried : Dated(w.gen)
    /\ Dated(reducer.gen)
    /\ link => phase = "running"
    /\ wiped <= clock /\ (phase = "running" => wiped < clock)
    /\ reducer.step \in {"apply", "finish"} => phase \in {"running", "retired", "barrier"}
    /\ reducer.step = "apply" => wiped < reducer.gen

\* The reducer deletes the row only of a message that is accounted for.
Accounted ==
    /\ reducer.step = "finish" => reducer.msg \in stored \cup gone \cup answered
    /\ acked \subseteq Rows \cup stored \cup gone \cup answered
    /\ stored \cap gone = {}
    /\ \A m \in Messages : toasts[m] # 0 => toasts[m] = 1 /\ m \in stored \cup gone
    /\ strayed = {}

Inductive == Disciplined /\ Accounted

(* What a channel holds after it gains or loses a work. *)
LEMMA ChannelElements ==
    ASSUME NEW q \in Seq(Work)
    PROVE  /\ \A w \in Work : Elements(Append(q, w)) \subseteq Elements(q) \cup {w}
           /\ q # <<>> => Head(q) \in Elements(q) /\ Elements(Tail(q)) \subseteq Elements(q)
<1>1. ASSUME NEW w \in Work PROVE Elements(Append(q, w)) \subseteq Elements(q) \cup {w}
  <2>1. /\ Append(q, w) \in Seq(Work) /\ Len(Append(q, w)) = Len(q) + 1
        /\ \A i \in 1 .. Len(q) : Append(q, w)[i] = q[i]
        /\ Append(q, w)[Len(q) + 1] = w
    BY AppendProperties
  <2>2. DOMAIN Append(q, w) = 1 .. Len(q) + 1 /\ DOMAIN q = 1 .. Len(q) /\ Len(q) \in Nat
    BY <2>1, LenProperties
  <2> QED BY <2>1, <2>2 DEF Elements
<1>2. ASSUME q # <<>>
      PROVE  Head(q) \in Elements(q) /\ Elements(Tail(q)) \subseteq Elements(q)
  <2>1. /\ Tail(q) \in Seq(Work) /\ Len(Tail(q)) = Len(q) - 1
        /\ \A i \in 1 .. Len(Tail(q)) : Tail(q)[i] = q[i + 1]
    BY <1>2, HeadTailProperties
  <2>2. /\ DOMAIN Tail(q) = 1 .. Len(q) - 1 /\ DOMAIN q = 1 .. Len(q)
        /\ Len(q) \in Nat /\ Len(q) # 0
    BY <1>2, <2>1, LenProperties, EmptySeq
  <2>3. Head(q) = q[1]
    BY <1>2
  <2> QED BY <2>1, <2>2, <2>3 DEF Elements
<1> QED BY <1>1, <1>2

(* The invariant holds at the start. *)
LEMMA InductiveInit == Init => Inductive
<1>1. Elements(<<>>) = {}
  BY DEF Elements
<1> SUFFICES ASSUME Init PROVE Inductive
  OBVIOUS
<1>2. Carried = {} /\ reducer.gen = 0 /\ reducer.step = "idle"
  BY <1>1 DEF Init, Carried, Resting
<1> QED BY <1>2 DEF Init, Inductive, Disciplined, Accounted, Dated

(* The works in flight after a step: those before it, and one of the running   *)
(* client or a barrier.                                                        *)
LEMMA CarriedKept ==
    ASSUME TypeOK, Inductive, [Next]_vars
    PROVE  \A w \in Carried' : w \in Carried \/ w.gen = 0 \/ (w.gen = clock /\ phase = "running")
<1> USE DEF TypeOK
<1>1. \A g \in Nat : Drain(g) \in Work /\ Drain(g).gen = g
  BY WorkTypes DEF Drain
<1>2. \A g \in Nat, m \in Messages : Live(g, m) \in Work /\ Live(g, m).gen = g
  BY WorkTypes DEF Live
<1>3. Barrier \in Work /\ Barrier.gen = 0
  BY WorkTypes DEF Barrier
<1>4. CASE Connect
  BY <1>1, <1>4, ChannelElements DEF Connect, Carried
<1>5. CASE Callback
  BY <1>5, ChannelElements DEF Callback, Carried, session
<1>6. ASSUME NEW m \in Messages, Receive(m)
      PROVE  \A w \in Carried' : w \in Carried \/ (w.gen = clock /\ phase = "running")
  BY <1>2, <1>6, ChannelElements DEF Receive, Carried, Inductive, Disciplined
<1>7. ASSUME NEW w \in passing, Enqueue(w) PROVE Carried' \subseteq Carried
  <2>1. w \in Work
    OBVIOUS
  <2> QED BY <1>7, <2>1, ChannelElements DEF Enqueue, Carried
<1>8. CASE TakeDrain \/ TakeLive \/ TakeBarrier
  BY <1>8, ChannelElements DEF TakeDrain, TakeLive, TakeBarrier, Taking, Carried
<1>9. CASE SendBarrier
  BY <1>3, <1>9, ChannelElements DEF SendBarrier, Carried
<1>10. CASE Restart
  BY <1>10 DEF Restart, Carried, Elements
<1>11. CASE UNCHANGED <<events, passing, queue>>
  BY <1>11 DEF Carried, Elements
<1>12. CASE UNCHANGED vars
  BY <1>11, <1>12 DEF vars
<1>13. \/ Disconnect \/ (\E m \in Messages : DeleteMessage(m))
       \/ NextRecord \/ SkipUndecodable \/ CheckGeneration \/ ApplyText \/ ApplyOther
       \/ NotAccepted \/ FinishInbound \/ FinishError \/ BeginGeneration
       \/ RetireGeneration \/ KeepAccount \/ WipeAccount
       => UNCHANGED <<events, passing, queue>>
  BY DEF Disconnect, DeleteMessage, NextRecord, SkipUndecodable, CheckGeneration,
         ApplyText, ApplyOther, NotAccepted, FinishInbound, FinishError,
         BeginGeneration, RetireGeneration, KeepAccount, WipeAccount, pipeline
<1> QED
  BY NextCases, <1>4, <1>5, <1>6, <1>7, <1>8, <1>9, <1>10, <1>11, <1>12, <1>13

(* What a step makes of the reducer: its generation is its own, none or that of *)
(* a work in flight; it comes to write only for the current generation.        *)
LEMMA ReducerMoves ==
    ASSUME TypeOK, [Next]_vars
    PROVE  /\ \/ reducer'.gen \in {reducer.gen, 0}
              \/ \E w \in Carried : reducer'.gen = w.gen
           /\ reducer'.step = "apply" =>
                 \/ reducer' = reducer /\ ~Restart /\ (TakeBarrier => FALSE)
                 \/ CheckGeneration /\ IsCurrent(reducer.gen) /\ reducer'.gen = reducer.gen
           /\ reducer'.step = "finish" =>
                 \/ reducer' = reducer /\ ~Restart /\ (TakeBarrier => FALSE)
                 \/ /\ reducer.step = "apply" /\ reducer'.msg = reducer.msg
                    /\ ApplyText \/ ApplyOther
<1> USE DEF TypeOK
<1>1. CASE CheckGeneration
  BY <1>1 DEF CheckGeneration, Onward, Reducers, Restart, Resting
<1>2. CASE ApplyText \/ ApplyOther
  BY <1>2, ReducerTypes DEF ApplyText, ApplyOther, Finishing, Reducers
<1>3. CASE NotAccepted \/ FinishInbound \/ FinishError
  BY <1>3, ReducerTypes DEF NotAccepted, FinishInbound, FinishError, Onward
<1>4. CASE TakeDrain
  BY <1>4, ChannelElements DEF TakeDrain, Taking, Carried
<1>5. CASE TakeLive
  BY <1>5, ChannelElements DEF TakeLive, Taking, Carried
<1>6. CASE NextRecord
  BY <1>6 DEF NextRecord, Resting
<1>7. CASE SkipUndecodable
  BY <1>7 DEF SkipUndecodable, Reducers
<1>8. CASE Restart
  BY <1>8 DEF Restart, Resting
<1>9. CASE TakeBarrier
  BY <1>9 DEF TakeBarrier, Taking
<1>10. ASSUME UNCHANGED reducer, ~Restart, ~TakeBarrier
       PROVE  /\ reducer'.gen \in {reducer.gen, 0} /\ reducer' = reducer
  BY <1>10
<1>11. \/ Connect \/ Disconnect \/ Callback \/ (\E m \in Messages : Receive(m))
       \/ (\E m \in Messages : DeleteMessage(m)) \/ (\E w \in passing : Enqueue(w))
       \/ BeginGeneration \/ RetireGeneration \/ SendBarrier \/ KeepAccount
       \/ WipeAccount \/ UNCHANGED vars
       => UNCHANGED reducer
  BY DEF Connect, Disconnect, Callback, Receive, DeleteMessage, Enqueue, BeginGeneration,
         RetireGeneration, SendBarrier, KeepAccount, WipeAccount, pipeline, vars
<1> QED
  BY NextCases, <1>1, <1>2, <1>3, <1>4, <1>5, <1>6, <1>7, <1>8, <1>9, <1>10, <1>11

(* The steps that leave the clock, the loop and the wipe as they are, and the  *)
(* six that do not.                                                            *)
LEMMA LoopMoves ==
    ASSUME TypeOK, [Next]_vars, ~Restart
    PROVE  \/ UNCHANGED <<phase, clock, wiped>> /\ (link' => link \/ phase = "running")
           \/ BeginGeneration \/ RetireGeneration \/ SendBarrier \/ TakeBarrier
           \/ KeepAccount \/ WipeAccount
  BY NextCases
     DEF Connect, Disconnect, Callback, Receive, DeleteMessage, Enqueue, TakeDrain,
         TakeLive, NextRecord, SkipUndecodable, CheckGeneration, ApplyText, ApplyOther,
         NotAccepted, FinishInbound, FinishError, session, ghosts, vars

(* Time passes for every generation alike: what was dated stays dated.         *)
LEMMA DatedKept ==
    ASSUME TypeOK, TypeOK', NEW g \in Nat, g <= clock, g = clock => g = 0 \/ phase = "running",
           \/ clock' = clock + 1
           \/ clock' = clock /\ (phase = "running" => phase' = "running")
    PROVE  g <= clock' /\ (g = clock' => g = 0 \/ phase' = "running")
  BY DEF TypeOK

(* Every step keeps the generation discipline. *)
LEMMA DisciplinedStep ==
    ASSUME TypeOK, TypeOK', Inductive, [Next]_vars
    PROVE  Disciplined'
<1>1. CASE Restart
  <2>1. Carried' = {} /\ reducer'.gen = 0 /\ reducer'.step = "idle"
    BY <1>1 DEF Restart, Carried, Elements, Resting
  <2> QED BY <1>1, <2>1 DEF Restart, Disciplined, Dated
<1>2. CASE ~Restart
  <2>1. /\ clock \in Nat /\ clock' \in Nat /\ wiped \in Nat /\ wiped' \in Nat
        /\ reducer.gen \in Nat /\ reducer'.gen \in Nat
    BY DEF TypeOK, Reducers
  <2>2. \A w \in Carried : w.gen \in Nat
    BY LenProperties, ElementOfSeq DEF TypeOK, Carried, Elements, Work
  <2>3. /\ \A w \in Carried : w.gen <= clock /\ (w.gen = clock => w.gen = 0 \/ phase = "running")
        /\ reducer.gen <= clock /\ (reducer.gen = clock => reducer.gen = 0 \/ phase = "running")
    BY DEF Inductive, Disciplined, Dated
  <2>4. /\ \/ clock' = clock + 1
           \/ clock' = clock /\ (phase = "running" => phase' = "running")
        /\ link' => phase' = "running"
        /\ wiped' <= clock' /\ (phase' = "running" => wiped' < clock')
    <3>1. /\ link => phase = "running"
          /\ wiped <= clock /\ (phase = "running" => wiped < clock)
      BY DEF Inductive, Disciplined
    <3>2. CASE UNCHANGED <<phase, clock, wiped>> /\ (link' => link \/ phase = "running")
      BY <3>1, <3>2
    <3>3. CASE BeginGeneration
      BY <2>1, <3>1, <3>3 DEF BeginGeneration, ghosts
    <3>4. CASE RetireGeneration
      BY <2>1, <3>1, <3>4 DEF RetireGeneration, ghosts
    <3>5. CASE SendBarrier \/ KeepAccount
      BY <3>1, <3>5 DEF SendBarrier, KeepAccount, ghosts
    <3>6. CASE TakeBarrier
      BY <3>1, <3>6 DEF TakeBarrier, ghosts
    <3>7. CASE WipeAccount
      BY <2>1, <3>1, <3>7 DEF WipeAccount
    <3> QED BY <1>2, <3>2, <3>3, <3>4, <3>5, <3>6, <3>7, LoopMoves
  <2>5. \A w \in Carried' : Dated(w.gen)'
    <3> SUFFICES ASSUME NEW w \in Carried'
                 PROVE  w.gen <= clock' /\ (w.gen = clock' => w.gen = 0 \/ phase' = "running")
      BY DEF Dated
    <3>1. w \in Carried \/ w.gen = 0 \/ (w.gen = clock /\ phase = "running")
      BY CarriedKept
    <3>2. CASE w \in Carried
      BY <2>2, <2>3, <2>4, <3>2, DatedKept
    <3>3. CASE w.gen = 0
      BY <2>1, <3>3
    <3>4. CASE w.gen = clock /\ phase = "running"
      BY <2>1, <2>4, <3>4
    <3> QED BY <3>1, <3>2, <3>3, <3>4
  <2>6. Dated(reducer.gen)'
    <3>1. reducer'.gen \in {reducer.gen, 0} \/ \E w \in Carried : reducer'.gen = w.gen
      BY ReducerMoves
    <3>2. CASE reducer'.gen = 0
      BY <2>1, <3>2 DEF Dated
    <3>3. CASE reducer'.gen = reducer.gen \/ \E w \in Carried : reducer'.gen = w.gen
      BY <2>1, <2>2, <2>3, <2>4, <3>3, DatedKept DEF Dated
    <3> QED BY <3>1, <3>2, <3>3
  <2>7. reducer'.step \in {"apply", "finish"} => phase' \in {"running", "retired", "barrier"}
    <3> SUFFICES ASSUME reducer'.step \in {"apply", "finish"}
                 PROVE  phase' \in {"running", "retired", "barrier"}
      OBVIOUS
    <3>1. phase \in {"running", "retired", "barrier"} /\ ~TakeBarrier
      <4>1. CASE reducer' = reducer /\ ~TakeBarrier
        BY <4>1 DEF Inductive, Disciplined
      <4>2. CASE CheckGeneration /\ IsCurrent(reducer.gen)
        BY <2>1, <2>3, <4>2 DEF IsCurrent, CheckGeneration, TakeBarrier, Taking
      <4>3. CASE reducer.step = "apply"
        BY <4>3 DEF Inductive, Disciplined, TakeBarrier, Taking
      <4> QED BY <4>1, <4>2, <4>3, ReducerMoves
    <3> QED BY <1>2, <3>1, LoopMoves
            DEF BeginGeneration, RetireGeneration, SendBarrier, KeepAccount, WipeAccount
  <2>8. reducer'.step = "apply" => wiped' < reducer'.gen
    <3> SUFFICES ASSUME reducer'.step = "apply" PROVE wiped' < reducer'.gen
      OBVIOUS
    <3>1. wiped < reducer'.gen
      <4>1. CASE reducer' = reducer
        BY <4>1 DEF Inductive, Disciplined
      <4>2. CASE CheckGeneration /\ IsCurrent(reducer.gen) /\ reducer'.gen = reducer.gen
        BY <2>1, <2>3, <4>2 DEF IsCurrent, Inductive, Disciplined
      <4> QED BY <4>1, <4>2, ReducerMoves
    <3>2. ~WipeAccount
      BY <2>7 DEF WipeAccount
    <3> QED BY <1>2, <3>1, <3>2, LoopMoves
            DEF BeginGeneration, RetireGeneration, SendBarrier, TakeBarrier, KeepAccount,
                ghosts
  <2> QED BY <2>4, <2>5, <2>6, <2>7, <2>8 DEF Disciplined
<1> QED BY <1>1, <1>2

(* Every step keeps the account of every message. *)
LEMMA AccountedStep ==
    ASSUME TypeOK, TypeOK', Inductive, [Next]_vars
    PROVE  Accounted'
<1> USE DEF TypeOK
<1>1. /\ reducer.step = "finish" => reducer.msg \in stored \cup gone \cup answered
      /\ acked \subseteq Rows \cup stored \cup gone \cup answered
      /\ stored \cap gone = {}
      /\ \A m \in Messages : toasts[m] # 0 => toasts[m] = 1 /\ m \in stored \cup gone
      /\ strayed = {}
  BY DEF Inductive, Accounted
<1>2. ASSUME UNCHANGED <<inbox, stored, gone, answered, acked, toasts, strayed>>,
             reducer'.step # "finish" \/ reducer' = reducer
      PROVE  Accounted'
  BY <1>1, <1>2 DEF Accounted, Rows, Elements
<1>3. CASE Connect \/ Disconnect \/ Callback \/ \E w \in passing : Enqueue(w)
  BY <1>2, <1>3 DEF Connect, Disconnect, Callback, Enqueue, pipeline, tables, ghosts
<1>4. ASSUME NEW m \in Messages, Receive(m) PROVE Accounted'
  <2>1. Rows' = Rows \cup {m}
    <3>1. CASE m \in Rows
      BY <1>4, <3>1 DEF Receive, Rows, Elements
    <3>2. CASE m \notin Rows
      <4>1. inbox' = Append(inbox, m)
        BY <1>4, <3>2 DEF Receive
      <4>2. /\ inbox' \in Seq(Messages) /\ Len(inbox') = Len(inbox) + 1
            /\ \A i \in 1 .. Len(inbox) : inbox'[i] = inbox[i]
            /\ inbox'[Len(inbox) + 1] = m
        BY <4>1, AppendProperties
      <4>3. DOMAIN inbox' = 1 .. Len(inbox) + 1 /\ DOMAIN inbox = 1 .. Len(inbox)
            /\ Len(inbox) \in Nat
        BY <4>2, LenProperties
      <4>4. Rows' \subseteq Rows \cup {m}
        BY SMTT(60), <4>2, <4>3 DEF Rows, Elements
      <4>5. Rows \subseteq Rows'
        BY <4>2, <4>3 DEF Rows, Elements
      <4>6. m \in Rows'
        <5>1. Len(inbox) + 1 \in DOMAIN inbox'
          BY <4>3
        <5> QED BY <4>2, <5>1 DEF Rows, Elements
      <4> QED BY <4>4, <4>5, <4>6
    <3> QED BY <3>1, <3>2
  <2> QED BY <1>1, <1>4, <2>1 DEF Receive, ghosts, Accounted
<1>5. ASSUME NEW m \in Messages, DeleteMessage(m) PROVE Accounted'
  <2>1. Rows' = Rows
    BY <1>5 DEF DeleteMessage, Rows, Elements
  <2> QED BY <1>1, <1>5, <2>1 DEF DeleteMessage, pipeline, ghosts, Accounted
<1>6. CASE TakeDrain \/ TakeLive \/ TakeBarrier
  BY <1>2, <1>6 DEF TakeDrain, TakeLive, TakeBarrier, tables, ghosts
<1>7. CASE NextRecord \/ SkipUndecodable \/ CheckGeneration
  <2>1. CASE NextRecord
    <3>1. reducer'.step # "finish"
      BY <2>1 DEF NextRecord, Resting, Reducers
    <3> QED BY <1>2, <2>1, <3>1 DEF NextRecord, tables, ghosts
  <2>2. CASE SkipUndecodable
    <3>1. reducer'.step # "finish"
      BY <2>2, ReducerTypes DEF SkipUndecodable
    <3> QED BY <1>2, <2>2, <3>1 DEF SkipUndecodable, tables, ghosts
  <2>3. CASE CheckGeneration
    <3>1. reducer'.step # "finish"
      BY <2>3, ReducerTypes DEF CheckGeneration, Resting, Reducers
    <3> QED BY <1>2, <2>3, <3>1 DEF CheckGeneration, tables, ghosts
  <2> QED BY <1>7, <2>1, <2>2, <2>3
<1>8. CASE ApplyText
  <2>1. reducer'.step = "finish" /\ reducer'.msg = reducer.msg /\ Rows' = Rows
    BY <1>8, ReducerTypes DEF ApplyText, Rows, Elements
  <2>2. reducer.gen \in Nat /\ wiped < reducer.gen /\ reducer.msg \in Messages
    BY <1>8 DEF ApplyText, Inductive, Disciplined, Reducers
  <2>3. CASE reducer.msg \in stored \cup gone
    BY <1>1, <1>8, <2>1, <2>3 DEF ApplyText, Accounted
  <2>4. CASE reducer.msg \notin stored \cup gone
    <3>1. /\ stored' = stored \cup {reducer.msg} /\ strayed' = {}
          /\ toasts' = [toasts EXCEPT ![reducer.msg] = IF @ < 2 THEN @ + 1 ELSE @]
          /\ UNCHANGED <<gone, answered, acked>>
      BY <1>1, <1>8, <2>2, <2>4 DEF ApplyText
    <3>2. toasts[reducer.msg] = 0
      BY <1>1, <2>2, <2>4
    <3>3. \A m \in Messages : toasts'[m] # 0 => toasts'[m] = 1 /\ m \in stored' \cup gone'
      <4>1. toasts'[reducer.msg] = 1
        BY <2>2, <3>1, <3>2
      <4>2. \A m \in Messages \ {reducer.msg} : toasts'[m] = toasts[m]
        BY <3>1
      <4> QED BY <1>1, <3>1, <4>1, <4>2
    <3> QED BY <1>1, <2>1, <2>4, <3>1, <3>3 DEF Accounted
  <2> QED BY <2>3, <2>4
<1>9. CASE ApplyOther
  <2>1. reducer'.step = "finish" /\ reducer'.msg = reducer.msg /\ Rows' = Rows
    BY <1>9, ReducerTypes DEF ApplyOther, Rows, Elements
  <2> QED BY <1>1, <1>9, <2>1 DEF ApplyOther, ghosts, Accounted
<1>10. CASE NotAccepted \/ FinishError
  BY <1>2, <1>10, ReducerTypes DEF NotAccepted, FinishError, tables
<1>11. CASE FinishInbound
  <2>1. Rows \ {reducer.msg} \subseteq Rows'
    BY <1>11, RemoveRowKeeps DEF FinishInbound
  <2>2. reducer'.step # "finish"
    BY <1>11, ReducerTypes DEF FinishInbound
  <2>3. reducer.msg \in stored \cup gone \cup answered
    BY <1>1, <1>11 DEF FinishInbound
  <2> QED BY <1>1, <1>11, <2>1, <2>2, <2>3 DEF FinishInbound, Accounted
<1>12. CASE BeginGeneration \/ RetireGeneration \/ SendBarrier \/ KeepAccount
  BY <1>2, <1>12
     DEF BeginGeneration, RetireGeneration, SendBarrier, KeepAccount, pipeline, tables, ghosts
<1>13. CASE WipeAccount
  <2>1. reducer' = reducer /\ reducer.step # "finish"
    BY <1>13 DEF WipeAccount, pipeline, Inductive, Disciplined
  <2> QED BY <1>1, <1>13, <2>1 DEF WipeAccount, Accounted
<1>14. CASE Restart
  BY <1>2, <1>14 DEF Restart, Resting, tables
<1>15. CASE UNCHANGED vars
  BY <1>2, <1>15 DEF vars
<1> QED
  BY NextCases, <1>3, <1>4, <1>5, <1>6, <1>7, <1>8, <1>9, <1>10, <1>11, <1>12, <1>13,
     <1>14, <1>15

(* The discipline of generations and the account of every message always hold. *)
THEOREM InductiveHolds == Spec => []Inductive
<1>1. TypeOK /\ TypeOK' /\ Inductive /\ [Next]_vars => Inductive'
  BY DisciplinedStep, AccountedStep DEF Inductive
<1> QED BY <1>1, InductiveInit, TypeCorrect, PTL DEF Spec

(* Commit before acknowledgement: whatever crashes, SQLite errors and retired  *)
(* generations come between, a message WhatsApp will not send again is in the  *)
(* inbox, in the history, deleted by the user or accepted.                     *)
THEOREM Acknowledged == Spec => []AcknowledgedIsKept
<1>1. Inductive => AcknowledgedIsKept
  BY DEF Inductive, Accounted, AcknowledgedIsKept
<1> QED BY <1>1, InductiveHolds, PTL

(* Notification policy: redelivery, replay and restart announce a message once. *)
(* A deleted message does not come back from the inbox or the channel.         *)
THEOREM EffectsOnce == Spec => []EffectsComeOnce
<1>1. TypeOK /\ Inductive => AnnouncedOnce
  BY DEF Inductive, Accounted, AnnouncedOnce, TypeOK
<1>2. Inductive => DeletedStaysDeleted
  BY DEF Inductive, Accounted, DeletedStaysDeleted
<1>3. TypeOK /\ Inductive => EffectsComeOnce
  BY <1>1, <1>2 DEF EffectsComeOnce
<1> QED BY <1>3, TypeCorrect, InductiveHolds, PTL

(* The barrier makes the wipe final: no client from before a logout writes a   *)
(* message into the history of the account that follows.                       *)
THEOREM WipeFinal == Spec => []WipeIsFinal
<1>1. Inductive => WipeIsFinal
  BY DEF Inductive, Accounted, WipeIsFinal
<1> QED BY <1>1, InductiveHolds, PTL

-----------------------------------------------------------------------------
(* The media directory (assets.rs): numbers of bytes first *)

\* Of a finite set of numbers, how many come before each.
PlaceIn(S, i) == Cardinality({j \in S : j < i})

\* The places of the members of S are all different and leave none out.
LEMMA PlacesFill ==
    ASSUME NEW S \in SUBSET Nat, IsFiniteSet(S)
    PROVE  /\ Cardinality(S) \in Nat
           /\ \A i \in S : PlaceIn(S, i) \in 0..(Cardinality(S) - 1)
           /\ \A i, j \in S : PlaceIn(S, i) = PlaceIn(S, j) => i = j
           /\ \A k \in 0..(Cardinality(S) - 1) : \E i \in S : PlaceIn(S, i) = k
<1>1. Cardinality(S) \in Nat
  BY FS_CardinalityType
<1> DEFINE U(i) == {j \in S : j < i}
           T == 0..(Cardinality(S) - 1)
           f == [i \in S |-> PlaceIn(S, i)]
<1>2. \A i \in S : /\ IsFiniteSet(U(i)) /\ Cardinality(U(i)) \in Nat
                   /\ U(i) \subseteq S /\ i \notin U(i)
  <2> SUFFICES ASSUME NEW i \in S PROVE IsFiniteSet(U(i)) /\ i \notin U(i)
    BY FS_CardinalityType
  <2>1. U(i) \in SUBSET S
    OBVIOUS
  <2>2. ~(i < i)
    OBVIOUS
  <2> QED
    BY <2>1, <2>2, FS_Subset
<1>3. \A i, j \in S : i < j => Cardinality(U(i)) < Cardinality(U(j))
  <2> SUFFICES ASSUME NEW i \in S, NEW j \in S, i < j PROVE Cardinality(U(i)) < Cardinality(U(j))
    OBVIOUS
  <2>0. \A k \in S : k < i => k < j
    <3>1. \A k \in Nat : \A a, b \in Nat : k < a /\ a < b => k < b
      OBVIOUS
    <3> QED
      BY <3>1
  <2>1. U(i) \in SUBSET U(j) /\ i \in U(j)
    BY <2>0
  <2>2. IsFiniteSet(U(j)) /\ U(i) # U(j)
    BY <1>2, <2>1
  <2> HIDE DEF U
  <2>3. Cardinality(U(i)) <= Cardinality(U(j)) /\ Cardinality(U(i)) # Cardinality(U(j))
    BY <2>1, <2>2, FS_Subset
  <2>4. Cardinality(U(i)) \in Nat /\ Cardinality(U(j)) \in Nat
    BY <1>2
  <2> QED
    BY <2>3, <2>4
<1>4. \A i \in S : PlaceIn(S, i) \in T
  <2> SUFFICES ASSUME NEW i \in S PROVE Cardinality(U(i)) \in T
    BY DEF PlaceIn
  <2>1. U(i) \in SUBSET S /\ U(i) # S
    BY <1>2
  <2>2. Cardinality(U(i)) <= Cardinality(S) /\ Cardinality(U(i)) # Cardinality(S)
    <3> HIDE DEF U
    <3> QED
      BY <2>1, FS_Subset
  <2>3. Cardinality(U(i)) \in Nat
    BY <1>2
  <2> HIDE DEF U
  <2> QED
    BY <1>1, <2>2, <2>3
<1>5. \A i, j \in S : PlaceIn(S, i) = PlaceIn(S, j) => i = j
  <2> SUFFICES ASSUME NEW i \in S, NEW j \in S, Cardinality(U(i)) = Cardinality(U(j)), i # j
               PROVE  FALSE
    BY DEF PlaceIn
  <2>1. i < j \/ j < i
    OBVIOUS
  <2>2. Cardinality(U(i)) < Cardinality(U(j)) \/ Cardinality(U(j)) < Cardinality(U(i))
    BY <1>3, <2>1
  <2>3. Cardinality(U(i)) \in Nat /\ Cardinality(U(j)) \in Nat
    BY <1>2
  <2> HIDE DEF U
  <2> QED
    BY <2>2, <2>3
<1>6. IsFiniteSet(T) /\ Cardinality(T) = Cardinality(S)
  <2>1. Cardinality(S) - 1 \in Int
    BY <1>1
  <2>2. /\ IsFiniteSet(T)
        /\ Cardinality(T) = IF 0 > Cardinality(S) - 1 THEN 0 ELSE Cardinality(S) - 1 - 0 + 1
    BY <2>1, FS_Interval
  <2> QED
    BY <1>1, <2>2
<1> HIDE DEF T
<1>7. f \in Injection(S, T)
  BY <1>4, <1>5 DEF Injection, IsInjective
<1>8. f \in Surjection(S, T)
  BY <1>6, <1>7, FS_Injection
<1>9. \A k \in T : \E i \in S : PlaceIn(S, i) = k
  BY <1>8 DEF Surjection
<1> QED
  BY <1>1, <1>4, <1>5, <1>9 DEF T

\* Of the sets in W one has no other below it.
LEMMA Innermost ==
    ASSUME NEW S, IsFiniteSet(S), NEW W \in SUBSET (SUBSET S), W # {}
    PROVE  \E T \in W : \A U \in W : U \subseteq T => U = T
<1>1. IsWellFoundedOn(StrictSubsetOrdering(S), SUBSET S)
  BY FS_StrictSubsetOrderingWellFounded, FS_FiniteSubsetsOfFinite
<1>2. PICK T \in W : \A U \in W : ~(<<U, T>> \in StrictSubsetOrdering(S))
  <2>1. W \subseteq SUBSET S
    OBVIOUS
  <2> QED
    BY <1>1, <2>1, WFMin
<1>3. \A U \in W : U \subseteq T => U = T
  <2> SUFFICES ASSUME NEW U \in W, U \subseteq T, U # T PROVE FALSE
    OBVIOUS
  <2>1. <<U, T>> \in (SUBSET S) \X (SUBSET S)
    OBVIOUS
  <2>2. <<U, T>> \in StrictSubsetOrdering(S)
    BY <2>1 DEF StrictSubsetOrdering
  <2> QED
    BY <1>2, <2>2
<1> QED
  BY <1>3

FileName ==
    [of : Attachments \cup Drafts, at : {"lid", "phone", "staged"}, part : {"full", "preview", "bare"}]
FileType ==
    [name : FileName, size : 0..(Declared + 1), is : {"whole", "preview", "frame", "copying", "cut"}]

\* A directory has one file of a name.
Tidy(c) ==
    /\ c \in Seq(FileType)
    /\ \A i, j \in DOMAIN c : c[i].name = c[j].name => i = j

\* The files of F with a name in N.
NamedIn(F, N) == {f \in F : f.name \in N}

\* The files of a directory: finitely many, and one of a name.
LEMMA FilesOf ==
    ASSUME NEW c, Tidy(c)
    PROVE  /\ Range(c) \in SUBSET FileType /\ IsFiniteSet(Range(c))
           /\ \A f, g \in Range(c) : f.name = g.name => f = g
           /\ Held(c) = {f.name : f \in Range(c)}
           /\ \A f \in Range(c) : FileAt(c, f.name) = f
           /\ \A n \in Held(c) : FileAt(c, n) \in Range(c) /\ FileAt(c, n).name = n
<1>1. c \in Seq(FileType) /\ \A i, j \in DOMAIN c : c[i].name = c[j].name => i = j
  BY DEF Tidy
<1>2. Len(c) \in Nat /\ DOMAIN c = 1..Len(c) /\ \A i \in DOMAIN c : c[i] \in FileType
  BY <1>1
<1>3. Range(c) \in SUBSET FileType /\ \A f, g \in Range(c) : f.name = g.name => f = g
  BY <1>1, <1>2 DEF Range
<1>4. IsFiniteSet(Range(c))
  <2>1. IsFiniteSet(DOMAIN c)
    <3>1. 1 \in Int /\ Len(c) \in Int
      BY <1>2
    <3> QED
      BY <1>2, <3>1, FS_Interval
  <2>2. c \in Surjection(DOMAIN c, Range(c))
    BY <1>1, <1>2 DEF Surjection, Range
  <2> QED
    BY <2>1, <2>2, FS_Surjection
<1>5. Held(c) = {f.name : f \in Range(c)}
  BY DEF Held, Range
<1>6. \A f \in Range(c) : FileAt(c, f.name) = f
  <2> SUFFICES ASSUME NEW f \in Range(c) PROVE FileAt(c, f.name) = f
    OBVIOUS
  <2>1. PICK i \in DOMAIN c : c[i] = f
    BY DEF Range
  <2> DEFINE j == CHOOSE j \in DOMAIN c : c[j].name = f.name
  <2>2. j \in DOMAIN c /\ c[j].name = c[i].name
    BY <2>1
  <2>3. j = i
    BY <1>1, <2>2
  <2> QED
    BY <2>1, <2>3 DEF FileAt
<1>7. \A n \in Held(c) : FileAt(c, n) \in Range(c) /\ FileAt(c, n).name = n
  BY <1>5, <1>6
<1> QED
  BY <1>3, <1>4, <1>5, <1>6, <1>7

\* FilesIn keeps the files with a name in N and no other.
LEMMA FilesInIs ==
    ASSUME NEW c, Tidy(c), NEW N
    PROVE  Tidy(FilesIn(c, N)) /\ Range(FilesIn(c, N)) = NamedIn(Range(c), N)
<1> DEFINE kept == {i \in DOMAIN c : c[i].name \in N}
           PlaceOf(k) == CHOOSE i \in kept : PlaceIn(kept, i) = k - 1
           o == [k \in 1..Cardinality(kept) |-> c[PlaceOf(k)]]
<1>1. c \in Seq(FileType) /\ \A i, j \in DOMAIN c : c[i].name = c[j].name => i = j
  BY DEF Tidy
<1>2. Len(c) \in Nat /\ DOMAIN c = 1..Len(c) /\ \A i \in DOMAIN c : c[i] \in FileType
  BY <1>1
<1>3. kept \in SUBSET Nat /\ IsFiniteSet(kept) /\ kept \in SUBSET (DOMAIN c)
  <2>1. kept \in SUBSET (1..Len(c)) /\ kept \in SUBSET Nat
    BY <1>2
  <2>2. IsFiniteSet(1..Len(c))
    <3>1. 1 \in Int /\ Len(c) \in Int
      BY <1>2
    <3> QED
      BY <3>1, FS_Interval
  <2> HIDE DEF kept
  <2>3. IsFiniteSet(kept)
    BY <2>1, <2>2, FS_Subset
  <2> QED
    BY <1>2, <2>1, <2>3
<1>4. FilesIn(c, N) = o
  BY DEF FilesIn, PlaceIn
<1>5. \A i \in kept : c[i].name \in N
  OBVIOUS
<1>6. \A i \in DOMAIN c : c[i].name \in N => i \in kept
  OBVIOUS
<1> HIDE DEF kept
<1>7. /\ Cardinality(kept) \in Nat
      /\ \A i \in kept : PlaceIn(kept, i) \in 0..(Cardinality(kept) - 1)
      /\ \A i, j \in kept : PlaceIn(kept, i) = PlaceIn(kept, j) => i = j
      /\ \A k \in 0..(Cardinality(kept) - 1) : \E i \in kept : PlaceIn(kept, i) = k
  BY <1>3, PlacesFill
<1>8. \A k \in 1..Cardinality(kept) : PlaceOf(k) \in kept /\ PlaceIn(kept, PlaceOf(k)) = k - 1
  <2> SUFFICES ASSUME NEW k \in 1..Cardinality(kept)
               PROVE  PlaceOf(k) \in kept /\ PlaceIn(kept, PlaceOf(k)) = k - 1
    OBVIOUS
  <2>1. k - 1 \in 0..(Cardinality(kept) - 1)
    BY <1>7
  <2>2. \E i \in kept : PlaceIn(kept, i) = k - 1
    BY <1>7, <2>1
  <2> QED
    BY <2>2
<1>9. \A i \in kept : \E k \in 1..Cardinality(kept) : PlaceOf(k) = i
  <2> SUFFICES ASSUME NEW i \in kept PROVE \E k \in 1..Cardinality(kept) : PlaceOf(k) = i
    OBVIOUS
  <2> DEFINE k == PlaceIn(kept, i) + 1
  <2>1. k \in 1..Cardinality(kept) /\ k - 1 = PlaceIn(kept, i)
    BY <1>7
  <2>2. PlaceOf(k) \in kept /\ PlaceIn(kept, PlaceOf(k)) = PlaceIn(kept, i)
    BY <1>8, <2>1
  <2> HIDE DEF k, PlaceOf
  <2>3. PlaceOf(k) = i
    BY <1>7, <2>2
  <2> QED
    BY <2>1, <2>3
<1> HIDE DEF PlaceOf
<1>10. DOMAIN o = 1..Cardinality(kept) /\ \A k \in DOMAIN o : o[k] = c[PlaceOf(k)]
  OBVIOUS
<1>11. o \in Seq(FileType)
  <2>1. o \in [1..Cardinality(kept) -> FileType]
    BY <1>2, <1>3, <1>8
  <2> HIDE DEF o
  <2> QED
    BY <1>7, <2>1
<1> HIDE DEF o
<1>12. \A k, l \in DOMAIN o : o[k].name = o[l].name => k = l
  <2> SUFFICES ASSUME NEW k \in DOMAIN o, NEW l \in DOMAIN o, o[k].name = o[l].name PROVE k = l
    OBVIOUS
  <2>1. PlaceOf(k) = PlaceOf(l)
    BY <1>1, <1>3, <1>8, <1>10
  <2>2. k - 1 = l - 1 /\ k \in Nat /\ l \in Nat
    BY <1>7, <1>8, <1>10, <2>1
  <2> QED
    BY <2>2
<1>13. Range(o) = NamedIn(Range(c), N)
  <2>1. ASSUME NEW k \in DOMAIN o PROVE o[k] \in NamedIn(Range(c), N)
    BY <1>3, <1>5, <1>8, <1>10 DEF NamedIn, Range
  <2>2. ASSUME NEW f \in NamedIn(Range(c), N) PROVE f \in Range(o)
    <3>1. PICK i \in DOMAIN c : c[i] = f /\ c[i].name \in N
      BY DEF NamedIn, Range
    <3>2. PICK k \in 1..Cardinality(kept) : PlaceOf(k) = i
      BY <1>6, <1>9, <3>1
    <3> QED
      BY <1>10, <3>1, <3>2 DEF Range
  <2>3. Range(o) \subseteq NamedIn(Range(c), N)
    BY <2>1 DEF Range
  <2>4. NamedIn(Range(c), N) \subseteq Range(o)
    BY <2>2
  <2> QED
    BY <2>3, <2>4
<1> QED
  BY <1>4, <1>11, <1>12, <1>13 DEF Tidy

\* Without drops the files with a name in N and no other.
LEMMA WithoutIs ==
    ASSUME NEW c, Tidy(c), NEW N
    PROVE  /\ Tidy(Without(c, N)) /\ Range(Without(c, N)) = {f \in Range(c) : f.name \notin N}
           /\ Held(Without(c, N)) = Held(c) \ N
<1>1. Tidy(Without(c, N)) /\ Range(Without(c, N)) = NamedIn(Range(c), Held(c) \ N)
  BY FilesInIs DEF Without
<1>2. Held(c) = {f.name : f \in Range(c)}
  BY FilesOf
<1>3. NamedIn(Range(c), Held(c) \ N) = {f \in Range(c) : f.name \notin N}
  BY <1>2 DEF NamedIn
<1>4. Held(Without(c, N)) = {f.name : f \in Range(Without(c, N))}
  BY <1>1, FilesOf
<1>5. Held(Without(c, N)) = Held(c) \ N
  BY <1>1, <1>2, <1>3, <1>4
<1> QED
  BY <1>1, <1>3, <1>5

\* A file written replaces the one of its name.
LEMMA WrittenIs ==
    ASSUME NEW c, Tidy(c), NEW g \in FileType
    PROVE  /\ Tidy(Written(c, g))
           /\ Range(Written(c, g)) = {f \in Range(c) : f.name # g.name} \cup {g}
           /\ Held(Written(c, g)) = Held(c) \cup {g.name}
<1> DEFINE w == Without(c, {g.name})
           a == Append(w, g)
<1>1. /\ Tidy(w) /\ Range(w) = {f \in Range(c) : f.name \notin {g.name}}
      /\ Held(w) = Held(c) \ {g.name}
  BY WithoutIs
<1> HIDE DEF w
<1>2. w \in Seq(FileType) /\ \A i, j \in DOMAIN w : w[i].name = w[j].name => i = j
  BY <1>1 DEF Tidy
<1>3. /\ a \in Seq(FileType) /\ Len(w) \in Nat /\ DOMAIN w = 1..Len(w) /\ DOMAIN a = 1..(Len(w) + 1)
      /\ \A i \in 1..Len(w) : a[i] = w[i]
      /\ a[Len(w) + 1] = g
  BY <1>2
<1> HIDE DEF a
<1>4. \A i \in DOMAIN a : i = Len(w) + 1 \/ i \in 1..Len(w)
  BY <1>3
<1>5. \A i \in 1..Len(w) : w[i].name # g.name
  BY <1>1, <1>3 DEF Range
<1>6. \A i, j \in DOMAIN a : a[i].name = a[j].name => i = j
  BY <1>2, <1>3, <1>4, <1>5
<1>7. Len(w) + 1 \in DOMAIN a /\ \A i \in 1..Len(w) : i \in DOMAIN a
  BY <1>3
<1>8. Range(a) = Range(w) \cup {g}
  BY <1>3, <1>4, <1>7 DEF Range
<1>9. Tidy(a)
  BY <1>3, <1>6 DEF Tidy
<1>10. Held(a) = Held(c) \cup {g.name}
  <2>1. Held(a) = {f.name : f \in Range(a)} /\ Held(w) = {f.name : f \in Range(w)}
    BY <1>1, <1>9, FilesOf
  <2> QED
    BY <1>1, <1>8, <2>1
<1> QED
  BY <1>1, <1>8, <1>9, <1>10 DEF Written, w, a

\* Bytes counts the sizes of finitely many files.
LEMMA BytesCount ==
    /\ \A F \in SUBSET FileType : IsFiniteSet(F) =>
          IsFiniteSet(Bytes(F)) /\ Cardinality(Bytes(F)) \in Nat
    /\ \A F, G \in SUBSET FileType : IsFiniteSet(G) /\ F \subseteq G =>
          Cardinality(Bytes(F)) <= Cardinality(Bytes(G))
    /\ \A F, G \in SUBSET FileType : IsFiniteSet(F) /\ IsFiniteSet(G) /\ F \cap G = {} =>
          Cardinality(Bytes(F \cup G)) = Cardinality(Bytes(F)) + Cardinality(Bytes(G))
    /\ \A F, G \in SUBSET FileType : IsFiniteSet(F) /\ IsFiniteSet(G) =>
          Cardinality(Bytes(F \cup G)) <= Cardinality(Bytes(F)) + Cardinality(Bytes(G))
    /\ \A f \in FileType : Cardinality(Bytes({f})) = f.size
    /\ Cardinality(Bytes({})) = 0
<1>1. \A f \in FileType : f.size \in Nat
  BY DEF FileType, Declared
<1>2. ASSUME NEW F \in SUBSET FileType, IsFiniteSet(F)
      PROVE  IsFiniteSet(Bytes(F)) /\ Cardinality(Bytes(F)) \in Nat
  <2> DEFINE Of(f) == {f} \X (1..f.size)
             T == {Of(f) : f \in F}
  <2>1. IsFiniteSet(T)
    <3> HIDE DEF Of
    <3>1. [f \in F |-> Of(f)] \in Surjection(F, T)
      BY DEF Surjection
    <3> HIDE DEF T
    <3> QED
      BY <1>2, <3>1, FS_Surjection
  <2>2. \A f \in F : IsFiniteSet(Of(f))
    <3> SUFFICES ASSUME NEW f \in F PROVE IsFiniteSet(Of(f))
      OBVIOUS
    <3>1. 1 \in Int /\ f.size \in Int
      BY <1>1
    <3>2. IsFiniteSet(1..f.size)
      BY <3>1, FS_Interval
    <3>3. IsFiniteSet({f})
      BY FS_Singleton
    <3> QED
      BY <3>2, <3>3, FS_Product
  <2>3. Bytes(F) = UNION T
    BY DEF Bytes
  <2>4. \A X \in T : IsFiniteSet(X)
    <3> HIDE DEF Of
    <3> QED
      BY <2>2
  <2> HIDE DEF T
  <2>5. IsFiniteSet(UNION T)
    BY <2>1, <2>4, FS_UNION
  <2> QED
    BY <2>3, <2>5, FS_CardinalityType
<1>3. ASSUME NEW F \in SUBSET FileType, NEW G \in SUBSET FileType, IsFiniteSet(G), F \subseteq G
      PROVE  Cardinality(Bytes(F)) <= Cardinality(Bytes(G))
  <2>1. IsFiniteSet(Bytes(G))
    BY <1>2, <1>3
  <2>2. Bytes(F) \in SUBSET Bytes(G)
    BY <1>3 DEF Bytes
  <2> QED
    BY <2>1, <2>2, FS_Subset
<1>4. ASSUME NEW F \in SUBSET FileType, NEW G \in SUBSET FileType, IsFiniteSet(F), IsFiniteSet(G)
      PROVE  /\ Cardinality(Bytes(F \cup G)) <= Cardinality(Bytes(F)) + Cardinality(Bytes(G))
             /\ F \cap G = {} =>
                   Cardinality(Bytes(F \cup G)) = Cardinality(Bytes(F)) + Cardinality(Bytes(G))
  <2>1. Bytes(F \cup G) = Bytes(F) \cup Bytes(G)
    BY DEF Bytes
  <2>2. F \cap G = {} => Bytes(F) \cap Bytes(G) = {}
    <3> SUFFICES ASSUME F \cap G = {}, NEW x \in Bytes(F), x \in Bytes(G) PROVE FALSE
      OBVIOUS
    <3>1. PICK f \in F : x \in {f} \X (1..f.size)
      BY DEF Bytes
    <3>2. PICK g \in G : x \in {g} \X (1..g.size)
      BY DEF Bytes
    <3>3. x[1] = f /\ x[1] = g
      BY <3>1, <3>2
    <3> QED
      BY <3>3
  <2>3. /\ IsFiniteSet(Bytes(F)) /\ IsFiniteSet(Bytes(G))
        /\ Cardinality(Bytes(F)) \in Nat /\ Cardinality(Bytes(G)) \in Nat
    BY <1>2, <1>4
  <2>4. /\ Cardinality(Bytes(F) \cup Bytes(G)) =
             Cardinality(Bytes(F)) + Cardinality(Bytes(G)) - Cardinality(Bytes(F) \cap Bytes(G))
        /\ Cardinality(Bytes(F) \cap Bytes(G)) \in Nat
        /\ Bytes(F) \cap Bytes(G) = {} => Cardinality(Bytes(F) \cap Bytes(G)) = 0
    <3>1. Bytes(F) \cap Bytes(G) \in SUBSET Bytes(F)
      OBVIOUS
    <3>2. IsFiniteSet(Bytes(F) \cap Bytes(G))
      BY <2>3, <3>1, FS_Subset
    <3> QED
      BY <2>3, <3>2, FS_Union, FS_CardinalityType, FS_EmptySet
  <2> DEFINE a == Cardinality(Bytes(F))
             b == Cardinality(Bytes(G))
             k == Cardinality(Bytes(F) \cap Bytes(G))
             u == Cardinality(Bytes(F) \cup Bytes(G))
  <2>5. a \in Nat /\ b \in Nat /\ k \in Nat /\ u = a + b - k /\ (F \cap G = {} => k = 0)
    BY <2>2, <2>3, <2>4, Zenon
  <2>6. Cardinality(Bytes(F \cup G)) = u
    BY <2>1
  <2> HIDE DEF a, b, k, u
  <2>7. u <= a + b /\ (k = 0 => u = a + b)
    BY <2>5
  <2> QED
    BY <2>5, <2>6, <2>7, Zenon DEF a, b
<1>5. ASSUME NEW f \in FileType PROVE Cardinality(Bytes({f})) = f.size
  <2>1. Bytes({f}) = {f} \X (1..f.size)
    BY DEF Bytes
  <2>2. 1 \in Int /\ f.size \in Int /\ f.size \in Nat
    BY <1>1
  <2>3. /\ IsFiniteSet(1..f.size)
        /\ Cardinality(1..f.size) = IF 1 > f.size THEN 0 ELSE f.size - 1 + 1
    BY <2>2, FS_Interval
  <2>4. IsFiniteSet({f}) /\ Cardinality({f}) = 1
    BY FS_Singleton
  <2>5. Cardinality({f} \X (1..f.size)) = Cardinality({f}) * Cardinality(1..f.size)
    BY <2>3, <2>4, FS_Product
  <2>6. Cardinality(1..f.size) = f.size
    BY <2>2, <2>3
  <2>7. 1 * f.size = f.size
    BY <2>2
  <2> QED
    BY <2>1, <2>4, <2>5, <2>6, <2>7
<1>6. Cardinality(Bytes({})) = 0
  <2>1. Bytes({}) = {}
    BY DEF Bytes
  <2> QED
    BY <2>1, FS_EmptySet
<1> QED
  BY <1>2, <1>3, <1>4, <1>5, <1>6

\* The size of a directory, whole, in part and in two parts.
LEMMA TotalCounts ==
    ASSUME NEW c, Tidy(c)
    PROVE  /\ Total(c) \in Nat
           /\ \A d : Tidy(d) /\ Range(d) \subseteq Range(c) => Total(d) <= Total(c)
           /\ \A N : Total(c) = Total(FilesIn(c, N)) + Total(Without(c, N))
<1>1. Range(c) \in SUBSET FileType /\ IsFiniteSet(Range(c))
  BY FilesOf
<1>2. Total(c) \in Nat
  BY <1>1, BytesCount DEF Total
<1>3. ASSUME NEW d, Tidy(d), Range(d) \subseteq Range(c) PROVE Total(d) <= Total(c)
  <2>1. Range(d) \in SUBSET FileType
    BY <1>3, FilesOf
  <2>2. Cardinality(Bytes(Range(d))) <= Cardinality(Bytes(Range(c)))
    BY <1>1, <1>3, <2>1, BytesCount
  <2> QED
    BY <2>2 DEF Total
<1>4. ASSUME NEW N PROVE Total(c) = Total(FilesIn(c, N)) + Total(Without(c, N))
  <2> DEFINE A == Range(FilesIn(c, N))
             B == Range(Without(c, N))
  <2>1. /\ A \in SUBSET FileType /\ IsFiniteSet(A) /\ B \in SUBSET FileType /\ IsFiniteSet(B)
        /\ A = {f \in Range(c) : f.name \in N} /\ B = {f \in Range(c) : f.name \notin N}
    <3>1. Tidy(FilesIn(c, N)) /\ A = NamedIn(Range(c), N)
      BY FilesInIs
    <3>2. Tidy(Without(c, N)) /\ B = {f \in Range(c) : f.name \notin N}
      BY WithoutIs
    <3> QED
      BY <3>1, <3>2, FilesOf DEF NamedIn
  <2> HIDE DEF A, B
  <2>2. A \cap B = {} /\ A \cup B = Range(c)
    BY <2>1
  <2>3. Cardinality(Bytes(A \cup B)) = Cardinality(Bytes(A)) + Cardinality(Bytes(B))
    BY <2>1, <2>2, BytesCount
  <2> QED
    BY <2>2, <2>3 DEF Total, A, B
<1> QED
  BY <1>2, <1>3, <1>4

\* A set of numbers has a least one.
LEMMA LeastOf ==
    ASSUME NEW n \in Nat, NEW E \in SUBSET (0..n), E # {}
    PROVE  \E k \in E : \A j \in E : k <= j
<1> DEFINE W == {0..k : k \in E}
<1>1. IsFiniteSet(0..n)
  <2>1. 0 \in Int /\ n \in Int
    OBVIOUS
  <2> QED
    BY <2>1, FS_Interval
<1>2. W \in SUBSET (SUBSET (0..n)) /\ W # {}
  <2>1. \A k \in 0..n : 0..k \in SUBSET (0..n)
    OBVIOUS
  <2>2. \A k \in E : 0..k \in SUBSET (0..n)
    BY <2>1
  <2> QED
    BY <2>2
<1>3. \A j, k \in E : 0..j \in W /\ j \in 0..j /\ (j \in 0..k => j <= k)
  OBVIOUS
<1>4. \A T \in W : \E k \in E : T = 0..k
  BY Zenon
<1> HIDE DEF W
<1>5. PICK T \in W : \A U \in W : U \subseteq T => U = T
  <2> DEFINE S == 0..n
  <2>1. IsFiniteSet(S) /\ W \in SUBSET (SUBSET S) /\ W # {}
    BY <1>1, <1>2
  <2> HIDE DEF S
  <2> QED
    BY <2>1, Innermost
<1>6. PICK k \in E : T = 0..k
  BY <1>4
<1>7. \A j \in E : k <= j
  <2> SUFFICES ASSUME NEW j \in E, ~(k <= j) PROVE FALSE
    OBVIOUS
  <2>1. 0..j \subseteq 0..k /\ k \notin 0..j
    OBVIOUS
  <2>2. k \in 0..k
    BY <1>3
  <2> QED
    BY <1>3, <1>5, <1>6, <2>1, <2>2
<1> QED
  BY <1>7

\* The first k positions are among the first l.
LEMMA Prefixes ==
    ASSUME NEW l \in Nat, NEW k \in 0..l
    PROVE  1..k \subseteq 1..l
<1> SUFFICES ASSUME NEW i \in 1..k PROVE i \in 1..l
  OBVIOUS
<1> QED
  OBVIOUS

\* prune_media_cache: what it drops did not fit in, and what is left does,
\* but for the file it is told to keep.
LEMMA TrimmedIs ==
    ASSUME NEW c, Tidy(c), NEW keep
    PROVE  LET t == Trimmed(c, keep)
               D == Held(c) \ Held(t)
           IN  /\ Tidy(t) /\ Range(t) = {f \in Range(c) : f.name \notin D}
               /\ Held(t) \subseteq Held(c) /\ keep \notin D
               /\ D # {} => Total(c) > Budget
               /\ Total(t) <= Budget \/ Held(t) \subseteq {keep}
<1> DEFINE Gone(k) == {c[i].name : i \in 1..k} \ {keep}
           Left(k) == Without(c, Gone(k))
           enough == {k \in 0..Len(c) : Total(Left(k)) <= Budget \/ k = Len(c)}
           n == CHOOSE k \in enough : \A j \in enough : k <= j
           t == Trimmed(c, keep)
           Goal == /\ Tidy(t) /\ Range(t) = {f \in Range(c) : f.name \notin Held(c) \ Held(t)}
                   /\ Held(t) \subseteq Held(c) /\ keep \notin Held(c) \ Held(t)
                   /\ Held(c) \ Held(t) # {} => Total(c) > Budget
                   /\ Total(t) <= Budget \/ Held(t) \subseteq {keep}
<1>a. ASSUME Total(c) <= Budget PROVE Goal
  <2>1. t = c
    BY <1>a DEF Trimmed
  <2> HIDE DEF t
  <2> QED
    BY <1>a, <2>1
<1> SUFFICES ASSUME ~(Total(c) <= Budget) PROVE Goal
  BY <1>a
<1>1. t = Left(n)
  BY DEF Trimmed
<1>2. Len(c) \in Nat /\ DOMAIN c = 1..Len(c)
  BY DEF Tidy
<1>3. n \in enough /\ \A j \in enough : n <= j
  <2>1. enough \in SUBSET (0..Len(c)) /\ Len(c) \in enough
    BY <1>2
  <2> HIDE DEF enough
  <2>2. \E k \in enough : \A j \in enough : k <= j
    BY <1>2, <2>1, LeastOf
  <2> QED
    BY <2>2
<1>4. n \in 0..Len(c) /\ (Total(Left(n)) <= Budget \/ n = Len(c))
  BY <1>3
<1>5. n # 0 => ~(Total(Left(0)) <= Budget)
  <2> SUFFICES ASSUME Total(Left(0)) <= Budget PROVE n = 0
    OBVIOUS
  <2>1. 0 \in enough
    BY <1>2
  <2>2. n <= 0
    BY <1>3, <2>1
  <2> HIDE DEF n
  <2> QED
    BY <1>4, <2>2
<1> HIDE DEF n, enough
<1>6. /\ Tidy(t) /\ Range(t) = {f \in Range(c) : f.name \notin Gone(n)}
      /\ Held(t) = Held(c) \ Gone(n)
  BY <1>1, WithoutIs
<1>7. Gone(n) \subseteq Held(c)
  <2>1. 1..n \subseteq 1..Len(c)
    BY <1>2, <1>4, Prefixes
  <2> SUFFICES ASSUME NEW x \in Gone(n) PROVE x \in Held(c)
    OBVIOUS
  <2>2. PICK i \in 1..n : x = c[i].name
    OBVIOUS
  <2>3. i \in DOMAIN c
    BY <1>2, <2>1
  <2> QED
    BY <2>2, <2>3, Zenon DEF Held
<1>8. Held(c) \ Held(t) = Gone(n) /\ Held(t) \subseteq Held(c)
  BY <1>6, <1>7
<1>9. keep \notin Gone(n)
  OBVIOUS
<1>10. Gone(n) # {} => Total(c) > Budget
  <2> SUFFICES ASSUME Gone(n) # {} PROVE Total(c) > Budget
    OBVIOUS
  <2>1. n # 0
    <3>1. 1..0 = {}
      OBVIOUS
    <3> QED
      BY <3>1
  <2>2. /\ Tidy(Left(0)) /\ Range(Left(0)) \subseteq Range(c)
    BY WithoutIs
  <2>3. Total(Left(0)) <= Total(c) /\ Total(Left(0)) \in Nat /\ Total(c) \in Nat
    BY <2>2, TotalCounts
  <2>4. ~(Total(Left(0)) <= Budget)
    BY <1>5, <2>1
  <2> HIDE DEF Left
  <2> QED
    BY <2>3, <2>4, CacheAssumption
<1>11. Total(t) <= Budget \/ Held(t) \subseteq {keep}
  <2> SUFFICES ASSUME n = Len(c) PROVE Held(t) \subseteq {keep}
    BY <1>1, <1>4
  <2>1. Held(c) \ Gone(n) \subseteq {keep}
    BY <1>2 DEF Held
  <2> QED
    BY <1>6, <2>1
<1> HIDE DEF Gone, t
<1>12. Range(t) = {f \in Range(c) : f.name \notin Held(c) \ Held(t)}
  BY <1>6, <1>8
<1> QED
  BY <1>6, <1>8, <1>9, <1>10, <1>11, <1>12

\* The same where c is what became of the directory d before the prune: what is
\* lost then was taken away before, or did not fit in.
LEMMA Trims ==
    ASSUME NEW d, Tidy(d), NEW c, Tidy(c), NEW keep,
           \A f \in Range(c) : f.name = keep \/ f \in Range(d)
    PROVE  LET t == Trimmed(c, keep)
               lost == Held(d) \ Held(t)
           IN  /\ Tidy(t) /\ Range(t) \subseteq Range(c) /\ Held(t) \subseteq Held(c)
               /\ keep \in Held(c) => keep \in Held(t)
               /\ \A n \in lost : n \notin Held(c) \/ Total(t) + Total(FilesIn(d, lost)) > Budget
               /\ Total(t) <= Budget
<1> DEFINE t == Trimmed(c, keep)
           D == Held(c) \ Held(t)
           lost == Held(d) \ Held(t)
<1>1. /\ Tidy(t) /\ Range(t) = {f \in Range(c) : f.name \notin D}
      /\ Held(t) \subseteq Held(c) /\ keep \notin D
      /\ D # {} => Total(c) > Budget
      /\ Total(t) <= Budget \/ Held(t) \subseteq {keep}
  BY TrimmedIs
<1> HIDE DEF t
<1>2. ASSUME NEW n \in lost, n \in Held(c) PROVE Total(t) + Total(FilesIn(d, lost)) > Budget
  <2>1. D # {} /\ Total(c) > Budget
    BY <1>1, <1>2
  <2>2. Tidy(FilesIn(d, lost)) /\ Range(FilesIn(d, lost)) = {f \in Range(d) : f.name \in lost}
    BY FilesInIs DEF NamedIn
  <2>3. Tidy(FilesIn(c, D)) /\ Range(FilesIn(c, D)) = {f \in Range(c) : f.name \in D}
    BY FilesInIs DEF NamedIn
  <2>4. Range(FilesIn(c, D)) \subseteq Range(FilesIn(d, lost))
    <3>1. Held(d) = {f.name : f \in Range(d)}
      BY FilesOf
    <3>2. ASSUME NEW f \in Range(c), f.name \in D PROVE f \in Range(d) /\ f.name \in lost
      BY <1>1, <3>1, <3>2
    <3> HIDE DEF D, lost
    <3> QED
      BY <2>2, <2>3, <3>2
  <2>5. Total(FilesIn(c, D)) <= Total(FilesIn(d, lost))
    <3> HIDE DEF D, lost
    <3> QED
      BY <2>2, <2>3, <2>4, TotalCounts
  <2>6. Total(c) = Total(FilesIn(c, D)) + Total(Without(c, D))
    BY TotalCounts
  <2>7. Tidy(Without(c, D)) /\ Range(Without(c, D)) = Range(t)
    <3> HIDE DEF D
    <3> QED
      BY <1>1, WithoutIs
  <2>8. Total(Without(c, D)) = Total(t)
    BY <2>7 DEF Total
  <2>9. /\ Total(c) \in Nat /\ Total(FilesIn(c, D)) \in Nat /\ Total(FilesIn(d, lost)) \in Nat
        /\ Total(t) \in Nat
    BY <1>1, <2>2, <2>3, TotalCounts
  <2> HIDE DEF D, lost
  <2> QED
    BY <2>1, <2>5, <2>6, <2>8, <2>9, CacheAssumption
<1>3. Total(t) <= Budget
  <2> SUFFICES ASSUME Held(t) \subseteq {keep} PROVE Total(t) <= Budget
    BY <1>1
  <2>1. /\ Range(t) \in SUBSET FileType /\ \A f, g \in Range(t) : f.name = g.name => f = g
        /\ Held(t) = {f.name : f \in Range(t)}
    BY <1>1, FilesOf
  <2>2. CASE Range(t) = {}
    <3>1. Total(t) = 0
      BY <2>2, BytesCount DEF Total
    <3> QED
      BY <3>1, CacheAssumption
  <2>3. CASE Range(t) # {}
    <3>1. PICK f \in Range(t) : TRUE
      BY <2>3
    <3>2. \A g \in Range(t) : g.name = keep
      BY <2>1
    <3>3. Range(t) = {f} /\ f \in FileType
      BY <2>1, <3>2
    <3>4. Total(t) = f.size
      BY <3>3, BytesCount DEF Total
    <3>5. f.size \in 0..(Declared + 1) /\ Declared + 1 \in Int
      BY <3>3 DEF FileType, Declared
    <3> QED
      BY <3>4, <3>5, CacheAssumption
  <2> QED
    BY <2>2, <2>3
<1>4. keep \in Held(c) => keep \in Held(t)
  BY <1>1
<1>5. Range(t) \subseteq Range(c)
  BY <1>1
<1> QED
  BY <1>1, <1>2, <1>3, <1>4, <1>5 DEF t

-----------------------------------------------------------------------------
(* The inductive invariant of the media directory *)

Lids == {n \in FileName : n.at = "lid"}
CardType == [path : FileName \cup {NoFile}, thumb : FileName \cup {NoFile}]
TransferType ==
    [step : {"none", "transfer", "poster"}, of : Attachments \cup {Nobody}, at : AddressPair \cup {"none"}]

\* The transfer under way is of a medium, under an address of the contact.
TransferFits ==
    /\ transfer \in TransferType
    /\ transfer.step # "none" => transfer.of \in Attachments /\ transfer.at \in AddressPair

RestTyped ==
    /\ entries \in SUBSET Lids /\ moves \in SUBSET Lids
    /\ TransferFits /\ sending \in SUBSET Drafts /\ happened \in Nat

CopyTyped == copy = NoCopy \/ (copy \in FileType /\ copy.name.at = "lid")

CacheTyped ==
    /\ Tidy(cache) /\ cards \in [AddressPair -> [Attachments -> CardType]]
    /\ CopyTyped /\ unpruned \in Int /\ RestTyped

\* A row leads to the medium under one of the addresses.
PathFits(m, n) == n \in {Full(m, "lid"), Full(m, "phone")}

CardsFit ==
    \A at \in AddressPair, m \in Attachments :
        cards[at][m] = NoCard \/ PathFits(m, cards[at][m].path)

\* Parts are of copies.  Where a medium belongs lies no frame, what an early
\* build left is the preview of an image, and its size or that of a part
\* betrays it.
IsPart(f) == f.is \in {"copying", "cut"}
FileFits(f) ==
    /\ IsPart(f) => f.name.at = "phone"
    /\ f.name.part = "full" =>
          /\ f.is # "frame"
          /\ f.is = "preview" => KindOf[f.name.of] = "image" /\ f.size # Declared
          /\ IsPart(f) => f.name \in torn /\ f.size # Declared

FilesFit == \A f \in Range(cache) : FileFits(f)

\* What is being copied, as it was, and what became of its copy.
CopyFits ==
    copy # NoCopy =>
        /\ FileFits(copy)
        /\ \A f \in Range(cache) : f.is = "cut" /\ f.name.part = "full" => f.name # AtPhone(copy.name)

CopyIsThere ==
    \A f \in Range(cache) : f.is = "copying" =>
        /\ copy # NoCopy /\ f.name.of = copy.name.of
        /\ f.name.part = "full" => f.name = AtPhone(copy.name)
        /\ \A g \in Range(cache) : g.is = "copying" => g = f

\* No preview lies, or will lie, where the medium of a row belongs that the
\* shell would take to be downloaded.
Viewable(at, m) == KindOf[m] = "image" => cards[at][m].thumb # NoFile
ShownUnspoiled ==
    \A at \in AddressPair, m \in Attachments \ late :
        cards[at][m] # NoCard /\ Viewable(at, m) =>
            \A place \in AddressPair : ~Spoiled(cache, m, place)

CacheInv ==
    /\ CacheTyped /\ CardsFit /\ FilesFit /\ CopyFits /\ CopyIsThere /\ ShownUnspoiled
    /\ CacheIsBounded

\* A file renamed takes its new name and nothing else, and the others stay.
LEMMA RenamedIs ==
    ASSUME NEW c, Tidy(c), NEW old \in Held(c), NEW new \in FileName, new \notin Held(c)
    PROVE  LET r == RenamedTo(c, old, new)
           IN  /\ Tidy(r) /\ Held(r) = (Held(c) \ {old}) \cup {new}
               /\ \A f \in Range(r) :
                     \/ f \in Range(c)
                     \/ f.name = new /\ \E g \in Range(c) : g.name = old /\ f.is = g.is
<1> DEFINE r == RenamedTo(c, old, new)
           Moved(f) == [f EXCEPT !.name = new]
<1>1. c \in Seq(FileType) /\ \A i, j \in DOMAIN c : c[i].name = c[j].name => i = j
  BY DEF Tidy
<1>2. \A f \in FileType : Moved(f) \in FileType /\ Moved(f).name = new /\ Moved(f).is = f.is
  BY DEF FileType
<1>3. \A i \in DOMAIN c : c[i] \in FileType /\ c[i] \in Range(c)
  BY <1>1 DEF Range
<1>4. /\ DOMAIN r = DOMAIN c
      /\ \A i \in DOMAIN c : r[i] = IF c[i].name = old THEN Moved(c[i]) ELSE c[i]
  BY DEF RenamedTo
<1>5. \A i \in DOMAIN c : r[i] \in FileType
  <2> HIDE DEF Moved, r
  <2> QED
    BY <1>2, <1>3, <1>4
<1>6. r \in Seq(FileType)
  <2>1. Len(c) \in Nat /\ DOMAIN c = 1..Len(c)
    BY <1>1
  <2>2. r \in [1..Len(c) -> FileType]
    BY <1>4, <1>5, <2>1 DEF RenamedTo
  <2> HIDE DEF r
  <2> QED
    BY <2>1, <2>2
<1>7. \A i \in DOMAIN c : r[i].name = IF c[i].name = old THEN new ELSE c[i].name
  <2> HIDE DEF Moved, r
  <2> QED
    BY <1>2, <1>3, <1>4
<1>8. \A i \in DOMAIN c : c[i].name \in Held(c)
  BY DEF Held
<1> HIDE DEF r
<1>9. Tidy(r)
  <2>1. \A i, j \in DOMAIN r : r[i].name = r[j].name => i = j
    BY <1>1, <1>4, <1>7, <1>8
  <2> QED
    BY <1>6, <2>1 DEF Tidy
<1>10. Held(r) = (Held(c) \ {old}) \cup {new}
  BY <1>4, <1>7 DEF Held
<1>11. ASSUME NEW f \in Range(r)
       PROVE  \/ f \in Range(c)
              \/ f.name = new /\ \E g \in Range(c) : g.name = old /\ f.is = g.is
  <2>1. PICK i \in DOMAIN c : f = r[i]
    BY <1>4 DEF Range
  <2> HIDE DEF Moved
  <2> QED
    BY <1>2, <1>3, <1>4, <2>1
<1> QED
  BY <1>9, <1>10, <1>11 DEF r

\* The names and sizes of files, and the addresses they are under.
LEMMA NamesAre ==
    /\ \A m \in Attachments, at \in AddressPair :
          /\ Full(m, at) \in FileName /\ Preview(m, at) \in FileName
          /\ Name(m, at, "bare") \in FileName /\ Downloaded(m, at) \in FileName
          /\ Full(m, at).at = at /\ Full(m, at).of = m /\ Full(m, at).part = "full"
          /\ Preview(m, at).at = at /\ Preview(m, at).of = m /\ Preview(m, at).part = "preview"
          /\ Name(m, at, "bare").at = at /\ Name(m, at, "bare").of = m
          /\ Name(m, at, "bare").part = "bare"
    /\ \A d \in Drafts : Staged(d) \in FileName /\ Staged(d).at = "staged"
    /\ NoFile.at = "none" /\ NoFile \notin FileName
    /\ \A n \in FileName, k \in FileName : n.of = k.of /\ n.at = k.at /\ n.part = k.part => n = k
    /\ \A n \in FileName : n.part \in {"full", "preview", "bare"}
    /\ PreviewSize \in 0..(Declared + 1) /\ Declared \in 0..(Declared + 1) /\ PreviewSize # Declared
    /\ \A m \in Attachments : Sizes(m) \subseteq 0..(Declared + 1)
<1>1. /\ PreviewSize \in 0..(Declared + 1) /\ Declared \in 0..(Declared + 1) /\ PreviewSize # Declared
      /\ \A m \in Attachments : Sizes(m) \subseteq 0..(Declared + 1)
  BY DEF PreviewSize, Declared, Sizes
<1>2. /\ NoFile.at = "none" /\ NoFile \notin FileName
      /\ \A d \in Drafts : Staged(d) \in FileName /\ Staged(d).at = "staged"
  BY DEF NoFile, Name, FileName, Staged
<1>3. \A n \in FileName, k \in FileName : n.of = k.of /\ n.at = k.at /\ n.part = k.part => n = k
  BY DEF FileName
<1>4. \A n \in FileName : n.part \in {"full", "preview", "bare"}
  BY DEF FileName
<1>5. ASSUME NEW m \in Attachments, NEW at \in AddressPair
      PROVE  /\ Full(m, at) \in FileName /\ Preview(m, at) \in FileName
             /\ Name(m, at, "bare") \in FileName /\ Downloaded(m, at) \in FileName
             /\ Full(m, at).at = at /\ Full(m, at).of = m /\ Full(m, at).part = "full"
             /\ Preview(m, at).at = at /\ Preview(m, at).of = m /\ Preview(m, at).part = "preview"
             /\ Name(m, at, "bare").at = at /\ Name(m, at, "bare").of = m
             /\ Name(m, at, "bare").part = "bare"
  BY DEF Full, Preview, Name, FileName, Downloaded, AddressPair
<1> QED
  BY <1>1, <1>2, <1>3, <1>4, <1>5

\* The name of a copy.
LEMMA AtPhoneIs ==
    /\ \A n \in FileName : AtPhone(n) \in FileName /\ AtPhone(n).at = "phone"
                           /\ AtPhone(n).of = n.of /\ AtPhone(n).part = n.part
    /\ \A m \in Attachments : AtPhone(Full(m, "lid")) = Full(m, "phone")
    /\ \A n \in Lids, m \in Attachments, at \in AddressPair :
          AtPhone(n) = Full(m, at) => at = "phone" /\ n = Full(m, "lid")
<1>1. \A n \in FileName : AtPhone(n) \in FileName /\ AtPhone(n).at = "phone"
                          /\ AtPhone(n).of = n.of /\ AtPhone(n).part = n.part
  BY DEF AtPhone, FileName
<1>2. \A m \in Attachments : AtPhone(Full(m, "lid")) = Full(m, "phone")
  BY DEF AtPhone, Full, Name
<1>3. ASSUME NEW n \in Lids, NEW m \in Attachments, NEW at \in AddressPair, AtPhone(n) = Full(m, at)
      PROVE  at = "phone" /\ n = Full(m, "lid")
  <2>1. n \in FileName /\ n.at = "lid"
    BY DEF Lids
  <2>2. n.of = m /\ n.part = "full" /\ at = "phone"
    BY <1>1, <1>3, <2>1, NamesAre
  <2>3. "lid" \in AddressPair
    BY DEF AddressPair
  <2> QED
    BY <2>1, <2>2, <2>3, NamesAre
<1> QED
  BY <1>1, <1>2, <1>3

\* A file written and the directory pruned.
LEMMA WritesPrune ==
    ASSUME NEW c, Tidy(c), NEW g \in FileType
    PROVE  LET t == Trimmed(Written(c, g), g.name)
               lost == Held(c) \ Held(t)
           IN  /\ Tidy(t) /\ Total(t) <= Budget
               /\ \A f \in Range(t) : f = g \/ (f \in Range(c) /\ f.name # g.name)
               /\ \A n \in lost : Total(t) + Total(FilesIn(c, lost)) > Budget
<1> DEFINE w == Written(c, g)
           t == Trimmed(w, g.name)
           lost == Held(c) \ Held(t)
<1>1. /\ Tidy(w) /\ Held(w) = Held(c) \cup {g.name}
      /\ \A f \in Range(w) : f = g \/ (f \in Range(c) /\ f.name # g.name)
  <2>1. /\ Tidy(w) /\ Held(w) = Held(c) \cup {g.name}
        /\ Range(w) = {f \in Range(c) : f.name # g.name} \cup {g}
    BY WrittenIs
  <2> HIDE DEF w
  <2> QED
    BY <2>1
<1> HIDE DEF w
<1>2. \A f \in Range(w) : f.name = g.name \/ f \in Range(c)
  BY <1>1
<1>3. /\ Tidy(t) /\ Range(t) \subseteq Range(w) /\ Total(t) <= Budget
      /\ \A n \in lost : n \notin Held(w) \/ Total(t) + Total(FilesIn(c, lost)) > Budget
  BY <1>1, <1>2, Trims
<1> HIDE DEF t
<1>4. \A n \in lost : n \in Held(w)
  BY <1>1
<1> HIDE DEF lost
<1>5. \A f \in Range(t) : f = g \/ (f \in Range(c) /\ f.name # g.name)
  BY <1>1, <1>3
<1>6. \A n \in lost : Total(t) + Total(FilesIn(c, lost)) > Budget
  BY <1>3, <1>4
<1> QED
  BY <1>3, <1>5, <1>6 DEF t, w, lost

\* cache_media_thumbnail, from the directory c to p: it drops a medium only where it takes it for a
\* preview, or for want of room, and what it leaves where the medium belongs
\* has the declared size.
Previewed(c, p, m, at) ==
    LET full == Full(m, at)
        lost == Held(c) \ Held(p)
    IN  /\ Tidy(p) /\ (p = c \/ Total(p) <= Budget)
        /\ \A f \in Range(p) :
              \/ f \in Range(c)
              \/ /\ f.name = Preview(m, at)
                 /\ \/ f.is = "preview"
                    \/ /\ full \notin Held(p)
                       /\ \E g \in Range(c) : g.name = full /\ f.is = g.is
        /\ KindOf[m] # "document" => \A f \in Range(p) : f.name = full => f.size = Declared
        /\ \A n \in lost :
              \/ n = full /\ FileAt(c, n).size # Declared
              \/ Total(p) + Total(FilesIn(c, lost)) > Budget

LEMMA PreviewedIs ==
    ASSUME NEW c, Tidy(c), NEW m \in Attachments, NEW at \in AddressPair, NEW thumb
    PROVE  Previewed(c, PreviewCached(c, m, at, thumb), m, at)
<1> DEFINE full == Full(m, at)
           preview == Preview(m, at)
           p == PreviewCached(c, m, at, thumb)
           Spared(q) == \A f \in Range(q) :
                           \/ f \in Range(c)
                           \/ /\ f.name = preview
                              /\ \/ f.is = "preview"
                                 \/ /\ full \notin Held(q)
                                    /\ \E g \in Range(c) : g.name = full /\ f.is = g.is
           Sized(q) == \A f \in Range(q) : f.name = full => f.size = Declared
           Roomy(q) == LET g == Held(c) \ Held(q)
                       IN  \A n \in g : \/ n = full /\ FileAt(c, n).size # Declared
                                        \/ Total(q) + Total(FilesIn(c, g)) > Budget
           Goal(q) == /\ Tidy(q) /\ (q = c \/ Total(q) <= Budget) /\ Spared(q)
                      /\ KindOf[m] # "document" => Sized(q)
                      /\ Roomy(q)
<1> SUFFICES Goal(p)
  BY DEF Previewed
<1>n. full \in FileName /\ preview \in FileName /\ full # preview
  BY NamesAre
<1>f. /\ \A f, g \in Range(c) : f.name = g.name => f = g
      /\ Held(c) = {f.name : f \in Range(c)}
      /\ \A f \in Range(c) : FileAt(c, f.name) = f
  BY FilesOf
<1>s. IsPreview(c, m, at, thumb) => full \in Held(c) /\ FileAt(c, full).size # Declared
  BY NamesAre DEF IsPreview
<1>u. ~IsPreview(c, m, at, thumb) => Sized(c)
  <2> SUFFICES ASSUME ~IsPreview(c, m, at, thumb), NEW f \in Range(c), f.name = full
               PROVE  f.size = Declared
    OBVIOUS
  <2>1. full \in Held(c) /\ FileAt(c, full) = f
    BY <1>f
  <2> QED
    BY <2>1 DEF IsPreview
<1>1. ASSUME KindOf[m] # "document" => Sized(c) PROVE Goal(c)
  BY <1>1
<1>2. ASSUME NEW w, Tidy(w), Held(w) \subseteq Held(c) \cup {preview}, Spared(w), Sized(w),
             \A n \in Held(c) \ Held(w) : n = full /\ FileAt(c, n).size # Declared
      PROVE  Goal(Trimmed(w, preview))
  <2> DEFINE t == Trimmed(w, preview)
             g == Held(c) \ Held(t)
  <2>1. /\ Tidy(t) /\ Range(t) \subseteq Range(w) /\ Held(t) \subseteq Held(w) /\ Total(t) <= Budget
        /\ \A n \in g : n \notin Held(w) \/ Total(t) + Total(FilesIn(c, g)) > Budget
    <3>1. \A f \in Range(w) : f.name = preview \/ f \in Range(c)
      BY <1>2
    <3> HIDE DEF preview
    <3> QED
      BY <1>2, <3>1, Trims
  <2> HIDE DEF t
  <2>2. Spared(t)
    <3> HIDE DEF full, preview
    <3> QED
      BY <1>2, <2>1
  <2>3. Sized(t)
    BY <1>2, <2>1
  <2>4. \A n \in g : n \in Held(c)
    OBVIOUS
  <2>5. Roomy(t)
    <3> HIDE DEF full, preview
    <3> QED
      BY <1>2, <2>1, <2>4
  <2> QED
    BY <2>1, <2>2, <2>3, <2>5 DEF t
<1>3. CASE KindOf[m] = "document"
  <2>1. p = c
    BY <1>3 DEF PreviewCached
  <2> HIDE DEF p
  <2> QED
    BY <1>1, <1>3, <2>1
<1>4. CASE KindOf[m] # "document" /\ IsPreview(c, m, at, thumb)
  <2> DEFINE w == IF preview \in Held(c) THEN Without(c, {full}) ELSE RenamedTo(c, full, preview)
  <2>1. p = Trimmed(w, preview)
    BY <1>4 DEF PreviewCached
  <2>2. /\ Tidy(w) /\ Held(w) = (Held(c) \ {full}) \cup {preview}
        /\ \A f \in Range(w) :
              \/ f \in Range(c)
              \/ f.name = preview /\ \E g \in Range(c) : g.name = full /\ f.is = g.is
    <3>1. CASE preview \in Held(c)
      <4>1. /\ Tidy(w) /\ Range(w) = {f \in Range(c) : f.name \notin {full}}
            /\ Held(w) = Held(c) \ {full}
        BY <3>1, WithoutIs
      <4> HIDE DEF w
      <4> QED
        BY <1>n, <3>1, <4>1
    <3>2. CASE preview \notin Held(c)
      <4>1. full \in Held(c) /\ w = RenamedTo(c, full, preview)
        BY <1>4, <1>s, <3>2
      <4> HIDE DEF full, preview, w
      <4> QED
        BY <1>n, <3>2, <4>1, RenamedIs
    <3> QED
      BY <3>1, <3>2
  <2> HIDE DEF w
  <2>3. full \notin Held(w) /\ Held(w) \subseteq Held(c) \cup {preview}
    BY <1>n, <2>2
  <2>4. Spared(w)
    BY <2>2, <2>3
  <2>5. Sized(w)
    <3>1. Held(w) = {g.name : g \in Range(w)}
      BY <2>2, FilesOf
    <3> HIDE DEF full, preview
    <3> QED
      BY <2>3, <3>1
  <2>6. \A n \in Held(c) \ Held(w) : n = full /\ FileAt(c, n).size # Declared
    BY <2>2, <1>4, <1>s
  <2>7. Goal(Trimmed(w, preview))
    <3> HIDE DEF Goal, full, preview, Spared, Sized
    <3> QED
      BY <1>2, <2>2, <2>3, <2>4, <2>5, <2>6
  <2> HIDE DEF Goal, p
  <2> QED
    BY <2>1, <2>7
<1>5. CASE KindOf[m] # "document" /\ ~IsPreview(c, m, at, thumb) /\ (preview \in Held(c) \/ ~thumb)
  <2>1. p = c /\ Sized(c)
    BY <1>5, <1>u DEF PreviewCached
  <2> HIDE DEF p
  <2> QED
    BY <1>1, <2>1
<1>6. CASE KindOf[m] # "document" /\ ~IsPreview(c, m, at, thumb) /\ preview \notin Held(c) /\ thumb
  <2> DEFINE g == File(preview, PreviewSize, "preview")
             w == Written(c, g)
  <2>1. p = Trimmed(w, preview)
    BY <1>6 DEF PreviewCached
  <2>2. g \in FileType /\ g.name = preview /\ g.is = "preview"
    <3> HIDE DEF preview
    <3> QED
      BY <1>n, NamesAre DEF FileType, File
  <2> HIDE DEF g
  <2>3. /\ Tidy(w) /\ Range(w) = {f \in Range(c) : f.name # preview} \cup {g}
        /\ Held(w) = Held(c) \cup {preview}
    BY <2>2, WrittenIs
  <2> HIDE DEF w
  <2>4. Sized(w)
    <3>1. Sized(c)
      BY <1>6, <1>u
    <3> HIDE DEF preview, full
    <3> QED
      BY <1>n, <2>2, <2>3, <3>1
  <2>5. /\ \A n \in Held(c) \ Held(w) : n = full /\ FileAt(c, n).size # Declared
        /\ Held(w) \subseteq Held(c) \cup {preview}
    BY <2>2, <2>3
  <2>6. Spared(w)
    BY <2>2, <2>3
  <2>7. Goal(Trimmed(w, preview))
    <3> HIDE DEF Goal, full, preview, Spared, Sized
    <3> QED
      BY <1>2, <2>3, <2>4, <2>5, <2>6
  <2> HIDE DEF Goal, p
  <2> QED
    BY <2>1, <2>7
<1> HIDE DEF Goal, p
<1> QED
  BY <1>3, <1>4, <1>5, <1>6

GoneNow == Held(cache) \ Held(cache')

\* What KeptFilesGoForAReason asks of a step.
KeptStep ==
    /\ \A d \in Drafts : Staged(d) \in GoneNow => Squeezed(GoneNow)
    /\ \A at \in AddressPair : \A m \in Carded(at) :
          LET path == cards[at][m].path
              next == cards'[at][m].path
          IN  IsShown(cache, at, m) /\ cards'[at][m] # NoCard /\ ~IsShown(cache, at, m)' =>
                  \/ path \in GoneNow /\ Squeezed(GoneNow)
                  \/ FileAt(cache, path).size # Declared
                  \/ next # path /\ (path.at # at \/ next.at # at)
                  \/ path.at # at /\ Discarded(m, path.at)

\* What a step must show of the files that are gone, and of the rows it leaves,
\* for KeptFilesGoForAReason.
GoneWell(n) ==
    \/ Squeezed(GoneNow)
    \/ /\ n.at # "staged"
       /\ \A at \in AddressPair : \A m \in Carded(at) : cards[at][m].path = n =>
              \/ cards'[at][m] = NoCard
              \/ FileAt(cache, n).size # Declared
              \/ n.at # at /\ Discarded(m, n.at)
LedWell(at, m) ==
    \/ cards'[at][m] = NoCard \/ cards'[at][m] = cards[at][m]
    \/ /\ IsShown(cache, at, m) => Viewable(at, m)'
       /\ \/ cards'[at][m].path = cards[at][m].path
          \/ cards[at][m].path.at # at \/ cards'[at][m].path.at # at

LEMMA KeptBy ==
    ASSUME \A n \in GoneNow : GoneWell(n),
           \A at \in AddressPair : \A m \in Carded(at) : LedWell(at, m)
    PROVE  KeptStep
<1>1. ASSUME NEW d \in Drafts, Staged(d) \in GoneNow PROVE Squeezed(GoneNow)
  <2>1. Staged(d).at = "staged"
    BY NamesAre
  <2> QED
    BY <1>1, <2>1 DEF GoneWell
<1>2. ASSUME NEW at \in AddressPair, NEW m \in Carded(at), IsShown(cache, at, m),
             cards'[at][m] # NoCard, ~IsShown(cache, at, m)'
      PROVE  LET path == cards[at][m].path
                 next == cards'[at][m].path
             IN  \/ path \in GoneNow /\ Squeezed(GoneNow)
                 \/ FileAt(cache, path).size # Declared
                 \/ next # path /\ (path.at # at \/ next.at # at)
                 \/ path.at # at /\ Discarded(m, path.at)
  <2> DEFINE path == cards[at][m].path
             next == cards'[at][m].path
  <2>1. path \in Held(cache) /\ (KindOf[m] = "image" => cards[at][m].thumb # NoFile)
    BY <1>2 DEF IsShown
  <2>2. next \notin Held(cache') \/ ~Viewable(at, m)'
    BY <1>2 DEF IsShown, Viewable
  <2>3. CASE path \in GoneNow
    <3>1. GoneWell(path)
      BY <2>3
    <3> QED
      BY <1>2, <2>3, <3>1 DEF GoneWell
  <2>4. CASE path \notin GoneNow
    <3>1. path \in Held(cache')
      BY <2>1, <2>4 DEF GoneNow
    <3>2. cards'[at][m] # cards[at][m]
      BY <2>1, <2>2, <3>1 DEF Viewable
    <3>3. Viewable(at, m)' /\ (next = path \/ path.at # at \/ next.at # at)
      BY <1>2, <3>2 DEF LedWell
    <3> QED
      BY <2>2, <3>1, <3>3
  <2> QED
    BY <2>3, <2>4
<1> QED
  BY <1>1, <1>2 DEF KeptStep

\* What a step may do to the files, not counting the copies: write one for
\* good, write a preview or a frame, or rename what lies where a medium belongs.
Passes(f) ==
    \/ f \in Range(cache)
    \/ ~IsPart(f) /\ (f.name.part = "full" => f.is = "whole")
    \/ /\ f.name.part = "preview"
       /\ \E g \in Range(cache) :
             /\ g.name.of = f.name.of /\ g.name.at = f.name.at /\ f.is = g.is
             /\ g.name \notin Held(cache')

\* Such a step keeps what the files promise and spoils no medium.
LEMMA FilesPass ==
    ASSUME FilesFit, CopyFits, CopyIsThere, Tidy(cache), Tidy(cache'),
           CopyTyped, copy' = copy,
           \A f \in Range(cache') : Passes(f),
           \A f \in Range(cache') :
              f \in Range(cache) /\ f.name.part = "full" /\ IsPart(f) => f.name \in torn'
    PROVE  /\ FilesFit' /\ CopyFits' /\ CopyIsThere'
           /\ \A m \in Attachments, at \in AddressPair :
                 Spoiled(cache, m, at)' => Spoiled(cache, m, at)
<1>f. Held(cache') = {f.name : f \in Range(cache')}
  BY FilesOf
<1>n. \A f \in Range(cache) \cup Range(cache') : f.name \in FileName
  <2>1. Range(cache) \in SUBSET FileType /\ Range(cache') \in SUBSET FileType
    BY FilesOf
  <2> QED
    BY <2>1 DEF FileType
<1>1. ASSUME NEW f \in Range(cache') PROVE FileFits(f)'
  <2>1. CASE f \in Range(cache)
    BY <2>1 DEF FilesFit, FileFits, IsPart
  <2>2. CASE ~IsPart(f) /\ (f.name.part = "full" => f.is = "whole")
    BY <2>2 DEF FileFits, IsPart
  <2>3. CASE /\ f.name.part = "preview"
             /\ \E g \in Range(cache) :
                   /\ g.name.of = f.name.of /\ g.name.at = f.name.at /\ f.is = g.is
                   /\ g.name \notin Held(cache')
    BY <2>3 DEF FilesFit, FileFits, IsPart
  <2> QED
    BY <2>1, <2>2, <2>3 DEF Passes
<1>2. CopyFits'
  <2> SUFFICES ASSUME copy # NoCopy
               PROVE  /\ FileFits(copy)'
                      /\ \A f \in Range(cache') :
                            f.is = "cut" /\ f.name.part = "full" => f.name # AtPhone(copy.name)
    BY DEF CopyFits
  <2>1. FileFits(copy)'
    BY DEF CopyFits, FileFits, IsPart, CopyTyped
  <2>2. ASSUME NEW f \in Range(cache'), f.is = "cut", f.name.part = "full"
        PROVE  f.name # AtPhone(copy.name)
    <3>1. f \in Range(cache)
      BY <2>2 DEF Passes, IsPart
    <3> QED
      BY <2>2, <3>1 DEF CopyFits
  <2> QED
    BY <2>1, <2>2
<1>3. CopyIsThere'
  <2>1. ASSUME NEW f \in Range(cache'), f.is = "copying"
        PROVE  \/ f \in Range(cache)
               \/ /\ f.name.part = "preview"
                  /\ \E g \in Range(cache) :
                        /\ g.name.of = f.name.of /\ g.name.at = f.name.at /\ g.is = "copying"
                        /\ g.name \notin Held(cache')
    BY <2>1 DEF Passes, IsPart
  <2>2. ASSUME NEW f \in Range(cache'), f.is = "copying"
        PROVE  /\ copy # NoCopy /\ f.name.of = copy.name.of
               /\ f.name.part = "full" => f.name = AtPhone(copy.name)
    <3>1. CASE f \in Range(cache)
      BY <2>2, <3>1 DEF CopyIsThere
    <3>2. CASE /\ f.name.part = "preview"
               /\ \E g \in Range(cache) :
                     /\ g.name.of = f.name.of /\ g.name.at = f.name.at /\ g.is = "copying"
                     /\ g.name \notin Held(cache')
      BY <2>2, <3>2 DEF CopyIsThere
    <3> QED
      BY <2>1, <2>2, <3>1, <3>2
  <2>3. ASSUME NEW f \in Range(cache'), f.is = "copying", NEW g \in Range(cache'), g.is = "copying"
        PROVE  g = f
    <3>1. f.name \in Held(cache') /\ g.name \in Held(cache')
      BY <1>f
    <3>2. \A h, k \in Range(cache) : h.is = "copying" /\ k.is = "copying" => h = k
      BY DEF CopyIsThere
    <3>3. CASE f \in Range(cache) \/ g \in Range(cache)
      <4>1. f \in Range(cache) /\ g \in Range(cache)
        BY <2>1, <2>3, <3>1, <3>2, <3>3
      <4> QED
        BY <2>3, <3>2, <4>1
    <3>4. CASE f \notin Range(cache) /\ g \notin Range(cache)
      <4>1. PICK h \in Range(cache) : h.name.of = f.name.of /\ h.name.at = f.name.at /\ h.is = "copying"
        BY <2>1, <2>3, <3>4
      <4>2. PICK k \in Range(cache) : k.name.of = g.name.of /\ k.name.at = g.name.at /\ k.is = "copying"
        BY <2>1, <2>3, <3>4
      <4>3. f.name.part = "preview" /\ g.name.part = "preview" /\ h = k
        BY <2>1, <2>3, <3>2, <3>4, <4>1, <4>2
      <4>4. f.name = g.name
        BY <1>n, <4>1, <4>2, <4>3, NamesAre
      <4> QED
        BY <4>4, FilesOf
    <3> QED
      BY <3>3, <3>4
  <2> QED
    BY <2>2, <2>3 DEF CopyIsThere
<1>4. ASSUME NEW m \in Attachments, NEW at \in AddressPair, Spoiled(cache, m, at)'
      PROVE  Spoiled(cache, m, at)
  <2>1. PICK f \in Range(cache') :
           f.name = Full(m, at) /\ "preview" = IF f.is = "copying" THEN copy.is ELSE f.is
    BY <1>4 DEF Spoiled
  <2>2. f.name.part = "full"
    BY <2>1, NamesAre
  <2>3. f.is = "copying" \/ f.is = "preview"
    BY <2>1
  <2>4. f \in Range(cache)
    BY <2>2, <2>3 DEF Passes, IsPart
  <2> QED
    BY <2>1, <2>4 DEF Spoiled
<1> QED
  BY <1>1, <1>2, <1>3, <1>4 DEF FilesFit

\* A medium in the declared size, and a document, is no preview.
LEMMA DeclaredUnspoiled ==
    ASSUME CopyTyped', FilesFit', CopyFits', CopyIsThere',
           NEW m \in Attachments, NEW at \in AddressPair,
           KindOf[m] # "document" =>
              \A f \in Range(cache') : f.name = Full(m, at) => f.size = Declared
    PROVE  ~Spoiled(cache, m, at)'
<1> SUFFICES ASSUME NEW f \in Range(cache'), f.name = Full(m, at),
                    "preview" = IF f.is = "copying" THEN copy'.is ELSE f.is
             PROVE  FALSE
  BY DEF Spoiled
<1>1. f.name.part = "full" /\ f.name.of = m
  BY NamesAre
<1>2. FileFits(f)'
  BY DEF FilesFit
<1>3. CASE f.is = "copying"
  <2>1. /\ f.size # Declared /\ copy' # NoCopy /\ f.name.of = copy'.name.of
        /\ f.name = AtPhone(copy'.name) /\ copy'.is = "preview" /\ FileFits(copy)'
    BY <1>1, <1>2, <1>3 DEF FileFits, IsPart, CopyIsThere, CopyFits
  <2>2. copy'.name.part = "full"
    <3>1. copy'.name \in FileName
      BY <2>1 DEF CopyTyped, FileType
    <3> QED
      BY <1>1, <2>1, <3>1, AtPhoneIs
  <2>3. KindOf[m] = "image"
    BY <1>1, <2>1, <2>2 DEF FileFits
  <2> QED
    BY <2>1, <2>3
<1>4. CASE f.is # "copying"
  BY <1>1, <1>2, <1>4 DEF FileFits
<1> QED
  BY <1>3, <1>4

\* What a step may do to a row: nothing, remove it, lead one of the message to
\* its medium, or build it anew where no preview lies.
RowPasses(at, m) ==
    \/ cards'[at][m] = NoCard \/ cards'[at][m] = cards[at][m]
    \/ /\ PathFits(m, cards'[at][m].path)
       /\ \/ \E b \in AddressPair :
                cards[b][m] # NoCard /\ (Viewable(at, m)' => Viewable(b, m))
          \/ m \in late' \/ \A place \in AddressPair : ~Spoiled(cache, m, place)'

\* Such a step keeps what the rows promise.
LEMMA RowsPass ==
    ASSUME CardsFit, ShownUnspoiled, late \subseteq late',
           \A m \in Attachments, at \in AddressPair :
              Spoiled(cache, m, at)' => \E b \in AddressPair : Spoiled(cache, m, b),
           \A at \in AddressPair, m \in Attachments : RowPasses(at, m)
    PROVE  CardsFit' /\ ShownUnspoiled'
<1>1. CardsFit'
  BY DEF CardsFit, RowPasses
<1>2. ASSUME NEW at \in AddressPair, NEW m \in Attachments \ late', cards'[at][m] # NoCard, Viewable(at, m)',
             NEW place \in AddressPair, Spoiled(cache, m, place)'
      PROVE  FALSE
  <2>1. m \in Attachments \ late /\ RowPasses(at, m)
    OBVIOUS
  <2>2. \A b \in AddressPair : ~(cards[b][m] # NoCard /\ Viewable(b, m))
    BY <1>2, <2>1 DEF ShownUnspoiled
  <2>3. ~(cards'[at][m] = cards[at][m])
    BY <1>2, <2>2 DEF Viewable
  <2> QED
    BY <1>2, <2>1, <2>2, <2>3 DEF RowPasses
<1> QED
  BY <1>1, <1>2 DEF ShownUnspoiled

\* What the directory holds stays within what was not pruned.
LEMMA Bounds ==
    ASSUME unpruned \in Int, CacheIsBounded, cache' = cache \/ Total(cache') <= Budget,
           unpruned' = Counted(cache')
    PROVE  unpruned' \in Int /\ CacheIsBounded'
<1>1. CASE cache' = cache
  BY <1>1 DEF Counted, CacheIsBounded
<1>2. CASE cache' # cache
  BY <1>2, CacheAssumption DEF Counted, CacheIsBounded
<1> QED
  BY <1>1, <1>2

\* A row as message_media builds it leads to the medium, with a preview.
LEMMA CardIs ==
    /\ NoCard \in CardType
    /\ \A m \in Attachments, at \in AddressPair :
          /\ Card(m, at) \in CardType /\ Card(m, at).path = Full(m, at)
          /\ KindOf[m] = "image" => Card(m, at).thumb # NoFile
<1> SUFFICES ASSUME NEW m \in Attachments, NEW at \in AddressPair
             PROVE  /\ Card(m, at) \in CardType /\ Card(m, at).path = Full(m, at)
                    /\ KindOf[m] = "image" => Card(m, at).thumb # NoFile
  BY DEF NoCard, CardType
<1>1. Full(m, at) \in FileName /\ Preview(m, at) \in FileName /\ NoFile \notin FileName
  BY NamesAre
<1> QED
  BY <1>1 DEF Card, CardType

\* One row changed.
LEMMA RowSet ==
    ASSUME cards \in [AddressPair -> [Attachments -> CardType]],
           NEW at \in AddressPair, NEW m \in Attachments, NEW row \in CardType,
           cards' = [cards EXCEPT ![at][m] = row]
    PROVE  /\ cards' \in [AddressPair -> [Attachments -> CardType]]
           /\ \A b \in AddressPair, k \in Attachments :
                 cards'[b][k] = IF b = at /\ k = m THEN row ELSE cards[b][k]
<1>1. cards' = [cards EXCEPT ![at] = [cards[at] EXCEPT ![m] = row]]
  OBVIOUS
<1> DEFINE of == [cards[at] EXCEPT ![m] = row]
<1>2. /\ of \in [Attachments -> CardType]
      /\ \A k \in Attachments : of[k] = IF k = m THEN row ELSE cards[at][k]
  OBVIOUS
<1> HIDE DEF of
<1>3. /\ cards' \in [AddressPair -> [Attachments -> CardType]]
      /\ \A b \in AddressPair : cards'[b] = IF b = at THEN of ELSE cards[b]
  BY <1>1, <1>2 DEF of
<1> QED
  BY <1>2, <1>3

\* What the steps use of the invariant.
LEMMA InvGives ==
    ASSUME CacheInv
    PROVE  /\ CacheTyped /\ CardsFit /\ FilesFit /\ CopyFits /\ CopyIsThere /\ ShownUnspoiled
           /\ CacheIsBounded /\ Tidy(cache) /\ cards \in [AddressPair -> [Attachments -> CardType]]
           /\ CopyTyped /\ unpruned \in Int /\ RestTyped
  BY DEF CacheInv, CacheTyped

\* With no download under way nothing is asked of one.
LEMMA NoTransferFits == transfer' = NoTransfer => TransferFits'
  BY DEF NoTransfer, TransferType, TransferFits

\* Every step keeps the types of what the directory and the rows do not show.
LEMMA RestStep == CacheInv /\ CacheNext => RestTyped'
<1> SUFFICES ASSUME CacheInv, CacheNext PROVE RestTyped'
  OBVIOUS
<1>1. /\ entries \in SUBSET Lids /\ moves \in SUBSET Lids /\ TransferFits
      /\ sending \in SUBSET Drafts /\ happened \in Nat /\ CopyTyped
  BY InvGives DEF RestTyped
<1>2. UnderLid(cache) \in SUBSET Lids
  <2>1. \A n \in Held(cache) : n \in FileName
    <3>1. Held(cache) = {f.name : f \in Range(cache)} /\ Range(cache) \in SUBSET FileType
      BY InvGives, FilesOf
    <3> QED
      BY <3>1 DEF FileType
  <2> QED
    BY <2>1 DEF UnderLid, Lids
<1>3. copy # NoCopy => copy.name \in Lids
  BY <1>1 DEF CopyTyped, FileType, Lids
<1>4. /\ transfer' = transfer \/ transfer' = NoTransfer => TransferFits'
      /\ happened' = happened \/ happened' = happened + 1 => happened' \in Nat
  BY <1>1, NoTransferFits DEF TransferFits
<1>5. ASSUME NEW m \in Attachments, NEW at \in AddressPair, NEW step \in {"transfer", "poster"},
             transfer' = [step |-> step, of |-> m, at |-> at]
      PROVE  TransferFits'
  BY <1>5 DEF TransferFits, TransferType
<1>6. ASSUME NEW m \in Attachments, NEW at \in AddressPair, NEW thumb \in BOOLEAN, ReceiveMedia(m, at, thumb)
      PROVE  RestTyped'
  <2>1. /\ entries' = entries /\ moves' = moves /\ sending' = sending /\ happened' = happened + 1
        /\ transfer' = transfer \/ transfer' = [step |-> "transfer", of |-> m, at |-> at]
    BY <1>6 DEF ReceiveMedia, mergeVars, CacheEvent
  <2> QED
    BY <1>1, <1>4, <1>5, <2>1 DEF RestTyped
<1>7. ASSUME NEW m \in Attachments, NEW at \in AddressPair, BeginDownload(m, at) PROVE RestTyped'
  <2>1. /\ entries' = entries /\ moves' = moves /\ sending' = sending /\ happened' = happened + 1
        /\ \/ transfer' = NoTransfer \/ transfer' = [step |-> "transfer", of |-> m, at |-> at]
           \/ transfer' = [step |-> "poster", of |-> m, at |-> at]
    BY <1>7 DEF BeginDownload, mergeVars, CacheEvent
  <2> QED
    BY <1>1, <1>4, <1>5, <2>1 DEF RestTyped
<1>8. ASSUME NEW m \in Attachments, NEW at \in AddressPair,
             \/ DeleteAttachment(m, at) \/ BackfillPoster(m, at)
             \/ \E d \in Drafts : FinishSend(d, m, at)
      PROVE  RestTyped'
  <2>1. /\ entries' = entries /\ moves' = moves /\ transfer' = transfer
        /\ sending' \in SUBSET Drafts
        /\ happened' = happened \/ happened' = happened + 1
    BY <1>1, <1>8 DEF DeleteAttachment, BackfillPoster, FinishSend, mergeVars, CacheEvent
  <2> QED
    BY <1>1, <1>4, <2>1 DEF RestTyped
<1>9. ASSUME NEW d \in Drafts, Stage(d) \/ BeginSend(d) \/ AbandonSend(d) PROVE RestTyped'
  <2>1. /\ entries' = entries /\ moves' = moves /\ transfer' = transfer
        /\ sending' \in SUBSET Drafts
        /\ happened' = happened \/ happened' = happened + 1
    BY <1>1, <1>9 DEF Stage, BeginSend, AbandonSend, mergeVars, CacheEvent
  <2> QED
    BY <1>1, <1>4, <2>1 DEF RestTyped
<1>10. ASSUME FinishDownload PROVE RestTyped'
  <2>1. /\ entries' = entries /\ moves' = moves /\ sending' = sending /\ happened' = happened
        /\ transfer' = NoTransfer \/ transfer' = [transfer EXCEPT !.step = "poster"]
        /\ transfer.step = "transfer"
    BY <1>10 DEF FinishDownload, mergeVars
  <2>2. transfer' = [transfer EXCEPT !.step = "poster"] => TransferFits'
    BY <1>1, <2>1 DEF TransferFits, TransferType
  <2> QED
    BY <1>1, <1>4, <2>1, <2>2 DEF RestTyped
<1>11. ASSUME EndTransfer \/ RefreshPoster PROVE RestTyped'
  <2>1. /\ entries' = entries /\ moves' = moves /\ sending' = sending /\ happened' = happened
        /\ transfer' = NoTransfer
    BY <1>11 DEF EndTransfer, RefreshPoster, PosterMade, mergeVars
  <2> QED
    BY <1>1, <1>4, <2>1 DEF RestTyped
<1>12. ASSUME NEW at \in AddressPair, NEW keep \in BOOLEAN, ClearAttachments(at, keep) PROVE RestTyped'
  <2>1. /\ entries' = entries /\ moves' = moves /\ sending' = sending /\ happened' = happened + 1
        /\ transfer' = transfer
    BY <1>12 DEF ClearAttachments, mergeVars, CacheEvent
  <2> QED
    BY <1>1, <1>4, <2>1 DEF RestTyped
<1>13. ASSUME NEW n \in entries \cup UnderLid(cache), SkipEntry(n) \/ BeginCopy(n) PROVE RestTyped'
  <2>1. n \in Lids
    BY <1>1, <1>2
  <2>2. /\ entries' = entries /\ sending' = sending /\ happened' = happened /\ transfer' = transfer
        /\ moves' = moves \/ moves' = moves \cup {n}
    BY <1>13 DEF SkipEntry, BeginCopy
  <2> QED
    BY <1>1, <1>4, <2>1, <2>2 DEF RestTyped
<1>14. ASSUME EndCopy PROVE RestTyped'
  <2>1. /\ entries' = entries /\ sending' = sending /\ happened' = happened /\ transfer' = transfer
        /\ moves' = moves \cup {copy.name} /\ copy # NoCopy
    BY <1>14 DEF EndCopy
  <2> QED
    BY <1>1, <1>3, <1>4, <2>1 DEF RestTyped
<1>15. ASSUME MigrateRows \/ FailCopying \/ EndCopying \/ RewritePaths PROVE RestTyped'
  <2>1. /\ entries' \in {entries, UnderLid(cache), {}} /\ moves' \in {moves, {}}
        /\ sending' = sending /\ happened' = happened /\ transfer' = transfer
    BY <1>15 DEF MigrateRows, FailCopying, EndCopying, RewritePaths
  <2> QED
    BY <1>1, <1>2, <1>4, <2>1 DEF RestTyped
<1>16. ASSUME RestartCache PROVE RestTyped'
  <2>1. /\ entries' = {} /\ moves' = {} /\ sending' = {} /\ happened' = happened + 1
        /\ transfer' = NoTransfer
    BY <1>16 DEF RestartCache, CacheEvent
  <2> QED
    BY <1>4, <1>1, <2>1 DEF RestTyped
<1> QED
  BY <1>6, <1>7, <1>8, <1>9, <1>10, <1>11, <1>12, <1>13, <1>14, <1>15, <1>16 DEF CacheNext

-----------------------------------------------------------------------------
(* Its steps *)

\* What message_media does, for a message that comes and before a download.
MediaBuilt(m, at, thumb) ==
    /\ cache' = PreviewCached(cache, m, at, thumb) /\ unpruned' = Counted(cache')
    /\ cards' = cards \/ cards' = [cards EXCEPT ![at][m] = Card(m, at)]
    /\ Anew(m, at) /\ copy' = copy

\* A delivery that writes the preview of its medium (cache_media_thumbnail).
LEMMA PreviewStep ==
    ASSUME CacheInv, RestTyped', NEW m \in Attachments, NEW at \in AddressPair, NEW thumb,
           MediaBuilt(m, at, thumb)
    PROVE  CacheInv' /\ KeptStep
<1> DEFINE full == Full(m, at)
           lost == Held(cache) \ Held(cache')
<1>1. /\ CacheTyped /\ CardsFit /\ FilesFit /\ CopyFits /\ CopyIsThere /\ ShownUnspoiled
      /\ CacheIsBounded /\ Tidy(cache) /\ cards \in [AddressPair -> [Attachments -> CardType]]
      /\ CopyTyped /\ unpruned \in Int /\ RestTyped
  BY InvGives
<1>b. /\ cache' = PreviewCached(cache, m, at, thumb) /\ unpruned' = Counted(cache')
      /\ cards' = cards \/ cards' = [cards EXCEPT ![at][m] = Card(m, at)]
      /\ late' = IF \E other \in AddressPair \ {at} : Spoiled(cache, m, other)
                 THEN late \cup {m} ELSE late
      /\ torn' = IF KindOf[m] = "document" THEN torn ELSE torn \ {full}
      /\ copy' = copy
  BY DEF MediaBuilt, Anew
<1>n. /\ full \in FileName /\ full.at = at /\ full.of = m /\ full.part = "full" /\ at # "staged"
      /\ Preview(m, at).at = at /\ Preview(m, at).of = m /\ Preview(m, at).part = "preview"
  BY NamesAre DEF AddressPair
<1>2. /\ Tidy(cache') /\ (cache' = cache \/ Total(cache') <= Budget)
      /\ \A f \in Range(cache') :
            \/ f \in Range(cache)
            \/ /\ f.name = Preview(m, at)
               /\ \/ f.is = "preview"
                  \/ /\ full \notin Held(cache')
                     /\ \E g \in Range(cache) : g.name = full /\ f.is = g.is
      /\ KindOf[m] # "document" => \A f \in Range(cache') : f.name = full => f.size = Declared
      /\ \A n \in lost :
            \/ n = full /\ FileAt(cache, n).size # Declared
            \/ Total(cache') + Total(FilesIn(cache, lost)) > Budget
  <2>1. Previewed(cache, cache', m, at)
    BY <1>1, <1>b, PreviewedIs
  <2> QED
    BY <2>1 DEF Previewed
<1>3. /\ FilesFit' /\ CopyFits' /\ CopyIsThere'
      /\ \A k \in Attachments, b \in AddressPair : Spoiled(cache, k, b)' => Spoiled(cache, k, b)
  <2>1. \A f \in Range(cache') : Passes(f)
    <3> SUFFICES ASSUME NEW f \in Range(cache'), f \notin Range(cache) PROVE Passes(f)
      BY DEF Passes
    <3>1. CASE f.is = "preview"
      BY <1>2, <1>n, <3>1 DEF Passes, IsPart
    <3>2. CASE \E g \in Range(cache) : g.name = full /\ f.is = g.is /\ full \notin Held(cache')
      <4> HIDE DEF full
      <4> QED
        BY <1>2, <1>n, <3>2 DEF Passes
    <3> QED
      BY <1>2, <3>1, <3>2
  <2>2. ASSUME NEW f \in Range(cache'), f \in Range(cache), f.name.part = "full", IsPart(f)
        PROVE  f.name \in torn'
    <3>1. f.name \in torn /\ f.size # Declared
      BY <1>1, <2>2 DEF FilesFit, FileFits
    <3>2. KindOf[m] # "document" => f.name # full
      BY <1>2, <3>1
    <3> QED
      BY <1>b, <3>1, <3>2
  <2> QED
    BY <1>1, <1>2, <1>b, <2>1, <2>2, FilesPass
<1>4. ~Spoiled(cache, m, at)'
  <2>1. CopyTyped'
    BY <1>1, <1>b DEF CopyTyped
  <2> QED
    BY <1>2, <1>3, <2>1, DeclaredUnspoiled
<1>5. m \in late' \/ \A place \in AddressPair : ~Spoiled(cache, m, place)'
  BY <1>3, <1>4, <1>b
<1>6. Card(m, at) \in CardType /\ Card(m, at).path = full /\ (KindOf[m] = "image" => Card(m, at).thumb # NoFile)
  BY CardIs
<1>7. /\ cards' \in [AddressPair -> [Attachments -> CardType]]
      /\ \A b \in AddressPair, k \in Attachments :
            cards'[b][k] = cards[b][k] \/ (b = at /\ k = m /\ cards'[b][k] = Card(m, at))
  <2>1. CASE cards' = cards
    BY <1>1, <2>1
  <2>2. CASE cards' = [cards EXCEPT ![at][m] = Card(m, at)]
    <3>1. /\ cards' \in [AddressPair -> [Attachments -> CardType]]
          /\ \A b \in AddressPair, k \in Attachments :
                cards'[b][k] = IF b = at /\ k = m THEN Card(m, at) ELSE cards[b][k]
      BY <1>1, <1>6, <2>2, RowSet
    <3> QED
      BY <3>1
  <2> QED
    BY <1>b, <2>1, <2>2
<1>8. CardsFit' /\ ShownUnspoiled'
  <2>1. PathFits(m, full)
    BY DEF PathFits, AddressPair
  <2> HIDE DEF full
  <2>2. \A b \in AddressPair, k \in Attachments : RowPasses(b, k)
    BY <1>5, <1>6, <1>7, <2>1 DEF RowPasses
  <2>3. late \subseteq late'
    BY <1>b
  <2> QED
    BY <1>1, <1>3, <2>2, <2>3, RowsPass
<1>9. unpruned' \in Int /\ CacheIsBounded'
  BY <1>1, <1>2, <1>b, Bounds
<1>10. CacheTyped'
  BY <1>1, <1>2, <1>7, <1>9, <1>b DEF CacheTyped, CopyTyped
<1>11. KeptStep
  <2>1. \A n \in GoneNow : GoneWell(n)
    <3>1. GoneNow = lost
      BY DEF GoneNow
    <3> HIDE DEF lost, full
    <3> QED
      BY <1>2, <1>n, <3>1 DEF GoneWell, Squeezed
  <2>2. ASSUME NEW b \in AddressPair, NEW k \in Carded(b) PROVE LedWell(b, k)
    <3>1. k \in Attachments /\ cards[b][k] # NoCard
      BY DEF Carded
    <3>2. CASE cards'[b][k] = cards[b][k]
      BY <3>2 DEF LedWell
    <3>3. CASE b = at /\ k = m /\ cards'[b][k] = Card(m, at)
      <4>1. cards[b][k].path = Full(m, "lid") \/ cards[b][k].path = Full(m, "phone")
        BY <1>1, <3>1, <3>3 DEF CardsFit, PathFits
      <4>2. cards[b][k].path = full \/ cards[b][k].path.at # at
        BY <4>1, NamesAre DEF AddressPair
      <4>3. Viewable(b, k)'
        BY <1>6, <3>3 DEF Viewable
      <4> QED
        BY <1>6, <3>3, <4>2, <4>3 DEF LedWell
    <3> QED
      BY <1>7, <3>1, <3>2, <3>3
  <2> QED
    BY <2>1, <2>2, KeptBy
<1> QED
  BY <1>3, <1>8, <1>9, <1>10, <1>11 DEF CacheInv

\* A message with a medium comes, or a download of it begins.
LEMMA ReceiveStep ==
    ASSUME CacheInv, RestTyped', NEW m \in Attachments, NEW at \in AddressPair,
           BeginDownload(m, at) \/ \E thumb \in BOOLEAN : ReceiveMedia(m, at, thumb)
    PROVE  CacheInv' /\ KeptStep
<1>1. PICK thumb \in BOOLEAN : MediaBuilt(m, at, thumb)
  <2>1. CASE BeginDownload(m, at)
    BY <2>1 DEF BeginDownload, MediaBuilt, mergeVars
  <2>2. CASE \E thumb \in BOOLEAN : ReceiveMedia(m, at, thumb)
    BY <2>2 DEF ReceiveMedia, MediaBuilt, mergeVars
  <2> QED
    BY <2>1, <2>2
<1> QED
  BY <1>1, PreviewStep

\* A file of its own written for good, and the directory pruned.
FileAdded(g) ==
    /\ ~IsPart(g) /\ (g.name.part = "full" => g.is = "whole")
    /\ cache' = Trimmed(Written(cache, g), g.name) /\ unpruned' = 0
    /\ cards' = cards /\ late' = late /\ copy' = copy
    /\ torn' = torn \/ torn' = torn \ {g.name}

\* A step that adds or replaces one file and leaves every row as it is.
LEMMA WriteStep ==
    ASSUME CacheInv, RestTyped', NEW g \in FileType, FileAdded(g)
    PROVE  CacheInv' /\ KeptStep
<1> DEFINE lost == Held(cache) \ Held(cache')
<1>1. /\ CacheTyped /\ CardsFit /\ FilesFit /\ CopyFits /\ CopyIsThere /\ ShownUnspoiled
      /\ Tidy(cache) /\ CopyTyped
  BY InvGives
<1>b. /\ cache' = Trimmed(Written(cache, g), g.name) /\ unpruned' = 0 /\ cards' = cards
      /\ late' = late /\ copy' = copy
  BY DEF FileAdded
<1>2. /\ Tidy(cache') /\ Total(cache') <= Budget
      /\ \A f \in Range(cache') : f = g \/ (f \in Range(cache) /\ f.name # g.name)
      /\ \A n \in lost : Total(cache') + Total(FilesIn(cache, lost)) > Budget
  BY <1>1, <1>b, WritesPrune
<1>3. /\ FilesFit' /\ CopyFits' /\ CopyIsThere'
      /\ \A k \in Attachments, b \in AddressPair : Spoiled(cache, k, b)' => Spoiled(cache, k, b)
  <2>1. \A f \in Range(cache') : Passes(f)
    BY <1>2 DEF FileAdded, Passes
  <2>2. ASSUME NEW f \in Range(cache'), f \in Range(cache), f.name.part = "full", IsPart(f)
        PROVE  f.name \in torn'
    <3>1. f.name \in torn
      BY <1>1, <2>2 DEF FilesFit, FileFits
    <3>2. f.name # g.name
      BY <1>2, <2>2 DEF FileAdded
    <3> QED
      BY <3>1, <3>2 DEF FileAdded
  <2> QED
    BY <1>1, <1>2, <1>b, <2>1, <2>2, FilesPass
<1>4. CardsFit' /\ ShownUnspoiled'
  <2>1. late \subseteq late' /\ \A at \in AddressPair, k \in Attachments : RowPasses(at, k)
    BY <1>b DEF RowPasses
  <2> QED
    BY <1>1, <1>3, <2>1, RowsPass
<1>5. unpruned' \in Int /\ CacheIsBounded'
  BY <1>2, <1>b, CacheAssumption DEF CacheIsBounded
<1>6. CacheTyped'
  BY <1>1, <1>2, <1>5, <1>b DEF CacheTyped, CopyTyped
<1>7. KeptStep
  <2>1. \A n \in GoneNow : GoneWell(n)
    BY <1>2 DEF GoneWell, Squeezed, GoneNow
  <2>2. \A at \in AddressPair : \A m \in Carded(at) : LedWell(at, m)
    BY <1>b DEF LedWell
  <2> QED
    BY <2>1, <2>2, KeptBy
<1> QED
  BY <1>3, <1>4, <1>5, <1>6, <1>7 DEF CacheInv

\* A transfer is committed.
LEMMA FinishDownloadStep ==
    ASSUME CacheInv, RestTyped', FinishDownload
    PROVE  CacheInv' /\ KeptStep
<1> DEFINE of == transfer.of
           at == transfer.at
           path == Downloaded(of, at)
<1>1. of \in Attachments /\ at \in AddressPair
  BY InvGives DEF FinishDownload, TransferFits, RestTyped
<1>2. PICK size \in Sizes(of) : /\ cache' = Trimmed(Written(cache, File(path, size, "whole")), path)
                                /\ torn' = torn \ {path}
  BY DEF FinishDownload
<1> DEFINE g == File(path, size, "whole")
<1>3. g \in FileType /\ g.name = path /\ g.is = "whole"
  <2>1. path \in FileName /\ size \in 0..(Declared + 1)
    BY <1>1, <1>2, NamesAre
  <2> HIDE DEF path
  <2> QED
    BY <2>1 DEF File, FileType
<1>4. unpruned' = 0 /\ cards' = cards /\ late' = late /\ copy' = copy
  BY DEF FinishDownload, mergeVars
<1>5. cache' = Trimmed(Written(cache, g), g.name) /\ torn' = torn \ {g.name}
  BY <1>2, <1>3
<1> HIDE DEF g, path
<1>6. FileAdded(g)
  BY <1>3, <1>4, <1>5 DEF FileAdded, IsPart
<1> QED
  BY <1>3, <1>6, WriteStep

\* A frame of a video is written, for a download or by the pass over them.
LEMMA PosterStep ==
    ASSUME CacheInv, RestTyped', RefreshPoster \/ \E m \in Attachments, at \in AddressPair : BackfillPoster(m, at)
    PROVE  CacheInv' /\ KeptStep
<1>1. PICK m \in Attachments, at \in AddressPair :
         PosterMade(m, at) /\ cards' = cards /\ late' = late /\ copy' = copy /\ torn' = torn
  <2>1. CASE RefreshPoster
    <3>1. transfer.of \in Attachments /\ transfer.at \in AddressPair
      BY <2>1, InvGives DEF RefreshPoster, TransferFits, RestTyped
    <3> QED
      BY <2>1, <3>1 DEF RefreshPoster, mergeVars
  <2>2. CASE \E m \in Attachments, at \in AddressPair : BackfillPoster(m, at)
    BY <2>2 DEF BackfillPoster, mergeVars
  <2> QED
    BY <2>1, <2>2
<1> DEFINE path == Preview(m, at)
           g == File(path, PreviewSize, "frame")
<1>2. g \in FileType /\ g.name = path /\ path.part = "preview" /\ g.is = "frame"
  <2>1. path \in FileName /\ path.part = "preview" /\ PreviewSize \in 0..(Declared + 1)
    BY NamesAre
  <2> HIDE DEF path
  <2> QED
    BY <2>1 DEF File, FileType
<1>3. cache' = Trimmed(Written(cache, g), g.name) /\ unpruned' = 0
  BY <1>1, <1>2 DEF PosterMade
<1> HIDE DEF g, path
<1>4. FileAdded(g)
  BY <1>1, <1>2, <1>3 DEF FileAdded, IsPart
<1> QED
  BY <1>2, <1>4, WriteStep

\* A step that leaves the directory and its rows alone.
LEMMA IdleStep ==
    ASSUME CacheInv, RestTyped', UNCHANGED <<cache, cards, copy, late, torn, unpruned>>
    PROVE  CacheInv' /\ KeptStep
<1>1. CacheTyped' /\ CardsFit' /\ CacheIsBounded'
  BY InvGives DEF CacheTyped, CopyTyped, CardsFit, CacheIsBounded
<1>2. FilesFit' /\ CopyFits' /\ CopyIsThere'
  BY InvGives DEF FilesFit, CopyFits, CopyIsThere, FileFits
<1>3. ShownUnspoiled'
  BY InvGives DEF ShownUnspoiled, Viewable, Spoiled
<1>4. KeptStep
  <2>1. \A n : n \notin GoneNow
    BY DEF GoneNow
  <2>2. \A at \in AddressPair : \A m \in Carded(at) : LedWell(at, m)
    BY DEF LedWell
  <2> QED
    BY <2>1, <2>2, KeptBy
<1> QED
  BY <1>1, <1>2, <1>3, <1>4 DEF CacheInv

\* What is left to show of a step.
LEMMA StepIs ==
    ASSUME CacheInv, RestTyped', Tidy(cache'), CopyTyped', unpruned' \in Int, CacheIsBounded',
           FilesFit', CopyFits', CopyIsThere', late \subseteq late',
           cards' \in [AddressPair -> [Attachments -> CardType]],
           \A m \in Attachments, at \in AddressPair :
              Spoiled(cache, m, at)' => \E b \in AddressPair : Spoiled(cache, m, b),
           \A at \in AddressPair, m \in Attachments : RowPasses(at, m),
           \A n \in GoneNow : GoneWell(n),
           \A at \in AddressPair : \A m \in Carded(at) : LedWell(at, m)
    PROVE  CacheInv' /\ KeptStep
<1>1. CacheTyped'
  BY DEF CacheTyped
<1>2. CardsFit' /\ ShownUnspoiled'
  BY InvGives, RowsPass
<1> QED
  BY <1>1, <1>2, KeptBy DEF CacheInv

\* The shell stages a draft; nothing is pruned.
LEMMA StageStep ==
    ASSUME CacheInv, RestTyped', NEW d \in Drafts, Stage(d)
    PROVE  CacheInv' /\ KeptStep
<1> DEFINE g == File(Staged(d), Declared, "whole")
<1>1. g \in FileType /\ g.name = Staged(d) /\ g.is = "whole" /\ g.size = Declared
  <2>1. Staged(d) \in FileName /\ Declared \in 0..(Declared + 1)
    BY NamesAre
  <2> QED
    BY <2>1 DEF File, FileType
<1>2. /\ cache' = Written(cache, g) /\ unpruned' = unpruned + Declared
      /\ cards' = cards /\ copy' = copy /\ late' = late /\ torn' = torn
  BY DEF Stage, mergeVars
<1>3. /\ CacheTyped /\ FilesFit /\ CopyFits /\ CopyIsThere /\ CacheIsBounded
      /\ Tidy(cache) /\ unpruned \in Int /\ CopyTyped
      /\ cards \in [AddressPair -> [Attachments -> CardType]]
  BY InvGives
<1> HIDE DEF g
<1>4. /\ Tidy(cache') /\ Held(cache') = Held(cache) \cup {g.name}
      /\ Range(cache') = {f \in Range(cache) : f.name # g.name} \cup {g}
  BY <1>1, <1>2, <1>3, WrittenIs
<1>5. /\ FilesFit' /\ CopyFits' /\ CopyIsThere'
      /\ \A k \in Attachments, b \in AddressPair : Spoiled(cache, k, b)' => Spoiled(cache, k, b)
  <2>1. \A f \in Range(cache') : Passes(f)
    BY <1>1, <1>4 DEF Passes, IsPart
  <2>2. \A f \in Range(cache') :
           f \in Range(cache) /\ f.name.part = "full" /\ IsPart(f) => f.name \in torn'
    BY <1>2, <1>3 DEF FilesFit, FileFits
  <2> QED
    BY <1>2, <1>3, <1>4, <2>1, <2>2, FilesPass
<1>6. unpruned' \in Int /\ CacheIsBounded'
  <2> DEFINE rest == {f \in Range(cache) : f.name # g.name}
  <2>1. /\ rest \in SUBSET FileType /\ IsFiniteSet(rest) /\ rest \subseteq Range(cache)
        /\ Range(cache) \in SUBSET FileType /\ IsFiniteSet(Range(cache))
        /\ {g} \in SUBSET FileType /\ IsFiniteSet({g})
    <3>1. Range(cache) \in SUBSET FileType /\ IsFiniteSet(Range(cache)) /\ rest \in SUBSET Range(cache)
      BY <1>3, FilesOf
    <3>2. IsFiniteSet(rest) /\ IsFiniteSet({g})
      BY <3>1, FS_Subset, FS_Singleton
    <3> QED
      BY <1>1, <3>1, <3>2
  <2> HIDE DEF rest
  <2> DEFINE a == Cardinality(Bytes(rest))
             b == Cardinality(Bytes({g}))
             t == Cardinality(Bytes(rest \cup {g}))
  <2>2. t <= a + b /\ a <= Total(cache) /\ b = Declared /\ a \in Nat /\ b \in Nat
    BY <1>1, <2>1, BytesCount DEF Total
  <2>3. Total(cache') = t /\ t \in Nat
    <3>1. Range(cache') = rest \cup {g}
      BY <1>4 DEF rest
    <3> QED
      BY <1>4, <3>1, TotalCounts DEF Total
  <2>4. Total(cache) \in Nat /\ Total(cache) <= Budget + unpruned /\ Budget \in Nat /\ Declared \in Nat
    BY <1>3, TotalCounts, CacheAssumption DEF CacheIsBounded, Declared
  <2> HIDE DEF a, b, t
  <2>5. Total(cache') <= Budget + (unpruned + Declared)
    BY <1>3, <2>2, <2>3, <2>4
  <2> QED
    BY <1>2, <1>3, <2>4, <2>5 DEF CacheIsBounded
<1>7. /\ \A at \in AddressPair, m \in Attachments : RowPasses(at, m) /\ LedWell(at, m)
      /\ late \subseteq late' /\ CopyTyped'
  BY <1>2, <1>3 DEF RowPasses, LedWell, CopyTyped
<1>8. \A n : n \notin GoneNow
  BY <1>4 DEF GoneNow
<1> QED
  BY <1>2, <1>3, <1>4, <1>5, <1>6, <1>7, <1>8, StepIs DEF Carded

\* A draft was sent and is copied for its row.
LEMMA FinishSendStep ==
    ASSUME CacheInv, RestTyped', NEW d \in Drafts, NEW m \in Attachments, NEW at \in AddressPair,
           FinishSend(d, m, at)
    PROVE  CacheInv' /\ KeptStep
<1> DEFINE path == Full(m, at)
           g == File(path, Declared, "whole")
           lost == Held(cache) \ Held(cache')
           card == [path |-> path, thumb |-> IF KindOf[m] = "image" THEN path ELSE NoFile]
<1>1. /\ FilesFit /\ CopyFits /\ CopyIsThere /\ Tidy(cache) /\ CopyTyped
      /\ cards \in [AddressPair -> [Attachments -> CardType]]
  BY InvGives
<1>2. path \in FileName /\ path.part = "full" /\ NoFile \notin FileName /\ PathFits(m, path)
  BY NamesAre DEF PathFits, AddressPair
<1>3. g \in FileType /\ g.name = path /\ g.is = "whole"
  <2>1. Declared \in 0..(Declared + 1)
    BY NamesAre
  <2> HIDE DEF path
  <2> QED
    BY <1>2, <2>1 DEF File, FileType
<1>4. card \in CardType /\ card.path = path
  <2> HIDE DEF path
  <2> QED
    BY <1>2 DEF CardType
<1>5. /\ \A b \in AddressPair : cards[b][m] = NoCard
      /\ \A n \in Held(cache) : n.of # m
      /\ unpruned' = 0 /\ copy' = copy /\ late' = late /\ torn' = torn
      /\ \/ cache' = Trimmed(Written(cache, g), path)
         \/ cache' = Trimmed(cache, Staged(d))
      /\ cards' = cards \/ cards' = [cards EXCEPT ![at][m] = card]
  <2>1. (\A b \in AddressPair : m \notin Carded(b)) /\ \A n \in Held(cache) : n.of # m
    BY DEF FinishSend, NewId
  <2>2. \A b \in AddressPair : cards[b][m] = NoCard
    BY <2>1 DEF Carded
  <2> QED
    BY <2>1, <2>2 DEF FinishSend, mergeVars
<1> HIDE DEF g, path, card
<1>6. /\ Tidy(cache') /\ Total(cache') <= Budget
      /\ \A f \in Range(cache') : f = g \/ f \in Range(cache)
      /\ \A n \in lost : Total(cache') + Total(FilesIn(cache, lost)) > Budget
  <2>1. CASE cache' = Trimmed(Written(cache, g), path)
    BY <1>1, <1>3, <2>1, WritesPrune
  <2>2. CASE cache' = Trimmed(cache, Staged(d))
    <3> DEFINE t == Trimmed(cache, Staged(d))
               shed == Held(cache) \ Held(t)
    <3>1. /\ Tidy(t) /\ Range(t) \subseteq Range(cache) /\ Total(t) <= Budget
          /\ \A n \in shed : n \notin Held(cache) \/ Total(t) + Total(FilesIn(cache, shed)) > Budget
      BY <1>1, Trims
    <3>2. \A n \in shed : n \in Held(cache)
      OBVIOUS
    <3>3. t = cache'
      BY <2>2
    <3> HIDE DEF t
    <3> QED
      BY <3>1, <3>2, <3>3
  <2> QED
    BY <1>5, <2>1, <2>2
<1>7. /\ FilesFit' /\ CopyFits' /\ CopyIsThere'
      /\ \A k \in Attachments, b \in AddressPair : Spoiled(cache, k, b)' => Spoiled(cache, k, b)
  <2>1. \A f \in Range(cache') : Passes(f)
    BY <1>3, <1>6 DEF Passes, IsPart
  <2>2. \A f \in Range(cache') :
           f \in Range(cache) /\ f.name.part = "full" /\ IsPart(f) => f.name \in torn'
    BY <1>1, <1>5 DEF FilesFit, FileFits
  <2> QED
    BY <1>1, <1>5, <1>6, <2>1, <2>2, FilesPass
<1>8. /\ cards' \in [AddressPair -> [Attachments -> CardType]]
      /\ \A b \in AddressPair, k \in Attachments :
            cards'[b][k] = cards[b][k] \/ (k = m /\ cards'[b][k] = card)
  <2>1. CASE cards' = cards
    BY <1>1, <2>1
  <2>2. CASE cards' = [cards EXCEPT ![at][m] = card]
    <3>1. /\ cards' \in [AddressPair -> [Attachments -> CardType]]
          /\ \A b \in AddressPair, k \in Attachments :
                cards'[b][k] = IF b = at /\ k = m THEN card ELSE cards[b][k]
      BY <1>1, <1>4, <2>2, RowSet
    <3> QED
      BY <3>1
  <2> QED
    BY <1>5, <2>1, <2>2
<1>9. \A place \in AddressPair : ~Spoiled(cache, m, place)'
  <2> SUFFICES ASSUME NEW place \in AddressPair, NEW f \in Range(cache), f.name = Full(m, place)
               PROVE  FALSE
    BY <1>7 DEF Spoiled
  <2>1. f.name \in Held(cache)
    BY <1>1, FilesOf
  <2>2. f.name.of = m
    BY NamesAre
  <2> QED
    BY <1>5, <2>1, <2>2
<1>10. \A b \in AddressPair, k \in Attachments : RowPasses(b, k)
  BY <1>2, <1>4, <1>8, <1>9 DEF RowPasses
<1>11. \A n \in GoneNow : GoneWell(n)
  BY <1>6 DEF GoneWell, Squeezed, GoneNow
<1>12. \A b \in AddressPair : \A k \in Carded(b) : LedWell(b, k)
  BY <1>5, <1>8 DEF LedWell, Carded
<1>13. unpruned' \in Int /\ CacheIsBounded' /\ CopyTyped' /\ late \subseteq late'
  BY <1>1, <1>5, <1>6, CacheAssumption DEF CacheIsBounded, CopyTyped
<1> QED
  BY <1>6, <1>7, <1>8, <1>10, <1>11, <1>12, <1>13, StepIs

\* Files and rows removed by an event, all those of m, or of the chat, under
\* the address.
LEMMA ShedStep ==
    ASSUME CacheInv, RestTyped', NEW N, NEW at \in AddressPair,
           Tidy(cache'), Range(cache') \subseteq Range(cache), Held(cache') = Held(cache) \ N,
           UNCHANGED <<copy, late, torn, unpruned>>,
           cards' \in [AddressPair -> [Attachments -> CardType]],
           \A b \in AddressPair, k \in Attachments : cards'[b][k] = cards[b][k] \/ cards'[b][k] = NoCard,
           \A n \in N \cap Held(cache) :
              n.at = at /\ \A k \in Attachments : PathFits(k, n) =>
                              cards'[at][k] = NoCard /\ Discarded(k, at)
    PROVE  CacheInv' /\ KeptStep
<1>1. /\ CardsFit /\ FilesFit /\ CopyFits /\ CopyIsThere /\ CacheIsBounded /\ Tidy(cache)
      /\ unpruned \in Int /\ CopyTyped
  BY InvGives
<1>2. /\ FilesFit' /\ CopyFits' /\ CopyIsThere'
      /\ \A k \in Attachments, b \in AddressPair : Spoiled(cache, k, b)' => Spoiled(cache, k, b)
  <2>1. \A f \in Range(cache') : Passes(f)
    BY DEF Passes
  <2>2. \A f \in Range(cache') :
           f \in Range(cache) /\ f.name.part = "full" /\ IsPart(f) => f.name \in torn'
    BY <1>1 DEF FilesFit, FileFits
  <2> QED
    BY <1>1, <2>1, <2>2, FilesPass
<1>3. CacheIsBounded'
  <2>1. Total(cache') <= Total(cache) /\ Total(cache) \in Nat /\ Total(cache') \in Nat
    BY <1>1, TotalCounts
  <2> QED
    BY <1>1, <2>1, CacheAssumption DEF CacheIsBounded
<1>4. ASSUME NEW n \in GoneNow PROVE GoneWell(n)
  <2>1. n \in N \cap Held(cache)
    BY DEF GoneNow
  <2>2. n.at = at /\ at # "staged"
    BY <2>1 DEF AddressPair
  <2>3. ASSUME NEW b \in AddressPair, NEW k \in Carded(b), cards[b][k].path = n
        PROVE  cards'[b][k] = NoCard \/ (n.at # b /\ Discarded(k, n.at))
    <3>1. k \in Attachments /\ PathFits(k, n)
      BY <1>1, <2>3 DEF Carded, CardsFit
    <3>2. cards'[at][k] = NoCard /\ Discarded(k, at)
      BY <2>1, <3>1
    <3> QED
      BY <2>2, <3>2
  <2> QED
    BY <2>2, <2>3 DEF GoneWell
<1>5. /\ \A b \in AddressPair, k \in Attachments : RowPasses(b, k)
      /\ \A b \in AddressPair : \A k \in Carded(b) : LedWell(b, k)
  BY DEF RowPasses, LedWell, Carded
<1>6. CopyTyped' /\ late \subseteq late' /\ unpruned' \in Int
  BY <1>1 DEF CopyTyped
<1> QED
  BY <1>2, <1>3, <1>4, <1>5, <1>6, StepIs

\* A message is deleted.
LEMMA DeleteStep ==
    ASSUME CacheInv, RestTyped', NEW m \in Attachments, NEW at \in AddressPair, DeleteAttachment(m, at)
    PROVE  CacheInv' /\ KeptStep
<1> DEFINE N == {Full(m, at), Preview(m, at), Name(m, at, "bare")}
<1>1. /\ cache' = Without(cache, N) /\ cards' = [cards EXCEPT ![at][m] = NoCard]
      /\ happened' = happened + 1 /\ UNCHANGED <<copy, late, torn, unpruned>>
  BY DEF DeleteAttachment, CacheEvent, mergeVars
<1>2. /\ Tidy(cache) /\ happened \in Nat /\ cards \in [AddressPair -> [Attachments -> CardType]]
      /\ NoCard \in CardType
  BY InvGives, CardIs DEF RestTyped
<1>3. Held(cache) \subseteq FileName
  <2>1. Held(cache) = {f.name : f \in Range(cache)} /\ Range(cache) \in SUBSET FileType
    BY <1>2, FilesOf
  <2> QED
    BY <2>1 DEF FileType
<1>4. /\ cards' \in [AddressPair -> [Attachments -> CardType]]
      /\ \A b \in AddressPair, k \in Attachments :
            cards'[b][k] = IF b = at /\ k = m THEN NoCard ELSE cards[b][k]
  BY <1>1, <1>2, RowSet
<1>5. \A n \in FileName : n \in N <=> n.of = m /\ n.at = at
  BY NamesAre
<1>6. \A n \in N : n.at = at
  BY NamesAre
<1> HIDE DEF N
<1>7. /\ Tidy(cache') /\ Range(cache') \subseteq Range(cache) /\ Held(cache') = Held(cache) \ N
  BY <1>1, <1>2, WithoutIs
<1>8. Discarded(m, at)
  <2>1. happened' # happened
    BY <1>1, <1>2
  <2> QED
    BY <1>3, <1>5, <1>7, <2>1 DEF Discarded
<1>9. ASSUME NEW n \in N \cap Held(cache), NEW k \in Attachments, PathFits(k, n)
      PROVE  cards'[at][k] = NoCard /\ Discarded(k, at)
  <2>1. n.of = k /\ n.of = m
    BY <1>3, <1>5, <1>9, NamesAre DEF PathFits, AddressPair
  <2> QED
    BY <1>4, <1>8, <2>1
<1> QED
  BY <1>1, <1>4, <1>6, <1>7, <1>9, ShedStep

\* The chat is deleted or cleared.
LEMMA ClearStep ==
    ASSUME CacheInv, RestTyped', NEW at \in AddressPair, NEW keep \in BOOLEAN, ClearAttachments(at, keep)
    PROVE  CacheInv' /\ KeptStep
<1> DEFINE N == IF keep THEN {} ELSE {n \in Held(cache) : n.at = at}
<1>1. /\ cache' = IF keep THEN cache ELSE Without(cache, {n \in Held(cache) : n.at = at})
      /\ cards' = [cards EXCEPT ![at] = [m \in Attachments |-> NoCard]]
      /\ happened' = happened + 1 /\ UNCHANGED <<copy, late, torn, unpruned>>
  BY DEF ClearAttachments, CacheEvent, mergeVars
<1>2. /\ Tidy(cache) /\ happened \in Nat /\ cards \in [AddressPair -> [Attachments -> CardType]]
      /\ NoCard \in CardType
  BY InvGives, CardIs DEF RestTyped
<1>3. /\ cards' \in [AddressPair -> [Attachments -> CardType]]
      /\ \A b \in AddressPair, k \in Attachments : cards'[b][k] = IF b = at THEN NoCard ELSE cards[b][k]
  BY <1>1, <1>2
<1>4. Tidy(cache') /\ Range(cache') \subseteq Range(cache) /\ Held(cache') = Held(cache) \ N
  <2>1. CASE keep
    BY <1>1, <1>2, <2>1
  <2>2. CASE ~keep
    BY <1>1, <1>2, <2>2, WithoutIs
  <2> QED
    BY <2>1, <2>2
<1>5. ASSUME NEW n \in N \cap Held(cache)
      PROVE  n.at = at /\ \A k \in Attachments : cards'[at][k] = NoCard /\ Discarded(k, at)
  <2>1. happened' # happened
    BY <1>1, <1>2
  <2>2. ~keep /\ n.at = at
    BY <1>5
  <2>3. \A n2 \in Held(cache') : n2.at # at
    BY <1>4, <2>2
  <2> QED
    BY <1>3, <2>1, <2>2, <2>3 DEF Discarded
<1> HIDE DEF N
<1> QED
  BY <1>1, <1>3, <1>4, <1>5, ShedStep

\* A step that leaves the directory and what is copied alone, and leads rows.
LEMMA LeadStep ==
    ASSUME CacheInv, RestTyped', UNCHANGED <<cache, copy, late, torn, unpruned>>,
           cards' \in [AddressPair -> [Attachments -> CardType]],
           \A at \in AddressPair, m \in Attachments :
              RowPasses(at, m) /\ (m \in Carded(at) => LedWell(at, m))
    PROVE  CacheInv' /\ KeptStep
<1>1. /\ FilesFit /\ CopyFits /\ CopyIsThere /\ CacheIsBounded /\ Tidy(cache)
      /\ unpruned \in Int /\ CopyTyped
  BY InvGives
<1>2. FilesFit' /\ CopyFits' /\ CopyIsThere' /\ CopyTyped' /\ CacheIsBounded'
  BY <1>1 DEF FilesFit, FileFits, CopyFits, CopyIsThere, CopyTyped, CacheIsBounded
<1>3. \A m \in Attachments, at \in AddressPair : Spoiled(cache, m, at)' => Spoiled(cache, m, at)
  BY DEF Spoiled
<1>4. \A n : n \notin GoneNow
  BY DEF GoneNow
<1> QED
  BY <1>1, <1>2, <1>3, <1>4, StepIs DEF Carded

\* The rows under the LID move under the number; the paths stay.
LEMMA MigrateStep ==
    ASSUME CacheInv, RestTyped', MigrateRows
    PROVE  CacheInv' /\ KeptStep
<1>1. CardsFit /\ cards \in [AddressPair -> [Attachments -> CardType]] /\ NoCard \in CardType
  BY InvGives, CardIs
<1>2. /\ UNCHANGED <<cache, copy, late, torn, unpruned>>
      /\ cards' = [at \in AddressPair |-> [m \in Attachments |->
                     IF at = "lid" THEN NoCard
                     ELSE IF m \in Carded("phone") THEN cards["phone"][m] ELSE cards["lid"][m]]]
  BY DEF MigrateRows
<1>3. cards' \in [AddressPair -> [Attachments -> CardType]]
  BY <1>1, <1>2 DEF AddressPair
<1>4. ASSUME NEW at \in AddressPair, NEW m \in Attachments
      PROVE  RowPasses(at, m) /\ (m \in Carded(at) => LedWell(at, m))
  <2>1. /\ at = "lid" => cards'[at][m] = NoCard
        /\ at = "phone" /\ cards["phone"][m] # NoCard => cards'[at][m] = cards[at][m]
        /\ at = "phone" /\ cards["phone"][m] = NoCard => cards'[at][m] = cards["lid"][m]
    BY <1>2 DEF Carded
  <2>2. CASE cards'[at][m] = NoCard \/ cards'[at][m] = cards[at][m]
    BY <2>2 DEF RowPasses, LedWell
  <2>3. CASE at = "phone" /\ cards["phone"][m] = NoCard /\ cards["lid"][m] # NoCard
    <3>1. "lid" \in AddressPair /\ cards'[at][m] = cards["lid"][m]
      BY <2>1, <2>3 DEF AddressPair
    <3>2. PathFits(m, cards'[at][m].path) /\ (Viewable(at, m)' => Viewable("lid", m))
      BY <1>1, <2>3, <3>1 DEF CardsFit, Viewable
    <3> QED
      BY <2>3, <3>1, <3>2 DEF RowPasses, Carded
  <2> QED
    BY <2>1, <2>2, <2>3 DEF AddressPair
<1> QED
  BY <1>2, <1>3, <1>4, LeadStep

\* The paths of what was copied are rewritten, or not.
LEMMA RewriteStep ==
    ASSUME CacheInv, RestTyped', RewritePaths
    PROVE  CacheInv' /\ KeptStep
<1> DEFINE Paths == FileName \cup {NoFile}
           Moved(n) == IF n \in moves THEN AtPhone(n) ELSE n
           Led(at, m) == [path |-> Moved(cards[at][m].path), thumb |-> Moved(cards[at][m].thumb)]
           led == [at \in AddressPair |-> [m \in Attachments |-> Led(at, m)]]
<1>1. CardsFit /\ cards \in [AddressPair -> [Attachments -> CardType]] /\ moves \in SUBSET Lids
  BY InvGives DEF RestTyped
<1>2. UNCHANGED <<cache, copy, late, torn, unpruned>> /\ cards' \in {cards, led}
  BY DEF RewritePaths
<1>3. /\ \A n \in Paths : Moved(n) \in Paths /\ (Moved(n) # NoFile => n # NoFile)
      /\ Moved(NoFile) = NoFile
      /\ \A n \in Paths : Moved(n) = n \/ (n.at = "lid" /\ Moved(n).at = "phone")
  <2>1. \A n \in moves : n \in FileName /\ n.at = "lid"
    BY <1>1 DEF Lids
  <2>2. NoFile \notin moves
    BY <2>1, NamesAre
  <2>3. \A n \in moves : AtPhone(n) \in FileName /\ AtPhone(n).at = "phone"
    BY <2>1, AtPhoneIs
  <2> QED
    BY <2>1, <2>2, <2>3
<1>4. \A m \in Attachments : \A n \in {Full(m, "lid"), Full(m, "phone")} :
         Moved(n) \in {Full(m, "lid"), Full(m, "phone")}
  <2> SUFFICES ASSUME NEW m \in Attachments
               PROVE  \A n \in {Full(m, "lid"), Full(m, "phone")} :
                         Moved(n) \in {Full(m, "lid"), Full(m, "phone")}
    OBVIOUS
  <2>1. AtPhone(Full(m, "lid")) = Full(m, "phone") /\ Full(m, "phone") \notin moves
    BY <1>1, AtPhoneIs, NamesAre DEF Lids, AddressPair
  <2> QED
    BY <2>1
<1> HIDE DEF Moved, Paths
<1>5. CASE cards' = cards
  BY <1>1, <1>2, <1>5, LeadStep DEF RowPasses, LedWell
<1>6. CASE cards' = led
  <2>1. ASSUME NEW at \in AddressPair, NEW m \in Attachments
        PROVE  /\ cards[at][m].path \in Paths /\ cards[at][m].thumb \in Paths
               /\ cards'[at][m] = Led(at, m)
    <3>1. cards[at][m] \in CardType
      BY <1>1
    <3> QED
      BY <1>6, <3>1 DEF CardType, Paths
  <2>2. cards' \in [AddressPair -> [Attachments -> CardType]]
    <3>1. \A p \in Paths, t \in Paths : [path |-> Moved(p), thumb |-> Moved(t)] \in CardType
      BY <1>3 DEF CardType, Paths
    <3>2. \A at \in AddressPair, m \in Attachments : Led(at, m) \in CardType
      BY <2>1, <3>1
    <3> HIDE DEF Led
    <3> QED
      BY <1>6, <3>2
  <2>3. ASSUME NEW at \in AddressPair, NEW m \in Attachments PROVE RowPasses(at, m) /\ LedWell(at, m)
    <3> DEFINE path == cards[at][m].path
               thumb == cards[at][m].thumb
    <3>1. /\ cards'[at][m].path = Moved(path) /\ cards'[at][m].thumb = Moved(thumb)
          /\ path \in Paths /\ thumb \in Paths
      <4> DEFINE p == Moved(path)
                 t == Moved(thumb)
      <4>1. cards'[at][m] = [path |-> p, thumb |-> t] /\ path \in Paths /\ thumb \in Paths
        BY <2>1
      <4> HIDE DEF p, t
      <4>2. cards'[at][m].path = p /\ cards'[at][m].thumb = t
        BY <4>1
      <4> QED
        BY <4>1, <4>2 DEF p, t
    <3>2. CASE cards[at][m] = NoCard
      <4>1. cards'[at][m] = NoCard
        BY <1>3, <2>1, <3>2 DEF NoCard
      <4> QED
        BY <4>1 DEF RowPasses, LedWell
    <3>3. CASE cards[at][m] # NoCard
      <4>1. PathFits(m, path)
        BY <1>1, <3>3 DEF CardsFit
      <4>2. PathFits(m, cards'[at][m].path)
        BY <1>4, <3>1, <4>1 DEF PathFits
      <4>3. Viewable(at, m)' => Viewable(at, m)
        BY <1>3, <3>1 DEF Viewable
      <4>4. IsShown(cache, at, m) => Viewable(at, m)'
        <5>1. \A n \in Paths : n # NoFile => Moved(n) # NoFile
          BY <1>3, NamesAre
        <5> QED
          BY <3>1, <5>1 DEF Viewable, IsShown
      <4>5. Moved(path) = path \/ path.at # at \/ Moved(path).at # at
        BY <1>3, <3>1 DEF AddressPair
      <4> QED
        BY <3>1, <3>3, <4>2, <4>3, <4>4, <4>5 DEF RowPasses, LedWell
    <3> QED
      BY <3>2, <3>3
  <2> HIDE DEF led
  <2> QED
    BY <1>2, <2>2, <2>3, LeadStep
<1> QED
  BY <1>2, <1>5, <1>6

\* A part of a file is shorter than its sender declared.
LEMMA HalfIs == \A size \in 0..(Declared + 1) : Half(size) \in 0..(Declared + 1) /\ Half(size) # Declared
<1>1. 0..(Declared + 1) = {0, 1, 2, 3}
  BY DEF Declared
<1>2. Half(0) = 0 /\ Half(1) = 0 /\ Half(2) = 1 /\ Half(3) = 1
  BY DEF Half
<1> QED
  BY <1>1, <1>2 DEF Declared

\* A copy begins under the number.
LEMMA BeginCopyStep ==
    ASSUME CacheInv, RestTyped', NEW n, BeginCopy(n)
    PROVE  CacheInv' /\ KeptStep
<1> DEFINE f0 == FileAt(cache, n)
           g == File(AtPhone(n), Half(f0.size), "copying")
<1>1. /\ FilesFit /\ CopyIsThere /\ CacheIsBounded /\ Tidy(cache) /\ unpruned \in Int
      /\ cards \in [AddressPair -> [Attachments -> CardType]]
  BY InvGives
<1>2. /\ copy = NoCopy /\ n \in Held(cache) /\ n.at = "lid" /\ AtPhone(n) \notin Held(cache)
      /\ copy' = f0 /\ cache' = Written(cache, g) /\ torn' = torn \cup {AtPhone(n)}
      /\ unpruned' = unpruned + (Total(cache') - Total(cache))
      /\ cards' = cards /\ late' = late
  BY DEF BeginCopy, UnderLid, Grown
<1>3. f0 \in Range(cache) /\ f0 \in FileType /\ f0.name = n /\ FileFits(f0)
  <2>1. f0 \in Range(cache) /\ f0.name = n /\ Range(cache) \in SUBSET FileType
    BY <1>1, <1>2, FilesOf
  <2> HIDE DEF f0
  <2> QED
    BY <1>1, <2>1 DEF FilesFit
<1>4. n \in Lids /\ AtPhone(n) \in FileName /\ AtPhone(n).at = "phone" /\ AtPhone(n).of = n.of
  <2>1. n \in FileName
    BY <1>3 DEF FileType
  <2> QED
    BY <1>2, <2>1, AtPhoneIs DEF Lids
<1>5. /\ g \in FileType /\ g.name = AtPhone(n) /\ g.is = "copying" /\ g.size # Declared
  <2>1. f0.size \in 0..(Declared + 1)
    BY <1>3 DEF FileType
  <2>2. Half(f0.size) \in 0..(Declared + 1) /\ Half(f0.size) # Declared
    BY <2>1, HalfIs
  <2> HIDE DEF f0
  <2> QED
    BY <1>4, <2>2 DEF File, FileType
<1> HIDE DEF f0, g
<1>6. /\ Tidy(cache') /\ Held(cache') = Held(cache) \cup {g.name}
      /\ Range(cache') = {f \in Range(cache) : f.name # g.name} \cup {g}
  BY <1>1, <1>2, <1>5, WrittenIs
<1>7. \A f \in Range(cache) : f.is # "copying" /\ f.name # AtPhone(n)
  <2>1. Held(cache) = {f.name : f \in Range(cache)}
    BY <1>1, FilesOf
  <2> QED
    BY <1>1, <1>2, <2>1 DEF CopyIsThere
<1>8. copy' # NoCopy /\ copy'.name = n /\ copy'.is = f0.is /\ CopyTyped'
  <2>1. NoCopy.name \notin FileName
    BY NamesAre DEF NoCopy, File
  <2>2. f0.name \in FileName
    BY <1>3 DEF FileType
  <2> QED
    BY <1>2, <1>3, <2>1, <2>2 DEF CopyTyped
<1>9. FilesFit'
  <2> SUFFICES ASSUME NEW f \in Range(cache') PROVE FileFits(f)'
    BY DEF FilesFit
  <2>1. CASE f = g
    BY <1>2, <1>4, <1>5, <2>1 DEF FileFits, IsPart
  <2>2. CASE f \in Range(cache)
    BY <1>1, <1>2, <2>2 DEF FilesFit, FileFits, IsPart
  <2> QED
    BY <1>6, <2>1, <2>2
<1>10. CopyFits'
  <2>1. FileFits(copy)'
    BY <1>2, <1>3 DEF FileFits, IsPart
  <2>2. \A f \in Range(cache') : f.is = "cut" => f.name # AtPhone(copy'.name)
    BY <1>5, <1>6, <1>7, <1>8
  <2> QED
    BY <2>1, <2>2 DEF CopyFits
<1>11. CopyIsThere'
  <2>1. \A f \in Range(cache') : f.is = "copying" => f = g
    BY <1>6, <1>7
  <2> QED
    BY <1>4, <1>5, <1>8, <2>1 DEF CopyIsThere
<1>12. ASSUME NEW m \in Attachments, NEW at \in AddressPair, Spoiled(cache, m, at)'
       PROVE  \E b \in AddressPair : Spoiled(cache, m, b)
  <2>1. PICK f \in Range(cache') :
           f.name = Full(m, at) /\ "preview" = IF f.is = "copying" THEN copy'.is ELSE f.is
    BY <1>12 DEF Spoiled
  <2>2. CASE f \in Range(cache)
    <3>1. f.is = "preview"
      BY <1>7, <2>1, <2>2
    <3> QED
      BY <2>1, <2>2, <3>1 DEF Spoiled
  <2>3. CASE f = g
    <3>1. n = Full(m, "lid") /\ f0.is = "preview" /\ "lid" \in AddressPair
      BY <1>4, <1>5, <1>8, <2>1, <2>3, AtPhoneIs DEF AddressPair
    <3>2. Spoiled(cache, m, "lid")
      BY <1>3, <3>1 DEF Spoiled
    <3> QED
      BY <3>1, <3>2
  <2> QED
    BY <1>6, <2>2, <2>3
<1>13. unpruned' \in Int /\ CacheIsBounded'
  <2>1. Total(cache) \in Nat /\ Total(cache') \in Nat
    BY <1>1, <1>6, TotalCounts
  <2> QED
    BY <1>1, <1>2, <2>1, CacheAssumption DEF CacheIsBounded
<1>14. /\ \A at \in AddressPair, m \in Attachments : RowPasses(at, m) /\ LedWell(at, m)
       /\ late \subseteq late'
  BY <1>2 DEF RowPasses, LedWell
<1>15. \A k : k \notin GoneNow
  BY <1>6 DEF GoneNow
<1> QED
  BY <1>1, <1>2, <1>6, <1>8, <1>9, <1>10, <1>11, <1>12, <1>13, <1>14, <1>15, StepIs DEF Carded

\* A copy ends, where its file is by now.
LEMMA EndCopyStep ==
    ASSUME CacheInv, RestTyped', EndCopy
    PROVE  CacheInv' /\ KeptStep
<1>1. /\ FilesFit /\ CopyFits /\ CopyIsThere /\ CacheIsBounded /\ Tidy(cache) /\ unpruned \in Int
      /\ cards \in [AddressPair -> [Attachments -> CardType]]
  BY InvGives
<1>2. /\ copy \in FileType /\ copy.name.at = "lid" /\ copy # NoCopy /\ FileFits(copy)
      /\ copy.name \in FileName /\ ~IsPart(copy)
  <2>1. copy \in FileType /\ copy.name.at = "lid" /\ copy # NoCopy /\ FileFits(copy)
    BY InvGives DEF EndCopy, CopyTyped, CopyFits
  <2> QED
    BY <2>1 DEF FileType, FileFits
<1>3. /\ torn' = torn \ {AtPhone(copy.name)} /\ copy' = NoCopy
      /\ unpruned' = unpruned + (Total(cache') - Total(cache))
      /\ cards' = cards /\ late' = late
  BY DEF EndCopy, Grown
<1>4. /\ Tidy(cache') /\ Held(cache) \subseteq Held(cache')
      /\ \A f \in Range(cache') :
            \/ f \in Range(cache) /\ f.is # "copying"
            \/ \E file \in Range(cache) :
                  /\ file.is = "copying" /\ f.name = file.name
                  /\ f.size = copy.size /\ f.is = copy.is
  <2>1. ASSUME NEW file \in Range(cache), file.is = "copying",
               cache' = Written(cache, File(file.name, copy.size, copy.is))
        PROVE  /\ Tidy(cache') /\ Held(cache) \subseteq Held(cache')
               /\ \A f \in Range(cache') :
                     \/ f \in Range(cache) /\ f.is # "copying"
                     \/ /\ f.name = file.name
                        /\ f.size = copy.size /\ f.is = copy.is
    <3> DEFINE g == File(file.name, copy.size, copy.is)
    <3>1. file.name \in FileName
      <4>1. Range(cache) \in SUBSET FileType
        BY <1>1, FilesOf
      <4> QED
        BY <4>1 DEF FileType
    <3>2. g \in FileType /\ g.name = file.name /\ g.size = copy.size /\ g.is = copy.is
      BY <1>2, <3>1 DEF FileType, File
    <3> HIDE DEF g
    <3>3. /\ Tidy(cache') /\ Held(cache') = Held(cache) \cup {g.name}
          /\ Range(cache') = {f \in Range(cache) : f.name # g.name} \cup {g}
      BY <1>1, <2>1, <3>2, WrittenIs DEF g
    <3>4. \A f \in Range(cache) : f.is = "copying" => f = file
      BY <1>1, <2>1 DEF CopyIsThere
    <3> QED
      BY <3>2, <3>3, <3>4
  <2>2. ASSUME \A file \in Range(cache) : file.is # "copying", cache' = cache
        PROVE  /\ Tidy(cache') /\ Held(cache) \subseteq Held(cache')
               /\ \A f \in Range(cache') : f \in Range(cache) /\ f.is # "copying"
    BY <1>1, <2>2
  <2> QED
    BY <2>1, <2>2 DEF EndCopy
<1>5. ASSUME NEW file \in Range(cache), file.is = "copying", file.name.part = "full"
      PROVE  copy.name.part = "full" /\ copy.name.of = file.name.of /\ file.name = AtPhone(copy.name)
  <2>1. file.name = AtPhone(copy.name)
    BY <1>1, <1>5 DEF CopyIsThere
  <2> QED
    BY <1>2, <1>5, <2>1, AtPhoneIs
<1>6. ASSUME NEW f \in Range(cache') PROVE FileFits(f)' /\ f.is # "copying"
  <2>1. CASE f \in Range(cache) /\ f.is # "copying"
    <3>1. FileFits(f)
      BY <1>1, <2>1 DEF FilesFit
    <3>2. IsPart(f) /\ f.name.part = "full" => f.name # AtPhone(copy.name)
      BY <1>1, <1>2, <2>1 DEF CopyFits, IsPart
    <3> QED
      BY <1>3, <2>1, <3>1, <3>2 DEF FileFits, IsPart
  <2>2. ASSUME NEW file \in Range(cache), file.is = "copying", f.name = file.name,
               f.size = copy.size, f.is = copy.is
        PROVE  FileFits(f)' /\ f.is # "copying"
    BY <1>2, <1>5, <2>2 DEF FileFits, IsPart
  <2> QED
    BY <1>4, <2>1, <2>2
<1>7. FilesFit' /\ CopyFits' /\ CopyIsThere' /\ CopyTyped'
  BY <1>3, <1>6 DEF FilesFit, CopyFits, CopyIsThere, CopyTyped
<1>8. ASSUME NEW m \in Attachments, NEW at \in AddressPair, Spoiled(cache, m, at)'
      PROVE  Spoiled(cache, m, at)
  <2>1. PICK f \in Range(cache') : f.name = Full(m, at) /\ f.is = "preview"
    BY <1>6, <1>8 DEF Spoiled
  <2> QED
    BY <1>4, <2>1 DEF Spoiled
<1>9. unpruned' \in Int /\ CacheIsBounded'
  <2>1. Total(cache) \in Nat /\ Total(cache') \in Nat
    BY <1>1, <1>4, TotalCounts
  <2> QED
    BY <1>1, <1>3, <2>1, CacheAssumption DEF CacheIsBounded
<1>10. /\ \A at \in AddressPair, m \in Attachments : RowPasses(at, m) /\ LedWell(at, m)
       /\ late \subseteq late'
  BY <1>3 DEF RowPasses, LedWell
<1>11. \A k : k \notin GoneNow
  BY <1>4 DEF GoneNow
<1> QED
  BY <1>1, <1>3, <1>4, <1>7, <1>8, <1>9, <1>10, <1>11, StepIs DEF Carded

\* What became of a file whose copying ended early.
Cut(f) == [f EXCEPT !.is = "cut"]

\* A copy that breaks off changes no name and no size.
LEMMA BrokenIs ==
    ASSUME NEW c, Tidy(c), \A f, g \in Range(c) : f.is = "copying" /\ g.is = "copying" => f = g
    PROVE  /\ Tidy(Broken(c)) /\ Held(Broken(c)) = Held(c)
           /\ \A f \in Range(Broken(c)) :
                 \/ f \in Range(c) /\ f.is # "copying"
                 \/ \E g \in Range(c) : /\ g.is = "copying" /\ f.is = "cut"
                                        /\ f.name = g.name /\ f.size = g.size
           /\ Total(Broken(c)) <= Total(c)
<1> DEFINE r == Broken(c)
<1>1. c \in Seq(FileType) /\ \A i, j \in DOMAIN c : c[i].name = c[j].name => i = j
  BY DEF Tidy
<1>2. \A f \in FileType : Cut(f) \in FileType /\ Cut(f).name = f.name /\ Cut(f).size = f.size /\ Cut(f).is = "cut"
  BY DEF FileType, Cut
<1>3. \A i \in DOMAIN c : c[i] \in FileType /\ c[i] \in Range(c)
  BY <1>1 DEF Range
<1>4. /\ DOMAIN r = DOMAIN c
      /\ \A i \in DOMAIN c : r[i] = IF c[i].is = "copying" THEN Cut(c[i]) ELSE c[i]
  BY DEF Broken, Cut
<1>5. \A i \in DOMAIN c : r[i] \in FileType /\ r[i].name = c[i].name
  <2> HIDE DEF r
  <2> QED
    BY <1>2, <1>3, <1>4
<1>6. r \in Seq(FileType)
  <2>1. Len(c) \in Nat /\ DOMAIN c = 1..Len(c)
    BY <1>1
  <2>2. r \in [1..Len(c) -> FileType]
    BY <1>4, <1>5, <2>1 DEF Broken
  <2> HIDE DEF r
  <2> QED
    BY <2>1, <2>2
<1> HIDE DEF r
<1>7. Tidy(r)
  BY <1>1, <1>4, <1>5, <1>6 DEF Tidy
<1>8. Held(r) = Held(c)
  BY <1>4, <1>5 DEF Held
<1>9. ASSUME NEW f \in Range(r)
      PROVE  \/ f \in Range(c) /\ f.is # "copying"
             \/ \E g \in Range(c) : g.is = "copying" /\ f = Cut(g)
  <2>1. PICK i \in DOMAIN c : f = r[i]
    BY <1>4 DEF Range
  <2> QED
    BY <1>3, <1>4, <2>1
<1>f. Range(c) \in SUBSET FileType /\ IsFiniteSet(Range(c)) /\ \A f, g \in Range(c) : f.name = g.name => f = g
  BY FilesOf
<1>10. Total(r) <= Total(c)
  <2>1. CASE \A g \in Range(c) : g.is # "copying"
    <3>1. Range(r) \subseteq Range(c)
      BY <1>9, <2>1
    <3> QED
      BY <1>7, <3>1, TotalCounts
  <2>2. ASSUME NEW g \in Range(c), g.is = "copying" PROVE Total(r) <= Total(c)
    <3> DEFINE A == Range(FilesIn(c, {g.name}))
               B == Range(Without(c, {g.name}))
               C == {Cut(g)}
    <3>1. A = {g}
      <4>1. A = {f \in Range(c) : f.name \in {g.name}}
        BY FilesInIs DEF NamedIn
      <4> QED
        BY <1>f, <4>1
    <3>2. B = {f \in Range(c) : f.name \notin {g.name}}
      BY WithoutIs
    <3> HIDE DEF A, B
    <3>3. /\ B \in SUBSET FileType /\ IsFiniteSet(B) /\ C \in SUBSET FileType /\ IsFiniteSet(C)
          /\ Cut(g) \in FileType /\ Cut(g).size = g.size /\ g \in FileType
      <4>1. B \in SUBSET Range(c) /\ g \in FileType
        BY <1>f, <3>2
      <4>2. IsFiniteSet(B) /\ IsFiniteSet(C)
        BY <1>f, <4>1, FS_Subset, FS_Singleton
      <4> QED
        BY <1>2, <1>f, <4>1, <4>2
    <3>4. Range(r) \subseteq B \cup C
      <4> SUFFICES ASSUME NEW f \in Range(r) PROVE f \in B \/ f = Cut(g)
        OBVIOUS
      <4>1. CASE f \in Range(c) /\ f.is # "copying"
        <5>1. f.name # g.name
          BY <1>f, <2>2, <4>1
        <5> QED
          BY <3>2, <4>1, <5>1
      <4>2. CASE \E h \in Range(c) : h.is = "copying" /\ f = Cut(h)
        BY <2>2, <4>2
      <4> QED
        BY <1>9, <4>1, <4>2
    <3> DEFINE a == Cardinality(Bytes(A))
               b == Cardinality(Bytes(B))
               k == Cardinality(Bytes(C))
               u == Cardinality(Bytes(B \cup C))
               v == Cardinality(Bytes(Range(r)))
    <3>5. u <= b + k
      BY <3>3, BytesCount
    <3>6. a = g.size /\ k = g.size
      BY <3>1, <3>3, BytesCount
    <3>7. IsFiniteSet(B \cup C) /\ B \cup C \in SUBSET FileType
      BY <3>3, FS_Union
    <3>8. v <= u
      <4>1. Range(r) \in SUBSET FileType
        BY <3>4, <3>7
      <4> QED
        BY <3>4, <3>7, <4>1, BytesCount
    <3>9. v \in Nat /\ u \in Nat /\ b \in Nat /\ g.size \in Nat
      <4>1. IsFiniteSet(Range(r)) /\ Range(r) \in SUBSET FileType
        BY <1>7, FilesOf
      <4> QED
        BY <3>3, <3>7, <4>1, BytesCount DEF FileType, Declared
    <3>10. Total(c) = a + b /\ Total(r) = v
      <4>1. Total(c) = Total(FilesIn(c, {g.name})) + Total(Without(c, {g.name}))
        BY TotalCounts
      <4> QED
        BY <4>1 DEF Total, A, B
    <3> HIDE DEF a, b, k, u, v
    <3> QED
      BY <3>5, <3>6, <3>8, <3>9, <3>10
  <2> QED
    BY <2>1, <2>2
<1>11. \A f \in Range(r) :
          \/ f \in Range(c) /\ f.is # "copying"
          \/ \E g \in Range(c) : /\ g.is = "copying" /\ f.is = "cut"
                                 /\ f.name = g.name /\ f.size = g.size
  BY <1>2, <1>9, <1>f
<1> QED
  BY <1>7, <1>8, <1>10, <1>11 DEF r

\* A copy breaks off, at an error or as the daemon stops.
LEMMA BreakStep ==
    ASSUME CacheInv, RestTyped', FailCopying \/ RestartCache
    PROVE  CacheInv' /\ KeptStep
<1>1. /\ FilesFit /\ CopyIsThere /\ CacheIsBounded /\ Tidy(cache) /\ unpruned \in Int
      /\ cards \in [AddressPair -> [Attachments -> CardType]]
  BY InvGives
<1>2. /\ cache' = Broken(cache) /\ copy' = NoCopy
      /\ cards' = cards /\ late' = late /\ torn' = torn /\ unpruned' = unpruned
  BY DEF FailCopying, RestartCache
<1>3. /\ Tidy(cache') /\ Held(cache') = Held(cache) /\ Total(cache') <= Total(cache)
      /\ \A f \in Range(cache') :
            \/ f \in Range(cache) /\ f.is # "copying"
            \/ \E g \in Range(cache) : /\ g.is = "copying" /\ f.is = "cut"
                                       /\ f.name = g.name /\ f.size = g.size
  <2>1. \A f, g \in Range(cache) : f.is = "copying" /\ g.is = "copying" => f = g
    BY <1>1 DEF CopyIsThere
  <2> QED
    BY <1>1, <1>2, <2>1, BrokenIs
<1>4. ASSUME NEW f \in Range(cache') PROVE FileFits(f)' /\ f.is # "copying"
  BY <1>1, <1>2, <1>3 DEF FilesFit, FileFits, IsPart
<1>5. FilesFit' /\ CopyFits' /\ CopyIsThere' /\ CopyTyped'
  BY <1>2, <1>4 DEF FilesFit, CopyFits, CopyIsThere, CopyTyped
<1>6. ASSUME NEW m \in Attachments, NEW at \in AddressPair, Spoiled(cache, m, at)'
      PROVE  Spoiled(cache, m, at)
  <2>1. PICK f \in Range(cache') : f.name = Full(m, at) /\ f.is = "preview"
    BY <1>4, <1>6 DEF Spoiled
  <2>2. f \in Range(cache)
    BY <1>3, <2>1
  <2> QED
    BY <2>1, <2>2 DEF Spoiled
<1>7. CacheIsBounded'
  <2>1. Total(cache) \in Nat /\ Total(cache') \in Nat
    BY <1>1, <1>3, TotalCounts
  <2> QED
    BY <1>1, <1>2, <1>3, <2>1, CacheAssumption DEF CacheIsBounded
<1>8. /\ \A at \in AddressPair, m \in Attachments : RowPasses(at, m) /\ LedWell(at, m)
      /\ late \subseteq late'
  BY <1>2 DEF RowPasses, LedWell
<1>9. \A k : k \notin GoneNow
  BY <1>3 DEF GoneNow
<1> QED
  BY <1>1, <1>2, <1>3, <1>5, <1>6, <1>7, <1>8, <1>9, StepIs DEF Carded

\* The directory is empty, or holds one preview where no row shows it.
LEMMA CacheStarts == CacheInit => CacheInv
<1> SUFFICES ASSUME CacheInit PROVE CacheInv
  OBVIOUS
<1>1. /\ entries = {} /\ moves = {} /\ copy = NoCopy /\ transfer = NoTransfer /\ sending = {}
      /\ late = {} /\ torn = {} /\ unpruned = 0 /\ happened = 0
  BY DEF CacheInit
<1>2. RestTyped /\ CopyTyped /\ unpruned \in Int /\ CopyFits
  BY <1>1 DEF RestTyped, TransferFits, TransferType, NoTransfer, CopyTyped, CopyFits
<1>3. NoCard \in CardType
  BY CardIs
<1>4. CASE cache = <<>> /\ cards = [at \in AddressPair |-> [m \in Attachments |-> NoCard]]
  <2>1. Tidy(cache) /\ Range(cache) = {}
    BY <1>4 DEF Tidy, Range
  <2>2. Total(cache) = 0
    BY <2>1, BytesCount DEF Total
  <2>3. CacheTyped
    BY <1>2, <1>3, <1>4, <2>1 DEF CacheTyped
  <2>4. CardsFit /\ FilesFit /\ CopyIsThere /\ ShownUnspoiled
    BY <1>4, <2>1 DEF CardsFit, FilesFit, CopyIsThere, ShownUnspoiled
  <2>5. CacheIsBounded
    BY <1>1, <2>2, CacheAssumption DEF CacheIsBounded
  <2> QED
    BY <1>2, <2>3, <2>4, <2>5 DEF CacheInv
<1>5. ASSUME NEW early \in Attachments, KindOf[early] = "image",
             cache = <<File(Full(early, "lid"), PreviewSize, "preview")>>,
             cards = [at \in AddressPair |-> [m \in Attachments |->
                        IF at = "lid" /\ m = early THEN EarlyCard(m) ELSE NoCard]]
      PROVE  CacheInv
  <2> DEFINE f == File(Full(early, "lid"), PreviewSize, "preview")
  <2>1. /\ f \in FileType /\ f.name = Full(early, "lid") /\ f.name.of = early /\ f.is = "preview"
        /\ f.size = PreviewSize /\ PreviewSize # Declared
    <3>1. /\ Full(early, "lid") \in FileName /\ PreviewSize \in 0..(Declared + 1)
          /\ PreviewSize # Declared /\ Full(early, "lid").of = early
      BY NamesAre DEF AddressPair
    <3> QED
      BY <3>1 DEF File, FileType
  <2>2. EarlyCard(early) \in CardType
        /\ EarlyCard(early).path = Full(early, "lid") /\ EarlyCard(early).thumb = NoFile
    <3>1. Full(early, "lid") \in FileName
      BY NamesAre DEF AddressPair
    <3> QED
      BY <3>1 DEF EarlyCard, CardType
  <2>3. cache = <<f>>
    BY <1>5
  <2> HIDE DEF f
  <2>4. Tidy(cache) /\ Range(cache) = {f}
    BY <2>1, <2>3 DEF Tidy, Range
  <2>5. Total(cache) = PreviewSize
    BY <2>1, <2>4, BytesCount DEF Total
  <2>6. \A at \in AddressPair, m \in Attachments :
           cards[at][m] = NoCard \/ (m = early /\ cards[at][m] = EarlyCard(early))
    BY <1>5
  <2>7. cards \in [AddressPair -> [Attachments -> CardType]]
    BY <1>3, <1>5, <2>2
  <2>8. CacheTyped
    BY <1>2, <2>4, <2>7 DEF CacheTyped
  <2>9. CardsFit
    BY <2>2, <2>6 DEF CardsFit, PathFits
  <2>10. FilesFit /\ CopyIsThere
    BY <1>5, <2>1, <2>4 DEF FilesFit, FileFits, IsPart, CopyIsThere
  <2>11. ShownUnspoiled
    BY <1>5, <2>2, <2>6 DEF ShownUnspoiled, Viewable
  <2>12. CacheIsBounded
    BY <1>1, <2>5, CacheAssumption DEF CacheIsBounded, PreviewSize, Declared
  <2> QED
    BY <1>2, <2>8, <2>9, <2>10, <2>11, <2>12 DEF CacheInv
<1> QED
  BY <1>4, <1>5 DEF CacheInit

\* Every step keeps the invariant and loses a file for a reason only.
LEMMA CacheSteps == CacheInv /\ [CacheNext]_cacheVars => CacheInv' /\ [KeptStep]_cacheVars
<1> SUFFICES ASSUME CacheInv, [CacheNext]_cacheVars PROVE CacheInv' /\ [KeptStep]_cacheVars
  OBVIOUS
<1>1. CASE UNCHANGED cacheVars
  <2>1. RestTyped'
    BY <1>1, InvGives DEF cacheVars, mergeVars, RestTyped, TransferFits
  <2>2. UNCHANGED <<cache, cards, copy, late, torn, unpruned>>
    BY <1>1 DEF cacheVars, mergeVars
  <2> QED
    BY <1>1, <2>1, <2>2, IdleStep
<1>2. CASE CacheNext
  <2>1. RestTyped'
    BY <1>2, RestStep
  <2>2. ASSUME NEW m \in Attachments, NEW at \in AddressPair,
               \/ \E thumb \in BOOLEAN : ReceiveMedia(m, at, thumb)
               \/ BeginDownload(m, at)
        PROVE  CacheInv' /\ KeptStep
    BY <2>1, <2>2, ReceiveStep
  <2>3. ASSUME NEW m \in Attachments, NEW at \in AddressPair,
               \/ DeleteAttachment(m, at) \/ BackfillPoster(m, at)
               \/ \E d \in Drafts : FinishSend(d, m, at)
        PROVE  CacheInv' /\ KeptStep
    BY <2>1, <2>3, DeleteStep, PosterStep, FinishSendStep
  <2>4. ASSUME NEW d \in Drafts, BeginSend(d) \/ AbandonSend(d) PROVE CacheInv' /\ KeptStep
    <3>1. UNCHANGED <<cache, cards, copy, late, torn, unpruned>>
      BY <2>4 DEF BeginSend, AbandonSend, mergeVars
    <3> QED
      BY <2>1, <3>1, IdleStep
  <2>5. ASSUME NEW d \in Drafts, Stage(d) PROVE CacheInv' /\ KeptStep
    BY <2>1, <2>5, StageStep
  <2>6. ASSUME NEW at \in AddressPair, NEW keep \in BOOLEAN, ClearAttachments(at, keep)
        PROVE  CacheInv' /\ KeptStep
    BY <2>1, <2>6, ClearStep
  <2>7. ASSUME NEW n \in entries \cup UnderLid(cache), SkipEntry(n) \/ BeginCopy(n)
        PROVE  CacheInv' /\ KeptStep
    <3>1. SkipEntry(n) => UNCHANGED <<cache, cards, copy, late, torn, unpruned>>
      BY DEF SkipEntry
    <3> QED
      BY <2>1, <2>7, <3>1, IdleStep, BeginCopyStep
  <2>8. ASSUME EndTransfer \/ EndCopying PROVE CacheInv' /\ KeptStep
    <3>1. UNCHANGED <<cache, cards, copy, late, torn, unpruned>>
      BY <2>8 DEF EndTransfer, EndCopying, mergeVars
    <3> QED
      BY <2>1, <3>1, IdleStep
  <2>9. ASSUME FinishDownload \/ RefreshPoster PROVE CacheInv' /\ KeptStep
    BY <2>1, <2>9, FinishDownloadStep, PosterStep
  <2>10. ASSUME MigrateRows \/ EndCopy \/ FailCopying \/ RewritePaths \/ RestartCache
         PROVE  CacheInv' /\ KeptStep
    BY <2>1, <2>10, MigrateStep, EndCopyStep, BreakStep, RewriteStep
  <2> QED
    BY <1>2, <2>2, <2>3, <2>4, <2>5, <2>6, <2>7, <2>8, <2>9, <2>10 DEF CacheNext
<1> QED
  BY <1>1, <1>2

\* What IsShown finds, past every copy that has not ended, is whole where no
\* preview lies at the path of a row.
LEMMA CacheInvIsSound == CacheInv => CacheIsSound
<1> SUFFICES ASSUME CacheInv PROVE DownloadedIsWhole
  BY DEF CacheInv, CacheIsSound
<1>1. Tidy(cache) /\ CardsFit /\ FilesFit /\ ShownUnspoiled
  BY InvGives
<1>2. ASSUME NEW at \in AddressPair, NEW m \in Carded(at) \ late, IsShown(cache, at, m),
             cards[at][m].path \notin torn
      PROVE  FileAt(cache, cards[at][m].path).is = "whole"
  <2> DEFINE f == FileAt(cache, cards[at][m].path)
  <2>1. /\ cards[at][m] # NoCard /\ cards[at][m].path \in Held(cache) /\ Viewable(at, m)
        /\ m \in Attachments \ late
    BY <1>2 DEF IsShown, Viewable, Carded
  <2>2. f \in Range(cache) /\ f.name = cards[at][m].path /\ f \in FileType
    <3>1. f \in Range(cache) /\ f.name = cards[at][m].path
      BY <1>1, <2>1, FilesOf
    <3>2. Range(cache) \in SUBSET FileType
      BY <1>1, FilesOf
    <3> HIDE DEF f
    <3> QED
      BY <3>1, <3>2
  <2>3. PICK place \in AddressPair : cards[at][m].path = Full(m, place)
    BY <1>1, <2>1 DEF CardsFit, PathFits, AddressPair
  <2>4. f.name.part = "full" /\ f.name = Full(m, place)
    BY <2>1, <2>2, <2>3, NamesAre
  <2>5. ~Spoiled(cache, m, place)
    BY <1>1, <2>1 DEF ShownUnspoiled
  <2> HIDE DEF f
  <2>6. ~IsPart(f) /\ f.is # "frame"
    BY <1>1, <1>2, <2>2, <2>4 DEF FilesFit, FileFits
  <2>7. f.is # "preview"
    BY <2>2, <2>4, <2>5, <2>6 DEF Spoiled, IsPart
  <2>8. f.is \in {"whole", "preview", "frame", "copying", "cut"}
    BY <2>2 DEF FileType
  <2> QED
    BY <2>6, <2>7, <2>8 DEF IsPart, f
<1> QED
  BY <1>2 DEF DownloadedIsWhole

\* Of every state of the media directory: what decode_message calls downloaded
\* is the whole medium, never an early build's preview nor a part of a copy, but
\* for a message that came anew while a preview was its medium under the other
\* address and for a copy that has not ended whole; and past its budget the
\* directory holds at most what was staged or copied since the last prune.
THEOREM CacheSound == CacheSpec => []CacheIsSound
<1>1. CacheInit => CacheInv
  BY CacheStarts
<1>2. CacheInv /\ [CacheNext]_cacheVars => CacheInv'
  BY CacheSteps
<1>3. CacheInv => CacheIsSound
  BY CacheInvIsSound
<1> QED
  BY <1>1, <1>2, <1>3, PTL DEF CacheSpec

\* Of every step of the media directory: a medium that is shown as downloaded,
\* and a draft, go for want of room only, or for a reason the code has.
THEOREM FilesKept == CacheSpec => KeptFilesGoForAReason
<1>1. CacheInit => CacheInv
  BY CacheStarts
<1>2. CacheInv /\ [CacheNext]_cacheVars => CacheInv' /\ [KeptStep]_cacheVars
  BY CacheSteps
<1>3. [KeptStep]_cacheVars => [LET lost == Held(cache) \ Held(cache')
       IN  /\ \A d \in Drafts : Staged(d) \in lost => Squeezed(lost)
           /\ \A at \in AddressPair : \A m \in Carded(at) :
                LET path == cards[at][m].path
                    next == cards'[at][m].path
                IN  IsShown(cache, at, m) /\ cards'[at][m] # NoCard /\ ~IsShown(cache, at, m)' =>
                        \/ path \in lost /\ Squeezed(lost)
                        \/ FileAt(cache, path).size # Declared
                        \/ next # path /\ (path.at # at \/ next.at # at)
                        \/ path.at # at /\ Discarded(m, path.at)]_cacheVars
  BY DEF KeptStep, GoneNow
<1> QED
  BY <1>1, <1>2, <1>3, PTL DEF CacheSpec, KeptFilesGoForAReason

=============================================================================
