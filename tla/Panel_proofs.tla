------------------------------ MODULE Panel_proofs ------------------------------
(* Theorems about the panels of the desktop: the presence they announce, the   *)
(* pictures, rows and pages they show and what is pasted into the composer, for *)
(* every set of panels, chats, people and attachments and every bound.         *)
EXTENDS Presence, AvatarGallery, Attachments, MessageContent, ConversationPage,
        FiniteSetTheorems, SequenceTheorems, TLAPS

-----------------------------------------------------------------------------
(* Presence (presence.rs) *)

(* The actions of the next-state relation, for case analysis. *)
LEMMA NextCases ==
    ASSUME Next
    PROVE  \/ BeginGeneration \/ RetireGeneration \/ OnConnected \/ Disconnect
           \/ OfflineSyncCompleted \/ SelfPushNameUpdated \/ CommandTimesOut
           \/ \E p \in Panels : OpenConnection(p)
           \/ \E p \in Panels : CloseConnection(p)
           \/ \E p \in Panels, value \in BOOLEAN : SetPresence(p, value)
           \/ \E p \in Panels, c \in Chats \cup {NoChat} : SetActiveChat(p, c)
           \/ \E s \in Slots : ReadIntents(s)
           \/ \E s \in Slots : CloneClient(s)
           \/ \E s \in Slots : TellPresence(s)
           \/ \E s \in Slots : Reconciled(s)
           \/ \E s \in Slots, c \in Chats : TellChat(s, c)
  BY DEF Next

(* The aggregate of any intents is a state. *)
LEMMA StateType ==
    ASSUME NEW o \in SUBSET Panels, NEW c \in [Panels -> Chats \cup {NoChat}],
           NEW a \in [Panels -> BOOLEAN]
    PROVE  StateOf(o, c, a) \in States
<1>1. (\E p \in o : a[p]) \in BOOLEAN
  OBVIOUS
<1>2. {c[p] : p \in o} \ {NoChat} \in SUBSET Chats
  OBVIOUS
<1> QED BY <1>1, <1>2 DEF StateOf, States

(* A reconciliation of two states is well formed and has no client yet. *)
LEMMA ReconcileType ==
    ASSUME NEW before \in States, NEW after \in States, NEW force \in BOOLEAN,
           NEW p \in Panels \cup {NoPanel}
    PROVE  /\ Reconcile(before, after, force, p) \in Jobs
           /\ Reconcile(before, after, force, p).via = FALSE
  BY DEF Reconcile, States, Jobs

(* The constant reconciliations and states are well formed. *)
LEMMA RestingTypes ==
    /\ Idle \in Jobs /\ Idle.via = FALSE /\ Idle.step = "idle"
    /\ Spawned \in Jobs /\ Spawned.via = FALSE /\ Spawned.step = "read"
    /\ NoState \in States
  BY DEF Idle, Spawned, Jobs, NoState, States

(* What a step makes of a slot it changes. *)
LEMMA JobMoves ==
    ASSUME NEW j \in Jobs
    PROVE  /\ [j EXCEPT !.via = FALSE] \in Jobs
           /\ [j EXCEPT !.step = "chats"] \in Jobs
           /\ \A c \in Chats : /\ [j EXCEPT !.drop = @ \ {c}] \in Jobs
                               /\ [j EXCEPT !.add = @ \ {c}] \in Jobs
                               /\ [j EXCEPT !.drop = @ \ {c}, !.add = @ \ {c}] \in Jobs
           /\ \A v \in BOOLEAN :
                 [j EXCEPT !.step = IF j.tell THEN "presence" ELSE "chats",
                           !.want = v, !.via = TRUE] \in Jobs
  BY ZenonT(90) DEF Jobs

(* The presence that the handler of the own name tells. *)
NameTold == [Idle EXCEPT !.step = "presence", !.tell = TRUE, !.want = TRUE, !.via = TRUE]

LEMMA NameToldType ==
    /\ NameTold \in Jobs
    /\ NameTold.step = "presence" /\ NameTold.want /\ NameTold.via
    /\ NameTold.drop = {} /\ NameTold.add = {}
  BY DEF NameTold, Idle, Jobs

(* The named slots are slots. *)
LEMMA SlotNames ==
    /\ "command" \in Slots /\ "connected" \in Slots /\ "appevent" \in Slots
    /\ Panels \subseteq Slots
  BY DEF Slots

(* What the panels want is a state. *)
LEMMA CurrentStateType == TypeOK => State \in States
  BY StateType DEF State, TypeOK

-----------------------------------------------------------------------------
(* Type correctness *)

(* Whatever the reconciliations do, a step keeps the slots well formed. *)
LEMMA JobsType ==
    ASSUME TypeOK, [Next]_vars
    PROVE  jobs' \in [Slots -> Jobs]
<1> USE SlotNames DEF TypeOK
<1>1. CASE UNCHANGED vars
  BY <1>1 DEF vars
<1>2. CASE BeginGeneration
  BY <1>2 DEF BeginGeneration
<1>3. CASE RetireGeneration
  BY <1>3, JobMoves, RestingTypes DEF RetireGeneration
<1>4. CASE OnConnected
  BY <1>4, RestingTypes DEF OnConnected
<1>5. CASE Disconnect
  BY <1>5 DEF Disconnect
<1>6. CASE OfflineSyncCompleted
  BY <1>6, RestingTypes DEF OfflineSyncCompleted
<1>a. CASE SelfPushNameUpdated
  BY <1>a, NameToldType DEF SelfPushNameUpdated, NameTold
<1>7. CASE CommandTimesOut
  BY <1>7, RestingTypes DEF CommandTimesOut
<1>8. ASSUME NEW p \in Panels, OpenConnection(p)
      PROVE  jobs' \in [Slots -> Jobs]
  BY <1>8 DEF OpenConnection
<1>9. ASSUME NEW p \in Panels, CloseConnection(p)
      PROVE  jobs' \in [Slots -> Jobs]
  <2>1. StateOf(open \ {p}, chat, available) \in States
    BY StateType
  <2>2. Reconcile(State, StateOf(open \ {p}, chat, available), FALSE, NoPanel) \in Jobs
    BY <2>1, CurrentStateType, ReconcileType
  <2> QED BY <1>9, <2>2, RestingTypes DEF CloseConnection
<1>10. ASSUME NEW p \in Panels, Command(p),
              chat' \in [Panels -> Chats \cup {NoChat}],
              available' \in [Panels -> BOOLEAN]
       PROVE  jobs' \in [Slots -> Jobs]
  <2>1. StateOf(open, chat', available') \in States
    BY <1>10, StateType
  <2>2. Reconcile(State, StateOf(open, chat', available'), FALSE, p) \in Jobs
    BY <2>1, CurrentStateType, ReconcileType
  <2> QED BY <1>10, <2>2 DEF Command
<1>11. ASSUME NEW p \in Panels, NEW value \in BOOLEAN, SetPresence(p, value)
       PROVE  jobs' \in [Slots -> Jobs]
  BY <1>10, <1>11 DEF SetPresence
<1>12. ASSUME NEW p \in Panels, NEW c \in Chats \cup {NoChat}, SetActiveChat(p, c)
       PROVE  jobs' \in [Slots -> Jobs]
  BY <1>10, <1>12 DEF SetActiveChat
<1>13. ASSUME NEW s \in Slots, ReadIntents(s)
       PROVE  jobs' \in [Slots -> Jobs]
  <2>1. Reconcile(NoState, State, TRUE, NoPanel) \in Jobs
    BY CurrentStateType, ReconcileType, RestingTypes
  <2> QED BY <1>13, <2>1 DEF ReadIntents
<1>14. ASSUME NEW s \in Slots, CloneClient(s)
       PROVE  jobs' \in [Slots -> Jobs]
  <2>1. Effective(jobs[s].want) \in BOOLEAN
    BY DEF Effective
  <2> DEFINE told == [jobs[s] EXCEPT
                        !.step = IF jobs[s].tell THEN "presence" ELSE "chats",
                        !.want = Effective(jobs[s].want), !.via = TRUE]
  <2>2. told \in Jobs
    BY <2>1, JobMoves
  <2>3. CASE link
    <3>1. jobs' = [jobs EXCEPT ![s] = told]
      BY <1>14, <2>3 DEF CloneClient
    <3> HIDE DEF told
    <3> QED BY <2>2, <3>1
  <2>4. CASE ~link
    BY <1>14, <2>4, RestingTypes DEF CloneClient
  <2> QED BY <2>3, <2>4
<1>15. ASSUME NEW s \in Slots, TellPresence(s)
       PROVE  jobs' \in [Slots -> Jobs]
  BY <1>15, JobMoves DEF TellPresence
<1>16. ASSUME NEW s \in Slots, NEW c \in Chats, TellChat(s, c)
       PROVE  jobs' \in [Slots -> Jobs]
  <2>1. CASE jobs' = [jobs EXCEPT ![s].drop = @ \ {c}]
    BY <2>1, JobMoves
  <2>2. CASE jobs' = [jobs EXCEPT ![s].add = @ \ {c}]
    BY <2>2, JobMoves
  <2>3. CASE jobs' = [jobs EXCEPT ![s].drop = @ \ {c}, ![s].add = @ \ {c}]
    <3>1. [jobs[s] EXCEPT !.drop = @ \ {c}, !.add = @ \ {c}] \in Jobs
      BY JobMoves
    <3>2. jobs' = [jobs EXCEPT ![s] = [jobs[s] EXCEPT !.drop = @ \ {c}, !.add = @ \ {c}]]
      BY <2>3
    <3> QED BY <3>1, <3>2
  <2> QED BY <1>16, <2>1, <2>2, <2>3 DEF TellChat
<1>17. ASSUME NEW s \in Slots, Reconciled(s)
       PROVE  jobs' \in [Slots -> Jobs]
  BY <1>17, RestingTypes DEF Reconciled
<1> QED
  BY <1>1, <1>2, <1>3, <1>4, <1>5, <1>6, <1>a, <1>7, <1>8, <1>9, <1>11, <1>12, <1>13,
     <1>14, <1>15, <1>16, <1>17, NextCases

(* A step keeps the type invariant. *)
LEMMA TypeStep == TypeOK /\ [Next]_vars => TypeOK'
<1> SUFFICES ASSUME TypeOK, [Next]_vars PROVE TypeOK'
  OBVIOUS
<1> USE DEF TypeOK
<1>1. jobs' \in [Slots -> Jobs]
  BY JobsType
<1>2. CASE UNCHANGED vars
  BY <1>2 DEF vars
<1>3. CASE BeginGeneration
  BY <1>1, <1>3 DEF BeginGeneration, intents, remote
<1>4. CASE RetireGeneration
  <2>1. clock' = clock + 1 /\ UNCHANGED <<syncing, connects, open, chat, available, overlapped>>
    BY <1>4 DEF RetireGeneration, intents
  <2>2. link' = FALSE /\ caughtUp' = FALSE /\ advertised' = FALSE /\ subscribed' = {}
    BY <1>4 DEF RetireGeneration, Cut
  <2>3. clock' \in Nat /\ syncing' \in 0 .. clock'
    BY <2>1
  <2> QED BY <1>1, <2>1, <2>2, <2>3
<1>5. CASE OnConnected
  BY <1>1, <1>5 DEF OnConnected, intents, remote
<1>6. CASE Disconnect
  BY <1>1, <1>6 DEF Disconnect, Cut, intents
<1>7. CASE OfflineSyncCompleted
  BY <1>1, <1>7 DEF OfflineSyncCompleted, intents
<1>a. CASE SelfPushNameUpdated
  BY <1>1, <1>a DEF SelfPushNameUpdated, Overlaps, session, intents, remote
<1>8. CASE CommandTimesOut
  BY <1>1, <1>8 DEF CommandTimesOut, session, intents, remote
<1>9. ASSUME NEW p \in Panels, OpenConnection(p) PROVE TypeOK'
  BY <1>1, <1>9 DEF OpenConnection, session, remote
<1>10. ASSUME NEW p \in Panels, CloseConnection(p) PROVE TypeOK'
  BY <1>1, <1>10 DEF CloseConnection, Forget, Overlaps, session, remote
<1>11. ASSUME NEW p \in Panels, NEW value \in BOOLEAN, SetPresence(p, value)
       PROVE  TypeOK'
  BY <1>1, <1>11 DEF SetPresence, Command, Overlaps, session, remote
<1>12. ASSUME NEW p \in Panels, NEW c \in Chats \cup {NoChat}, SetActiveChat(p, c)
       PROVE  TypeOK'
  BY <1>1, <1>12 DEF SetActiveChat, Command, Overlaps, session, remote
<1>13. ASSUME NEW s \in Slots, ReadIntents(s) PROVE TypeOK'
  BY <1>1, <1>13 DEF ReadIntents, Overlaps, session, intents, remote
<1>14. ASSUME NEW s \in Slots, CloneClient(s) PROVE TypeOK'
  BY <1>1, <1>14 DEF CloneClient, session, intents, remote
<1>15. ASSUME NEW s \in Slots, TellPresence(s) PROVE TypeOK'
  BY <1>1, <1>15 DEF TellPresence, Jobs, session, intents
<1>16. ASSUME NEW s \in Slots, NEW c \in Chats, TellChat(s, c) PROVE TypeOK'
  BY <1>1, <1>16 DEF TellChat, session, intents
<1>17. ASSUME NEW s \in Slots, Reconciled(s) PROVE TypeOK'
  BY <1>1, <1>17 DEF Reconciled, session, intents, remote
<1> QED
  BY <1>2, <1>3, <1>4, <1>5, <1>6, <1>7, <1>a, <1>8, <1>9, <1>10, <1>11, <1>12, <1>13,
     <1>14, <1>15, <1>16, <1>17, NextCases

(* Every variable has its type: the clock counts up, syncing never runs ahead  *)
(* of it, and every reconciliation in flight is well formed (presence.rs).     *)
THEOREM TypeCorrect == Spec => []TypeOK
<1>1. Init => TypeOK
  <2> SUFFICES ASSUME Init PROVE TypeOK
    OBVIOUS
  <2>1. jobs \in [Slots -> Jobs]
    BY RestingTypes DEF Init
  <2>2. clock \in Nat /\ syncing \in 0 .. clock /\ connects \in Nat
    BY DEF Init
  <2> QED BY <2>1, <2>2 DEF Init, TypeOK
<1> QED BY <1>1, TypeStep, PTL DEF Spec

-----------------------------------------------------------------------------
(* The catch-up gates the generation *)

(* A client is connected, and called, only while its generation runs, a lost  *)
(* connection has told nothing, and a reconciliation about to tell "available" *)
(* has seen the catch-up complete.                                            *)
Gated ==
    /\ link \/ (\E s \in Slots : jobs[s].via) => clock % 2 = 1
    /\ ~link => ~advertised
    /\ \A s \in Slots :
          jobs[s].step = "presence" /\ jobs[s].via /\ jobs[s].want => ~SyncPending
    /\ advertised => ~SyncPending

(* A step that leaves the session alone and moves no slot towards telling *)
(* "available" keeps the gate.                                            *)
LEMMA QuietStep ==
    ASSUME TypeOK, Gated, jobs' \in [Slots -> Jobs],
           UNCHANGED <<clock, syncing, link, advertised>>,
           \A s \in Slots : /\ jobs'[s].via => jobs[s].via
                            /\ jobs'[s].step = "presence" => jobs'[s] = jobs[s]
    PROVE  Gated'
  BY DEF Gated, SyncPending

(* A step keeps the gate. *)
LEMMA GatedStep == TypeOK /\ Gated /\ [Next]_vars => Gated'
<1> SUFFICES ASSUME TypeOK, Gated, [Next]_vars PROVE Gated'
  OBVIOUS
<1> USE SlotNames
<1>1. jobs \in [Slots -> Jobs] /\ jobs' \in [Slots -> Jobs]
  BY JobsType DEF TypeOK
<1>2. CASE UNCHANGED vars
  BY <1>1, <1>2, QuietStep DEF vars
<1>3. CASE BeginGeneration
  BY <1>3 DEF BeginGeneration, Gated, remote
<1>4. CASE RetireGeneration
  <2>1. ~SyncPending'
    BY <1>4 DEF RetireGeneration, SyncPending, TypeOK
  <2>2. \A s \in Slots : ~jobs'[s].via
    BY <1>1, <1>4, RestingTypes DEF RetireGeneration, Jobs
  <2>3. link' = FALSE /\ advertised' = FALSE
    BY <1>4 DEF RetireGeneration, Cut
  <2> QED BY <2>1, <2>2, <2>3 DEF Gated
<1>5. CASE OnConnected
  <2>1. UNCHANGED <<clock, syncing, advertised>> /\ clock % 2 = 1 /\ link' = TRUE
    BY <1>5 DEF OnConnected, remote
  <2>2. \A s \in Slots : jobs'[s] = jobs[s] \/ ~jobs'[s].via
    BY <1>1, <1>5, RestingTypes DEF OnConnected
  <2> QED BY <2>1, <2>2 DEF Gated, SyncPending
<1>6. CASE Disconnect
  BY <1>6 DEF Disconnect, Cut, Gated, SyncPending
<1>7. CASE OfflineSyncCompleted
  <2>1. ~SyncPending'
    BY <1>7 DEF OfflineSyncCompleted, SyncPending
  <2>2. UNCHANGED <<clock, link, advertised>>
    BY <1>7 DEF OfflineSyncCompleted
  <2>3. \A s \in Slots : jobs'[s].via => jobs[s].via
    BY <1>1, <1>7, RestingTypes DEF OfflineSyncCompleted
  <2> QED BY <2>1, <2>2, <2>3 DEF Gated
<1>a. CASE SelfPushNameUpdated
  <2>1. UNCHANGED <<clock, syncing, link, advertised>> /\ clock % 2 = 1 /\ ~SyncPending
    BY <1>a DEF SelfPushNameUpdated, Effective, session, remote
  <2> QED BY <2>1 DEF Gated, SyncPending
<1>8. CASE CommandTimesOut
  BY <1>1, <1>8, QuietStep, RestingTypes DEF CommandTimesOut, session, remote
<1>9. ASSUME NEW p \in Panels, OpenConnection(p) PROVE Gated'
  BY <1>1, <1>9, QuietStep DEF OpenConnection, session, remote
<1>10. ASSUME NEW p \in Panels, CloseConnection(p) PROVE Gated'
  <2> DEFINE j == Reconcile(State, StateOf(open \ {p}, chat, available), FALSE, NoPanel)
  <2>1. j.via = FALSE /\ j.step = "client"
    BY DEF Reconcile
  <2>2. jobs' = [jobs EXCEPT !["command"] = IF @.owner = p THEN Idle ELSE @, ![p] = j]
    BY <1>10 DEF CloseConnection
  <2> HIDE DEF j
  <2> QED BY ZenonT(90), <1>1, <1>10, <2>1, <2>2, QuietStep, RestingTypes
          DEF CloseConnection, session, remote
<1>11. ASSUME NEW p \in Panels, Command(p) PROVE Gated'
  <2> DEFINE j == Reconcile(State, StateOf(open, chat', available'), FALSE, p)
  <2>1. j.via = FALSE /\ j.step = "client"
    BY DEF Reconcile
  <2>2. jobs' = [jobs EXCEPT !["command"] = j]
    BY <1>11 DEF Command
  <2> HIDE DEF j
  <2> QED BY <1>1, <1>11, <2>1, <2>2, QuietStep DEF Command, session, remote
<1>12. ASSUME NEW p \in Panels, NEW value \in BOOLEAN, SetPresence(p, value)
       PROVE  Gated'
  BY <1>11, <1>12 DEF SetPresence
<1>13. ASSUME NEW p \in Panels, NEW c \in Chats \cup {NoChat}, SetActiveChat(p, c)
       PROVE  Gated'
  BY <1>11, <1>13 DEF SetActiveChat
<1>14. ASSUME NEW s \in Slots, ReadIntents(s) PROVE Gated'
  <2> DEFINE j == Reconcile(NoState, State, TRUE, NoPanel)
  <2>1. j.via = FALSE /\ j.step = "client"
    BY DEF Reconcile
  <2>2. jobs' = [jobs EXCEPT ![s] = j]
    BY <1>14 DEF ReadIntents
  <2> HIDE DEF j
  <2> QED BY <1>1, <1>14, <2>1, <2>2, QuietStep DEF ReadIntents, session, remote
<1>15. ASSUME NEW s \in Slots, CloneClient(s) PROVE Gated'
  <2>1. UNCHANGED <<clock, syncing, link, advertised>>
    BY <1>15 DEF CloneClient, session, remote
  <2>2. CASE ~link
    BY <1>1, <1>15, <2>1, <2>2, QuietStep, RestingTypes DEF CloneClient
  <2>3. CASE link
    <3>1. (jobs'[s].want => ~SyncPending) /\ clock % 2 = 1
      BY <1>1, <1>15, <2>3 DEF CloneClient, Effective, Gated, Jobs
    <3>2. \A t \in Slots \ {s} : jobs'[t] = jobs[t]
      BY <1>1, <1>15 DEF CloneClient
    <3> QED BY <2>1, <2>3, <3>1, <3>2 DEF Gated, SyncPending
  <2> QED BY <2>2, <2>3
<1>16. ASSUME NEW s \in Slots, TellPresence(s) PROVE Gated'
  <2>1. UNCHANGED <<clock, syncing, link>>
    BY <1>16 DEF TellPresence, session
  <2>2. \A t \in Slots : /\ jobs'[t].via = jobs[t].via
                         /\ jobs'[t].step = "presence" => jobs'[t] = jobs[t]
    BY <1>1, <1>16 DEF TellPresence, Jobs
  <2>3. advertised' => advertised \/
           (link /\ jobs[s].step = "presence" /\ jobs[s].via /\ jobs[s].want)
    BY <1>16 DEF TellPresence
  <2> QED BY <2>1, <2>2, <2>3 DEF Gated, SyncPending
<1>17. ASSUME NEW s \in Slots, NEW c \in Chats, TellChat(s, c) PROVE Gated'
  <2>1. UNCHANGED <<clock, syncing, link, advertised>>
    BY <1>17 DEF TellChat, session
  <2>2. \A t \in Slots : /\ jobs'[t].via = jobs[t].via
                         /\ jobs'[t].step = jobs[t].step
                         /\ t # s => jobs'[t] = jobs[t]
    BY <1>1, <1>17 DEF TellChat, Jobs
  <2>3. jobs[s].step = "chats"
    BY <1>17 DEF TellChat
  <2> QED BY <1>1, <2>1, <2>2, <2>3, QuietStep
<1>18. ASSUME NEW s \in Slots, Reconciled(s) PROVE Gated'
  BY <1>1, <1>18, QuietStep, RestingTypes DEF Reconciled, session, remote
<1> QED
  BY <1>2, <1>3, <1>4, <1>5, <1>6, <1>7, <1>a, <1>8, <1>9, <1>10, <1>12, <1>13,
     <1>14, <1>15, <1>16, <1>17, <1>18, NextCases

(* Until the running generation's first OfflineSyncCompleted, no reconciliation, *)
(* however late, leaves the device advertised as available (presence.rs 25-27). *)
THEOREM CatchUpGates == Spec => []CatchUpGatesTheGeneration
<1>1. Init => Gated
  BY RestingTypes DEF Init, Gated
<1>2. Gated => CatchUpGatesTheGeneration
  BY DEF Gated, CatchUpGatesTheGeneration
<1> QED BY <1>1, <1>2, GatedStep, TypeCorrect, PTL DEF Spec
-----------------------------------------------------------------------------
(* What is told of the intents *)

\* A reconciliation that will read the intents and tell them whole.
ReadIsDue == \E s \in Slots : jobs[s].step = "read"

\* WhatsApp knows the availability asked for, or a read is due.
PresenceIsTold == ReadIsDue \/ advertised = Effective(State.available)

\* What reconciliation s makes of the presence heard so far.
PresenceIsCarried(s) ==
    /\ jobs[s].step = "client" /\ jobs[s].tell => jobs[s].want = State.available
    /\ jobs[s].step = "client" /\ ~jobs[s].tell => PresenceIsTold
    /\ jobs[s].step = "presence" => ReadIsDue \/ jobs[s].want = Effective(State.available)
    /\ jobs[s].step = "chats" => PresenceIsTold

\* The subscriptions S are those of the open chats: at most them while the
\* connection's own reconciliation has not read the intents.
Covers(S) ==
    /\ S \subseteq State.chats
    /\ jobs["connected"].step # "read" => S = State.chats

\* Where reconciliation s will bring presence and subscriptions.
Carries(s) ==
    /\ jobs[s].step # "client" => jobs[s].via
    /\ PresenceIsCarried(s)
    /\ Covers((subscribed \ jobs[s].drop) \cup jobs[s].add)

\* A panel that is not connected wants nothing, a lost connection has told
\* nothing, and only the two events' reconciliations read the intents late.
Resting ==
    /\ \A p \in Panels \ open : chat[p] = NoChat /\ ~available[p]
    /\ ~link => subscribed = {}
    /\ \A s \in Slots : jobs[s].step = "read" => s \in {"connected", "appevent"}

\* Reconciliations that do not overlap are one at a time.
Alone == ~overlapped => \A s, t \in Slots : Busy(s) /\ Busy(t) => s = t

Told ==
    link /\ ~overlapped =>
        /\ \A s \in Slots : Busy(s) => Carries(s)
        /\ (\A s \in Slots : ~Busy(s)) => PresenceIsTold /\ Covers(subscribed)

\* What the panels want does not change when a panel without a wish connects,
\* and is the others' when one leaves.
LEMMA StatesAgree ==
    ASSUME NEW o, NEW q, NEW c, NEW d, NEW a, NEW b,
           o \subseteq q, \A p \in o : c[p] = d[p] /\ a[p] = b[p],
           \A p \in q \ o : d[p] = NoChat /\ ~b[p]
    PROVE  StateOf(o, c, a) = StateOf(q, d, b)
<1>1. (\E p \in o : a[p]) <=> (\E p \in q : b[p])
  OBVIOUS
<1>2. {c[p] : p \in o} \ {NoChat} = {d[p] : p \in q} \ {NoChat}
  OBVIOUS
<1> QED BY <1>1, <1>2 DEF StateOf

LEMMA RestingStep == TypeOK /\ Gated /\ Resting /\ [Next]_vars => Resting'
<1> SUFFICES ASSUME TypeOK, Gated, Resting, [Next]_vars PROVE Resting'
  OBVIOUS
<1> USE SlotNames
<1>1. jobs \in [Slots -> Jobs] /\ jobs' \in [Slots -> Jobs]
  BY JobsType DEF TypeOK
<1>2. CASE UNCHANGED vars
  BY <1>2 DEF vars, Resting
<1>3. CASE BeginGeneration
  BY <1>3 DEF BeginGeneration, Resting, intents, remote
<1>4. CASE RetireGeneration
  BY <1>1, <1>4, RestingTypes DEF RetireGeneration, Resting, intents, Cut, Jobs
<1>5. CASE OnConnected
  BY <1>1, <1>5 DEF OnConnected, Resting, intents
<1>6. CASE Disconnect
  BY <1>6 DEF Disconnect, Resting, intents, Cut
<1>7. CASE OfflineSyncCompleted
  BY <1>1, <1>7 DEF OfflineSyncCompleted, Resting, intents
<1>a. CASE SelfPushNameUpdated
  <2>1. \A s \in Slots : jobs'[s].step = "read" => jobs[s].step = "read"
    BY <1>1, <1>a, NameToldType DEF SelfPushNameUpdated, NameTold
  <2> QED BY <1>a, <2>1 DEF SelfPushNameUpdated, Resting, session, intents, remote
<1>8. CASE CommandTimesOut
  BY <1>1, <1>8, RestingTypes DEF CommandTimesOut, Resting, session, intents, remote
<1>9. ASSUME NEW p \in Panels, OpenConnection(p) PROVE Resting'
  BY <1>9 DEF OpenConnection, Resting, session, remote
<1>10. ASSUME NEW p \in Panels, CloseConnection(p) PROVE Resting'
  <2> DEFINE j == Reconcile(State, StateOf(open \ {p}, chat, available), FALSE, NoPanel)
  <2>1. j.step = "client"
    BY DEF Reconcile
  <2>2. jobs' = [jobs EXCEPT !["command"] = IF @.owner = p THEN Idle ELSE @, ![p] = j]
    BY <1>10 DEF CloseConnection
  <2> HIDE DEF j
  <2>3. \A s \in Slots : jobs'[s].step = "read" => jobs[s].step = "read"
    BY <1>1, <2>1, <2>2, RestingTypes
  <2>4. \A q \in Panels \ open' : chat'[q] = NoChat /\ ~available'[q]
    BY <1>10 DEF CloseConnection, Forget, Resting, TypeOK
  <2> QED BY <1>10, <2>3, <2>4 DEF CloseConnection, Resting, session, remote
<1>11. ASSUME NEW p \in Panels, Command(p),
              \A q \in Panels \ {p} : chat'[q] = chat[q] /\ available'[q] = available[q],
              p \in open
       PROVE  Resting'
  <2> DEFINE j == Reconcile(State, StateOf(open, chat', available'), FALSE, p)
  <2>1. j.step = "client"
    BY DEF Reconcile
  <2>2. jobs' = [jobs EXCEPT !["command"] = j]
    BY <1>11 DEF Command
  <2> HIDE DEF j
  <2> QED BY ZenonT(90), <1>1, <1>11, <2>1, <2>2 DEF Command, Resting, session, remote
<1>12. ASSUME NEW p \in Panels, NEW value \in BOOLEAN, SetPresence(p, value)
       PROVE  Resting'
  BY <1>11, <1>12 DEF SetPresence, TypeOK
<1>13. ASSUME NEW p \in Panels, NEW c \in Chats \cup {NoChat}, SetActiveChat(p, c)
       PROVE  Resting'
  BY <1>11, <1>13 DEF SetActiveChat, TypeOK
<1>14. ASSUME NEW s \in Slots, ReadIntents(s) PROVE Resting'
  <2> DEFINE j == Reconcile(NoState, State, TRUE, NoPanel)
  <2>1. j.step = "client"
    BY DEF Reconcile
  <2>2. jobs' = [jobs EXCEPT ![s] = j]
    BY <1>14 DEF ReadIntents
  <2> HIDE DEF j
  <2> QED BY <1>1, <1>14, <2>1, <2>2 DEF ReadIntents, Resting, session, intents, remote
<1>15. ASSUME NEW s \in Slots, CloneClient(s) PROVE Resting'
  <2>1. \A t \in Slots : jobs'[t].step = "read" => jobs[t].step = "read"
    BY <1>1, <1>15, RestingTypes DEF CloneClient
  <2> QED BY <1>15, <2>1 DEF CloneClient, Resting, session, intents, remote
<1>16. ASSUME NEW s \in Slots, TellPresence(s) PROVE Resting'
  BY <1>1, <1>16 DEF TellPresence, Resting, session, intents
<1>17. ASSUME NEW s \in Slots, NEW c \in Chats, TellChat(s, c) PROVE Resting'
  <2>1. \A t \in Slots : jobs'[t].step = "read" => jobs[t].step = "read"
    BY <1>1, <1>17 DEF TellChat, Jobs
  <2>2. ~link => subscribed' = {}
    BY <1>1, <1>17 DEF TellChat, Resting
  <2> QED BY <1>17, <2>1, <2>2 DEF TellChat, Resting, session, intents
<1>18. ASSUME NEW s \in Slots, Reconciled(s) PROVE Resting'
  BY <1>1, <1>18, RestingTypes DEF Reconciled, Resting, session, intents, remote
<1> QED
  BY <1>2, <1>3, <1>4, <1>5, <1>6, <1>7, <1>a, <1>8, <1>9, <1>10, <1>12, <1>13,
     <1>14, <1>15, <1>16, <1>17, <1>18, NextCases

\* The slots that were busy are those that are, and no overlap is forgotten.
NoNewWork ==
    /\ ~overlapped' => ~overlapped
    /\ \A s \in Slots : jobs'[s].step \in {"client", "presence", "chats"} => Busy(s)

\* Only slot s is busy after the step, unless it overlaps another.
OneNewWork(s) ==
    ~overlapped' => \A t \in Slots \ {s} :
        ~Busy(t) /\ jobs'[t].step \notin {"client", "presence", "chats"}

LEMMA AloneStep == TypeOK /\ Alone /\ [Next]_vars => Alone'
<1> SUFFICES ASSUME TypeOK, Alone, [Next]_vars PROVE Alone'
  OBVIOUS
<1> USE SlotNames
<1>1. jobs \in [Slots -> Jobs] /\ jobs' \in [Slots -> Jobs]
  BY JobsType DEF TypeOK
<1>a. NoNewWork => Alone'
  BY DEF NoNewWork, Alone, Busy
<1>b. ASSUME NEW s \in Slots, OneNewWork(s) PROVE Alone'
  BY <1>b DEF OneNewWork, Alone, Busy
<1>2. CASE UNCHANGED vars
  BY <1>2 DEF vars, Alone, Busy
<1>3. CASE BeginGeneration
  BY <1>3 DEF BeginGeneration, Alone, Busy
<1>4. CASE RetireGeneration
  BY <1>1, <1>4, <1>a, RestingTypes DEF RetireGeneration, NoNewWork, Busy, Jobs
<1>5. CASE OnConnected
  <2>1. ~overlapped' => \A s \in Slots : jobs'[s].step \notin {"client", "presence", "chats"}
    BY <1>1, <1>5, RestingTypes DEF OnConnected, Busy
  <2> QED BY <2>1 DEF Alone, Busy
<1>6. CASE Disconnect
  BY <1>6 DEF Disconnect, Alone, Busy
<1>7. CASE OfflineSyncCompleted
  BY <1>1, <1>7, <1>a, RestingTypes DEF OfflineSyncCompleted, NoNewWork, Busy
<1>c. CASE SelfPushNameUpdated
  <2>1. \A t \in Slots \ {"appevent"} : jobs'[t] = jobs[t]
    BY <1>1, <1>c DEF SelfPushNameUpdated
  <2>2. OneNewWork("appevent")
    BY <1>c, <2>1 DEF SelfPushNameUpdated, OneNewWork, Overlaps, Busy
  <2> QED BY <1>b, <2>2
<1>8. CASE CommandTimesOut
  BY <1>8 DEF CommandTimesOut, Alone
<1>9. ASSUME NEW p \in Panels, OpenConnection(p) PROVE Alone'
  BY <1>9 DEF OpenConnection, Alone, Busy
<1>10. ASSUME NEW p \in Panels, CloseConnection(p) PROVE Alone'
  <2> DEFINE j == Reconcile(State, StateOf(open \ {p}, chat, available), FALSE, NoPanel)
  <2>2. jobs' = [jobs EXCEPT !["command"] = IF @.owner = p THEN Idle ELSE @, ![p] = j]
    BY <1>10 DEF CloseConnection
  <2> HIDE DEF j
  <2>3. \A t \in Slots \ {p} : jobs'[t] = jobs[t] \/ jobs'[t] = Idle
    BY <1>1, <2>2
  <2>4. OneNewWork(p)
    BY <1>10, <2>3, RestingTypes DEF CloseConnection, OneNewWork, Overlaps, Busy
  <2> QED BY <1>b, <2>4
<1>11. ASSUME NEW p \in Panels, Command(p) PROVE Alone'
  <2> DEFINE j == Reconcile(State, StateOf(open, chat', available'), FALSE, p)
  <2>2. jobs' = [jobs EXCEPT !["command"] = j]
    BY <1>11 DEF Command
  <2> HIDE DEF j
  <2>4. OneNewWork("command")
    BY <1>1, <1>11, <2>2 DEF Command, OneNewWork, Overlaps, Busy
  <2> QED BY <1>b, <2>4
<1>12. ASSUME NEW p \in Panels, NEW value \in BOOLEAN, SetPresence(p, value)
       PROVE  Alone'
  BY <1>11, <1>12 DEF SetPresence
<1>13. ASSUME NEW p \in Panels, NEW c \in Chats \cup {NoChat}, SetActiveChat(p, c)
       PROVE  Alone'
  BY <1>11, <1>13 DEF SetActiveChat
<1>14. ASSUME NEW s \in Slots, ReadIntents(s) PROVE Alone'
  <2> DEFINE j == Reconcile(NoState, State, TRUE, NoPanel)
  <2>2. jobs' = [jobs EXCEPT ![s] = j]
    BY <1>14 DEF ReadIntents
  <2> HIDE DEF j
  <2>4. OneNewWork(s)
    BY <1>1, <1>14, <2>2 DEF ReadIntents, OneNewWork, Overlaps, Busy
  <2> QED BY <1>b, <2>4
<1>15. ASSUME NEW s \in Slots, CloneClient(s) PROVE Alone'
  <2>1. \A t \in Slots : jobs'[t].step \in {"client", "presence", "chats"} => Busy(t)
    BY <1>1, <1>15, RestingTypes DEF CloneClient, Busy
  <2> QED BY <1>15, <1>a, <2>1 DEF CloneClient, NoNewWork
<1>16. ASSUME NEW s \in Slots, TellPresence(s) PROVE Alone'
  BY <1>1, <1>16, <1>a DEF TellPresence, NoNewWork, Busy
<1>17. ASSUME NEW s \in Slots, NEW c \in Chats, TellChat(s, c) PROVE Alone'
  <2>1. \A t \in Slots : jobs'[t].step = jobs[t].step
    BY <1>1, <1>17 DEF TellChat, Jobs
  <2>2. ~overlapped' => ~overlapped
    BY <1>17 DEF TellChat
  <2> QED BY <1>a, <2>1, <2>2 DEF NoNewWork, Busy
<1>18. ASSUME NEW s \in Slots, Reconciled(s) PROVE Alone'
  BY <1>1, <1>18, <1>a, RestingTypes DEF Reconciled, NoNewWork, Busy
<1> QED
  BY <1>2, <1>3, <1>4, <1>5, <1>6, <1>7, <1>c, <1>8, <1>9, <1>10, <1>12, <1>13,
     <1>14, <1>15, <1>16, <1>17, <1>18, NextCases

\* The session, what WhatsApp heard and what the panels want stay as they are.
Steady ==
    /\ UNCHANGED <<clock, syncing, link, advertised, subscribed>>
    /\ State' = State

LEMMA ToldStays ==
    ASSUME Told, Steady, UNCHANGED <<jobs, overlapped>>
    PROVE  Told'
<1>1. /\ ReadIsDue' = ReadIsDue /\ Effective(State.available)' = Effective(State.available)
  BY DEF Steady, ReadIsDue, Effective, SyncPending
<1>2. PresenceIsTold' = PresenceIsTold
  BY <1>1 DEF PresenceIsTold, Steady
<1>3. \A s \in Slots : Busy(s)' = Busy(s)
  BY DEF Busy
<1>4. \A s \in Slots : Carries(s)' = Carries(s)
  BY <1>1, <1>2 DEF Carries, PresenceIsCarried, Covers, Steady, Effective
<1>5. Covers(subscribed)' = Covers(subscribed)
  BY DEF Covers, Steady
<1> QED BY <1>2, <1>3, <1>4, <1>5 DEF Told, Steady

(* A command, or a closing panel, that finds no other reconciliation takes over *)
(* what was told: it tells the difference between the two states.               *)
LEMMA WorkBegins ==
    ASSUME TypeOK, Told, jobs' \in [Slots -> Jobs], NEW s \in Slots, NEW p,
           ~Busy(s), OneNewWork(s), ~overlapped' => ~overlapped,
           UNCHANGED <<clock, syncing, link, advertised, subscribed>>,
           jobs'[s] = Reconcile(State, State', FALSE, p),
           State \in States, State' \in States,
           ReadIsDue => ReadIsDue',
           jobs'["connected"].step = "read" <=> jobs["connected"].step = "read"
    PROVE  Told'
<1> USE SlotNames
<1> SUFFICES ASSUME link', ~overlapped'
             PROVE  /\ \A t \in Slots : Busy(t)' => Carries(t)'
                    /\ (\A t \in Slots : ~Busy(t)') => (PresenceIsTold /\ Covers(subscribed))'
  BY DEF Told
<1>1. PresenceIsTold /\ Covers(subscribed)
  BY DEF Told, OneNewWork
<1>2. /\ jobs'[s].step = "client" /\ jobs'[s].want = (State').available
      /\ jobs'[s].drop = State.chats \ (State').chats
      /\ jobs'[s].add = (State').chats \ State.chats
  BY DEF Reconcile
<1>3. ~jobs'[s].tell => State.available = (State').available
  BY DEF Reconcile, States
<1>4. State.available = (State').available => PresenceIsTold'
  BY <1>1 DEF PresenceIsTold, Effective, SyncPending
<1>5. Covers((subscribed \ jobs[s].drop) \cup jobs[s].add)'
  BY <1>1, <1>2 DEF Covers
<1>6. PresenceIsCarried(s)'
  BY <1>2, <1>3, <1>4 DEF PresenceIsCarried
<1>7. Carries(s)'
  BY <1>2, <1>5, <1>6 DEF Carries
<1>8. \A t \in Slots : Busy(t)' <=> t = s
  BY <1>2 DEF Busy, OneNewWork
<1> QED BY <1>7, <1>8

LEMMA ToldStep ==
    TypeOK /\ Gated /\ Resting /\ Alone /\ Told /\ [Next]_vars => Told'
<1> SUFFICES ASSUME TypeOK, Gated, Resting, Alone, Told, [Next]_vars PROVE Told'
  OBVIOUS
<1> USE SlotNames
<1>1. /\ jobs \in [Slots -> Jobs] /\ jobs' \in [Slots -> Jobs]
      /\ State \in States /\ State' \in States
  <2>1. TypeOK'
    BY TypeStep
  <2> QED BY <2>1, JobsType, StateType DEF TypeOK, State
<1>n. PanelsAssumption
  BY PanelsAssumption
<1>2. CASE UNCHANGED vars
  BY <1>2, ToldStays DEF vars, Steady, State, StateOf
<1>3. CASE BeginGeneration
  <2>1. ~link'
    BY <1>3 DEF BeginGeneration, Gated, TypeOK
  <2> QED BY <2>1 DEF Told
<1>4. CASE RetireGeneration
  BY <1>4 DEF RetireGeneration, Cut, Told
<1>5. CASE OnConnected
  <2> SUFFICES ASSUME ~overlapped' PROVE Told'
    BY DEF Told
  <2>1. \A s \in Slots : ~Busy(s)
    BY <1>5 DEF OnConnected
  <2>2. \A s \in Slots : ~Busy(s)'
    BY <1>1, <1>5, <2>1, RestingTypes DEF OnConnected, Busy
  <2>3. jobs'["connected"].step = "read"
    BY <1>1, <1>5, RestingTypes DEF OnConnected
  <2>4. subscribed' = {}
    BY <1>5 DEF OnConnected, Resting, remote
  <2>5. PresenceIsTold' /\ Covers(subscribed)'
    BY <2>3, <2>4 DEF PresenceIsTold, ReadIsDue, Covers
  <2> QED BY <2>2, <2>5 DEF Told
<1>6. CASE Disconnect
  BY <1>6 DEF Disconnect, Cut, Told
<1>7. CASE OfflineSyncCompleted
  <2>1. UNCHANGED <<clock, link, open, chat, available, advertised, subscribed, overlapped>>
    BY <1>7 DEF OfflineSyncCompleted, intents
  <2>2. State' = State
    BY <2>1 DEF State, StateOf
  <2>3. CASE ~SyncPending
    <3>1. syncing' = syncing /\ jobs' = jobs
      BY <1>7, <2>3 DEF OfflineSyncCompleted
    <3> QED BY <2>1, <2>2, <3>1, ToldStays DEF Steady
  <2>4. CASE SyncPending
    <3>1. jobs' = [jobs EXCEPT !["appevent"] = Spawned]
      BY <1>7, <2>4 DEF OfflineSyncCompleted
    <3>2. /\ jobs'["appevent"].step = "read"
          /\ \A s \in Slots \ {"appevent"} : jobs'[s] = jobs[s]
      BY <1>1, <3>1, RestingTypes
    <3>3. ReadIsDue' /\ PresenceIsTold'
      BY <3>2 DEF ReadIsDue, PresenceIsTold
    <3>4. \A s \in Slots : Busy(s)' => s # "appevent" /\ Busy(s)
      BY <3>2 DEF Busy
    <3>5. jobs["appevent"].step = "idle"
      BY <1>7 DEF OfflineSyncCompleted
    <3>6. ASSUME NEW s \in Slots, s # "appevent", Carries(s) PROVE Carries(s)'
      <4>1. Covers((subscribed \ jobs[s].drop) \cup jobs[s].add)'
        BY <3>2, <3>6, <2>1, <2>2 DEF Carries, Covers
      <4>2. PresenceIsCarried(s)'
        BY <3>2, <3>3, <3>6, <2>2 DEF Carries, PresenceIsCarried
      <4> QED BY <3>2, <3>6, <4>1, <4>2 DEF Carries
    <3>7. Covers(subscribed) => Covers(subscribed)'
      BY <2>1, <2>2, <3>2 DEF Covers
    <3>8. \A s \in Slots : ~Busy(s)' => ~Busy(s)
      BY <3>2, <3>5 DEF Busy
    <3> QED BY <2>1, <3>3, <3>4, <3>6, <3>7, <3>8 DEF Told
  <2> QED BY <2>3, <2>4
<1>a. CASE SelfPushNameUpdated
  <2>1. jobs["appevent"].step = "idle" /\ Effective(State.available)
    BY <1>a DEF SelfPushNameUpdated
  <2>2. jobs' = [jobs EXCEPT !["appevent"] = NameTold]
    BY <1>a DEF SelfPushNameUpdated, NameTold
  <2>3. State' = State /\ UNCHANGED <<clock, syncing, link, advertised, subscribed>>
    BY <1>a DEF SelfPushNameUpdated, session, intents, remote, State, StateOf
  <2> SUFFICES ASSUME link', ~overlapped' PROVE Told'
    BY DEF Told
  <2>4. ~overlapped /\ \A t \in Slots : ~Busy(t)
    BY <1>a, <2>1 DEF SelfPushNameUpdated, Overlaps, Busy
  <2>5. Covers(subscribed)
    BY <2>3, <2>4 DEF Told
  <2>6. jobs'["appevent"] = NameTold /\ \A t \in Slots \ {"appevent"} : jobs'[t] = jobs[t]
    BY <1>1, <2>2
  <2>7. \A t \in Slots : Busy(t)' <=> t = "appevent"
    BY <2>4, <2>6, NameToldType DEF Busy
  <2>8. Covers((subscribed \ jobs["appevent"].drop) \cup jobs["appevent"].add)'
    BY <2>3, <2>5, <2>6, <1>n, NameToldType DEF Covers
  <2>9. jobs'["appevent"].want = Effective(State.available)'
    BY <2>1, <2>3, <2>6, NameToldType DEF Effective, SyncPending
  <2>10. Carries("appevent")'
    BY <2>6, <2>8, <2>9, NameToldType DEF Carries, PresenceIsCarried
  <2> QED BY <2>7, <2>10 DEF Told
<1>8. CASE CommandTimesOut
  BY <1>8 DEF CommandTimesOut, Told
<1>9. ASSUME NEW p \in Panels, OpenConnection(p) PROVE Told'
  <2>1. State' = State
    <3>1. open \subseteq open' /\ open' = open \cup {p} /\ p \notin open /\ chat' = chat /\ available' = available
      BY <1>9 DEF OpenConnection
    <3>2. \A q \in open' \ open : chat'[q] = NoChat /\ ~available'[q]
      BY <3>1 DEF Resting
    <3> QED BY <3>1, <3>2, StatesAgree DEF State
  <2> QED BY <1>9, <2>1, ToldStays DEF OpenConnection, Steady, session, remote
<1>10. ASSUME NEW p \in Panels, CloseConnection(p) PROVE Told'
  <2> DEFINE j == Reconcile(State, StateOf(open \ {p}, chat, available), FALSE, NoPanel)
  <2>1. StateOf(open \ {p}, chat, available) = State'
    <3>1. \A q \in open \ {p} : chat[q] = chat'[q] /\ available[q] = available'[q]
      BY <1>10 DEF CloseConnection, Forget, TypeOK
    <3>2. open' = open \ {p}
      BY <1>10 DEF CloseConnection, Forget
    <3> QED BY <3>1, <3>2, StatesAgree DEF State
  <2>2. jobs' = [jobs EXCEPT !["command"] = IF @.owner = p THEN Idle ELSE @, ![p] = j]
    BY <1>10 DEF CloseConnection
  <2>3. jobs'[p] = Reconcile(State, State', FALSE, NoPanel)
    BY <1>1, <2>1, <2>2
  <2> HIDE DEF j
  <2>4. p # "command" /\ p # "connected" /\ p # "appevent"
    BY <1>n DEF PanelsAssumption
  <2>5. \A t \in Slots \ {p} : jobs'[t] = jobs[t] \/ (t = "command" /\ jobs'[t] = Idle)
    BY <1>1, <2>2
  <2>6. OneNewWork(p) /\ ~Busy(p) /\ (~overlapped' => ~overlapped)
    BY <1>10, <2>5, RestingTypes DEF CloseConnection, OneNewWork, Overlaps, Busy
  <2>7. jobs["command"].step # "read" /\ jobs[p].step # "read"
    BY <1>10, <2>4 DEF Resting, CloseConnection
  <2>8. ReadIsDue => ReadIsDue'
    BY <2>5, <2>7 DEF ReadIsDue
  <2>9. jobs'["connected"] = jobs["connected"]
    BY <2>4, <2>5
  <2> QED BY <1>1, <1>10, <2>3, <2>6, <2>8, <2>9, WorkBegins
          DEF CloseConnection, session, remote
<1>11. ASSUME NEW p \in Panels, Command(p), jobs["command"].step = "idle" PROVE Told'
  <2> DEFINE j == Reconcile(State, StateOf(open, chat', available'), FALSE, p)
  <2>1. StateOf(open, chat', available') = State'
    BY <1>11 DEF Command, State
  <2>2. jobs' = [jobs EXCEPT !["command"] = j]
    BY <1>11 DEF Command
  <2>3. jobs'["command"] = Reconcile(State, State', FALSE, p)
    BY <1>1, <2>1, <2>2
  <2> HIDE DEF j
  <2>5. \A t \in Slots \ {"command"} : jobs'[t] = jobs[t]
    BY <1>1, <2>2
  <2>6. OneNewWork("command") /\ ~Busy("command") /\ (~overlapped' => ~overlapped)
    BY <1>11, <2>5 DEF Command, OneNewWork, Overlaps, Busy
  <2>8. ReadIsDue => ReadIsDue'
    BY <1>11, <2>5 DEF ReadIsDue
  <2>9. jobs'["connected"] = jobs["connected"]
    BY <2>5
  <2> QED BY <1>1, <1>11, <2>3, <2>6, <2>8, <2>9, WorkBegins DEF Command, session, remote
<1>12. ASSUME NEW p \in Panels, NEW value \in BOOLEAN, SetPresence(p, value)
       PROVE  Told'
  BY <1>11, <1>12 DEF SetPresence
<1>13. ASSUME NEW p \in Panels, NEW c \in Chats \cup {NoChat}, SetActiveChat(p, c)
       PROVE  Told'
  BY <1>11, <1>13 DEF SetActiveChat
<1>14. ASSUME NEW s \in Slots, ReadIntents(s) PROVE Told'
  <2> DEFINE j == Reconcile(NoState, State, TRUE, NoPanel)
  <2>1. /\ j.step = "client" /\ j.tell /\ j.want = State.available
        /\ j.drop = {} /\ j.add = State.chats
    BY <1>1 DEF Reconcile, NoState, States
  <2>2. jobs' = [jobs EXCEPT ![s] = j]
    BY <1>14 DEF ReadIntents
  <2> HIDE DEF j
  <2>3. State' = State /\ UNCHANGED <<clock, syncing, link, advertised, subscribed>>
    BY <1>14 DEF ReadIntents, session, intents, remote, State, StateOf
  <2> SUFFICES ASSUME link', ~overlapped' PROVE Told'
    BY DEF Told
  <2>4. ~overlapped /\ \A t \in Slots : ~Busy(t)
    BY <1>14 DEF ReadIntents, Overlaps, Busy
  <2>5. Covers(subscribed)
    BY <2>3, <2>4 DEF Told
  <2>6. jobs'[s] = j /\ \A t \in Slots \ {s} : jobs'[t] = jobs[t]
    BY <1>1, <2>2
  <2>7. \A t \in Slots : Busy(t)' <=> t = s
    BY <2>1, <2>4, <2>6 DEF Busy
  <2>8. Covers((subscribed \ jobs[s].drop) \cup jobs[s].add)'
    BY <2>1, <2>3, <2>5, <2>6 DEF Covers
  <2>9. PresenceIsCarried(s)'
    BY <2>1, <2>3, <2>6 DEF PresenceIsCarried
  <2>10. Carries(s)'
    BY <2>1, <2>6, <2>8, <2>9 DEF Carries
  <2> QED BY <2>7, <2>10 DEF Told
<1>15. ASSUME NEW s \in Slots, CloneClient(s) PROVE Told'
  <2>1. UNCHANGED <<clock, syncing, link, advertised, subscribed, overlapped>> /\ State' = State
    BY <1>15 DEF CloneClient, session, intents, remote, State, StateOf
  <2> SUFFICES ASSUME link, ~overlapped PROVE Told'
    BY <2>1 DEF Told
  <2>2. jobs' = [jobs EXCEPT ![s] =
           [jobs[s] EXCEPT !.step = IF jobs[s].tell THEN "presence" ELSE "chats",
                           !.want = Effective(jobs[s].want), !.via = TRUE]]
    BY <1>15 DEF CloneClient
  <2>3. /\ jobs'[s].step = IF jobs[s].tell THEN "presence" ELSE "chats"
        /\ jobs'[s].want = Effective(jobs[s].want) /\ jobs'[s].via
        /\ jobs'[s].drop = jobs[s].drop /\ jobs'[s].add = jobs[s].add
        /\ \A t \in Slots \ {s} : jobs'[t] = jobs[t]
    BY <1>1, <2>2 DEF Jobs
  <2>4. jobs[s].step = "client" /\ Busy(s) /\ \A t \in Slots : Busy(t) => t = s
    BY <1>15 DEF CloneClient, Busy, Alone
  <2>5. Carries(s)
    BY <2>4 DEF Told
  <2>6. /\ ReadIsDue' <=> ReadIsDue
        /\ jobs'["connected"].step = "read" <=> jobs["connected"].step = "read"
    BY <2>3, <2>4 DEF ReadIsDue
  <2>7. PresenceIsTold => PresenceIsTold'
    BY <2>1, <2>6 DEF PresenceIsTold, Effective, SyncPending
  <2>8. PresenceIsCarried(s)'
    BY <2>1, <2>3, <2>4, <2>5, <2>7 DEF Carries, PresenceIsCarried, Effective, SyncPending
  <2>9. Covers((subscribed \ jobs[s].drop) \cup jobs[s].add)'
    BY <2>1, <2>3, <2>5, <2>6 DEF Carries, Covers
  <2>10. Carries(s)'
    BY <2>3, <2>8, <2>9 DEF Carries
  <2>11. \A t \in Slots : Busy(t)' <=> t = s
    BY <2>3, <2>4 DEF Busy
  <2> QED BY <2>10, <2>11 DEF Told
<1>16. ASSUME NEW s \in Slots, TellPresence(s) PROVE Told'
  <2>1. UNCHANGED <<clock, syncing, link, subscribed>> /\ State' = State
    BY <1>16 DEF TellPresence, session, intents, State, StateOf
  <2> SUFFICES ASSUME link, ~overlapped' PROVE Told'
    BY <2>1 DEF Told
  <2>2. /\ jobs[s].step = "presence" /\ ~overlapped
        /\ advertised' = IF jobs[s].via /\ link THEN jobs[s].want ELSE advertised
    BY <1>16 DEF TellPresence
  <2>3. /\ jobs'[s].step = "chats" /\ jobs'[s].via = jobs[s].via
        /\ jobs'[s].drop = jobs[s].drop /\ jobs'[s].add = jobs[s].add
        /\ \A t \in Slots \ {s} : jobs'[t] = jobs[t]
    BY <1>1, <1>16 DEF TellPresence, Jobs
  <2>4. Busy(s) /\ \A t \in Slots : Busy(t) => t = s
    BY <2>2 DEF Busy, Alone
  <2>5. Carries(s)
    BY <2>2, <2>4 DEF Told
  <2>6. /\ ReadIsDue' <=> ReadIsDue
        /\ jobs'["connected"].step = "read" <=> jobs["connected"].step = "read"
    BY <2>2, <2>3 DEF ReadIsDue
  <2>7. jobs[s].via /\ advertised' = jobs[s].want
    BY <2>2, <2>5 DEF Carries
  <2>8. PresenceIsTold'
    BY <2>1, <2>2, <2>5, <2>6, <2>7
       DEF Carries, PresenceIsCarried, PresenceIsTold, Effective, SyncPending
  <2>9. Covers((subscribed \ jobs[s].drop) \cup jobs[s].add)'
    BY <2>1, <2>3, <2>5, <2>6 DEF Carries, Covers
  <2>10. Carries(s)'
    BY <2>3, <2>7, <2>8, <2>9 DEF Carries, PresenceIsCarried
  <2>11. \A t \in Slots : Busy(t)' <=> t = s
    BY <2>3, <2>4 DEF Busy
  <2> QED BY <2>10, <2>11 DEF Told
<1>17. ASSUME NEW s \in Slots, NEW c \in Chats, TellChat(s, c) PROVE Told'
  <2>1. UNCHANGED <<clock, syncing, link, advertised>> /\ State' = State
    BY <1>17 DEF TellChat, session, intents, State, StateOf
  <2> SUFFICES ASSUME link, ~overlapped' PROVE Told'
    BY <2>1 DEF Told
  <2>2. jobs[s].step = "chats" /\ ~overlapped
    BY <1>17 DEF TellChat
  <2>3. /\ jobs'[s].step = "chats" /\ jobs'[s].via = jobs[s].via
        /\ \A t \in Slots \ {s} : jobs'[t] = jobs[t]
    BY <1>1, <1>17, <2>2 DEF TellChat, Jobs
  <2>4. Busy(s) /\ \A t \in Slots : Busy(t) => t = s
    BY <2>2 DEF Busy, Alone
  <2>5. Carries(s)
    BY <2>2, <2>4 DEF Told
  <2>6. /\ ReadIsDue' <=> ReadIsDue
        /\ jobs'["connected"].step = "read" <=> jobs["connected"].step = "read"
    BY <2>2, <2>3 DEF ReadIsDue
  <2>7. jobs[s].via
    BY <2>2, <2>5 DEF Carries
  <2>8. (subscribed' \ jobs'[s].drop) \cup jobs'[s].add = (subscribed \ jobs[s].drop) \cup jobs[s].add
    <3>1. CASE /\ c \in jobs[s].drop /\ subscribed' = subscribed \ {c}
               /\ jobs' = [jobs EXCEPT ![s].drop = @ \ {c}]
      <4>1. jobs'[s].drop = jobs[s].drop \ {c} /\ jobs'[s].add = jobs[s].add
        BY <1>1, <3>1 DEF Jobs
      <4> QED BY <3>1, <4>1
    <3>2. CASE /\ c \in jobs[s].add /\ jobs[s].drop = {} /\ subscribed' = subscribed \cup {c}
               /\ jobs' = [jobs EXCEPT ![s].add = @ \ {c}]
      <4>1. jobs'[s].add = jobs[s].add \ {c} /\ jobs'[s].drop = jobs[s].drop
        BY <1>1, <3>2 DEF Jobs
      <4> QED BY <3>2, <4>1
    <3> QED BY <1>17, <2>7, <3>1, <3>2 DEF TellChat
  <2>9. Covers((subscribed \ jobs[s].drop) \cup jobs[s].add)'
    BY <2>1, <2>5, <2>6, <2>8 DEF Carries, Covers
  <2>10. PresenceIsTold => PresenceIsTold'
    BY <2>1, <2>6 DEF PresenceIsTold, Effective, SyncPending
  <2>11. Carries(s)'
    BY <2>2, <2>3, <2>5, <2>7, <2>9, <2>10 DEF Carries, PresenceIsCarried
  <2>12. \A t \in Slots : Busy(t)' <=> t = s
    BY <2>3, <2>4 DEF Busy
  <2> QED BY <2>11, <2>12 DEF Told
<1>18. ASSUME NEW s \in Slots, Reconciled(s) PROVE Told'
  <2>1. UNCHANGED <<clock, syncing, link, advertised, subscribed, overlapped>> /\ State' = State
    BY <1>18 DEF Reconciled, session, intents, remote, State, StateOf
  <2> SUFFICES ASSUME link, ~overlapped PROVE Told'
    BY <2>1 DEF Told
  <2>2. jobs[s].step = "chats" /\ jobs[s].drop = {} /\ jobs[s].add = {}
    BY <1>18 DEF Reconciled
  <2>3. jobs'[s].step = "idle" /\ \A t \in Slots \ {s} : jobs'[t] = jobs[t]
    BY <1>1, <1>18, RestingTypes DEF Reconciled
  <2>4. Busy(s) /\ \A t \in Slots : Busy(t) => t = s
    BY <2>2 DEF Busy, Alone
  <2>5. PresenceIsTold /\ Covers((subscribed \ jobs[s].drop) \cup jobs[s].add)
    BY <2>2, <2>4 DEF Told, Carries, PresenceIsCarried
  <2>6. /\ ReadIsDue' <=> ReadIsDue
        /\ jobs'["connected"].step = "read" <=> jobs["connected"].step = "read"
    BY <2>2, <2>3 DEF ReadIsDue
  <2>7. PresenceIsTold'
    BY <2>1, <2>5, <2>6 DEF PresenceIsTold, Effective, SyncPending
  <2>8. (subscribed \ jobs[s].drop) \cup jobs[s].add = subscribed
    BY <2>2
  <2>9. Covers(subscribed)'
    BY <2>1, <2>5, <2>6, <2>8 DEF Covers
  <2>10. \A t \in Slots : ~Busy(t)'
    BY <2>3, <2>4 DEF Busy
  <2> QED BY <2>7, <2>9, <2>10 DEF Told
<1> QED
  BY <1>2, <1>3, <1>4, <1>5, <1>6, <1>7, <1>a, <1>8, <1>9, <1>10, <1>12, <1>13,
     <1>14, <1>15, <1>16, <1>17, <1>18, NextCases

(* When reconciliations are done and none overlapped another or failed on this *)
(* connection, WhatsApp has heard what the panels want (presence.rs 34-98).    *)
THEOREM IntentsAdvertised == Spec => []IntentsAreAdvertised
<1>1. Init => Resting /\ Alone /\ Told
  BY RestingTypes DEF Init, Resting, Alone, Told, Busy
<1>2. Told /\ TypeOK => IntentsAreAdvertised
  <2> SUFFICES ASSUME Told, TypeOK, Settled, link, ~overlapped
               PROVE  advertised = Effective(State.available) /\ subscribed = State.chats
    BY DEF IntentsAreAdvertised
  <2>1. \A s \in Slots : ~Busy(s)
    BY DEF Settled, Busy
  <2>2. ~ReadIsDue /\ jobs["connected"].step # "read"
    BY SlotNames DEF Settled, ReadIsDue
  <2>3. PresenceIsTold /\ Covers(subscribed)
    BY <2>1 DEF Told
  <2>4. advertised = Effective(State.available)
    BY <2>2, <2>3 DEF PresenceIsTold
  <2>5. subscribed = State.chats
    BY <2>2, <2>3 DEF Covers
  <2> QED BY <2>4, <2>5
<1>3. Init => Gated
  BY RestingTypes DEF Init, Gated
<1>4. (TypeOK /\ Gated /\ Resting /\ Alone /\ Told) /\ [Next]_vars => (Gated /\ Resting /\ Alone /\ Told)'
  BY GatedStep, RestingStep, AloneStep, ToldStep
<1> QED BY <1>1, <1>2, <1>3, <1>4, TypeCorrect, PTL DEF Spec

-----------------------------------------------------------------------------
(* The pictures in the avatar directory (state.rs, assets.rs, Service.qml) *)

FrameType == [step : {"scanned", "numbered", "stamped"}, at : Nat, has : SUBSET Faces,
              changed : SUBSET Faces, rev : Nat, seq : Nat, wrong : SUBSET Faces]
ListingType == [step : {"asked", "read", "answer"}, has : SUBSET Faces, seq : Nat,
                wrong : SUBSET Faces]

GalleryTypeOK ==
    /\ files \in [Faces -> Nat] /\ turn \in Nat /\ unmarked \in SUBSET Faces
    /\ coalescer \in [known : [Faces -> Nat], seeded : BOOLEAN, due : BOOLEAN]
    /\ number \in Nat /\ stamped \in Nat
    /\ flushes \in SUBSET FrameType
    /\ bus \in Seq(FrameType) /\ listings \in SUBSET ListingType /\ linked \in BOOLEAN
    /\ gallery \in [has : SUBSET Faces, rev : [Faces -> Nat], seq : Nat,
                    loaded : [Faces -> Nat]]
    /\ unseen \in SUBSET Faces

\* No sequence is ahead of the clock; a version is never used again.
Ordered ==
    /\ gallery.seq <= stamped
    /\ \A l \in listings : l.seq <= stamped
    /\ \A i \in DOMAIN bus : bus[i].seq <= stamped
    /\ \A flush \in flushes : flush.seq <= stamped
    /\ \A f \in Faces : files[f] <= turn + 1 /\ coalescer.known[f] <= turn + 1

\* No two flushes have the same revision, and none has one the shell shows.
Revised == {flush \in flushes : flush.step # "scanned"}
Distinct ==
    /\ \A a \in Revised :
          /\ a.rev <= number /\ \A f \in Faces : gallery.rev[f] # a.rev
          /\ \A i \in DOMAIN bus : a.rev # bus[i].rev
          /\ \A b \in Revised : a # b => a.rev # b.rev
    /\ \A i \in DOMAIN bus :
          /\ bus[i].rev <= number /\ \A f \in Faces : gallery.rev[f] # bus[i].rev
          /\ \A j \in DOMAIN bus : i # j => bus[i].rev # bus[j].rev
    /\ \A f \in Faces : gallery.rev[f] <= number

\* Nothing was told before the first scan; without a connection nothing is on its way.
Begun ==
    /\ ~coalescer.seeded =>
          /\ flushes = {} /\ bus = <<>> /\ gallery.has = {}
          /\ \A l \in listings : l.step = "asked"
          /\ linked => listings # {}
    /\ ~linked => bus = <<>> /\ listings = {}

Scans ==
    coalescer.seeded =>
        \A f \in Faces : f \in unmarked \/ coalescer.due \/ coalescer.known[f] = files[f]

Frames == {bus[i] : i \in DOMAIN bus}
Stamped == {flush \in flushes : flush.step = "stamped"}
Coming(f) == \E flush \in flushes : f \in flush.changed
Unstamped(f) == \E flush \in flushes \ Stamped : f \in flush.changed
Later(seq) ==
    \/ \E b \in Frames \cup Stamped : b.seq > seq
    \/ \E l \in listings : l.step # "answer" \/ l.seq > seq

\* What is shown to a shell that is connected, and the frames that will not be
\* dropped as old.
Shown == [has |-> gallery.has, wrong |-> unseen, seq |-> gallery.seq]
Telling ==
    IF linked
    THEN {Shown} \cup {b \in Frames \cup Stamped : b.seq > gallery.seq}
            \cup {l \in listings : l.step = "answer" /\ l.seq > gallery.seq}
    ELSE {}

\* A list names the contacts as the last scan did, or a later frame will.
Names(m) ==
    \A f \in Faces :
        \/ f \in m.wrong
        \/ f \in m.has <=> coalescer.known[f] # 0
        \/ Unstamped(f) \/ Later(m.seq)

NamedRight == \A m \in Telling : Names(m)

\* The picture that is shown is the newest, or the change will be announced.
Pictured(f) ==
    \/ f \in unseen \/ f \notin gallery.has
    \/ gallery.loaded[f] \in {files[f], coalescer.known[f]}
    \/ coalescer.known[f] \in (Nat \ {files[f]}) \cup {0}
    \/ Coming(f)
    \/ \E b \in Frames : f \in b.changed

GalleryInv ==
    /\ GalleryTypeOK /\ Ordered /\ Distinct /\ Begun /\ Scans /\ NamedRight
    /\ \A f \in Faces : Pictured(f)

LEMMA GalleryStarts == GalleryInit => GalleryInv
<1> SUFFICES ASSUME GalleryInit PROVE GalleryInv
  OBVIOUS
<1> USE DEF GalleryInit
<1>1. GalleryTypeOK
  <2>1. files \in [Faces -> Nat] /\ [f \in Faces |-> 0] \in [Faces -> Nat]
    OBVIOUS
  <2>2. <<>> \in Seq(FrameType)
    OBVIOUS
  <2> QED
    BY <2>1, <2>2 DEF GalleryTypeOK
<1>2. Ordered /\ Distinct
  BY DEF Ordered, Distinct, Revised
<1>3. Begun /\ Scans
  BY DEF Begun, Scans
<1>4. NamedRight
  BY DEF NamedRight, Telling, Frames
<1>5. \A f \in Faces : Pictured(f)
  BY DEF Pictured
<1> QED
  BY <1>1, <1>2, <1>3, <1>4, <1>5 DEF GalleryInv

LEMMA TellingSequences ==
    ASSUME GalleryInv, NEW m \in Telling
    PROVE  m.seq \in Nat /\ m.seq <= stamped
<1>1. GalleryTypeOK /\ Ordered
  BY DEF GalleryInv
<1>2. CASE m = Shown
  BY <1>1, <1>2 DEF Shown, GalleryTypeOK, Ordered
<1>3. CASE m \in Frames
  <2>1. PICK i \in DOMAIN bus : m = bus[i]
    BY <1>3 DEF Frames
  <2>2. m \in FrameType
    BY <1>1, <2>1 DEF GalleryTypeOK
  <2> QED
    BY <1>1, <2>1, <2>2 DEF Ordered, FrameType
<1>5. CASE m \in flushes
  BY <1>1, <1>5 DEF GalleryTypeOK, FrameType, Ordered
<1>4. CASE m \in listings
  BY <1>1, <1>4 DEF GalleryTypeOK, ListingType, Ordered
<1> QED
  BY <1>2, <1>3, <1>4, <1>5 DEF Telling, Stamped

(* The frames on the bus, and those of the flushes, are well formed. *)
LEMMA FramesTyped ==
    ASSUME GalleryTypeOK
    PROVE  /\ \A i \in DOMAIN bus : bus[i] \in FrameType /\ bus[i].seq \in Nat /\ bus[i].rev \in Nat
           /\ \A b \in Frames \cup flushes :
                 b \in FrameType /\ b.seq \in Nat /\ b.rev \in Nat /\ b.changed \subseteq Faces
<1>1. \A i \in DOMAIN bus : bus[i] \in FrameType
  BY DEF GalleryTypeOK
<1>2. \A b \in Frames \cup flushes : b \in FrameType
  BY <1>1 DEF GalleryTypeOK, Frames
<1> QED
  BY <1>1, <1>2 DEF FrameType

-----------------------------------------------------------------------------
(* The daemon *)

LEMMA ChangeFaceShows ==
    ASSUME GalleryInv, NEW f \in Faces, NEW version \in {0, turn + 2}, ChangeFace(f, version)
    PROVE  GalleryInv'
<1> USE DEF GalleryInv
<1>1. /\ version # files[f] /\ turn' = turn + 1
      /\ files' = [files EXCEPT ![f] = version] /\ unmarked' = unmarked \cup {f}
      /\ UNCHANGED <<coalescer, number, flushes, stamped, bus, listings, linked, gallery, unseen>>
  BY DEF ChangeFace
<1>2. GalleryTypeOK'
  BY <1>1 DEF GalleryTypeOK
<1>3. files' \in [Faces -> Nat] /\ \A g \in Faces : files'[g] = IF g = f THEN version ELSE files[g]
  BY <1>1 DEF GalleryTypeOK
<1>4. turn \in Nat /\ version \in Nat
      /\ \A g \in Faces : coalescer.known[g] \in Nat /\ files[g] \in Nat
  BY DEF GalleryTypeOK
<1>5. Ordered'
  <2>1. \A g \in Faces : files'[g] <= turn' + 1 /\ coalescer.known[g] <= turn' + 1
    BY <1>1, <1>3, <1>4 DEF Ordered
  <2> QED
    BY <1>1, <2>1 DEF Ordered
<1>6. Begun' /\ Distinct'
  BY <1>1 DEF Begun, Distinct, Revised
<1>7. Scans'
  BY <1>1, <1>3 DEF Scans
<1>8. NamedRight'
  BY <1>1 DEF NamedRight, Telling, Shown, Names, Unstamped, Later, Frames, Stamped
<1>9. ASSUME NEW g \in Faces PROVE Pictured(g)'
  <2>1. Pictured(g)
    OBVIOUS
  <2>2. CASE g # f
    BY <1>1, <1>3, <2>1, <2>2 DEF Pictured, Coming, Frames
  <2>3. CASE g = f
    <3>1. coalescer.known[f] # version \/ version = 0
      BY <1>4 DEF Ordered
    <3>2. coalescer'.known[f] \in (Nat \ {files'[f]}) \cup {0}
      BY <1>1, <1>3, <1>4, <3>1
    <3> QED
      BY <2>3, <3>2 DEF Pictured
  <2> QED
    BY <2>2, <2>3
<1> QED
  BY <1>2, <1>5, <1>6, <1>7, <1>8, <1>9

LEMMA MarkDirtyShows ==
    ASSUME GalleryInv, NEW f \in Faces, MarkDirty(f)
    PROVE  GalleryInv'
<1> USE DEF GalleryInv
<1>1. /\ unmarked' = unmarked \ {f}
      /\ coalescer' = [coalescer EXCEPT !.due = TRUE]
      /\ UNCHANGED <<files, turn, number, flushes, stamped, bus, listings, linked, gallery, unseen>>
  BY DEF MarkDirty
<1>2. /\ coalescer'.known = coalescer.known /\ coalescer'.seeded = coalescer.seeded
      /\ coalescer'.due = TRUE
      /\ coalescer' \in [known : [Faces -> Nat], seeded : BOOLEAN, due : BOOLEAN]
  BY <1>1 DEF GalleryTypeOK
<1>3. GalleryTypeOK'
  BY <1>1, <1>2 DEF GalleryTypeOK
<1>4. Ordered' /\ Distinct' /\ Begun' /\ Scans'
  BY <1>1, <1>2 DEF Ordered, Distinct, Revised, Begun, Scans
<1>5. NamedRight'
  BY <1>1, <1>2 DEF NamedRight, Telling, Shown, Names, Unstamped, Later, Frames, Stamped
<1>6. \A g \in Faces : Pictured(g)'
  BY <1>1, <1>2 DEF Pictured, Coming, Frames
<1> QED
  BY <1>3, <1>4, <1>5, <1>6

LEMMA ScanChangesShows ==
    ASSUME GalleryInv, ScanChanges
    PROVE  GalleryInv'
<1> USE DEF GalleryInv
<1>1. PICK changed : changed = {f \in Faces : files[f] # coalescer.known[f]}
  OBVIOUS
<1>2. PICK flush : flush = [step |-> "scanned", at |-> turn, has |-> OnDisk, changed |-> changed,
                            rev |-> 0, seq |-> 0, wrong |-> {}]
  OBVIOUS
<1>3. /\ coalescer' = [known |-> files, seeded |-> TRUE, due |-> FALSE]
      /\ flushes' = IF changed = {} THEN flushes ELSE flushes \cup {flush}
      /\ UNCHANGED <<files, turn, unmarked, number, stamped, bus, listings, linked, gallery, unseen>>
  BY <1>1, <1>2 DEF ScanChanges
<1>4. flush \in FrameType /\ flush.changed = changed /\ flush.step = "scanned" /\ flush.seq = 0
  BY <1>1, <1>2 DEF GalleryTypeOK, FrameType, OnDisk
<1>5. coalescer'.known = files /\ coalescer'.seeded = TRUE /\ coalescer'.due = FALSE
  BY <1>3
<1>6. GalleryTypeOK'
  BY <1>3, <1>4 DEF GalleryTypeOK
<1>7. Ordered' /\ Begun' /\ Scans'
  <2>1. 0 <= stamped
    BY DEF GalleryTypeOK
  <2> QED
    BY <1>3, <1>4, <1>5, <2>1 DEF Ordered, Begun, Scans
<1>12. Distinct' /\ Stamped' = Stamped
  <2>1. Revised' = Revised /\ Stamped' = Stamped
    BY <1>3, <1>4 DEF Revised, Stamped
  <2> QED
    BY <1>3, <2>1 DEF Distinct
<1>8. ASSUME NEW f \in Faces
      PROVE  /\ Coming(f) => Coming(f)'
             /\ Unstamped(f) => Unstamped(f)'
             /\ (Coming(f)' /\ Unstamped(f)') \/ coalescer'.known[f] = coalescer.known[f]
  <2>1. (Coming(f) => Coming(f)') /\ (Unstamped(f) => Unstamped(f)')
    BY <1>3, <1>12 DEF Coming, Unstamped
  <2>2. CASE f \in changed
    <3>1. flush \in flushes' \ Stamped' /\ f \in flush.changed
      BY <1>3, <1>4, <2>2 DEF Stamped
    <3> QED
      BY <2>1, <3>1 DEF Coming, Unstamped
  <2>3. CASE f \notin changed
    BY <1>1, <1>5, <2>1, <2>3
  <2> QED
    BY <2>2, <2>3
<1>9. ASSUME NEW m, Names(m) PROVE Names(m)'
  <2>1. Later(m.seq)' <=> Later(m.seq)
    BY <1>3, <1>12 DEF Later, Frames
  <2> QED
    BY <1>8, <1>9, <2>1 DEF Names
<1>10. NamedRight'
  <2>1. Telling' = Telling
    BY <1>3, <1>12 DEF Telling, Shown, Frames
  <2> QED
    BY <1>9, <2>1 DEF NamedRight
<1>11. ASSUME NEW f \in Faces PROVE Pictured(f)'
  <2>1. Pictured(f)
    OBVIOUS
  <2>2. CASE Coming(f)'
    BY <2>2 DEF Pictured
  <2>3. CASE ~Coming(f)'
    <3>1. ~Coming(f) /\ coalescer'.known[f] = coalescer.known[f] /\ files[f] = coalescer.known[f]
      BY <1>5, <1>8, <2>3
    <3> QED
      BY <1>3, <2>1, <3>1 DEF Pictured, Frames
  <2> QED
    BY <2>2, <2>3
<1> QED
  BY <1>6, <1>7, <1>10, <1>11, <1>12

LEMMA NumberChangesShows ==
    ASSUME GalleryInv, NEW flush \in flushes, NumberChanges(flush)
    PROVE  GalleryInv'
<1> USE DEF GalleryInv
<1>1. PICK n, next : n = number + 1 /\ next = [flush EXCEPT !.step = "numbered", !.rev = n]
  OBVIOUS
<1>2. /\ flush.step = "scanned" /\ number' = n /\ flushes' = (flushes \ {flush}) \cup {next}
      /\ UNCHANGED <<files, turn, unmarked, coalescer, stamped, bus, listings, linked, gallery,
                     unseen>>
  BY <1>1 DEF NumberChanges
<1>3. number \in Nat /\ n \in Nat /\ number < n /\ stamped \in Nat
  BY <1>1 DEF GalleryTypeOK
<1>4. /\ next \in FrameType /\ next.step = "numbered" /\ next.changed = flush.changed
      /\ next.rev = n /\ next.seq = flush.seq
  <2>1. flush \in FrameType
    BY FramesTyped
  <2> HIDE DEF GalleryInv
  <2> QED
    BY <1>1, <1>3, <2>1 DEF FrameType
<1>5. GalleryTypeOK'
  BY <1>2, <1>3, <1>4 DEF GalleryTypeOK
<1>6. Ordered' /\ Begun' /\ Scans'
  BY <1>2, <1>4 DEF Ordered, Begun, Scans
<1>7. Stamped' = Stamped /\ Revised' = Revised \cup {next}
  BY <1>2, <1>4 DEF Stamped, Revised
<1>8. /\ \A f \in Faces : gallery.rev[f] \in Nat /\ gallery.rev[f] <= number
      /\ \A i \in DOMAIN bus : bus[i].rev \in Nat /\ bus[i].rev <= number
      /\ \A a \in Revised : a.rev \in Nat /\ a.rev <= number
  BY FramesTyped DEF Distinct, Revised, GalleryTypeOK
<1>9. /\ \A f \in Faces : gallery.rev[f] <= n /\ gallery.rev[f] # n
      /\ \A i \in DOMAIN bus : bus[i].rev <= n /\ bus[i].rev # n
      /\ \A a \in Revised : a.rev <= n /\ a.rev # n
  BY <1>3, <1>8
<1>10. Distinct'
  BY <1>2, <1>3, <1>4, <1>7, <1>9 DEF Distinct
<1>11. \A f \in Faces : (Coming(f)' <=> Coming(f)) /\ (Unstamped(f)' <=> Unstamped(f))
  <2>1. flush \notin Stamped /\ next \notin Stamped'
    BY <1>2, <1>4 DEF Stamped
  <2>2. ASSUME NEW f \in Faces PROVE Coming(f)' <=> Coming(f)
    BY <1>2, <1>4 DEF Coming
  <2>3. flushes' \ Stamped' = ((flushes \ Stamped) \ {flush}) \cup {next}
    BY <1>2, <1>7, <2>1
  <2>4. ASSUME NEW f \in Faces PROVE Unstamped(f)' <=> Unstamped(f)
    BY <1>4, <2>1, <2>3 DEF Unstamped
  <2> QED
    BY <2>2, <2>4
<1>12. NamedRight'
  <2>1. Telling' = Telling
    BY <1>2, <1>7 DEF Telling, Shown, Frames
  <2>2. \A s : Later(s)' <=> Later(s)
    BY <1>2, <1>7 DEF Later, Frames
  <2> QED
    BY <1>2, <1>11, <2>1, <2>2 DEF NamedRight, Names
<1>13. \A f \in Faces : Pictured(f)'
  BY <1>2, <1>11 DEF Pictured, Frames
<1> QED
  BY <1>5, <1>6, <1>10, <1>12, <1>13

LEMMA StampChangesShows ==
    ASSUME GalleryInv, NEW flush \in flushes, StampChanges(flush)
    PROVE  GalleryInv'
<1> USE DEF GalleryInv
<1>1. PICK s, next : s = stamped + 1
                     /\ next = [flush EXCEPT !.step = "stamped", !.seq = s,
                                             !.wrong = Overtaken(flush.has)]
  OBVIOUS
<1>2. /\ flush.step = "numbered" /\ stamped' = s /\ flushes' = (flushes \ {flush}) \cup {next}
      /\ UNCHANGED <<files, turn, unmarked, coalescer, number, bus, listings, linked, gallery,
                     unseen>>
  BY <1>1 DEF StampChanges
<1>3. stamped \in Nat /\ s \in Nat /\ stamped < s
  BY <1>1 DEF GalleryTypeOK
<1>4. /\ next \in FrameType /\ next.step = "stamped" /\ next.changed = flush.changed
      /\ next.rev = flush.rev /\ next.seq = s /\ next.has = flush.has
      /\ next.wrong = Overtaken(flush.has)
  <2>1. flush \in FrameType /\ Overtaken(flush.has) \subseteq Faces
    BY FramesTyped DEF Overtaken
  <2> HIDE DEF GalleryInv
  <2> QED
    BY <1>1, <1>3, <2>1 DEF FrameType
<1>5. GalleryTypeOK'
  BY <1>2, <1>3, <1>4 DEF GalleryTypeOK
<1>6. Begun' /\ Scans'
  BY <1>2 DEF Begun, Scans
<1>7. Stamped' = Stamped \cup {next} /\ Revised' = (Revised \ {flush}) \cup {next}
      /\ flush \in Revised
  BY <1>2, <1>4 DEF Stamped, Revised
<1>8. Ordered'
  <2>1. /\ gallery.seq \in Nat /\ \A l \in listings : l.seq \in Nat
        /\ \A i \in DOMAIN bus : bus[i].seq \in Nat
        /\ \A x \in flushes : x.seq \in Nat
    BY FramesTyped DEF GalleryTypeOK, ListingType
  <2>2. /\ gallery.seq <= s /\ \A l \in listings : l.seq <= s
        /\ \A i \in DOMAIN bus : bus[i].seq <= s
        /\ \A x \in flushes' : x.seq <= s
    BY <1>2, <1>3, <1>4, <2>1 DEF Ordered
  <2> QED
    BY <1>2, <2>2 DEF Ordered
<1>9. Distinct'
  <2>1. \A a \in Revised' : \E b \in Revised : a.rev = b.rev /\ (a = b \/ (a = next /\ b = flush))
    BY <1>4, <1>7
  <2>2. ASSUME NEW a \in Revised', NEW b \in Revised', a # b PROVE a.rev # b.rev
    BY <1>4, <1>7, <2>2 DEF Distinct
  <2> QED
    BY <1>2, <2>1, <2>2 DEF Distinct
<1>10. ASSUME NEW f \in Faces PROVE Coming(f)' <=> Coming(f)
  BY <1>2, <1>4 DEF Coming
<1>11. ASSUME NEW seq \in Nat, seq <= stamped PROVE Later(seq)'
  <2>1. next \in Stamped' /\ next.seq > seq
    BY <1>3, <1>4, <1>7, <1>11
  <2> QED
    BY <2>1 DEF Later
<1>12. NamedRight'
  <2>1. Telling' \subseteq Telling \cup {next}
    BY <1>2, <1>7 DEF Telling, Shown, Frames
  <2>2. ASSUME NEW m \in Telling PROVE Names(m)'
    <3>1. m.seq \in Nat /\ m.seq <= stamped
      BY TellingSequences
    <3> QED
      BY <1>11, <3>1 DEF Names
  <2>3. Names(next)'
    <3>1. \A f \in Faces : f \in Overtaken(flush.has) \/ (f \in flush.has <=> coalescer.known[f] # 0)
      BY DEF Overtaken
    <3> QED
      BY <1>2, <1>4, <3>1 DEF Names
  <2> QED
    BY <2>1, <2>2, <2>3 DEF NamedRight
<1>13. \A f \in Faces : Pictured(f)'
  BY <1>2, <1>10 DEF Pictured, Frames
<1> QED
  BY <1>5, <1>6, <1>8, <1>9, <1>12, <1>13

LEMMA SendChangesShows ==
    ASSUME GalleryInv, NEW flush \in flushes, SendChanges(flush)
    PROVE  GalleryInv'
<1> USE DEF GalleryInv
<1>1. /\ flush.step = "stamped" /\ flushes' = flushes \ {flush}
      /\ bus' = IF linked THEN Append(bus, flush) ELSE bus
      /\ unseen' = unseen \cup (IF linked THEN {} ELSE flush.changed)
      /\ UNCHANGED <<files, turn, unmarked, coalescer, number, stamped, listings, linked, gallery>>
  BY DEF SendChanges
<1>2. flush \in FrameType /\ flush.changed \subseteq Faces /\ flush.seq \in Nat /\ flush.rev \in Nat
  BY FramesTyped
<1>3. GalleryTypeOK'
  <2>1. bus' \in Seq(FrameType)
    BY <1>1, <1>2 DEF GalleryTypeOK
  <2> QED
    BY <1>1, <1>2, <2>1 DEF GalleryTypeOK
<1>4. coalescer.seeded
  BY DEF Begun, GalleryTypeOK
<1>5. Begun' /\ Scans'
  BY <1>1, <1>4 DEF Begun, Scans
<1>6. /\ Stamped' = Stamped \ {flush} /\ Revised' = Revised \ {flush}
      /\ flush \in Stamped /\ flush \in Revised
  BY <1>1 DEF Stamped, Revised
<1>7. ASSUME NEW f \in Faces
      PROVE  /\ Unstamped(f)' <=> Unstamped(f)
             /\ Coming(f) => Coming(f)' \/ f \in flush.changed
  <2>1. flushes' \ Stamped' = flushes \ Stamped
    BY <1>1, <1>6
  <2> QED
    BY <1>1, <2>1 DEF Unstamped, Coming
<1>8. CASE ~linked
  <2>1. bus' = bus /\ unseen' = unseen \cup flush.changed /\ linked' = linked
    BY <1>1, <1>8
  <2>2. NamedRight'
    BY <1>8, <2>1 DEF NamedRight, Telling
  <2>3. Ordered' /\ Distinct'
    BY <1>1, <1>6, <2>1 DEF Ordered, Distinct
  <2>4. \A f \in Faces : Pictured(f)'
    BY <1>1, <1>7, <2>1 DEF Pictured, Frames
  <2> QED
    BY <1>3, <1>5, <2>2, <2>3, <2>4
<1>9. CASE linked
  <2>1. bus' = Append(bus, flush) /\ unseen' = unseen /\ linked' = linked
    BY <1>1, <1>9
  <2>2. PICK k : k = Len(bus) + 1
    OBVIOUS
  <2>3. bus \in Seq(FrameType) /\ DOMAIN bus = 1..Len(bus) /\ Len(bus) \in Nat /\ k \in Nat
    BY <2>2 DEF GalleryTypeOK
  <2>4. /\ DOMAIN bus' = DOMAIN bus \cup {k} /\ bus'[k] = flush
        /\ \A i \in DOMAIN bus : bus'[i] = bus[i] /\ i # k
    BY <1>2, <2>1, <2>2, <2>3
  <2>5. Frames' = Frames \cup {flush}
    BY <2>4 DEF Frames
  <2>6. Ordered'
    BY <1>1, <2>4 DEF Ordered
  <2>7. Distinct'
    <3>1. \A a \in Revised' : a \in Revised /\ a # flush /\ a.rev # flush.rev
      BY <1>6 DEF Distinct
    <3>2. \A i \in DOMAIN bus : flush.rev # bus[i].rev
      BY <1>6 DEF Distinct
    <3>3. flush.rev <= number /\ \A f \in Faces : gallery.rev[f] # flush.rev
      BY <1>6 DEF Distinct
    <3>4. ASSUME NEW a \in Revised'
          PROVE  /\ a.rev <= number' /\ \A f \in Faces : gallery'.rev[f] # a.rev
                 /\ \A i \in DOMAIN bus' : a.rev # bus'[i].rev
                 /\ \A b \in Revised' : a # b => a.rev # b.rev
      BY <1>1, <2>4, <3>1 DEF Distinct
    <3>5. ASSUME NEW i \in DOMAIN bus'
          PROVE  /\ bus'[i].rev <= number' /\ \A f \in Faces : gallery'.rev[f] # bus'[i].rev
                 /\ \A j \in DOMAIN bus' : i # j => bus'[i].rev # bus'[j].rev
      BY <1>1, <2>4, <3>2, <3>3 DEF Distinct
    <3> QED
      BY <1>1, <3>4, <3>5 DEF Distinct
  <2>8. NamedRight'
    <3>1. ASSUME NEW b
          PROVE  b \in Frames' \cup Stamped' <=> b \in Frames \cup Stamped
      BY <1>6, <2>5
    <3>2. Telling' \subseteq Telling
      BY <1>1, <2>1, <3>1 DEF Telling, Shown
    <3>3. \A s : Later(s)' <=> Later(s)
      BY <1>1, <3>1 DEF Later
    <3> QED
      BY <1>1, <1>7, <3>2, <3>3 DEF NamedRight, Names
  <2>9. \A f \in Faces : Pictured(f)'
    BY <1>1, <1>7, <2>1, <2>5 DEF Pictured
  <2> QED
    BY <1>3, <1>5, <2>6, <2>7, <2>8, <2>9
<1> QED
  BY <1>8, <1>9 DEF GalleryTypeOK

LEMMA ReadAvatarsShows ==
    ASSUME GalleryInv, NEW l \in listings, ReadAvatars(l)
    PROVE  GalleryInv'
<1> USE DEF GalleryInv
<1>1. PICK m : m = [Asking EXCEPT !.step = "read", !.has = OnDisk]
  OBVIOUS
<1>2. /\ l.step = "asked" /\ coalescer' = Seeded /\ listings' = (listings \ {l}) \cup {m}
      /\ UNCHANGED <<files, turn, unmarked, number, flushes, stamped, bus, linked, gallery, unseen>>
  BY <1>1 DEF ReadAvatars
<1>3. m = [step |-> "read", has |-> OnDisk, seq |-> 0, wrong |-> {}]
  BY <1>1 DEF Asking
<1>4. m \in ListingType /\ m.step = "read" /\ m.seq = 0
  BY <1>3 DEF ListingType, OnDisk
<1>5. coalescer' = IF coalescer.seeded THEN coalescer
                   ELSE [coalescer EXCEPT !.known = files, !.seeded = TRUE]
  BY <1>2 DEF Seeded, Rebased
<1>6. /\ coalescer' \in [known : [Faces -> Nat], seeded : BOOLEAN, due : BOOLEAN]
      /\ coalescer'.seeded = TRUE
      /\ coalescer'.known = IF coalescer.seeded THEN coalescer.known ELSE files
      /\ coalescer'.due = coalescer.due
  BY <1>5 DEF GalleryTypeOK
<1>7. GalleryTypeOK'
  BY <1>2, <1>4, <1>6 DEF GalleryTypeOK
<1>8. Ordered'
  <2>1. \A f \in Faces : coalescer'.known[f] <= turn + 1
    BY <1>6 DEF Ordered
  <2>2. stamped \in Nat /\ 0 <= stamped
    BY DEF GalleryTypeOK
  <2> QED
    BY <1>2, <1>4, <2>1, <2>2 DEF Ordered
<1>15. Distinct'
  BY <1>2 DEF Distinct, Revised
<1>9. linked
  BY DEF Begun, GalleryTypeOK
<1>10. Begun'
  BY <1>2, <1>6, <1>9 DEF Begun
<1>11. Scans'
  BY <1>2, <1>6 DEF Scans
<1>12. m \in listings' /\ \A seq : Later(seq)'
  BY <1>2, <1>4 DEF Later
<1>13. NamedRight'
  BY <1>12 DEF NamedRight, Names
<1>14. ASSUME NEW f \in Faces PROVE Pictured(f)'
  <2>1. Pictured(f)
    OBVIOUS
  <2>2. CASE coalescer.seeded
    BY <1>2, <1>6, <2>1, <2>2 DEF Pictured, Coming, Frames
  <2>3. CASE ~coalescer.seeded
    BY <1>2, <2>3 DEF Pictured, Begun
  <2> QED
    BY <2>2, <2>3
<1> QED
  BY <1>7, <1>8, <1>10, <1>11, <1>13, <1>14, <1>15

LEMMA StampAvatarsShows ==
    ASSUME GalleryInv, NEW l \in listings, StampAvatars(l)
    PROVE  GalleryInv'
<1> USE DEF GalleryInv
<1>1. PICK s : s = stamped + 1
  OBVIOUS
<1>2. PICK m : m = [step |-> "answer", has |-> l.has, seq |-> s, wrong |-> Overtaken(l.has)]
  OBVIOUS
<1>3. /\ l.step = "read" /\ stamped' = s /\ listings' = (listings \ {l}) \cup {m}
      /\ UNCHANGED <<files, turn, unmarked, coalescer, number, flushes, bus, linked, gallery, unseen>>
  BY <1>1, <1>2 DEF StampAvatars
<1>4. l \in ListingType /\ stamped \in Nat /\ s \in Nat /\ stamped < s
  BY <1>1 DEF GalleryTypeOK
<1>5. /\ m \in ListingType /\ m.step = "answer" /\ m.seq = s /\ m.has = l.has
      /\ m.wrong = Overtaken(l.has)
  BY <1>2, <1>4 DEF ListingType, Overtaken
<1>6. GalleryTypeOK'
  BY <1>3, <1>4, <1>5 DEF GalleryTypeOK
<1>7. /\ gallery.seq \in Nat
      /\ \A i \in DOMAIN bus : bus[i].seq \in Nat
      /\ \A x \in listings : x.seq \in Nat
      /\ \A flush \in flushes : flush.seq \in Nat
  BY FramesTyped DEF GalleryTypeOK, ListingType
<1>8. /\ gallery.seq <= s
      /\ \A i \in DOMAIN bus : bus[i].seq <= s
      /\ \A x \in listings' : x.seq <= s
      /\ \A flush \in flushes : flush.seq <= s
  BY <1>3, <1>4, <1>5, <1>7 DEF Ordered
<1>9. Ordered' /\ Distinct'
  BY <1>3, <1>8 DEF Ordered, Distinct, Revised
<1>10. linked /\ coalescer.seeded
  BY <1>3 DEF Begun, GalleryTypeOK
<1>11. Begun' /\ Scans'
  BY <1>3, <1>10 DEF Begun, Scans
<1>12. ASSUME NEW seq \in Nat, seq <= stamped PROVE Later(seq)'
  <2>1. m \in listings' /\ m.seq > seq
    BY <1>3, <1>4, <1>5, <1>12
  <2> QED
    BY <2>1 DEF Later
<1>13. Names(m)'
  <2>1. \A f \in Faces : f \in Overtaken(m.has) \/ (f \in m.has <=> coalescer.known[f] # 0)
    BY DEF Overtaken
  <2> QED
    BY <1>3, <1>5, <2>1 DEF Names
<1>14. NamedRight'
  <2>1. Telling' \subseteq Telling \cup {m}
    BY <1>3 DEF Telling, Shown, Frames, Stamped
  <2>2. ASSUME NEW x \in Telling PROVE Names(x)'
    <3>1. x.seq \in Nat /\ x.seq <= stamped
      BY TellingSequences
    <3> QED
      BY <1>12, <3>1 DEF Names
  <2> QED
    BY <1>13, <2>1, <2>2 DEF NamedRight
<1>15. \A f \in Faces : Pictured(f)'
  BY <1>3 DEF Pictured, Coming, Frames
<1> QED
  BY <1>6, <1>9, <1>11, <1>14, <1>15

-----------------------------------------------------------------------------
(* The shell *)

LinkedOnly == UNCHANGED <<files, turn, unmarked, coalescer, number, flushes, stamped>>

(* What stays so whatever the shell does with a frame. *)
LEMMA ScansStay ==
    ASSUME GalleryInv, LinkedOnly
    PROVE  /\ Scans' /\ Stamped' = Stamped /\ Revised' = Revised
           /\ \A f \in Faces : (Coming(f)' <=> Coming(f)) /\ (Unstamped(f)' <=> Unstamped(f))
  BY DEF GalleryInv, LinkedOnly, Scans, Coming, Unstamped, Stamped, Revised

(* A frame of the events, with what it changes, or an answer, without: an old
   one is dropped, a newer one replaces what was shown. *)
LEMMA ShowDrops ==
    ASSUME GalleryTypeOK, NEW frame, NEW changed, NEW rev, frame.seq \in Nat,
           Show(frame, changed, rev), frame.seq <= gallery.seq
    PROVE  gallery' = gallery /\ unseen' = unseen \cup changed
<1>1. gallery.seq \in Nat
  BY DEF GalleryTypeOK
<1>2. ~(frame.seq > gallery.seq)
  BY <1>1
<1> QED
  BY <1>2 DEF Show

LEMMA ShowReplaces ==
    ASSUME GalleryTypeOK, NEW frame, NEW changed, NEW rev, frame.seq \in Nat,
           Show(frame, changed, rev), frame.seq > gallery.seq
    PROVE  /\ gallery'.has = frame.has /\ gallery'.seq = frame.seq
           /\ unseen' = ((unseen \cap frame.has \cap gallery.has) \ changed) \cup frame.wrong
           /\ gallery'.rev = [f \in Faces |-> IF f \in changed THEN rev ELSE gallery.rev[f]]
           /\ gallery'.loaded =
                 [f \in Faces |-> IF f \in frame.has
                                     /\ (f \notin gallery.has \/ gallery'.rev[f] # gallery.rev[f])
                                  THEN files[f] ELSE gallery.loaded[f]]
           /\ gallery' = [has |-> gallery'.has, rev |-> gallery'.rev, seq |-> gallery'.seq,
                          loaded |-> gallery'.loaded]
<1>1. gallery.seq \in Nat
  BY DEF GalleryTypeOK
<1>2. ~(frame.seq <= gallery.seq)
  BY <1>1
<1>3. PICK revs : revs = [f \in Faces |-> IF f \in changed THEN rev ELSE gallery.rev[f]]
  OBVIOUS
<1>4. PICK loaded : loaded = Loaded(frame.has, revs)
  OBVIOUS
<1>5. gallery' = [has |-> frame.has, rev |-> revs, seq |-> frame.seq, loaded |-> loaded]
      /\ unseen' = ((unseen \cap frame.has \cap gallery.has) \ changed) \cup frame.wrong
  BY <1>2, <1>3, <1>4 DEF Show
<1>6. loaded = [f \in Faces |-> IF f \in frame.has /\ (f \notin gallery.has \/ revs[f] # gallery.rev[f])
                                THEN files[f] ELSE gallery.loaded[f]]
  BY <1>4 DEF Loaded
<1>7. gallery'.has = frame.has /\ gallery'.seq = frame.seq /\ gallery'.rev = revs
      /\ gallery'.loaded = loaded
  BY <1>5
<1> QED
  BY <1>3, <1>5, <1>6, <1>7

LEMMA ShowTypes ==
    ASSUME GalleryTypeOK, NEW frame, NEW changed \in SUBSET Faces, NEW rev \in Nat,
           frame.has \in SUBSET Faces, frame.seq \in Nat, frame.wrong \in SUBSET Faces,
           Show(frame, changed, rev)
    PROVE  /\ gallery' \in [has : SUBSET Faces, rev : [Faces -> Nat], seq : Nat,
                            loaded : [Faces -> Nat]]
           /\ unseen' \in SUBSET Faces
           /\ gallery'.seq \in {gallery.seq, frame.seq}
           /\ gallery'.seq >= gallery.seq /\ gallery'.seq >= frame.seq
           /\ \A f \in Faces : gallery'.rev[f] = gallery.rev[f]
                              \/ (f \in changed /\ gallery'.rev[f] = rev)
<1>1. /\ gallery \in [has : SUBSET Faces, rev : [Faces -> Nat], seq : Nat, loaded : [Faces -> Nat]]
      /\ gallery.seq \in Nat /\ gallery.rev \in [Faces -> Nat]
      /\ gallery.loaded \in [Faces -> Nat]
      /\ files \in [Faces -> Nat] /\ unseen \in SUBSET Faces
  BY DEF GalleryTypeOK
<1>2. CASE frame.seq <= gallery.seq
  <2>1. gallery' = gallery /\ unseen' = unseen \cup changed
    BY <1>2, ShowDrops
  <2>2. gallery'.seq >= gallery.seq /\ gallery'.seq >= frame.seq
    BY <1>1, <1>2, <2>1
  <2> QED
    BY <1>1, <2>1, <2>2
<1>3. CASE frame.seq > gallery.seq
  <2>1. /\ gallery'.has = frame.has /\ gallery'.seq = frame.seq
        /\ unseen' = ((unseen \cap frame.has \cap gallery.has) \ changed) \cup frame.wrong
        /\ gallery'.rev = [f \in Faces |-> IF f \in changed THEN rev ELSE gallery.rev[f]]
        /\ gallery'.loaded =
              [f \in Faces |-> IF f \in frame.has
                                  /\ (f \notin gallery.has \/ gallery'.rev[f] # gallery.rev[f])
                               THEN files[f] ELSE gallery.loaded[f]]
        /\ gallery' = [has |-> gallery'.has, rev |-> gallery'.rev, seq |-> gallery'.seq,
                       loaded |-> gallery'.loaded]
    BY <1>3, ShowReplaces
  <2>2. gallery'.rev \in [Faces -> Nat] /\ gallery'.loaded \in [Faces -> Nat]
    BY <1>1, <2>1
  <2>3. gallery' \in [has : SUBSET Faces, rev : [Faces -> Nat], seq : Nat,
                      loaded : [Faces -> Nat]]
    BY <2>1, <2>2
  <2>4. gallery'.seq >= gallery.seq /\ gallery'.seq >= frame.seq
    BY <1>1, <1>3, <2>1
  <2>5. unseen' \in SUBSET Faces
    BY <1>1, <2>1
  <2>6. \A f \in Faces : gallery'.rev[f] = IF f \in changed THEN rev ELSE gallery.rev[f]
    BY <2>1
  <2> QED
    BY <2>1, <2>3, <2>4, <2>5, <2>6
<1> QED
  BY <1>1, <1>2, <1>3

(* The names after a frame was shown or dropped: what is shown then, and the
   frames that are left and later, still name the contacts. *)
LEMMA ShownIsNamed ==
    ASSUME GalleryInv, NEW frame, NEW changed \in SUBSET Faces, NEW rev \in Nat,
           frame.has \in SUBSET Faces, frame.seq \in Nat, frame.wrong \in SUBSET Faces,
           Show(frame, changed, rev), LinkedOnly, linked,
           frame.seq > gallery.seq => Names(frame),
           \A s \in Nat : Later(s) /\ s >= frame.seq => Later(s)',
           NEW m, m = Shown' \/ (m \in Telling /\ m.seq >= gallery'.seq)
    PROVE  Names(m)'
<1> USE DEF GalleryInv
<1>1. gallery.seq \in Nat /\ gallery'.seq \in Nat
  BY ShowTypes DEF GalleryTypeOK
<1>2. coalescer' = coalescer /\ \A f \in Faces : Unstamped(f)' <=> Unstamped(f)
  BY ScansStay DEF LinkedOnly
<1>3. gallery'.seq >= frame.seq
  BY <1>1, ShowTypes
<1>4. ASSUME NEW x, Names(x), x.seq \in Nat, x.seq >= frame.seq,
             m.has = x.has, m.seq = x.seq, x.wrong \subseteq m.wrong
      PROVE  Names(m)'
  <2>1. Later(x.seq) => Later(x.seq)'
    BY <1>4
  <2>2. Later(m.seq)' <=> Later(x.seq)'
    BY <1>4 DEF Later
  <2> QED
    BY <1>2, <1>4, <2>1, <2>2 DEF Names
<1>5. CASE m \in Telling /\ m.seq >= gallery'.seq
  <2>1. m.seq \in Nat /\ Names(m)
    BY <1>5, TellingSequences DEF NamedRight
  <2> QED
    BY <1>1, <1>3, <1>4, <1>5, <2>1
<1>6. CASE m = Shown' /\ frame.seq > gallery.seq
  <2>1. gallery'.has = frame.has /\ gallery'.seq = frame.seq /\ frame.wrong \subseteq unseen'
    <3>1. GalleryTypeOK /\ frame.seq > gallery.seq
      BY <1>6
    <3>2. gallery'.has = frame.has /\ gallery'.seq = frame.seq
      BY <3>1, ShowReplaces
    <3>3. unseen' = ((unseen \cap frame.has \cap gallery.has) \ changed) \cup frame.wrong
      BY <3>1, ShowReplaces
    <3> QED
      BY <3>2, <3>3
  <2>2. m.has = frame.has /\ m.seq = frame.seq /\ m.wrong = unseen'
    BY <1>6, <2>1 DEF Shown
  <2> QED
    BY <1>4, <1>6, <2>1, <2>2
<1>7. CASE m = Shown' /\ frame.seq <= gallery.seq
  <2>1. gallery' = gallery /\ unseen' = unseen \cup changed
    BY <1>7, ShowDrops
  <2>2. PICK x : x = Shown
    OBVIOUS
  <2>3. Names(x) /\ x.seq = gallery.seq
    BY <2>2 DEF NamedRight, Telling, Shown
  <2>4. m.has = x.has /\ m.seq = x.seq /\ x.wrong \subseteq m.wrong
    BY <1>7, <2>1, <2>2 DEF Shown
  <2> QED
    BY <1>1, <1>4, <1>7, <2>3, <2>4
<1> QED
  BY <1>1, <1>5, <1>6, <1>7

(* The picture of a contact whose announcement is not the frame shown. *)
LEMMA ShownIsPictured ==
    ASSUME GalleryInv, NEW frame, NEW changed \in SUBSET Faces, NEW rev \in Nat,
           frame.has \in SUBSET Faces, frame.seq \in Nat, frame.wrong \in SUBSET Faces,
           Show(frame, changed, rev), LinkedOnly,
           NEW f \in Faces,
           f \in changed => rev # gallery.rev[f],
           f \notin changed =>
              \A b \in Frames : f \in b.changed => b \in Frames'
    PROVE  Pictured(f)'
<1> USE DEF GalleryInv
<1>1. Pictured(f) /\ gallery.seq \in Nat
  BY DEF GalleryTypeOK
<1>2. files' = files /\ coalescer' = coalescer /\ (Coming(f)' <=> Coming(f))
  BY ScansStay DEF LinkedOnly
<1>3. CASE frame.seq <= gallery.seq
  <2>1. gallery' = gallery /\ unseen' = unseen \cup changed
    BY <1>3, ShowDrops
  <2>2. CASE f \in changed
    BY <2>1, <2>2 DEF Pictured
  <2>3. CASE f \notin changed
    BY <1>1, <1>2, <2>1, <2>3 DEF Pictured
  <2> QED
    BY <2>2, <2>3
<1>4. CASE frame.seq > gallery.seq
  <2>1. /\ gallery'.has = frame.has
        /\ unseen' = ((unseen \cap frame.has \cap gallery.has) \ changed) \cup frame.wrong
        /\ gallery'.rev[f] = IF f \in changed THEN rev ELSE gallery.rev[f]
        /\ gallery'.loaded[f] =
              IF f \in frame.has /\ (f \notin gallery.has \/ gallery'.rev[f] # gallery.rev[f])
              THEN files[f] ELSE gallery.loaded[f]
    <3>1. GalleryTypeOK
      OBVIOUS
    <3>2. /\ gallery'.has = frame.has /\ gallery'.seq = frame.seq
          /\ unseen' = ((unseen \cap frame.has \cap gallery.has) \ changed) \cup frame.wrong
          /\ gallery'.rev = [g \in Faces |-> IF g \in changed THEN rev ELSE gallery.rev[g]]
          /\ gallery'.loaded =
                [g \in Faces |-> IF g \in frame.has
                                    /\ (g \notin gallery.has \/ gallery'.rev[g] # gallery.rev[g])
                                 THEN files[g] ELSE gallery.loaded[g]]
      BY <1>4, <3>1, ShowReplaces
    <3> QED
      BY <3>2
  <2>2. CASE f \notin frame.has
    BY <2>1, <2>2 DEF Pictured
  <2>3. CASE f \in frame.has /\ (f \in changed \/ f \notin gallery.has)
    <3>1. gallery'.loaded[f] = files[f]
      BY <2>1, <2>3
    <3> QED
      BY <1>2, <3>1 DEF Pictured
  <2>4. CASE f \in frame.has /\ f \notin changed /\ f \in gallery.has
    <3>1. gallery'.loaded[f] = gallery.loaded[f] /\ (f \in unseen => f \in unseen')
      BY <2>1, <2>4
    <3> QED
      BY <1>1, <1>2, <2>4, <3>1 DEF Pictured
  <2> QED
    BY <2>2, <2>3, <2>4
<1> QED
  BY <1>1, <1>3, <1>4

LEMMA TakeChangesShows ==
    ASSUME GalleryInv, TakeChanges
    PROVE  GalleryInv'
<1> USE DEF GalleryInv
<1>1. PICK frame : frame = Head(bus)
  OBVIOUS
<1>2. /\ linked /\ bus # <<>> /\ bus' = Tail(bus) /\ Show(frame, frame.changed, frame.rev)
      /\ LinkedOnly /\ UNCHANGED <<listings, linked>>
  BY <1>1 DEF TakeChanges, LinkedOnly
<1>3. bus \in Seq(FrameType) /\ DOMAIN bus = 1..Len(bus) /\ Len(bus) \in Nat /\ Len(bus) >= 1
  BY <1>2 DEF GalleryTypeOK
<1>4. /\ frame = bus[1] /\ 1 \in DOMAIN bus /\ bus' \in Seq(FrameType)
      /\ DOMAIN bus' = 1..(Len(bus) - 1)
      /\ \A i \in DOMAIN bus' : bus'[i] = bus[i + 1] /\ i + 1 \in DOMAIN bus
  BY <1>1, <1>2, <1>3
<1>5. /\ frame \in FrameType /\ frame.has \in SUBSET Faces /\ frame.changed \in SUBSET Faces
      /\ frame.wrong \in SUBSET Faces /\ frame.rev \in Nat /\ frame.seq \in Nat
      /\ \A i \in DOMAIN bus : bus[i].seq \in Nat /\ bus[i].rev \in Nat
      /\ gallery.seq \in Nat
  <2>1. \A i \in DOMAIN bus : bus[i] \in FrameType
    BY <1>3
  <2> QED
    BY <1>4, <2>1 DEF FrameType, GalleryTypeOK
<1>6. /\ gallery' \in [has : SUBSET Faces, rev : [Faces -> Nat], seq : Nat,
                       loaded : [Faces -> Nat]]
      /\ unseen' \in SUBSET Faces
      /\ gallery'.seq \in {gallery.seq, frame.seq} /\ gallery'.seq >= gallery.seq
      /\ gallery'.seq >= frame.seq
      /\ \A f \in Faces : gallery'.rev[f] \in {gallery.rev[f], frame.rev}
  <2>1. GalleryTypeOK
    OBVIOUS
  <2>2. /\ gallery' \in [has : SUBSET Faces, rev : [Faces -> Nat], seq : Nat,
                         loaded : [Faces -> Nat]]
        /\ unseen' \in SUBSET Faces
        /\ gallery'.seq \in {gallery.seq, frame.seq}
        /\ gallery'.seq >= gallery.seq /\ gallery'.seq >= frame.seq
        /\ \A f \in Faces : gallery'.rev[f] = gallery.rev[f]
                           \/ (f \in frame.changed /\ gallery'.rev[f] = frame.rev)
    BY SMTT(60), <1>2, <1>5, <2>1, ShowTypes
  <2> QED
    BY <2>2
<1>7. GalleryTypeOK'
  BY <1>2, <1>4, <1>6 DEF GalleryTypeOK, LinkedOnly
<1>8. \A i \in DOMAIN bus : i # 1 => i - 1 \in DOMAIN bus' /\ bus'[i - 1] = bus[i]
  BY <1>3, <1>4
<1>9. Frames' \subseteq Frames /\ \A b \in Frames : b = frame \/ b \in Frames'
  <2>1. ASSUME NEW i \in DOMAIN bus PROVE bus[i] = frame \/ bus[i] \in Frames'
    BY <1>4, <1>8 DEF Frames
  <2> QED
    BY <1>4, <2>1 DEF Frames
<1>later. ASSUME NEW s \in Nat, Later(s), s >= frame.seq PROVE Later(s)'
  <2>1. ~(frame.seq > s)
    BY <1>5, <1>later
  <2>2. Stamped' = Stamped
    BY <1>2, ScansStay
  <2> QED
    BY <1>2, <1>9, <1>later, <2>1, <2>2 DEF Later
<1>10. Ordered'
  <2>2. gallery'.seq <= stamped
    BY <1>4, <1>6 DEF Ordered
  <2>3. \A i \in DOMAIN bus' : bus'[i].seq <= stamped
    BY <1>4 DEF Ordered
  <2> QED
    BY <1>2, <2>2, <2>3 DEF Ordered, LinkedOnly
<1>15. Distinct'
  <2>1. Revised' = Revised /\ number' = number
    BY <1>2, ScansStay DEF LinkedOnly
  <2>2. ASSUME NEW a \in Revised
        PROVE  /\ a.rev <= number /\ \A f \in Faces : gallery'.rev[f] # a.rev
               /\ \A i \in DOMAIN bus' : a.rev # bus'[i].rev
    BY <1>4, <1>6 DEF Distinct
  <2>3. ASSUME NEW i \in DOMAIN bus'
        PROVE  /\ bus'[i].rev <= number /\ \A f \in Faces : gallery'.rev[f] # bus'[i].rev
               /\ \A k \in DOMAIN bus' : i # k => bus'[i].rev # bus'[k].rev
    <3>1. i + 1 \in DOMAIN bus /\ i + 1 # 1 /\ bus'[i] = bus[i + 1]
      BY <1>3, <1>4
    <3>2. frame.rev # bus[i + 1].rev
      BY <1>4, <3>1 DEF Distinct
    <3>3. \A f \in Faces : gallery'.rev[f] # bus'[i].rev
      BY <1>6, <3>1, <3>2 DEF Distinct
    <3>4. ASSUME NEW k \in DOMAIN bus', i # k PROVE bus'[i].rev # bus'[k].rev
      <4>1. k + 1 \in DOMAIN bus /\ i + 1 # k + 1 /\ bus'[k] = bus[k + 1]
        BY <1>4, <3>4
      <4> QED
        BY <3>1, <4>1 DEF Distinct
    <3> QED
      BY <3>1, <3>3, <3>4 DEF Distinct
  <2>4. \A f \in Faces : gallery'.rev[f] <= number
    BY <1>4, <1>6 DEF Distinct
  <2>5. \A a, b \in Revised : a # b => a.rev # b.rev
    BY DEF Distinct
  <2> QED
    BY <2>1, <2>2, <2>3, <2>4, <2>5 DEF Distinct
<1>11. coalescer.seeded
  BY <1>2 DEF Begun
<1>12. Begun' /\ Scans'
  BY <1>2, <1>11, ScansStay DEF Begun, LinkedOnly
<1>13. NamedRight'
  <2> SUFFICES ASSUME NEW m \in Telling' PROVE Names(m)'
    BY DEF NamedRight
  <2>1. frame.seq > gallery.seq => Names(frame)
    <3>1. frame \in Frames /\ linked
      BY <1>2, <1>4 DEF Frames
    <3> QED
      BY <3>1 DEF NamedRight, Telling
  <2>2. m = Shown' \/ (m \in Telling /\ m.seq >= gallery'.seq)
    <3>1. CASE m = Shown'
      BY <3>1
    <3>2. CASE m \in Frames' \cup Stamped' /\ m.seq > gallery'.seq
      <4>1. m \in Frames \cup Stamped /\ m.seq \in Nat
        BY <1>2, <1>9, <3>2, ScansStay, FramesTyped DEF Stamped
      <4>2. m.seq > gallery.seq /\ m.seq >= gallery'.seq
        BY <1>5, <1>6, <3>2, <4>1
      <4> QED
        BY <1>2, <4>1, <4>2 DEF Telling
    <3>3. CASE m \in listings /\ m.step = "answer" /\ m.seq > gallery'.seq
      <4>1. m.seq \in Nat
        BY <3>3 DEF GalleryTypeOK, ListingType
      <4>2. m.seq > gallery.seq /\ m.seq >= gallery'.seq
        BY <1>5, <1>6, <3>3, <4>1
      <4> QED
        BY <1>2, <3>3, <4>2 DEF Telling
    <3> QED
      BY <1>2, <3>1, <3>2, <3>3 DEF Telling
  <2> QED
    BY <1>2, <1>5, <1>later, <2>1, <2>2, ShownIsNamed
<1>14. ASSUME NEW f \in Faces PROVE Pictured(f)'
  <2>1. frame.rev # gallery.rev[f]
    BY <1>4 DEF Distinct
  <2>2. f \notin frame.changed => \A b \in Frames : f \in b.changed => b \in Frames'
    BY <1>9
  <2> QED
    BY <1>2, <1>5, <2>1, <2>2, ShownIsPictured
<1> QED
  BY <1>7, <1>10, <1>12, <1>13, <1>14, <1>15

LEMMA TakeListShows ==
    ASSUME GalleryInv, NEW l \in listings, TakeList(l)
    PROVE  GalleryInv'
<1> USE DEF GalleryInv
<1>1. /\ linked /\ l.step = "answer" /\ listings' = listings \ {l} /\ Show(l, {}, 0)
      /\ LinkedOnly /\ UNCHANGED <<bus, linked>>
  BY DEF TakeList, LinkedOnly
<1>2. /\ {} \in SUBSET Faces /\ 0 \in Nat
      /\ l.has \in SUBSET Faces /\ l.seq \in Nat /\ l.wrong \in SUBSET Faces
      /\ gallery.seq \in Nat
  BY DEF GalleryTypeOK, ListingType
<1>3. /\ gallery' \in [has : SUBSET Faces, rev : [Faces -> Nat], seq : Nat,
                       loaded : [Faces -> Nat]]
      /\ unseen' \in SUBSET Faces
      /\ gallery'.seq \in {gallery.seq, l.seq} /\ gallery'.seq >= gallery.seq
      /\ \A f \in Faces : gallery'.rev[f] = gallery.rev[f]
  <2>1. GalleryTypeOK
    OBVIOUS
  <2>2. PICK none, zero : none = {} /\ zero = 0
    OBVIOUS
  <2>3. /\ gallery' \in [has : SUBSET Faces, rev : [Faces -> Nat], seq : Nat,
                         loaded : [Faces -> Nat]]
        /\ unseen' \in SUBSET Faces
        /\ gallery'.seq \in {gallery.seq, l.seq}
        /\ gallery'.seq >= gallery.seq /\ gallery'.seq >= l.seq
        /\ \A f \in Faces : gallery'.rev[f] = gallery.rev[f]
                           \/ (f \in none /\ gallery'.rev[f] = zero)
    BY <1>1, <1>2, <2>1, <2>2, ShowTypes
  <2> QED
    BY <2>3, <2>2
<1>4. GalleryTypeOK'
  BY <1>1, <1>3 DEF GalleryTypeOK, LinkedOnly
<1>5. Ordered' /\ Distinct'
  BY <1>1, <1>3 DEF Ordered, Distinct, Revised, LinkedOnly
<1>6. coalescer.seeded
  BY <1>1 DEF Begun
<1>7. Begun' /\ Scans'
  BY <1>1, <1>6, ScansStay DEF Begun, LinkedOnly
<1>8. ASSUME NEW s \in Nat, Later(s), s >= l.seq PROVE Later(s)'
  <2>1. CASE \E b \in Frames \cup Stamped : b.seq > s
    BY <1>1, <2>1, ScansStay DEF Later, Frames
  <2>2. CASE \E m \in listings : m.step # "answer" \/ m.seq > s
    <3>1. PICK m \in listings : m.step # "answer" \/ m.seq > s
      BY <2>2
    <3>2. m # l
      BY <1>1, <1>2, <1>8, <3>1
    <3> QED
      BY <1>1, <3>1, <3>2 DEF Later
  <2> QED
    BY <1>8, <2>1, <2>2 DEF Later
<1>9. NamedRight'
  <2> SUFFICES ASSUME NEW m \in Telling' PROVE Names(m)'
    BY DEF NamedRight
  <2>1. l.seq > gallery.seq => Names(l)
    BY <1>1 DEF NamedRight, Telling
  <2>2. m = Shown' \/ (m \in Telling /\ m.seq >= gallery'.seq)
    <3>1. CASE m = Shown'
      BY <3>1
    <3>2. CASE m \in Frames \cup Stamped /\ m.seq > gallery'.seq
      <4>2. m.seq \in Nat
        BY <3>2, FramesTyped DEF Stamped
      <4>3. m.seq > gallery.seq /\ m.seq >= gallery'.seq
        BY <1>2, <1>3, <3>2, <4>2
      <4> QED
        BY <1>1, <3>2, <4>3 DEF Telling
    <3>3. CASE m \in listings /\ m.step = "answer" /\ m.seq > gallery'.seq
      <4>1. m.seq \in Nat
        BY <3>3 DEF GalleryTypeOK, ListingType
      <4>2. m.seq > gallery.seq /\ m.seq >= gallery'.seq
        BY <1>2, <1>3, <3>3, <4>1
      <4> QED
        BY <1>1, <3>3, <4>2 DEF Telling
    <3>4. Frames' = Frames /\ Stamped' = Stamped
      BY <1>1, ScansStay DEF Frames
    <3> QED
      BY <1>1, <3>1, <3>2, <3>3, <3>4 DEF Telling
  <2> QED
    BY <1>1, <1>2, <1>8, <2>1, <2>2, ShownIsNamed
<1>10. ASSUME NEW f \in Faces PROVE Pictured(f)'
  <2>1. \A b \in Frames : b \in Frames'
    BY <1>1 DEF Frames
  <2> QED
    BY <1>1, <1>2, <2>1, ShownIsPictured
<1> QED
  BY <1>4, <1>5, <1>7, <1>9, <1>10

LEMMA LinkShows ==
    ASSUME GalleryInv, LinkShell \/ UnlinkShell \/ LagShell
    PROVE  GalleryInv'
<1> USE DEF GalleryInv
<1>1. LinkedOnly /\ UNCHANGED gallery
  BY DEF LinkShell, UnlinkShell, LagShell, LinkedOnly
<1>2. Asking \in ListingType /\ Asking.step = "asked" /\ Asking.seq = 0
  BY DEF Asking, ListingType
<1>3. stamped \in Nat /\ 0 <= stamped
  BY DEF GalleryTypeOK
<1>4. Scans' /\ \A f \in Faces : Coming(f)' <=> Coming(f)
  BY <1>1, ScansStay
<1>5. <<>> \in Seq(FrameType) /\ DOMAIN <<>> = {}
  OBVIOUS
<1>6. \A f \in Faces : (\E b \in Frames : f \in b.changed) => f \in MissedIn(bus)
  BY DEF MissedIn, Frames
<1>7. MissedIn(bus) \subseteq Faces
  <2>1. \A i \in DOMAIN bus : bus[i] \in FrameType
    BY DEF GalleryTypeOK
  <2>2. \A i \in DOMAIN bus : bus[i].changed \subseteq Faces
    BY <2>1 DEF FrameType
  <2> QED
    BY <2>2 DEF MissedIn
<1>8. CASE LinkShell
  <2>1. ~linked /\ linked' = TRUE /\ listings' = {Asking} /\ UNCHANGED <<bus, unseen>>
    BY <1>8 DEF LinkShell
  <2>2. bus' = <<>>
    BY <2>1 DEF Begun
  <2>3. GalleryTypeOK'
    BY <1>1, <1>2, <2>1 DEF GalleryTypeOK, LinkedOnly
  <2>4. Ordered' /\ Distinct'
    BY <1>1, <1>2, <1>3, <2>1, <2>2 DEF Ordered, Distinct, Revised, LinkedOnly
  <2>5. Begun'
    BY <1>1, <1>2, <2>1, <2>2 DEF Begun, LinkedOnly
  <2>6. \A seq : Later(seq)'
    BY <1>2, <2>1 DEF Later
  <2>7. NamedRight'
    BY <2>6 DEF NamedRight, Names
  <2>8. \A f \in Faces : Pictured(f)'
    BY <1>1, <1>4, <2>1 DEF Pictured, LinkedOnly, Frames
  <2> QED
    BY <1>4, <2>3, <2>4, <2>5, <2>7, <2>8
<1>9. CASE UnlinkShell
  <2>1. /\ linked' = FALSE /\ bus' = <<>> /\ listings' = {}
        /\ unseen' = unseen \cup MissedIn(bus)
    BY <1>9 DEF UnlinkShell
  <2>2. GalleryTypeOK'
    BY <1>1, <1>5, <1>7, <2>1 DEF GalleryTypeOK, LinkedOnly
  <2>3. Ordered' /\ Distinct'
    BY <1>1, <2>1 DEF Ordered, Distinct, Revised, LinkedOnly
  <2>4. Begun'
    BY <1>1, <2>1 DEF Begun, LinkedOnly
  <2>5. NamedRight'
    BY <2>1 DEF NamedRight, Telling, Frames
  <2>6. \A f \in Faces : Pictured(f)'
    BY <1>1, <1>4, <1>6, <2>1 DEF Pictured, LinkedOnly
  <2> QED
    BY <1>4, <2>2, <2>3, <2>4, <2>5, <2>6
<1>10. CASE LagShell
  <2>1. /\ bus # <<>> /\ linked /\ linked' = linked /\ bus' = <<>>
        /\ listings' = listings \cup {Asking} /\ unseen' = unseen \cup MissedIn(bus)
    BY <1>10 DEF LagShell
  <2>2. GalleryTypeOK'
    BY <1>1, <1>2, <1>5, <1>7, <2>1 DEF GalleryTypeOK, LinkedOnly
  <2>3. Ordered' /\ Distinct'
    BY <1>1, <1>2, <1>3, <2>1 DEF Ordered, Distinct, Revised, LinkedOnly
  <2>4. Begun'
    BY <1>1, <2>1 DEF Begun, LinkedOnly
  <2>5. \A seq : Later(seq)'
    BY <1>2, <2>1 DEF Later
  <2>6. NamedRight'
    BY <2>5 DEF NamedRight, Names
  <2>7. \A f \in Faces : Pictured(f)'
    BY <1>1, <1>4, <1>6, <2>1 DEF Pictured, LinkedOnly
  <2> QED
    BY <1>4, <2>2, <2>3, <2>4, <2>6, <2>7
<1> QED
  BY <1>8, <1>9, <1>10

LEMMA GalleryInvariant == GallerySpec => []GalleryInv
<1>1. GalleryInit => GalleryInv
  BY GalleryStarts
<1>2. GalleryInv /\ [GalleryNext]_galleryVars => GalleryInv'
  <2> SUFFICES ASSUME GalleryInv, [GalleryNext]_galleryVars PROVE GalleryInv'
    OBVIOUS
  <2>1. CASE \E f \in Faces : \E version \in {0, turn + 2} : ChangeFace(f, version)
    BY <2>1, ChangeFaceShows
  <2>2. CASE \E f \in Faces : MarkDirty(f)
    BY <2>2, MarkDirtyShows
  <2>3. CASE ScanChanges
    BY <2>3, ScanChangesShows
  <2>4. CASE \E flush \in flushes : SendChanges(flush)
    BY <2>4, SendChangesShows
  <2>11. CASE \E flush \in flushes : NumberChanges(flush)
    BY <2>11, NumberChangesShows
  <2>12. CASE \E flush \in flushes : StampChanges(flush)
    BY <2>12, StampChangesShows
  <2>5. CASE \E l \in listings : ReadAvatars(l)
    BY <2>5, ReadAvatarsShows
  <2>6. CASE \E l \in listings : StampAvatars(l)
    BY <2>6, StampAvatarsShows
  <2>7. CASE \E l \in listings : TakeList(l)
    BY <2>7, TakeListShows
  <2>8. CASE TakeChanges
    BY <2>8, TakeChangesShows
  <2>9. CASE LinkShell \/ UnlinkShell \/ LagShell
    BY <2>9, LinkShows
  <2>10. CASE UNCHANGED galleryVars
    <3>1. UNCHANGED <<files, turn, unmarked, coalescer, number, flushes, stamped, bus, listings,
                      linked, gallery, unseen>>
      BY <2>10 DEF galleryVars
    <3> QED
      BY <3>1 DEF GalleryInv, GalleryTypeOK, Ordered, Distinct, Revised, Begun, Scans,
                  NamedRight, Telling, Shown, Names, Unstamped, Coming, Later, Pictured,
                  Frames, Stamped
  <2> QED
    BY <2>1, <2>2, <2>3, <2>4, <2>5, <2>6, <2>7, <2>8, <2>9, <2>10, <2>11, <2>12
       DEF GalleryNext
<1> QED
  BY <1>1, <1>2, PTL DEF GallerySpec

\* Once nothing is under way the shell shows the pictures on disk, but for the
\* contacts whose announcement was lost for good (AvatarCoalescer, list_avatars,
\* acceptFrame), for any contacts, changes and interruptions.
THEOREM GalleryCurrent == GallerySpec => []GalleryIsCurrent
<1>1. GalleryInv => GalleryIsCurrent
  <2> SUFFICES ASSUME GalleryInv, linked, unmarked = {}, ~coalescer.due, flushes = {}, bus = <<>>,
                      listings = {}, NEW f \in Faces \ unseen
               PROVE  files[f] = IF f \in gallery.has THEN gallery.loaded[f] ELSE 0
    BY DEF GalleryIsCurrent
  <2> USE DEF GalleryInv
  <2>1. coalescer.seeded
    BY DEF Begun
  <2>2. coalescer.known[f] = files[f]
    BY <2>1 DEF Scans
  <2>3. ~Coming(f) /\ ~Unstamped(f) /\ ~Later(gallery.seq) /\ Frames = {}
    BY DEF Coming, Unstamped, Later, Frames, Stamped
  <2>4. f \in gallery.has <=> files[f] # 0
    <3>1. Names(Shown)
      BY DEF NamedRight, Telling
    <3>2. Shown.has = gallery.has /\ Shown.wrong = unseen /\ Shown.seq = gallery.seq
      BY DEF Shown
    <3>3. ~Later(Shown.seq)
      BY <2>3, <3>2
    <3> QED
      BY <2>2, <2>3, <3>1, <3>2, <3>3 DEF Names
  <2>5. f \in gallery.has => gallery.loaded[f] = files[f]
    BY <2>2, <2>3, <2>4 DEF Pictured
  <2>6. files[f] \in Nat
    BY DEF GalleryTypeOK
  <2> QED
    BY <2>4, <2>5, <2>6
<1> QED
  BY <1>1, GalleryInvariant, PTL

-----------------------------------------------------------------------------
(* The attachment in the shell's composer (Service.qml, paste.rs, commands.rs) *)

ContentType ==
    [as : {"nothing", "error", "image", "document"}, bytes : Bytes, plain : BOOLEAN]

\* What may be staged, or left out of the composer.
GoodContent(c) ==
    /\ c \in ContentType
    /\ c.as \in {"image", "document"} => Sendable(c) \/ ~c.plain

AttachTypeOK ==
    /\ offered \in Offers
    /\ asked \in 0..Requests /\ pasting \in 0..asked /\ posting \in 0..asked
    /\ staged \in [id : 0..asked, content : ContentType]
    /\ answers \in SUBSET [id : 1..asked, event : {"staged", "sent", "error"}, content : ContentType]
    /\ posts \in [1..Requests ->
                     [of : 0..asked,
                      step : {"none", "refused", "daemon", "posted", "told", "posted_failed",
                              "failed"}]]
    /\ replaced \in SUBSET (1..asked)

\* The request under way carries what is staged, or another attachment came since.
AttachAgrees ==
    /\ staged # NoStaged =>
          /\ staged.content.as \in {"image", "document"} /\ GoodContent(staged.content)
          /\ posting # 0 => posts[posting].of = staged.id \/ staged.id \in replaced
    /\ \A a \in answers :
          /\ a.event = "staged" => GoodContent(a.content)
          /\ a.event = "sent" => posts[a.id].step = "told"

AttachInv == AttachTypeOK /\ AttachAgrees

LEMMA NothingIsContent ==
    /\ NoBytes \in Bytes
    /\ Nothing \in ContentType /\ Refused \in ContentType
    /\ GoodContent(Nothing) /\ GoodContent(Refused)
<1>1. NoBytes \in Bytes
  BY DEF NoBytes, Bytes
<1>2. /\ Nothing \in ContentType /\ Refused \in ContentType
      /\ Nothing.as = "nothing" /\ Refused.as = "error"
  BY <1>1 DEF Nothing, Refused, ContentType
<1> QED
  BY <1>1, <1>2 DEF GoodContent

LEMMA ImagesAreGood ==
    ASSUME NEW b \in Bytes, IsPicture(b)
    PROVE  GoodContent(Image(b))
<1>1. PICK c : c = [as |-> "image", bytes |-> b, plain |-> TRUE]
  OBVIOUS
<1>2. c \in ContentType /\ c.as = "image" /\ c.bytes = b
  BY <1>1 DEF ContentType
<1>3. Sendable(c)
  BY <1>2 DEF Sendable
<1> QED
  BY <1>1, <1>2, <1>3 DEF GoodContent, Image

LEMMA DocumentsAreGood ==
    ASSUME NEW b \in Bytes, b.size \in {1, 2}, NEW plain \in BOOLEAN
    PROVE  GoodContent(Document(b, plain))
<1>1. PICK c : c = [as |-> "document", bytes |-> b, plain |-> plain]
  OBVIOUS
<1>2. c \in ContentType /\ c.as = "document" /\ c.bytes = b /\ c.plain = plain
  BY <1>1 DEF ContentType
<1>3. Sendable(c) \/ ~c.plain
  BY <1>2 DEF Sendable
<1> QED
  BY <1>1, <1>2, <1>3 DEF GoodContent, Document

LEMMA StagedAsIsGood ==
    ASSUME NEW b \in Bytes, b.size \in {1, 2}, NEW plain \in BOOLEAN,
           NEW content \in StagedAs(b, plain)
    PROVE  GoodContent(content)
<1>1. PICK c \in Converted(b) :
          content = IF IsPicture(c) THEN Image(c) ELSE Document(c, plain)
  BY DEF StagedAs
<1>2. c \in Bytes /\ c.size \in {1, 2}
  <2>1. CASE c = b
    BY <2>1
  <2>2. CASE c # b
    <3>1. c \in [is : {"jpeg"}, size : {1, 2}, framed : BOOLEAN]
      BY <1>1, <2>2 DEF Converted
    <3> QED
      BY <3>1 DEF Bytes
  <2> QED
    BY <2>1, <2>2
<1> QED
  BY <1>1, <1>2, ImagesAreGood, DocumentsAreGood

LEMMA StagedFileIsGood ==
    ASSUME NEW b \in Bytes, NEW plain \in BOOLEAN, NEW content \in StagedFile(b, plain)
    PROVE  GoodContent(content)
<1>1. CASE b.size \in {1, 2}
  BY <1>1, StagedAsIsGood DEF StagedFile
<1>2. CASE b.size \notin {1, 2}
  BY <1>2, NothingIsContent DEF StagedFile
<1> QED
  BY <1>1, <1>2

LEMMA PastedIsGood ==
    ASSUME NEW o \in Offers, NEW read \in BOOLEAN, NEW content \in Pasted(o, read)
    PROVE  GoodContent(content)
<1>1. o.bytes \in Bytes /\ o.plain \in BOOLEAN
  BY DEF Offers
<1>2. CASE o.type = "text" \/ ~read
  BY <1>2, NothingIsContent DEF Pasted
<1>3. CASE ~(o.type = "text" \/ ~read) /\ o.type = "file"
  <2>1. content \in StagedFile(o.bytes, o.plain)
    BY <1>3 DEF Pasted
  <2> QED
    BY <1>1, <2>1, StagedFileIsGood
<1>4. CASE ~(o.type = "text" \/ ~read) /\ o.type # "file" /\ (o.bytes.is # o.type \/ o.bytes.size # 1)
  BY <1>4, NothingIsContent DEF Pasted
<1>5. CASE /\ ~(o.type = "text" \/ ~read) /\ o.type # "file"
           /\ ~(o.bytes.is # o.type \/ o.bytes.size # 1) /\ o.type \in {"heif", "gif"}
  <2>1. content \in StagedAs(o.bytes, TRUE) /\ o.bytes.size \in {1, 2}
    BY <1>5 DEF Pasted
  <2> QED
    BY <1>1, <2>1, StagedAsIsGood
<1>6. CASE /\ ~(o.type = "text" \/ ~read) /\ o.type # "file"
           /\ ~(o.bytes.is # o.type \/ o.bytes.size # 1) /\ o.type \notin {"heif", "gif"}
  <2>1. content = IF IsPicture(o.bytes) THEN Image(o.bytes) ELSE Refused
    BY <1>6 DEF Pasted
  <2> QED
    BY <1>1, <2>1, ImagesAreGood, NothingIsContent
<1> QED
  BY <1>2, <1>3, <1>4, <1>5, <1>6

LEMMA AttachStarts == AttachInit => AttachInv
<1> SUFFICES ASSUME AttachInit PROVE AttachInv
  OBVIOUS
<1>1. Requests \in Nat
  BY RequestsAssumption
<1>2. NoStaged \in [id : 0..0, content : ContentType]
  BY NothingIsContent DEF NoStaged
<1>3. NoSend \in [of : 0..0,
                  step : {"none", "refused", "daemon", "posted", "told", "posted_failed", "failed"}]
  BY DEF NoSend
<1>4. AttachTypeOK
  BY <1>1, <1>2, <1>3 DEF AttachInit, AttachTypeOK
<1>5. AttachAgrees
  BY DEF AttachInit, AttachAgrees
<1> QED
  BY <1>4, <1>5 DEF AttachInv

LEMMA AskedTypes ==
    ASSUME AttachTypeOK, Asks
    PROVE  /\ asked \in Nat /\ asked' = asked + 1 /\ asked' \in 1..Requests /\ asked' \notin 0..asked
           /\ 0..asked \subseteq 0..asked' /\ 1..asked \subseteq 1..asked'
  BY RequestsAssumption DEF AttachTypeOK, Asks

LEMMA RequestPasteAgrees ==
    ASSUME AttachInv, RequestPaste
    PROVE  AttachInv'
<1> USE DEF AttachInv
<1>1. PICK n : n = asked + 1
  OBVIOUS
<1>2. PICK content :
          /\ answers' = answers \cup {[id |-> n, event |-> "staged", content |-> content]}
          /\ GoodContent(content)
  <2>1. PICK read \in BOOLEAN, drop \in BOOLEAN :
           \E content \in IF drop /\ offered.type = "file"
                          THEN StagedFile(offered.bytes, offered.plain)
                          ELSE Pasted(offered, read) :
              answers' = answers \cup {[id |-> n, event |-> "staged", content |-> content]}
    BY <1>1 DEF RequestPaste, Asks
  <2>2. PICK content \in IF drop /\ offered.type = "file"
                         THEN StagedFile(offered.bytes, offered.plain)
                         ELSE Pasted(offered, read) :
              answers' = answers \cup {[id |-> n, event |-> "staged", content |-> content]}
    BY <2>1
  <2>3. offered \in Offers /\ offered.bytes \in Bytes /\ offered.plain \in BOOLEAN
    BY DEF AttachTypeOK, Offers
  <2>4. GoodContent(content)
    BY <2>2, <2>3, StagedFileIsGood, PastedIsGood
  <2> QED
    BY <2>2, <2>4
<1>3. PICK a : a = [id |-> n, event |-> "staged", content |-> content]
  OBVIOUS
<1>4. /\ asked' = n /\ pasting' = n /\ n \in 1..Requests
      /\ 0..asked \subseteq 0..n /\ 1..asked \subseteq 1..n /\ n \in 0..n /\ n \in 1..n
      /\ UNCHANGED <<offered, staged, posting, posts, replaced>>
  <2>1. /\ asked \in Nat /\ asked' = n /\ n \in 1..Requests
        /\ 0..asked \subseteq 0..n /\ 1..asked \subseteq 1..n
    BY <1>1, AskedTypes DEF RequestPaste
  <2> QED
    BY <2>1 DEF RequestPaste
<1>5. a \in [id : 1..n, event : {"staged", "sent", "error"}, content : ContentType]
      /\ a.event = "staged" /\ a.content = content
  BY <1>2, <1>3, <1>4 DEF GoodContent
<1>6. answers' = answers \cup {a}
  BY <1>2, <1>3
<1>7. AttachTypeOK'
  <2>1. answers' \in SUBSET [id : 1..n, event : {"staged", "sent", "error"}, content : ContentType]
    BY <1>4, <1>5, <1>6 DEF AttachTypeOK
  <2>2. staged' \in [id : 0..n, content : ContentType]
    BY <1>4 DEF AttachTypeOK
  <2>3. posts' \in [1..Requests ->
                     [of : 0..n,
                      step : {"none", "refused", "daemon", "posted", "told", "posted_failed",
                              "failed"}]]
    BY <1>4 DEF AttachTypeOK
  <2>4. n \in 0..Requests /\ posting' \in 0..n /\ replaced' \in SUBSET (1..n) /\ offered' \in Offers
    BY <1>4 DEF AttachTypeOK
  <2> QED
    BY <1>4, <2>1, <2>2, <2>3, <2>4 DEF AttachTypeOK
<1>8. AttachAgrees'
  BY <1>2, <1>4, <1>5, <1>6 DEF AttachAgrees
<1> QED
  BY <1>7, <1>8

(* Answers are taken away; the requests are forgotten or answered. *)
LEMMA TakesAnswersAgrees ==
    ASSUME AttachInv, UNCHANGED <<offered, asked, posts, replaced>>, answers' \subseteq answers,
           pasting' \in {0, pasting}, posting' \in {0, posting}, staged' \in {NoStaged, staged}
    PROVE  AttachInv'
<1> USE DEF AttachInv
<1>1. asked \in Nat
  BY RequestsAssumption DEF AttachTypeOK
<1>2. NoStaged \in [id : 0..asked, content : ContentType]
  BY <1>1, NothingIsContent DEF NoStaged
<1>3. pasting' \in 0..asked /\ posting' \in 0..asked
  BY <1>1 DEF AttachTypeOK
<1>4. AttachTypeOK'
  BY <1>2, <1>3 DEF AttachTypeOK
<1>5. AttachAgrees'
  BY DEF AttachAgrees
<1> QED
  BY <1>4, <1>5

LEMMA QuietAgrees ==
    ASSUME AttachInv,
           \/ ClearStaged \/ ExpireRequest \/ ResetRequests
           \/ \E a \in answers : FinishSendRequest(a)
    PROVE  AttachInv'
<1>1. /\ UNCHANGED <<offered, asked, posts, replaced>> /\ answers' \subseteq answers
      /\ pasting' \in {0, pasting} /\ posting' \in {0, posting} /\ staged' \in {NoStaged, staged}
  BY DEF ClearStaged, ExpireRequest, ResetRequests, FinishSendRequest
<1> QED
  BY <1>1, TakesAnswersAgrees

LEMMA FinishPasteAgrees ==
    ASSUME AttachInv, NEW a \in answers, FinishPaste(a)
    PROVE  AttachInv'
<1> USE DEF AttachInv
<1>1. /\ a.event = "staged" /\ answers' = answers \ {a}
      /\ UNCHANGED <<offered, posting, asked, posts>>
  BY DEF FinishPaste
<1>2. CASE a.id # pasting
  <2>1. /\ pasting' \in {0, pasting} /\ staged' = staged /\ replaced' = replaced
    BY <1>2 DEF FinishPaste
  <2> QED
    BY <1>1, <2>1, TakesAnswersAgrees
<1>3. a \in [id : 1..asked, event : {"staged", "sent", "error"}, content : ContentType]
      /\ a.id \in 1..asked /\ a.content \in ContentType /\ GoodContent(a.content)
      /\ asked \in Nat
  BY <1>1, RequestsAssumption DEF AttachTypeOK, AttachAgrees
<1>4. CASE a.id = pasting
  <2>1. PICK new : new = [id |-> a.id, content |-> a.content]
    OBVIOUS
  <2>2. /\ pasting' = 0
        /\ staged' = IF a.content.as \in {"image", "document"} THEN new ELSE staged
        /\ replaced' = IF posting # 0 THEN replaced \cup {a.id} ELSE replaced
    BY <1>4, <2>1 DEF FinishPaste
  <2>3. new \in [id : 0..asked, content : ContentType] /\ new.id = a.id /\ new.content = a.content
    BY <1>3, <2>1
  <2>4. AttachTypeOK'
    <3>1. staged' \in [id : 0..asked, content : ContentType]
      BY <2>2, <2>3 DEF AttachTypeOK
    <3>2. replaced' \in SUBSET (1..asked)
      <4>1. replaced \in SUBSET (1..asked)
        BY DEF AttachTypeOK
      <4> QED
        BY <4>1, <1>3, <2>2
    <3>3. pasting' \in 0..asked
      BY <1>3, <2>2
    <3> QED
      BY <1>1, <3>1, <3>2, <3>3 DEF AttachTypeOK
  <2>5. AttachAgrees'
    <3>1. replaced \subseteq replaced' /\ (posting # 0 => a.id \in replaced')
      BY <2>2
    <3>2. CASE a.content.as \in {"image", "document"}
      BY <1>1, <1>3, <2>2, <2>3, <3>1, <3>2 DEF AttachAgrees
    <3>3. CASE a.content.as \notin {"image", "document"}
      BY <1>1, <2>2, <3>1, <3>3 DEF AttachAgrees
    <3> QED
      BY <3>2, <3>3
  <2> QED
    BY <2>4, <2>5
<1> QED
  BY <1>2, <1>4

LEMMA SendStagedAgrees ==
    ASSUME AttachInv, SendStaged
    PROVE  AttachInv'
<1> USE DEF AttachInv
<1>1. PICK n : n = asked + 1
  OBVIOUS
<1>2. PICK p : p = [of |-> staged.id,
                    step |-> IF Sendable(staged.content) THEN "daemon" ELSE "refused"]
  OBVIOUS
<1>3. /\ asked' = n /\ posting' = n /\ n \in 1..Requests /\ n \notin 0..asked
      /\ 0..asked \subseteq 0..n /\ 1..asked \subseteq 1..n /\ n \in 0..n /\ n # 0
      /\ UNCHANGED <<offered, staged, pasting, answers, replaced>>
  <2>1. /\ asked \in Nat /\ asked' = n /\ n \in 1..Requests /\ n \notin 0..asked
        /\ 0..asked \subseteq 0..n /\ 1..asked \subseteq 1..n
    BY <1>1, AskedTypes DEF SendStaged
  <2> QED
    BY <2>1 DEF SendStaged
<1>4. posts' = [posts EXCEPT ![n] = p]
  BY <1>1, <1>2 DEF SendStaged, Asks
<1>5. p \in [of : 0..n, step : {"none", "refused", "daemon", "posted", "told", "posted_failed",
                                "failed"}]
      /\ p.of = staged.id
  BY <1>2, <1>3 DEF AttachTypeOK
<1>6. posts' \in [1..Requests ->
                     [of : 0..n,
                      step : {"none", "refused", "daemon", "posted", "told", "posted_failed",
                              "failed"}]]
      /\ posts'[n] = p /\ \A r \in 1..asked : posts'[r] = posts[r]
  <2>1. posts \in [1..Requests ->
                     [of : 0..n,
                      step : {"none", "refused", "daemon", "posted", "told", "posted_failed",
                              "failed"}]]
    BY <1>3 DEF AttachTypeOK
  <2>2. \A r \in 1..asked : r \in 1..Requests /\ r # n
    BY <1>3, RequestsAssumption DEF AttachTypeOK
  <2> QED
    BY <1>3, <1>4, <1>5, <2>1, <2>2
<1>7. AttachTypeOK'
  <2>1. answers' \in SUBSET [id : 1..n, event : {"staged", "sent", "error"}, content : ContentType]
    BY <1>3 DEF AttachTypeOK
  <2>2. staged' \in [id : 0..n, content : ContentType]
    BY <1>3 DEF AttachTypeOK
  <2>3. n \in 0..Requests /\ pasting' \in 0..n /\ replaced' \in SUBSET (1..n) /\ offered' \in Offers
    BY <1>3 DEF AttachTypeOK
  <2> QED
    BY <1>3, <1>6, <2>1, <2>2, <2>3 DEF AttachTypeOK
<1>8. AttachAgrees'
  <2>1. \A a \in answers : a.id \in 1..asked
    BY DEF AttachTypeOK
  <2> QED
    BY <1>3, <1>5, <1>6, <2>1 DEF AttachAgrees
<1> QED
  BY <1>7, <1>8

LEMMA DaemonAgrees ==
    ASSUME AttachInv, NEW r \in 1..asked, PostImage(r) \/ AnswerSent(r) \/ AnswerError(r)
    PROVE  AttachInv'
<1> USE DEF AttachInv
<1>1. /\ UNCHANGED <<offered, staged, pasting, posting, asked, replaced>>
      /\ posts[r].step \in {"refused", "daemon", "posted"}
  BY DEF PostImage, AnswerSent, AnswerError
<1>2. asked \in Nat /\ r \in 1..Requests
  BY RequestsAssumption DEF AttachTypeOK
<1>3. PICK step \in {"posted", "told", "posted_failed", "failed"} :
          /\ posts' = [posts EXCEPT ![r].step = step]
          /\ \/ answers' = answers
             \/ /\ answers' = answers \cup {[id |-> r, event |-> "sent", content |-> Nothing]}
                /\ step = "told"
             \/ answers' = answers \cup {[id |-> r, event |-> "error", content |-> Nothing]}
  <2>1. CASE PostImage(r)
    BY <2>1 DEF PostImage
  <2>2. CASE AnswerSent(r)
    BY <2>2 DEF AnswerSent, Answer
  <2>3. CASE AnswerError(r)
    <3>1. PICK step : step = IF posts[r].step = "posted" THEN "posted_failed" ELSE "failed"
      OBVIOUS
    <3>2. posts' = [posts EXCEPT ![r].step = step]
      BY <2>3, <3>1 DEF AnswerError
    <3> QED
      BY <2>3, <3>1, <3>2 DEF AnswerError, Answer
  <2> QED
    BY <2>1, <2>2, <2>3
<1>4. /\ posts' \in [1..Requests ->
                        [of : 0..asked,
                         step : {"none", "refused", "daemon", "posted", "told", "posted_failed",
                                 "failed"}]]
      /\ posts'[r].step = step
      /\ \A q \in 1..Requests : posts'[q].of = posts[q].of /\ (q # r => posts'[q] = posts[q])
  BY <1>2, <1>3 DEF AttachTypeOK
<1>5. answers' \in SUBSET [id : 1..asked, event : {"staged", "sent", "error"}, content : ContentType]
  BY <1>3, NothingIsContent DEF AttachTypeOK
<1>6. AttachTypeOK'
  BY <1>1, <1>4, <1>5 DEF AttachTypeOK
<1>7. ASSUME NEW a \in answers'
      PROVE  /\ a.event = "staged" => GoodContent(a.content)
             /\ a.event = "sent" => posts'[a.id].step = "told"
  <2>1. CASE a \in answers
    <3>1. a.id \in 1..Requests
      BY <1>2, <2>1, RequestsAssumption DEF AttachTypeOK
    <3>2. a.event = "sent" => a.id # r
      BY <1>1, <2>1 DEF AttachAgrees
    <3> QED
      BY <1>4, <2>1, <3>1, <3>2 DEF AttachAgrees
  <2>2. CASE a \notin answers
    BY <1>3, <1>4, <2>2
  <2> QED
    BY <2>1, <2>2
<1>8. AttachAgrees'
  <2>1. posting # 0 => posting \in 1..Requests
    BY <1>2, RequestsAssumption DEF AttachTypeOK
  <2> QED
    BY <1>1, <1>4, <1>7, <2>1 DEF AttachAgrees
<1> QED
  BY <1>6, <1>8

LEMMA AttachInvariant == AttachSpec => []AttachInv
<1>1. AttachInit => AttachInv
  BY AttachStarts
<1>2. AttachInv /\ [AttachNext]_attachVars => AttachInv'
  <2> SUFFICES ASSUME AttachInv, [AttachNext]_attachVars PROVE AttachInv'
    OBVIOUS
  <2>1. CASE RequestPaste
    BY <2>1, RequestPasteAgrees
  <2>2. CASE SendStaged
    BY <2>2, SendStagedAgrees
  <2>3. CASE \/ ClearStaged \/ ExpireRequest \/ ResetRequests
             \/ \E a \in answers : FinishSendRequest(a)
    BY <2>3, QuietAgrees
  <2>4. CASE \E a \in answers : FinishPaste(a)
    BY <2>4, FinishPasteAgrees
  <2>5. CASE \E r \in 1..asked : PostImage(r) \/ AnswerSent(r) \/ AnswerError(r)
    BY <2>5, DaemonAgrees
  <2>6. CASE UNCHANGED attachVars
    BY <2>6, TakesAnswersAgrees DEF attachVars
  <2> QED
    BY <2>1, <2>2, <2>3, <2>4, <2>5, <2>6 DEF AttachNext
<1> QED
  BY <1>1, <1>2, PTL DEF AttachSpec

(* An answer that empties the composer is that of the request that carries it. *)
LEMMA AnswerEmpties ==
    ASSUME AttachInv, AttachNext, staged # NoStaged, staged' = NoStaged, answers' # answers
    PROVE  Posts(staged.id) # {} \/ staged.id \in replaced
<1> USE DEF AttachInv
<1>1. PICK a \in answers : FinishSendRequest(a)
  <2>1. ~RequestPaste /\ ~SendStaged /\ ~ClearStaged /\ ~ExpireRequest /\ ~ResetRequests
    BY DEF RequestPaste, SendStaged, ClearStaged, ExpireRequest, ResetRequests
  <2>2. ASSUME NEW a \in answers PROVE ~FinishPaste(a)
    <3> SUFFICES ASSUME FinishPaste(a) PROVE FALSE
      OBVIOUS
    <3>1. staged' \in {staged, [id |-> a.id, content |-> a.content]}
      BY DEF FinishPaste
    <3>2. a.id \in 1..asked /\ asked \in Nat
      BY RequestsAssumption DEF AttachTypeOK
    <3>3. NoStaged.id = 0
      BY DEF NoStaged
    <3> QED
      BY <3>1, <3>2, <3>3
  <2>3. ASSUME NEW r \in 1..asked PROVE ~(PostImage(r) \/ AnswerSent(r) \/ AnswerError(r))
    BY DEF PostImage, AnswerSent, AnswerError
  <2> QED
    BY <2>1, <2>2, <2>3 DEF AttachNext
<1>2. a.id = posting /\ a.event = "sent"
  BY <1>1 DEF FinishSendRequest, Clears
<1>3. a.id \in 1..asked /\ asked \in Nat
  BY RequestsAssumption DEF AttachTypeOK
<1>4. posts[a.id].step = "told" /\ (posts[a.id].of = staged.id \/ staged.id \in replaced)
  BY <1>2, <1>3 DEF AttachAgrees
<1> QED
  BY <1>3, <1>4 DEF Posts

\* What the daemon staged as an image or a document passes the checks of
\* send_image as the same, and an answer empties the composer only after WhatsApp
\* took the attachment or another one came (stage_bytes, send_image,
\* finishImageSendRequest), for any number of requests.
THEOREM AttachmentsAccounted == AttachSpec => AttachmentsAreAccounted
<1>1. AttachInv => StagedIsSendable
  BY DEF AttachInv, AttachAgrees, GoodContent, StagedIsSendable
<1>2. AttachInv /\ [AttachNext]_attachVars =>
         [staged # NoStaged /\ staged' = NoStaged /\ answers' # answers =>
             Posts(staged.id) # {} \/ staged.id \in replaced]_attachVars
  BY AnswerEmpties
<1>3. AttachSpec => []AttachInv
  BY AttachInvariant
<1>4. AttachSpec => []StagedIsSendable
  BY <1>1, <1>3, PTL
<1>5. AttachSpec => LeavesForAReason
  BY <1>2, <1>3, PTL DEF AttachSpec, LeavesForAReason
<1> QED
  BY <1>4, <1>5 DEF AttachmentsAreAccounted

-----------------------------------------------------------------------------
(* ConversationPage (database.rs, commands.rs, Service.qml) *)

\* R orders the members of S strictly and totally.
OrdersAll(R, S) ==
    /\ \A i \in S : <<i, i>> \notin R
    /\ \A i, j, k \in S : <<i, j>> \in R /\ <<j, k>> \in R => <<i, k>> \in R
    /\ \A i, j \in S : i = j \/ <<i, j>> \in R \/ <<j, i>> \in R

\* The members of S before i, and the place this gives each member.
Under(R, S, i) == {j \in S : <<j, i>> \in R}
Ranks(R, S) == [i \in S |-> Cardinality(Under(R, S, i))]

LEMMA RanksGrow ==
    ASSUME NEW S, IsFiniteSet(S), NEW R, OrdersAll(R, S), NEW i \in S, NEW j \in S,
           <<i, j>> \in R
    PROVE  Ranks(R, S)[i] < Ranks(R, S)[j]
<1>1. Under(R, S, i) \subseteq Under(R, S, j)
  BY DEF OrdersAll, Under
<1>2. i \in Under(R, S, j) /\ i \notin Under(R, S, i)
  BY DEF OrdersAll, Under
<1>3. IsFiniteSet(Under(R, S, j))
  BY FS_Subset DEF Under
<1>4. /\ Cardinality(Under(R, S, i)) <= Cardinality(Under(R, S, j))
      /\ Cardinality(Under(R, S, i)) # Cardinality(Under(R, S, j))
  BY <1>1, <1>2, <1>3, FS_Subset
<1>5. Cardinality(Under(R, S, i)) \in Nat /\ Cardinality(Under(R, S, j)) \in Nat
  BY <1>1, <1>3, FS_Subset, FS_CardinalityType
<1> QED
  BY <1>4, <1>5 DEF Ranks

LEMMA RanksFill ==
    ASSUME NEW S, IsFiniteSet(S), NEW R, OrdersAll(R, S)
    PROVE  /\ Cardinality(S) \in Nat
           /\ Ranks(R, S) \in [S -> 0..(Cardinality(S) - 1)]
           /\ \A i, j \in S : Ranks(R, S)[i] = Ranks(R, S)[j] => i = j
           /\ \A k \in 0..(Cardinality(S) - 1) : \E i \in S : Ranks(R, S)[i] = k
<1>1. Cardinality(S) \in Nat
  BY FS_CardinalityType
<1> DEFINE P == Ranks(R, S)
           T == 0..(Cardinality(S) - 1)
<1>2. \A i \in S : Cardinality(Under(R, S, i)) \in T
  <2> SUFFICES ASSUME NEW i \in S PROVE Cardinality(Under(R, S, i)) \in T
    OBVIOUS
  <2>1. Under(R, S, i) \subseteq S /\ Under(R, S, i) # S
    BY DEF Under, OrdersAll
  <2>2. /\ IsFiniteSet(Under(R, S, i))
        /\ Cardinality(Under(R, S, i)) <= Cardinality(S)
        /\ Cardinality(Under(R, S, i)) # Cardinality(S)
    BY <2>1, FS_Subset
  <2>3. Cardinality(Under(R, S, i)) \in Nat
    BY <2>2, FS_CardinalityType
  <2> QED
    BY <1>1, <2>2, <2>3
<1>3. P \in [S -> T]
  BY <1>2 DEF Ranks
<1>4. \A i, j \in S : P[i] = P[j] => i = j
  <2> SUFFICES ASSUME NEW i \in S, NEW j \in S, P[i] = P[j], i # j PROVE FALSE
    OBVIOUS
  <2>1. <<i, j>> \in R \/ <<j, i>> \in R
    BY DEF OrdersAll
  <2>2. P[i] < P[j] \/ P[j] < P[i]
    BY <2>1, RanksGrow
  <2>3. P[i] \in Nat /\ P[j] \in Nat
    BY <1>1, <1>3
  <2> QED
    BY <2>2, <2>3
<1>5. IsFiniteSet(T) /\ Cardinality(T) = Cardinality(S)
  <2>1. Cardinality(S) - 1 \in Int
    BY <1>1
  <2>2. /\ IsFiniteSet(T)
        /\ Cardinality(T) = IF 0 > Cardinality(S) - 1 THEN 0 ELSE Cardinality(S) - 1 - 0 + 1
    BY <2>1, FS_Interval
  <2> QED
    BY <1>1, <2>2
<1>6. P \in Injection(S, T)
  BY <1>3, <1>4 DEF Injection, IsInjective
<1>7. P \in Surjection(S, T)
  BY <1>5, <1>6, FS_Injection
<1>8. \A k \in T : \E i \in S : P[i] = k
  BY <1>7 DEF Surjection
<1> QED
  BY <1>1, <1>3, <1>4, <1>8

\* The first of the members of a set.
LEMMA FirstOf ==
    ASSUME NEW S, IsFiniteSet(S), S # {}, NEW R, OrdersAll(R, S)
    PROVE  \E i \in S : \A j \in S \ {i} : <<i, j>> \in R
<1>1. Cardinality(S) # 0 /\ Cardinality(S) \in Nat
  BY FS_EmptySet, FS_CardinalityType
<1>2. 0 \in 0..(Cardinality(S) - 1)
  BY <1>1
<1>3. PICK i \in S : Ranks(R, S)[i] = 0
  BY <1>2, RanksFill
<1>4. \A j \in S \ {i} : <<i, j>> \in R
  <2> SUFFICES ASSUME NEW j \in S \ {i}, <<j, i>> \in R PROVE FALSE
    BY DEF OrdersAll
  <2>1. Ranks(R, S)[j] < Ranks(R, S)[i]
    BY RanksGrow
  <2>2. Ranks(R, S)[j] \in 0..(Cardinality(S) - 1)
    BY RanksFill
  <2> QED
    BY <1>1, <1>3, <2>1, <2>2
<1> QED
  BY <1>4

RowType == [id : Nat, at : Nat, unread : BOOLEAN]

\* The order of the rows, and its converse.
Order == {p \in RowNumbers \X RowNumbers : Precedes(p[1], p[2])}
Back == {p \in RowNumbers \X RowNumbers : Precedes(p[2], p[1])}

LEMMA RowsAreOrdered ==
    ASSUME messages \in Seq(RowType)
    PROVE  /\ IsFiniteSet(RowNumbers) /\ RowNumbers = 1..Len(messages) /\ Len(messages) \in Nat
           /\ \A i, j \in RowNumbers :
                 /\ <<i, j>> \in Order <=> Precedes(i, j)
                 /\ <<i, j>> \in Back <=> Precedes(j, i)
           /\ \A S \in SUBSET RowNumbers :
                 IsFiniteSet(S) /\ OrdersAll(Order, S) /\ OrdersAll(Back, S)
<1>1. RowNumbers = 1..Len(messages) /\ Len(messages) \in Nat
  BY DEF RowNumbers
<1>2. IsFiniteSet(RowNumbers)
  BY <1>1, FS_Interval
<1>3. \A i, j \in RowNumbers :
         /\ <<i, j>> \in Order <=> Precedes(i, j)
         /\ <<i, j>> \in Back <=> Precedes(j, i)
  BY DEF Order, Back
<1>4. \A i \in RowNumbers : messages[i].at \in Nat /\ i \in Nat
  <2> SUFFICES ASSUME NEW i \in RowNumbers PROVE messages[i].at \in Nat /\ i \in Nat
    OBVIOUS
  <2>1. i \in Nat /\ messages[i] \in RowType
    BY <1>1
  <2> QED
    BY <2>1 DEF RowType
<1>5. \A i, j, k \in RowNumbers :
         /\ ~Precedes(i, i)
         /\ Precedes(i, j) /\ Precedes(j, k) => Precedes(i, k)
         /\ i = j \/ Precedes(i, j) \/ Precedes(j, i)
  BY <1>4 DEF Precedes
<1>6. \A S \in SUBSET RowNumbers :
         IsFiniteSet(S) /\ OrdersAll(Order, S) /\ OrdersAll(Back, S)
  <2> SUFFICES ASSUME NEW S \in SUBSET RowNumbers
               PROVE  IsFiniteSet(S) /\ OrdersAll(Order, S) /\ OrdersAll(Back, S)
    OBVIOUS
  <2>1. IsFiniteSet(S)
    BY <1>2, FS_Subset
  <2>2. OrdersAll(Order, S)
    BY <1>3, <1>5 DEF OrdersAll
  <2>3. OrdersAll(Back, S)
    BY <1>3, <1>5 DEF OrdersAll
  <2> QED
    BY <2>1, <2>2, <2>3
<1> QED
  BY <1>1, <1>2, <1>3, <1>6

LEMMA LeastRow ==
    ASSUME messages \in Seq(RowType), NEW S \in SUBSET RowNumbers, S # {}
    PROVE  /\ \E i \in S : \A j \in S \ {i} : Precedes(i, j)
           /\ \E i \in S : \A j \in S \ {i} : Precedes(j, i)
<1>1. /\ IsFiniteSet(S) /\ OrdersAll(Order, S) /\ OrdersAll(Back, S)
      /\ \A i, j \in S : /\ <<i, j>> \in Order <=> Precedes(i, j)
                         /\ <<i, j>> \in Back <=> Precedes(j, i)
  BY RowsAreOrdered
<1>2. \E i \in S : \A j \in S \ {i} : <<i, j>> \in Order
  BY <1>1, FirstOf
<1>3. \E i \in S : \A j \in S \ {i} : <<i, j>> \in Back
  BY <1>1, FirstOf
<1> QED
  BY <1>1, <1>2, <1>3

LEMMA AscendingLists ==
    ASSUME messages \in Seq(RowType), NEW S \in SUBSET RowNumbers
    PROVE  /\ Cardinality(S) \in Nat
           /\ Ascending(S) \in Seq(Nat) /\ Len(Ascending(S)) = Cardinality(S)
           /\ \E p \in [1..Cardinality(S) -> S] :
                 /\ \A k \in 1..Cardinality(S) : Ascending(S)[k] = messages[p[k]].id
                 /\ \A k, l \in 1..Cardinality(S) : k < l => Precedes(p[k], p[l])
                 /\ \A i \in S : \E k \in 1..Cardinality(S) : p[k] = i
<1> DEFINE c == Cardinality(S)
           P == Ranks(Order, S)
           At(k) == CHOOSE i \in S : Cardinality({j \in S : Precedes(j, i)}) = k - 1
           p == [k \in 1..c |-> At(k)]
<1>1. /\ IsFiniteSet(S) /\ OrdersAll(Order, S)
      /\ \A i, j \in S : <<i, j>> \in Order <=> Precedes(i, j)
  BY RowsAreOrdered
<1>2. /\ c \in Nat
      /\ P \in [S -> 0..(c - 1)]
      /\ \A i, j \in S : P[i] = P[j] => i = j
      /\ \A k \in 0..(c - 1) : \E i \in S : P[i] = k
  BY <1>1, RanksFill
<1>3. \A i \in S : P[i] = Cardinality({j \in S : Precedes(j, i)})
  <2> SUFFICES ASSUME NEW i \in S PROVE P[i] = Cardinality({j \in S : Precedes(j, i)})
    OBVIOUS
  <2>1. Under(Order, S, i) = {j \in S : Precedes(j, i)}
    BY <1>1 DEF Under
  <2> QED
    BY <2>1 DEF Ranks
<1>4. ASSUME NEW k \in 1..c PROVE At(k) \in S /\ P[At(k)] = k - 1
  <2>1. k - 1 \in 0..(c - 1)
    BY <1>2
  <2>2. \E i \in S : Cardinality({j \in S : Precedes(j, i)}) = k - 1
    BY <1>2, <1>3, <2>1
  <2>3. At(k) \in S /\ Cardinality({j \in S : Precedes(j, At(k))}) = k - 1
    BY <2>2
  <2> QED
    BY <1>3, <2>3
<1>5. p \in [1..c -> S] /\ \A k \in 1..c : p[k] = At(k) /\ P[p[k]] = k - 1
  BY <1>4
<1>6. \A k \in 1..c : Ascending(S)[k] = messages[p[k]].id
  BY DEF Ascending
<1> HIDE DEF p, P
<1>7. ASSUME NEW k \in 1..c, NEW l \in 1..c, k < l PROVE Precedes(p[k], p[l])
  <2>1. p[k] \in S /\ p[l] \in S /\ P[p[k]] = k - 1 /\ P[p[l]] = l - 1
    BY <1>5
  <2>2. k \in Int /\ l \in Int
    <3>1. \A n \in Nat : \A i \in 1..n : i \in Int
      OBVIOUS
    <3> QED
      BY <1>2, <3>1
  <2>3. CASE p[k] = p[l]
    BY <1>7, <2>1, <2>2, <2>3
  <2>4. CASE <<p[l], p[k]>> \in Order
    <3>1. P[p[l]] < P[p[k]]
      BY <1>1, <2>1, <2>4, RanksGrow DEF P
    <3> QED
      BY <1>7, <2>1, <2>2, <3>1
  <2>5. CASE <<p[k], p[l]>> \in Order
    BY <1>1, <2>1, <2>5
  <2> QED
    BY <1>1, <2>1, <2>3, <2>4, <2>5 DEF OrdersAll
<1>8. ASSUME NEW i \in S PROVE \E k \in 1..c : p[k] = i
  <2>1. P[i] \in 0..(c - 1)
    BY <1>2
  <2>2. P[i] + 1 \in 1..c /\ (P[i] + 1) - 1 = P[i]
    BY <1>2, <2>1
  <2>3. p[P[i] + 1] \in S /\ P[p[P[i] + 1]] = P[i]
    BY <1>5, <2>2
  <2>4. p[P[i] + 1] = i
    BY <1>2, <2>3
  <2> QED
    BY <2>2, <2>4
<1>9. /\ Ascending(S) \in Seq(Nat) /\ Len(Ascending(S)) = c
  <2>1. Ascending(S) = [k \in 1..c |-> messages[p[k]].id]
    BY DEF Ascending, p
  <2>2. \A k \in 1..c : messages[p[k]].id \in Nat
    <3> SUFFICES ASSUME NEW k \in 1..c PROVE messages[p[k]].id \in Nat
      OBVIOUS
    <3>1. p[k] \in RowNumbers
      BY <1>5
    <3>2. messages[p[k]] \in RowType
      BY <3>1 DEF RowNumbers
    <3> QED
      BY <3>2 DEF RowType
  <2>3. Ascending(S) \in [1..c -> Nat]
    BY <2>1, <2>2
  <2> QED
    BY <1>2, <2>3
<1> QED
  BY <1>2, <1>5, <1>6, <1>7, <1>8, <1>9

LEMMA NewestAreUp ==
    ASSUME messages \in Seq(RowType),
           NEW T, T = {i \in RowNumbers : Cardinality({j \in RowNumbers : Precedes(i, j)}) < PageLimit}
    PROVE  /\ \A i \in T, j \in RowNumbers : Precedes(i, j) => j \in T
           /\ T # RowNumbers => Cardinality(T) = PageLimit
<1> DEFINE P == Ranks(Back, RowNumbers)
<1>1. /\ IsFiniteSet(RowNumbers) /\ OrdersAll(Back, RowNumbers)
      /\ \A i, j \in RowNumbers : <<i, j>> \in Back <=> Precedes(j, i)
  BY RowsAreOrdered
<1>2. /\ Cardinality(RowNumbers) \in Nat
      /\ P \in [RowNumbers -> 0..(Cardinality(RowNumbers) - 1)]
      /\ \A i, j \in RowNumbers : P[i] = P[j] => i = j
      /\ \A k \in 0..(Cardinality(RowNumbers) - 1) : \E i \in RowNumbers : P[i] = k
  BY <1>1, RanksFill
<1>3. \A i \in RowNumbers : P[i] = Cardinality({j \in RowNumbers : Precedes(i, j)})
  <2> SUFFICES ASSUME NEW i \in RowNumbers
               PROVE  P[i] = Cardinality({j \in RowNumbers : Precedes(i, j)})
    OBVIOUS
  <2>1. Under(Back, RowNumbers, i) = {j \in RowNumbers : Precedes(i, j)}
    BY <1>1 DEF Under
  <2> QED
    BY <2>1 DEF Ranks
<1>4. T = {i \in RowNumbers : P[i] < PageLimit}
  BY <1>3
<1>5. PageLimit \in Nat \ {0}
  BY PageAssumption
<1>6. ASSUME NEW i \in T, NEW j \in RowNumbers, Precedes(i, j) PROVE j \in T
  <2>1. i \in RowNumbers /\ P[i] < PageLimit
    BY <1>4
  <2>2. P[j] < P[i]
    BY <1>1, <1>6, <2>1, RanksGrow
  <2>3. P[i] \in Int /\ P[j] \in Int
    BY <1>2, <2>1
  <2> QED
    BY <1>4, <1>5, <2>1, <2>2, <2>3
<1>7. ASSUME T # RowNumbers PROVE Cardinality(T) = PageLimit
  <2> DEFINE U == 0..(PageLimit - 1)
             f == [i \in T |-> P[i]]
  <2>1. PICK x \in RowNumbers : ~(P[x] < PageLimit)
    BY <1>4, <1>7
  <2>2. PageLimit <= Cardinality(RowNumbers) - 1
    BY <1>2, <1>5, <2>1
  <2>3. \A k \in U : k \in 0..(Cardinality(RowNumbers) - 1)
    BY <1>2, <1>5, <2>2
  <2>4. \A k \in U : \E i \in T : P[i] = k
    <3> SUFFICES ASSUME NEW k \in U PROVE \E i \in T : P[i] = k
      OBVIOUS
    <3>1. PICK i \in RowNumbers : P[i] = k
      BY <1>2, <2>3
    <3> QED
      BY <1>4, <1>5, <3>1
  <2>5. \A i \in T : P[i] \in U
    BY <1>2, <1>4, <1>5
  <2>6. f \in Injection(T, U)
    BY <1>2, <1>4, <2>5 DEF Injection, IsInjective
  <2>7. f \in Surjection(T, U)
    BY <2>4, <2>5 DEF Surjection
  <2>8. IsFiniteSet(U) /\ Cardinality(U) = PageLimit
    <3>1. PageLimit - 1 \in Int /\ ~(0 > PageLimit - 1)
      BY <1>5
    <3>2. IsFiniteSet(U) /\ Cardinality(U) = PageLimit - 1 - 0 + 1
      BY <3>1, FS_Interval
    <3> QED
      BY <1>5, <3>2
  <2> QED
    BY <2>6, <2>7, <2>8, FS_Injection
<1> QED
  BY <1>6, <1>7

PageAnswer ==
    [step : {"idle", "asked", "reading", "read"}, first : Nat, unread : SUBSET Nat,
     shown : Seq(Nat), of : Seq(RowType)]

PageTypes ==
    /\ messages \in Seq(RowType) /\ boundary \in Nat /\ came \in Nat
    /\ get \in PageAnswer /\ page \in PageAnswer
    /\ followUp \in BOOLEAN /\ marking \in BOOLEAN /\ placed \in BOOLEAN
    /\ opened \in [unread : SUBSET Nat, why : {"nothing", "open", "elsewhere", "marked"}]

\* Rows are numbered as they come.
Numbered ==
    /\ \A i \in RowNumbers : messages[i].id \in 1..came
    /\ \A i, j \in RowNumbers : i < j => messages[i].id < messages[j].id

\* PageIsNewest of any answer: `shown` lists the newest of the rows `of`.
Newest(shown, of) ==
    LET R(id) == CHOOSE m \in {of[i] : i \in DOMAIN of} : m.id = id
    IN  /\ \A k \in 1..(Len(shown) - 1) :
              LET m == R(shown[k])
                  n == R(shown[k + 1])
              IN  m.at < n.at \/ (m.at = n.at /\ m.id < n.id)
        /\ \A i \in DOMAIN of : ~(\E k \in DOMAIN shown : shown[k] = of[i].id) =>
              /\ Len(shown) = PageLimit
              /\ LET m == R(shown[1])
                 IN  of[i].at < m.at \/ (of[i].at = m.at /\ of[i].id < m.id)

\* NothingUnreadAbove of any answer.
FirstOnTop(a) ==
    \A k, l \in DOMAIN a.shown : a.shown[k] \in a.unread /\ a.shown[l] = a.first => l <= k

AnswersHold ==
    /\ Newest(get.shown, get.of) /\ FirstOnTop(get)
    /\ Newest(page.shown, page.of) /\ FirstOnTop(page)

\* Until the page is read, the first unread message that was read before it
\* precedes what else was unread then and is still there.
FirstLeads ==
    /\ get.step # "read" => get.shown = <<>>
    /\ get.step = "reading" =>
          /\ get.unread \subseteq 1..came /\ get.first \in 0..came
          /\ \A i, j \in RowNumbers :
                messages[i].id \in get.unread /\ messages[j].id = get.first =>
                    i = j \/ Precedes(j, i)

\* While the chat counts as open, something of what was unread is so still.
StillUnread ==
    opened.why = "open" /\ opened.unread # {} =>
        \E i \in RowNumbers : messages[i].id \in opened.unread /\ messages[i].unread

OpenLeads ==
    /\ opened.why = "nothing" => get.step = "idle" /\ ~placed
    /\ opened.why = "open" /\ opened.unread # {} =>
          /\ get.step \in {"reading", "read"} => get.first # NoUnread
          /\ placed => page.first # NoUnread

PageInv == PageTypes /\ Numbered /\ AnswersHold /\ FirstLeads /\ StillUnread /\ OpenLeads

LEMMA NothingRead ==
    /\ NoAnswer \in PageAnswer /\ [NoAnswer EXCEPT !.step = "asked"] \in PageAnswer
    /\ [NoAnswer EXCEPT !.step = "asked"] =
          [step |-> "asked", first |-> NoUnread, unread |-> {}, shown |-> <<>>, of |-> <<>>]
    /\ Newest(<<>>, <<>>) /\ FirstOnTop(NoAnswer)
    /\ FirstOnTop([NoAnswer EXCEPT !.step = "asked"])
<1>1. <<>> \in Seq(Nat) /\ <<>> \in Seq(RowType)
  OBVIOUS
<1>2. Newest(<<>>, <<>>)
  <2>1. DOMAIN <<>> = {} /\ 1..(Len(<<>>) - 1) = {}
    OBVIOUS
  <2> QED
    BY <2>1 DEF Newest
<1>3. [NoAnswer EXCEPT !.step = "asked"] =
          [step |-> "asked", first |-> NoUnread, unread |-> {}, shown |-> <<>>, of |-> <<>>]
  <2>1. \A f, u, s, o :
           [[step |-> "idle", first |-> f, unread |-> u, shown |-> s, of |-> o] EXCEPT !.step = "asked"]
              = [step |-> "asked", first |-> f, unread |-> u, shown |-> s, of |-> o]
    OBVIOUS
  <2> QED
    BY <2>1, ZenonT(90) DEF NoAnswer
<1>4. FirstOnTop(NoAnswer) /\ FirstOnTop([NoAnswer EXCEPT !.step = "asked"])
  <2>1. DOMAIN <<>> = {}
    OBVIOUS
  <2> QED
    BY <1>3, <2>1 DEF FirstOnTop, NoAnswer
<1>5. NoUnread \in Nat /\ {} \in SUBSET Nat
  BY DEF NoUnread
<1>6. NoAnswer \in PageAnswer /\ [NoAnswer EXCEPT !.step = "asked"] \in PageAnswer
  BY <1>1, <1>3, <1>5 DEF NoAnswer, PageAnswer
<1> QED
  BY <1>2, <1>3, <1>4, <1>6

LEMMA PageStarts == PageInit => PageInv
<1> SUFFICES ASSUME PageInit PROVE PageInv
  OBVIOUS
<1>1. messages = <<>> /\ RowNumbers = {} /\ <<>> \in Seq(RowType)
  BY DEF PageInit, RowNumbers
<1>2. PageTypes
  BY <1>1, NothingRead DEF PageInit, PageTypes
<1>3. Numbered /\ StillUnread
  BY <1>1 DEF PageInit, Numbered, StillUnread
<1>4. AnswersHold
  BY NothingRead DEF PageInit, AnswersHold, NoAnswer
<1>5. FirstLeads /\ OpenLeads
  BY DEF PageInit, FirstLeads, OpenLeads, NoAnswer
<1> QED
  BY <1>2, <1>3, <1>4, <1>5 DEF PageInv

LEMMA IdsAreApart ==
    ASSUME PageInv
    PROVE  /\ \A i, j \in RowNumbers : messages[i].id = messages[j].id => i = j
           /\ \A i, j \in RowNumbers : Precedes(i, j) =>
                 \/ messages[i].at < messages[j].at
                 \/ messages[i].at = messages[j].at /\ messages[i].id < messages[j].id
           /\ \A i \in RowNumbers : messages[i] \in RowType /\ i \in Nat
           /\ messages \in Seq(RowType)
<1>1. messages \in Seq(RowType) /\ RowNumbers = 1..Len(messages) /\ Len(messages) \in Nat
  BY DEF PageInv, PageTypes, RowNumbers
<1>2. \A i \in RowNumbers : messages[i] \in RowType /\ i \in Nat
  BY <1>1
<1>3. \A i \in RowNumbers : messages[i].id \in Nat
  BY <1>2 DEF RowType
<1>4. ASSUME NEW i \in RowNumbers, NEW j \in RowNumbers, messages[i].id = messages[j].id
      PROVE  i = j
  <2>1. i < j \/ j < i \/ i = j
    BY <1>2
  <2>2. ~(i < j) /\ ~(j < i)
    BY <1>3, <1>4 DEF PageInv, Numbered
  <2> QED
    BY <2>1, <2>2
<1>5. \A i, j \in RowNumbers : Precedes(i, j) =>
         \/ messages[i].at < messages[j].at
         \/ messages[i].at = messages[j].at /\ messages[i].id < messages[j].id
  BY DEF Precedes, PageInv, Numbered
<1> QED
  BY <1>1, <1>2, <1>4, <1>5

LEMMA PageKeepsReadPage ==
    ASSUME PageInv, ReadPage
    PROVE  PageInv'
<1> DEFINE T == {i \in RowNumbers : Cardinality({j \in RowNumbers : Precedes(i, j)}) < PageLimit}
           c == Cardinality(T)
           shown == NewestPage
           R(id) == CHOOSE m \in {messages[i] : i \in DOMAIN messages} : m.id = id
<1>1. /\ get.step = "reading" /\ get' = [get EXCEPT !.step = "read", !.shown = NewestPage, !.of = messages]
      /\ UNCHANGED <<messages, boundary, followUp, marking, opened, page, placed, came>>
  BY DEF ReadPage
<1>2. /\ \A i, j \in RowNumbers : messages[i].id = messages[j].id => i = j
      /\ \A i, j \in RowNumbers : Precedes(i, j) =>
            \/ messages[i].at < messages[j].at
            \/ messages[i].at = messages[j].at /\ messages[i].id < messages[j].id
      /\ messages \in Seq(RowType)
  BY IdsAreApart
<1>3. /\ \A i \in T, j \in RowNumbers : Precedes(i, j) => j \in T
      /\ T # RowNumbers => c = PageLimit
  BY <1>2, NewestAreUp
<1>4. T \in SUBSET RowNumbers /\ shown = Ascending(T)
  BY DEF NewestPage
<1> HIDE DEF T, shown
<1>5. /\ c \in Nat /\ shown \in Seq(Nat) /\ Len(shown) = c
      /\ \E p \in [1..c -> T] :
            /\ \A k \in 1..c : shown[k] = messages[p[k]].id
            /\ \A k, l \in 1..c : k < l => Precedes(p[k], p[l])
            /\ \A i \in T : \E k \in 1..c : p[k] = i
  <2>1. /\ Cardinality(T) \in Nat
        /\ Ascending(T) \in Seq(Nat) /\ Len(Ascending(T)) = Cardinality(T)
        /\ \E p \in [1..Cardinality(T) -> T] :
              /\ \A k \in 1..Cardinality(T) : Ascending(T)[k] = messages[p[k]].id
              /\ \A k, l \in 1..Cardinality(T) : k < l => Precedes(p[k], p[l])
              /\ \A i \in T : \E k \in 1..Cardinality(T) : p[k] = i
    BY <1>2, <1>4, AscendingLists, Zenon
  <2> QED
    BY <1>4, <2>1, Zenon
<1> HIDE DEF c
<1>6. PICK p \in [1..c -> T] :
            /\ \A k \in 1..c : shown[k] = messages[p[k]].id
            /\ \A k, l \in 1..c : k < l => Precedes(p[k], p[l])
            /\ \A i \in T : \E k \in 1..c : p[k] = i
  BY <1>5
<1>7. DOMAIN shown = 1..c /\ DOMAIN messages = RowNumbers
  BY <1>5 DEF RowNumbers
<1>8. \A i \in RowNumbers : R(messages[i].id) = messages[i]
  <2> SUFFICES ASSUME NEW i \in RowNumbers PROVE R(messages[i].id) = messages[i]
    OBVIOUS
  <2>1. messages[i] \in {messages[j] : j \in DOMAIN messages}
    BY <1>7
  <2>2. \A m \in {messages[j] : j \in DOMAIN messages} : m.id = messages[i].id => m = messages[i]
    BY <1>2, <1>7
  <2> QED
    BY <2>1, <2>2
<1>9. \A k \in 1..c : p[k] \in RowNumbers /\ R(shown[k]) = messages[p[k]]
  BY <1>4, <1>6, <1>8
<1> HIDE DEF R
<1>10. ASSUME NEW k \in 1..(c - 1)
       PROVE  LET m == R(shown[k])
                  n == R(shown[k + 1])
              IN  m.at < n.at \/ (m.at = n.at /\ m.id < n.id)
  <2>1. k \in 1..c /\ k + 1 \in 1..c /\ k < k + 1
    <3>1. \A n \in Nat : \A i \in 1..(n - 1) : i \in 1..n /\ i + 1 \in 1..n /\ i < i + 1
      OBVIOUS
    <3>2. c \in Nat
      BY <1>5
    <3> QED
      BY <3>1, <3>2
  <2>2. Precedes(p[k], p[k + 1])
    BY <1>6, <2>1
  <2> QED
    BY <1>2, <1>9, <2>1, <2>2
<1>11. ASSUME NEW i \in RowNumbers, ~(\E k \in 1..c : shown[k] = messages[i].id)
       PROVE  /\ c = PageLimit
              /\ LET m == R(shown[1])
                 IN  messages[i].at < m.at \/ (messages[i].at = m.at /\ messages[i].id < m.id)
  <2>1. i \notin T
    BY <1>6, <1>11
  <2>2. c = PageLimit
    BY <1>3, <2>1
  <2>3. 1 \in 1..c
    BY <2>2, PageAssumption
  <2>4. p[1] \in T /\ p[1] \in RowNumbers
    BY <1>4, <1>6, <2>3
  <2>5. i = p[1] \/ Precedes(i, p[1]) \/ Precedes(p[1], i)
    <3>1. /\ OrdersAll(Order, RowNumbers)
          /\ <<i, p[1]>> \in Order <=> Precedes(i, p[1])
          /\ <<p[1], i>> \in Order <=> Precedes(p[1], i)
      BY <1>2, <2>4, RowsAreOrdered
    <3> QED
      BY <2>4, <3>1 DEF OrdersAll
  <2>6. Precedes(i, p[1])
    BY <1>3, <2>1, <2>4, <2>5
  <2> QED
    BY <1>2, <1>9, <2>2, <2>3, <2>4, <2>6
<1>12. Newest(shown, messages)
  BY <1>5, <1>7, <1>10, <1>11, ZenonT(90) DEF Newest, R
<1>13. \A k, l \in 1..c : shown[k] \in get.unread /\ shown[l] = get.first => l <= k
  <2> SUFFICES ASSUME NEW k \in 1..c, NEW l \in 1..c,
                      shown[k] \in get.unread, shown[l] = get.first, ~(l <= k)
               PROVE  FALSE
    OBVIOUS
  <2>1. k < l
    BY <1>5
  <2>2. Precedes(p[k], p[l])
    BY <1>6, <2>1
  <2>3. p[k] = p[l] \/ Precedes(p[l], p[k])
    BY <1>1, <1>6, <1>9 DEF PageInv, FirstLeads
  <2>4. OrdersAll(Order, RowNumbers) /\ \A i, j \in RowNumbers : <<i, j>> \in Order <=> Precedes(i, j)
    BY <1>2, RowsAreOrdered
  <2>5. p[k] \in RowNumbers /\ p[l] \in RowNumbers
    BY <1>9
  <2> QED
    BY <2>2, <2>3, <2>4, <2>5 DEF OrdersAll
<1>14. get \in PageAnswer
  BY DEF PageInv, PageTypes
<1>15. /\ get' \in PageAnswer /\ get'.step = "read" /\ get'.shown = shown /\ get'.of = messages
       /\ get'.first = get.first /\ get'.unread = get.unread
  <2>1. get' = [get EXCEPT !.step = "read", !.shown = shown, !.of = messages]
    BY <1>1 DEF shown
  <2> QED
    BY <1>2, <1>5, <1>14, <2>1 DEF PageAnswer
<1>16. AnswersHold'
  <2>1. Newest(get'.shown, get'.of) /\ FirstOnTop(get')
    BY <1>7, <1>12, <1>13, <1>15 DEF FirstOnTop
  <2> QED
    BY <1>1, <2>1 DEF PageInv, AnswersHold
<1>17. PageTypes'
  BY <1>1, <1>15 DEF PageInv, PageTypes
<1>18. Numbered' /\ StillUnread'
  BY <1>1 DEF PageInv, Numbered, StillUnread, RowNumbers
<1>19. FirstLeads'
  BY <1>15 DEF FirstLeads
<1>20. OpenLeads'
  BY <1>1, <1>15 DEF PageInv, OpenLeads
<1> QED
  BY <1>16, <1>17, <1>18, <1>19, <1>20 DEF PageInv

LEMMA RowsKept ==
    ASSUME PageInv, UNCHANGED get, came' \in {came, came + 1}, messages' \in Seq(RowType),
           Numbered', NEW f,
           \A i \in RowNumbers' : messages'[i].id \in 1..came =>
              /\ f[i] \in RowNumbers
              /\ messages'[i].id = messages[f[i]].id /\ messages'[i].at = messages[f[i]].at,
           \A i, j \in RowNumbers' : f[j] <= f[i] => j <= i
    PROVE  FirstLeads'
<1>1. (get.step # "read" => get.shown = <<>>)'
  BY DEF PageInv, FirstLeads
<1>2. ASSUME get.step = "reading"
      PROVE  /\ get.unread \subseteq 1..came' /\ get.first \in 0..came'
             /\ \A i, j \in RowNumbers' :
                   messages'[i].id \in get.unread /\ messages'[j].id = get.first =>
                       i = j \/ Precedes(j, i)'
  <2>1. /\ get.unread \subseteq 1..came /\ get.first \in 0..came
        /\ \A i, j \in RowNumbers :
              messages[i].id \in get.unread /\ messages[j].id = get.first =>
                  i = j \/ Precedes(j, i)
    BY <1>2 DEF PageInv, FirstLeads
  <2>2. came \in Nat
    BY DEF PageInv, PageTypes
  <2>3. get.unread \subseteq 1..came' /\ get.first \in 0..came'
    BY <2>1, <2>2
  <2>4. ASSUME NEW i \in RowNumbers', NEW j \in RowNumbers',
               messages'[i].id \in get.unread, messages'[j].id = get.first
        PROVE  i = j \/ Precedes(j, i)'
    <3>1. messages'[j] \in RowType /\ messages'[i] \in RowType /\ i \in Nat /\ j \in Nat
      BY DEF RowNumbers
    <3>2. CASE messages'[j].id \in 1..came
      <4>1. /\ f[i] \in RowNumbers /\ f[j] \in RowNumbers
            /\ messages'[i].id = messages[f[i]].id /\ messages'[i].at = messages[f[i]].at
            /\ messages'[j].id = messages[f[j]].id /\ messages'[j].at = messages[f[j]].at
        BY <2>1, <2>4, <3>2
      <4>2. f[i] = f[j] \/ Precedes(f[j], f[i])
        BY <2>1, <2>4, <4>1
      <4>3. f[i] \in Nat /\ f[j] \in Nat
        BY <4>1, IdsAreApart
      <4>4. CASE f[j] <= f[i] /\ messages[f[j]].at <= messages[f[i]].at
        <5>1. j <= i
          BY <4>4
        <5> QED
          BY <3>1, <4>1, <4>2, <4>4, <5>1 DEF Precedes, RowType
      <4>5. CASE messages[f[j]].at < messages[f[i]].at
        BY <4>1, <4>5 DEF Precedes
      <4>6. messages[f[j]].at \in Nat /\ messages[f[i]].at \in Nat
        BY <4>1, IdsAreApart DEF RowType
      <4> QED
        BY <4>2, <4>3, <4>4, <4>5, <4>6 DEF Precedes
    <3>3. CASE get.first = 0
      <4>1. messages'[j].id \in 1..came'
        BY DEF Numbered
      <4> QED
        BY <2>2, <2>4, <3>3, <4>1
    <3> QED
      BY <2>1, <2>2, <2>4, <3>2, <3>3
  <2> QED
    BY <2>3, <2>4
<1> QED
  BY <1>1, <1>2 DEF FirstLeads
LEMMA PageKeepsReadFirstUnread ==
    ASSUME PageInv, ReadFirstUnread
    PROVE  PageInv'
<1>1. /\ get.step = "asked"
      /\ get' = [get EXCEPT !.step = "reading", !.first = FirstUnread, !.unread = IdsOf(Unread)]
      /\ UNCHANGED <<messages, boundary, followUp, marking, opened, page, placed, came>>
  BY DEF ReadFirstUnread
<1>2. /\ \A i, j \in RowNumbers : messages[i].id = messages[j].id => i = j
      /\ \A i \in RowNumbers : messages[i] \in RowType
      /\ messages \in Seq(RowType)
  BY IdsAreApart
<1>3. /\ \A i \in RowNumbers : messages[i].id \in 1..came /\ messages[i].id \in Nat
      /\ came \in Nat
  BY <1>2 DEF PageInv, PageTypes, Numbered, RowType
<1>4. Unread \subseteq RowNumbers /\ \A i \in RowNumbers : messages[i].unread => i \in Unread
  BY DEF Unread
<1>5. IdsOf(Unread) \in SUBSET Nat /\ IdsOf(Unread) \subseteq 1..came
  BY <1>3, <1>4 DEF IdsOf
<1>6. /\ FirstUnread \in 0..came
      /\ Unread # {} => FirstUnread # NoUnread
      /\ \A i, j \in RowNumbers :
            messages[i].id \in IdsOf(Unread) /\ messages[j].id = FirstUnread =>
                i = j \/ Precedes(j, i)
  <2>1. CASE Unread = {}
    BY <1>3, <2>1 DEF FirstUnread, NoUnread, IdsOf
  <2>2. CASE Unread # {}
    <3> DEFINE u == CHOOSE i \in Unread : \A j \in Unread \ {i} : Precedes(i, j)
    <3>1. u \in Unread /\ \A j \in Unread \ {u} : Precedes(u, j)
      <4>1. \E i \in Unread : \A j \in Unread \ {i} : Precedes(i, j)
        BY <1>2, <1>4, <2>2, LeastRow
      <4> QED
        BY <4>1
    <3>2. FirstUnread = messages[u].id
      BY <2>2 DEF FirstUnread
    <3> HIDE DEF u
    <3>3. u \in RowNumbers
      BY <1>4, <3>1
    <3>4. FirstUnread \in 1..came
      BY <1>3, <3>2, <3>3
    <3>5. FirstUnread # NoUnread /\ FirstUnread \in 0..came
      BY <1>3, <3>4 DEF NoUnread
    <3>6. ASSUME NEW i \in RowNumbers, NEW j \in RowNumbers,
                 messages[i].id \in IdsOf(Unread), messages[j].id = FirstUnread
          PROVE  i = j \/ Precedes(j, i)
      <4>1. j = u
        BY <1>2, <3>2, <3>3, <3>6
      <4>2. PICK v \in Unread : messages[i].id = messages[v].id
        BY <3>6 DEF IdsOf
      <4>3. i = v
        BY <1>2, <1>4, <4>2
      <4> QED
        BY <3>1, <4>1, <4>2, <4>3
    <3> QED
      BY <3>5, <3>6
  <2> QED
    BY <2>1, <2>2
<1>7. get \in PageAnswer /\ get.shown = <<>>
  BY <1>1 DEF PageInv, PageTypes, FirstLeads
<1>8. /\ get' \in PageAnswer /\ get'.step = "reading" /\ get'.shown = <<>> /\ get'.of = get.of
      /\ get'.first = FirstUnread /\ get'.unread = IdsOf(Unread)
  <2>1. FirstUnread \in Nat
    BY <1>3, <1>6
  <2> QED
    BY <1>1, <1>5, <1>7, <2>1 DEF PageAnswer
<1>9. PageTypes'
  BY <1>1, <1>8 DEF PageInv, PageTypes
<1>10. Numbered' /\ StillUnread'
  BY <1>1 DEF PageInv, Numbered, StillUnread, RowNumbers
<1>11. AnswersHold'
  <2>1. FirstOnTop(get')
    <3>1. DOMAIN <<>> = {}
      OBVIOUS
    <3> QED
      BY <1>8, <3>1 DEF FirstOnTop
  <2>2. Newest(get'.shown, get'.of)
    BY <1>7, <1>8 DEF PageInv, AnswersHold
  <2> QED
    BY <1>1, <2>1, <2>2 DEF PageInv, AnswersHold
<1>12. FirstLeads'
  <2>1. \A i, j \in RowNumbers : Precedes(j, i)' <=> Precedes(j, i)
    BY <1>1 DEF Precedes
  <2>2. RowNumbers' = RowNumbers
    BY <1>1 DEF RowNumbers
  <2> QED
    BY <1>1, <1>5, <1>6, <1>8, <2>1, <2>2 DEF FirstLeads
<1>13. OpenLeads'
  <2>1. opened.why = "open" /\ opened.unread # {} => FirstUnread # NoUnread
    BY <1>4, <1>6 DEF PageInv, StillUnread
  <2> QED
    BY <1>1, <1>8, <2>1 DEF PageInv, OpenLeads
<1> QED
  BY <1>9, <1>10, <1>11, <1>12, <1>13 DEF PageInv

LEMMA PageKeepsShowPage ==
    ASSUME PageInv, ShowPage
    PROVE  PageInv'
<1> DEFINE AsksForPage == [NoAnswer EXCEPT !.step = "asked"]
<1>1. /\ get.step = "read" /\ page' = get
      /\ get' \in {AsksForPage, NoAnswer}
      /\ followUp' = FALSE /\ placed' = (placed \/ ~followUp)
      /\ UNCHANGED <<messages, boundary, marking, opened, came>>
  BY DEF ShowPage
<1>2. /\ get' \in PageAnswer /\ get'.step \in {"idle", "asked"} /\ get'.shown = <<>> /\ get'.of = <<>>
      /\ FirstOnTop(get')
  <2>1. CASE get' = AsksForPage
    BY <2>1, NothingRead
  <2>2. CASE get' = NoAnswer
    BY <2>2, NothingRead DEF NoAnswer
  <2> QED
    BY <1>1, <2>1, <2>2
<1>3. PageTypes'
  BY <1>1, <1>2 DEF PageInv, PageTypes
<1>4. Numbered' /\ StillUnread'
  BY <1>1 DEF PageInv, Numbered, StillUnread, RowNumbers
<1>5. AnswersHold'
  <2>1. Newest(get'.shown, get'.of)
    BY <1>2, NothingRead
  <2> QED
    BY <1>1, <1>2, <2>1 DEF PageInv, AnswersHold
<1>6. FirstLeads'
  BY <1>2 DEF FirstLeads
<1>7. OpenLeads'
  BY <1>1, <1>2 DEF PageInv, OpenLeads
<1> QED
  BY <1>3, <1>4, <1>5, <1>6, <1>7 DEF PageInv

LEMMA PageKeepsSelect ==
    ASSUME PageInv, NEW focused \in BOOLEAN, SelectConversation(focused)
    PROVE  PageInv'
<1>1. /\ opened.why = "nothing"
      /\ opened' = [unread |-> IdsOf(Unread), why |-> "open"]
      /\ get' = [NoAnswer EXCEPT !.step = "asked"]
      /\ marking' = focused
      /\ UNCHANGED <<messages, boundary, followUp, page, placed, came>>
  BY DEF SelectConversation
<1>2. /\ get' \in PageAnswer /\ get'.step = "asked" /\ get'.shown = <<>> /\ get'.of = <<>>
      /\ FirstOnTop(get')
  BY <1>1, NothingRead
<1>3. IdsOf(Unread) \in SUBSET Nat
  <2>1. \A i \in RowNumbers : messages[i].id \in Nat
    BY IdsAreApart DEF RowType
  <2> QED
    BY <2>1 DEF IdsOf, Unread
<1>4. PageTypes'
  BY <1>1, <1>2, <1>3 DEF PageInv, PageTypes
<1>5. Numbered'
  BY <1>1 DEF PageInv, Numbered, RowNumbers
<1>6. StillUnread'
  BY <1>1 DEF StillUnread, IdsOf, Unread, RowNumbers
<1>7. AnswersHold'
  <2>1. Newest(get'.shown, get'.of)
    BY <1>2, NothingRead
  <2> QED
    BY <1>1, <1>2, <2>1 DEF PageInv, AnswersHold
<1>8. FirstLeads'
  BY <1>2 DEF FirstLeads
<1>9. OpenLeads'
  BY <1>1, <1>2 DEF PageInv, OpenLeads
<1> QED
  BY <1>4, <1>5, <1>6, <1>7, <1>8, <1>9 DEF PageInv
LEMMA ReadingKeepsRows ==
    ASSUME PageInv, NEW t \in Nat, ReadUpTo(t), came' \in {came, came + 1}
    PROVE  /\ boundary' \in Nat /\ messages' \in Seq(RowType) /\ RowNumbers' = RowNumbers
           /\ \A i \in RowNumbers :
                 messages'[i].id = messages[i].id /\ messages'[i].at = messages[i].at
           /\ Numbered'
<1>1. /\ boundary' = IF t > boundary THEN t ELSE boundary
      /\ messages' = [i \in RowNumbers |->
                         [messages[i] EXCEPT !.unread = @ /\ messages[i].at > boundary']]
  BY DEF ReadUpTo
<1>2. /\ messages \in Seq(RowType) /\ RowNumbers = 1..Len(messages) /\ Len(messages) \in Nat
      /\ boundary \in Nat
  BY DEF PageInv, PageTypes, RowNumbers
<1>3. boundary' \in Nat
  BY <1>1, <1>2
<1>4. ASSUME NEW i \in RowNumbers
      PROVE  /\ messages'[i] \in RowType
             /\ messages'[i].id = messages[i].id /\ messages'[i].at = messages[i].at
  <2>1. messages[i] \in RowType
    BY <1>2
  <2>2. messages'[i] = [messages[i] EXCEPT !.unread = @ /\ messages[i].at > boundary']
    BY <1>1
  <2>3. (messages[i].unread /\ messages[i].at > boundary') \in BOOLEAN
    OBVIOUS
  <2> QED
    BY <2>1, <2>2, <2>3 DEF RowType
<1>5. DOMAIN messages' = 1..Len(messages)
  BY <1>1, <1>2
<1>6. messages' \in Seq(RowType) /\ RowNumbers' = RowNumbers
  <2>1. messages' \in [1..Len(messages) -> RowType]
    <3>1. messages' = [i \in 1..Len(messages) |-> messages'[i]]
      BY <1>1, <1>2
    <3> QED
      BY <1>2, <1>4, <3>1
  <2> QED
    BY <1>2, <1>5, <2>1 DEF RowNumbers
<1>7. Numbered'
  <2>1. came \in Nat /\ \A n \in 1..came : n \in 1..came'
    BY DEF PageInv, PageTypes
  <2> QED
    BY <1>4, <1>6, <2>1 DEF PageInv, Numbered
<1> QED
  BY <1>3, <1>4, <1>6, <1>7

LEMMA SettleKeeps ==
    ASSUME PageInv, NEW how \in {"elsewhere", "marked"}, Settle(how),
           UNCHANGED <<get, page, placed>>
    PROVE  /\ StillUnread' /\ OpenLeads'
           /\ opened' \in [unread : SUBSET Nat, why : {"nothing", "open", "elsewhere", "marked"}]
<1>1. opened \in [unread : SUBSET Nat, why : {"nothing", "open", "elsewhere", "marked"}]
  BY DEF PageInv, PageTypes
<1>2. CASE /\ opened.why = "open" /\ opened.unread # {}
           /\ ~\E i \in DOMAIN messages' : messages'[i].id \in opened.unread /\ messages'[i].unread
  <2>1. opened' = [opened EXCEPT !.why = how]
    BY <1>2 DEF Settle
  <2>2. opened'.why = how /\ how # "open" /\ how # "nothing"
    BY <1>1, <2>1
  <2> QED
    BY <1>1, <2>1, <2>2 DEF StillUnread, OpenLeads
<1>3. CASE ~(/\ opened.why = "open" /\ opened.unread # {}
             /\ ~\E i \in DOMAIN messages' : messages'[i].id \in opened.unread /\ messages'[i].unread)
  <2>1. opened' = opened
    BY <1>3 DEF Settle
  <2>2. StillUnread'
    BY <1>3, <2>1 DEF StillUnread, RowNumbers
  <2>3. OpenLeads'
    BY <2>1 DEF PageInv, OpenLeads
  <2> QED
    BY <1>1, <2>1, <2>2, <2>3
<1> QED
  BY <1>2, <1>3

LEMMA PageKeepsMark ==
    ASSUME PageInv, MarkConversation
    PROVE  PageInv'
<1> DEFINE last == CHOOSE i \in RowNumbers : \A j \in RowNumbers \ {i} : Precedes(j, i)
           t == IF RowNumbers = {} THEN 0 ELSE messages[last].at
<1>1. /\ marking' = FALSE /\ ReadUpTo(t) /\ Settle("marked")
      /\ UNCHANGED <<get, followUp, page, placed, came>>
  BY DEF MarkConversation
<1>2. t \in Nat
  <2>1. CASE RowNumbers # {}
    <3>1. \E i \in RowNumbers : \A j \in RowNumbers \ {i} : Precedes(j, i)
      BY <2>1, LeastRow, IdsAreApart
    <3>2. last \in RowNumbers
      BY <3>1
    <3> QED
      BY <2>1, <3>2, IdsAreApart DEF RowType
  <2> QED
    BY <2>1
<1> HIDE DEF t
<1>3. /\ boundary' \in Nat /\ messages' \in Seq(RowType) /\ RowNumbers' = RowNumbers
      /\ \A i \in RowNumbers :
            messages'[i].id = messages[i].id /\ messages'[i].at = messages[i].at
      /\ Numbered'
  BY <1>1, <1>2, ReadingKeepsRows
<1>4. /\ StillUnread' /\ OpenLeads'
      /\ opened' \in [unread : SUBSET Nat, why : {"nothing", "open", "elsewhere", "marked"}]
  BY <1>1, SettleKeeps
<1>5. PageTypes'
  BY <1>1, <1>3, <1>4 DEF PageInv, PageTypes
<1>6. AnswersHold'
  BY <1>1 DEF PageInv, AnswersHold
<1>7. FirstLeads'
  <2> DEFINE f == [i \in RowNumbers |-> i]
  <2>1. \A i \in RowNumbers : f[i] = i
    OBVIOUS
  <2> HIDE DEF f
  <2>2. came' \in {came, came + 1} /\ UNCHANGED get
    BY <1>1
  <2> QED
    BY <1>3, <2>1, <2>2, RowsKept
<1> QED
  BY <1>3, <1>4, <1>5, <1>6, <1>7 DEF PageInv

LEMMA PageKeepsReadElsewhere ==
    ASSUME PageInv, NEW t \in Nat, ReadElsewhere(t)
    PROVE  PageInv'
<1>1. /\ ReadUpTo(t) /\ Settle("elsewhere") /\ came' = came + 1
      /\ UNCHANGED <<get, followUp, marking, page, placed>>
  BY DEF ReadElsewhere, Befalls
<1>2. /\ boundary' \in Nat /\ messages' \in Seq(RowType) /\ RowNumbers' = RowNumbers
      /\ \A i \in RowNumbers :
            messages'[i].id = messages[i].id /\ messages'[i].at = messages[i].at
      /\ Numbered'
  BY <1>1, ReadingKeepsRows
<1>3. /\ StillUnread' /\ OpenLeads'
      /\ opened' \in [unread : SUBSET Nat, why : {"nothing", "open", "elsewhere", "marked"}]
  BY <1>1, SettleKeeps
<1>4. came' \in Nat
  BY <1>1 DEF PageInv, PageTypes
<1>5. PageTypes'
  BY <1>1, <1>2, <1>3, <1>4 DEF PageInv, PageTypes
<1>6. AnswersHold'
  BY <1>1 DEF PageInv, AnswersHold
<1>7. FirstLeads'
  <2> DEFINE f == [i \in RowNumbers |-> i]
  <2>1. \A i \in RowNumbers : f[i] = i
    OBVIOUS
  <2> HIDE DEF f
  <2>2. came' \in {came, came + 1} /\ UNCHANGED get
    BY <1>1
  <2> QED
    BY <1>2, <2>1, <2>2, RowsKept
<1> QED
  BY <1>2, <1>3, <1>5, <1>6, <1>7 DEF PageInv

LEMMA PageKeepsRemove ==
    ASSUME PageInv, NEW i \in RowNumbers, RemoveMessage(i)
    PROVE  PageInv'
<1> DEFINE n == Len(messages)
           f == [j \in 1..(n - 1) |-> IF j < i THEN j ELSE j + 1]
<1>1. /\ messages' = [j \in 1..(n - 1) |-> IF j < i THEN messages[j] ELSE messages[j + 1]]
      /\ Settle("elsewhere") /\ came' = came + 1
      /\ UNCHANGED <<boundary, get, followUp, marking, page, placed>>
  BY DEF RemoveMessage, Befalls
<1>2. /\ messages \in Seq(RowType) /\ n \in Nat /\ RowNumbers = 1..n /\ i \in 1..n
      /\ came \in Nat
  BY DEF PageInv, PageTypes, RowNumbers
<1>3. \A j \in 1..(n - 1) :
         /\ f[j] = (IF j < i THEN j ELSE j + 1)
         /\ f[j] \in 1..n /\ messages'[j] = messages[f[j]] /\ messages'[j] \in RowType
  <2> SUFFICES ASSUME NEW j \in 1..(n - 1)
               PROVE  /\ f[j] = (IF j < i THEN j ELSE j + 1)
                      /\ f[j] \in 1..n /\ messages'[j] = messages[f[j]]
                      /\ messages'[j] \in RowType
    OBVIOUS
  <2>1. f[j] = (IF j < i THEN j ELSE j + 1)
    OBVIOUS
  <2>2. f[j] \in 1..n
    BY <1>2, <2>1
  <2>3. messages'[j] = (IF j < i THEN messages[j] ELSE messages[j + 1])
    BY <1>1
  <2>4. messages'[j] = messages[f[j]]
    BY <2>1, <2>3
  <2>5. messages[f[j]] \in RowType
    BY <1>2, <2>2
  <2> QED
    BY <2>1, <2>2, <2>4, <2>5
<1> HIDE DEF f, n
<1>4. messages' \in [1..(n - 1) -> RowType] /\ n - 1 \in Nat
  <2>1. messages' = [j \in 1..(n - 1) |-> messages'[j]]
    BY <1>1
  <2> QED
    BY <1>2, <1>3, <2>1
<1>5. messages' \in Seq(RowType) /\ RowNumbers' = 1..(n - 1)
  BY <1>4 DEF RowNumbers
<1>6. \A j, k \in 1..(n - 1) : (j < k => f[j] < f[k]) /\ (f[j] <= f[k] => j <= k)
  BY <1>2, <1>3
<1>7. Numbered'
  <2>1. ASSUME NEW j \in 1..(n - 1) PROVE messages'[j].id \in 1..came'
    <3>1. messages'[j].id \in 1..came
      BY <1>2, <1>3 DEF PageInv, Numbered
    <3> QED
      BY <1>1, <1>2, <3>1
  <2>2. ASSUME NEW j \in 1..(n - 1), NEW k \in 1..(n - 1), j < k
        PROVE  messages'[j].id < messages'[k].id
    <3>1. f[j] \in RowNumbers /\ f[k] \in RowNumbers /\ f[j] < f[k]
      BY <1>2, <1>3, <1>6, <2>2
    <3> QED
      BY <1>3, <3>1 DEF PageInv, Numbered
  <2> QED
    BY <1>5, <2>1, <2>2 DEF Numbered
<1>8. /\ StillUnread' /\ OpenLeads'
      /\ opened' \in [unread : SUBSET Nat, why : {"nothing", "open", "elsewhere", "marked"}]
  BY <1>1, SettleKeeps
<1>9. PageTypes'
  <2>1. came' \in Nat
    BY <1>1, <1>2
  <2> QED
    BY <1>1, <1>5, <1>8, <2>1 DEF PageInv, PageTypes
<1>10. AnswersHold'
  BY <1>1 DEF PageInv, AnswersHold
<1>11. FirstLeads'
  <2>1. came' \in {came, came + 1} /\ UNCHANGED get
    BY <1>1
  <2>2. \A j \in RowNumbers' : messages'[j].id \in 1..came =>
           /\ f[j] \in RowNumbers
           /\ messages'[j].id = messages[f[j]].id /\ messages'[j].at = messages[f[j]].at
    BY <1>2, <1>3, <1>5
  <2>3. \A j, k \in RowNumbers' : f[k] <= f[j] => k <= j
    BY <1>5, <1>6
  <2> QED
    BY <1>5, <1>7, <2>1, <2>2, <2>3, RowsKept
<1> QED
  BY <1>7, <1>8, <1>9, <1>10, <1>11 DEF PageInv

LEMMA PageKeepsAppend ==
    ASSUME PageInv, NEW at \in Nat, NEW counts \in BOOLEAN, AppendMessage(at, counts)
    PROVE  PageInv'
<1> DEFINE n == Len(messages)
           m == [id |-> came', at |-> at, unread |-> counts /\ at > boundary]
<1>1. /\ came' = came + 1
      /\ messages' = Append(messages, m)
      /\ IF opened.why = "nothing" THEN UNCHANGED <<get, followUp>> ELSE AskAgain
      /\ UNCHANGED <<boundary, marking, opened, page, placed>>
  BY DEF AppendMessage, Befalls
<1>2. /\ messages \in Seq(RowType) /\ n \in Nat /\ RowNumbers = 1..n
      /\ came \in Nat /\ came' \in Nat
  BY <1>1 DEF PageInv, PageTypes, RowNumbers
<1>3. m \in RowType
  <2>1. (counts /\ at > boundary) \in BOOLEAN
    OBVIOUS
  <2> QED
    BY <1>2, <2>1 DEF RowType
<1>4. m.id = came + 1
  BY <1>1
<1> HIDE DEF m
<1>5. /\ messages' \in Seq(RowType) /\ RowNumbers' = 1..(n + 1)
      /\ \A i \in 1..n : messages'[i] = messages[i]
      /\ messages'[n + 1] = m
  BY <1>1, <1>2, <1>3 DEF RowNumbers
<1> HIDE DEF n
<1>6. \A i \in 1..n : messages[i].id \in 1..came
  BY <1>2 DEF PageInv, Numbered
<1>7. \A i \in RowNumbers' : i \in 1..n \/ i = n + 1
  BY <1>2, <1>5
<1>8. Numbered'
  <2>1. \A i \in RowNumbers' : messages'[i].id \in 1..came'
    <3>1. \A i \in 1..n : messages'[i].id \in 1..came
      BY <1>5, <1>6
    <3>2. messages'[n + 1].id = came + 1
      BY <1>4, <1>5
    <3>3. came \in Nat /\ came' = came + 1
      BY <1>1, <1>2
    <3>4. came + 1 \in 1..came' /\ \A k \in 1..came : k \in 1..came'
      BY <3>3
    <3> QED
      BY <1>7, <3>1, <3>2, <3>4
  <2>2. ASSUME NEW i \in RowNumbers', NEW j \in RowNumbers', i < j
        PROVE  messages'[i].id < messages'[j].id
    <3>1. i \in 1..n
      BY <1>2, <1>5, <2>2
    <3>2. CASE j \in 1..n
      BY <1>2, <1>5, <2>2, <3>1, <3>2 DEF PageInv, Numbered
    <3>3. CASE j = n + 1
      <4>1. messages'[i].id \in 1..came
        BY <1>5, <1>6, <3>1
      <4>2. messages'[j].id = came + 1
        BY <1>4, <1>5, <3>3
      <4> QED
        BY <1>2, <4>1, <4>2
    <3> QED
      BY <1>7, <3>2, <3>3
  <2> QED
    BY <2>1, <2>2 DEF Numbered
<1>9. /\ get' = get \/ (get.step = "idle" /\ get' = [NoAnswer EXCEPT !.step = "asked"])
      /\ followUp' \in BOOLEAN
      /\ opened.why = "nothing" => get' = get
  BY <1>1 DEF AskAgain, PageInv, PageTypes
<1>10. /\ get' \in PageAnswer
       /\ Newest(get'.shown, get'.of) /\ FirstOnTop(get')
       /\ get' # get => get.step = "idle" /\ get'.step = "asked" /\ get'.shown = <<>>
  <2>1. CASE get' = get
    BY <2>1 DEF PageInv, PageTypes, AnswersHold
  <2>2. CASE get' = [NoAnswer EXCEPT !.step = "asked"] /\ get.step = "idle"
    <3>1. get'.shown = <<>> /\ get'.of = <<>> /\ get'.step = "asked"
      BY <2>2, NothingRead
    <3> QED
      BY <2>2, <3>1, NothingRead
  <2> QED
    BY <1>9, <2>1, <2>2
<1>11. PageTypes'
  BY <1>1, <1>2, <1>5, <1>9, <1>10 DEF PageInv, PageTypes
<1>12. AnswersHold'
  BY <1>1, <1>10 DEF PageInv, AnswersHold
<1>13. FirstLeads'
  <2>1. CASE get' = get
    <3> DEFINE f == [i \in 1..(n + 1) |-> i]
    <3>1. \A i \in 1..(n + 1) : f[i] = i
      OBVIOUS
    <3> HIDE DEF f
    <3>2. came' \in {came, came + 1}
      BY <1>1
    <3>3. \A i \in RowNumbers' : messages'[i].id \in 1..came =>
             /\ f[i] \in RowNumbers
             /\ messages'[i].id = messages[f[i]].id /\ messages'[i].at = messages[f[i]].at
      <4> SUFFICES ASSUME NEW i \in RowNumbers', messages'[i].id \in 1..came
                   PROVE  i \in 1..n
        BY <1>2, <1>5, <3>1
      <4>1. i # n + 1
        BY <1>2, <1>4, <1>5
      <4> QED
        BY <1>7, <4>1
    <3>4. \A i, j \in RowNumbers' : f[j] <= f[i] => j <= i
      BY <1>5, <3>1
    <3> QED
      BY <1>5, <1>8, <2>1, <3>2, <3>3, <3>4, RowsKept
  <2>2. CASE get' # get
    BY <1>10, <2>2 DEF FirstLeads
  <2> QED
    BY <2>1, <2>2
<1>14. StillUnread'
  <2>1. \A i \in RowNumbers : i \in RowNumbers' /\ messages'[i] = messages[i]
    BY <1>2, <1>5
  <2> QED
    BY <1>1, <2>1 DEF PageInv, StillUnread
<1>15. OpenLeads'
  <2>1. get' = get \/ (get'.step = "asked" /\ opened.why # "nothing")
    BY <1>9, <1>10
  <2> QED
    BY <1>1, <2>1 DEF PageInv, OpenLeads
<1> QED
  BY <1>8, <1>11, <1>12, <1>13, <1>14, <1>15 DEF PageInv

LEMMA PageInductive == PageInv /\ [PageNext]_pageVars => PageInv'
<1> SUFFICES ASSUME PageInv, [PageNext]_pageVars PROVE PageInv'
  OBVIOUS
<1>1. ASSUME NEW at \in 1..LastSecond, NEW counts \in BOOLEAN, AppendMessage(at, counts)
      PROVE  PageInv'
  <2>1. at \in Nat
    BY PageAssumption
  <2> QED
    BY <1>1, <2>1, PageKeepsAppend
<1>2. ASSUME NEW t \in 1..LastSecond, ReadElsewhere(t) PROVE PageInv'
  <2>1. t \in Nat
    BY PageAssumption
  <2> QED
    BY <1>2, <2>1, PageKeepsReadElsewhere
<1>3. ASSUME NEW i \in RowNumbers, RemoveMessage(i) PROVE PageInv'
  BY <1>3, PageKeepsRemove
<1>4. ASSUME NEW focused \in BOOLEAN, SelectConversation(focused) PROVE PageInv'
  BY <1>4, PageKeepsSelect
<1>5. CASE MarkConversation
  BY <1>5, PageKeepsMark
<1>6. CASE ReadFirstUnread
  BY <1>6, PageKeepsReadFirstUnread
<1>7. CASE ReadPage
  BY <1>7, PageKeepsReadPage
<1>8. CASE ShowPage
  BY <1>8, PageKeepsShowPage
<1>9. CASE UNCHANGED pageVars
  <2>1. /\ UNCHANGED <<messages, boundary, get, followUp, marking>>
        /\ UNCHANGED <<opened, page, placed, came>>
    BY <1>9 DEF pageVars
  <2>2. RowNumbers' = RowNumbers /\ \A i, j : Precedes(i, j)' <=> Precedes(i, j)
    BY <2>1 DEF RowNumbers, Precedes
  <2>3. PageTypes' /\ Numbered' /\ AnswersHold'
    BY <2>1, <2>2 DEF PageInv, PageTypes, Numbered, AnswersHold
  <2>4. FirstLeads' /\ StillUnread' /\ OpenLeads'
    BY <2>1, <2>2 DEF PageInv, FirstLeads, StillUnread, OpenLeads
  <2> QED
    BY <2>3, <2>4 DEF PageInv
<1> QED
  BY <1>1, <1>2, <1>3, <1>4, <1>5, <1>6, <1>7, <1>8, <1>9 DEF PageNext

LEMMA PageInvSuffices == PageInv => PageIsTrue
<1> SUFFICES ASSUME PageInv PROVE PageIsTrue
  OBVIOUS
<1>1. Newest(page.shown, page.of) => PageIsNewest
  BY DEF Newest, PageIsNewest, OnPage, Row
<1>2. PageIsNewest
  BY <1>1 DEF PageInv, AnswersHold
<1>3. NothingUnreadAbove
  BY DEF PageInv, AnswersHold, FirstOnTop, NothingUnreadAbove
<1>4. OpensAtUnread
  BY DEF PageInv, OpenLeads, OpensAtUnread
<1> QED
  BY <1>2, <1>3, <1>4 DEF PageIsTrue

\* A page shows the newest messages of the moment it was read, in their order;
\* nothing that was unread when its first unread message was read stands above
\* that one, although GetMessages reads the two one after the other; and a chat
\* that had unread messages opens at one of them, but where they had been read
\* or deleted by then.
THEOREM PageFollows == PageSpec => []PageIsTrue
<1>1. PageInit => PageInv
  BY PageStarts
<1>2. PageInv /\ [PageNext]_pageVars => PageInv'
  BY PageInductive
<1>3. PageInv => PageIsTrue
  BY PageInvSuffices
<1> QED
  BY <1>1, <1>2, <1>3, PTL DEF PageSpec

-----------------------------------------------------------------------------
(* What a row shows of its deliveries (messages.rs, database.rs) *)

\* The place of a name among the options.
LEMMA PlaceOf ==
    ASSUME NEW n \in Nat, NEW o, DOMAIN o = 1..n, NEW name
    PROVE  /\ Place(o, name) \in 0..n
           /\ \A i \in 1..n : o[i] = name /\ (\A j \in 1..n : o[j] = name => j = i)
                                => Place(o, name) = i
<1> DEFINE at == {i \in 1..n : o[i] = name}
           R == {p \in Nat \X Nat : p[1] < p[2]}
<1>1. /\ \A i \in at : i \in 1..n /\ i \in Nat /\ o[i] = name
      /\ \A i \in 1..n : o[i] = name => i \in at
  OBVIOUS
<1>2. Place(o, name) = IF at = {} THEN 0 ELSE CHOOSE i \in at : \A j \in at : i <= j
  BY DEF Place
<1> HIDE DEF at
<1>3. ASSUME at # {} PROVE \E i \in at : \A j \in at : i <= j
  <2>1. \A i, j \in Nat : <<i, j>> \in R <=> i < j
    OBVIOUS
  <2> HIDE DEF R
  <2>2. \A i, j, k \in Nat : /\ ~(i < i)
                             /\ i < j /\ j < k => i < k
                             /\ i = j \/ i < j \/ j < i
    OBVIOUS
  <2>3. OrdersAll(R, at)
    BY <1>1, <2>1, <2>2 DEF OrdersAll
  <2>4. IsFiniteSet(at)
    <3>1. IsFiniteSet(1..n)
      BY FS_Interval
    <3>2. at \subseteq 1..n
      BY <1>1
    <3> QED
      BY <3>1, <3>2, FS_Subset
  <2>5. PICK i \in at : \A j \in at \ {i} : <<i, j>> \in R
    BY <1>3, <2>3, <2>4, FirstOf
  <2>6. ASSUME NEW j \in at PROVE i <= j
    <3>1. i \in Nat /\ j \in Nat
      BY <1>1
    <3>2. j = i \/ i < j
      BY <2>1, <2>5, <3>1
    <3> QED
      BY <3>1, <3>2
  <2> QED
    BY <2>6
<1>4. at # {} => Place(o, name) \in at
  BY <1>2, <1>3
<1>5. Place(o, name) \in 0..n
  BY <1>1, <1>2, <1>4
<1>6. ASSUME NEW i \in 1..n, o[i] = name, \A j \in 1..n : o[j] = name => j = i
      PROVE  Place(o, name) = i
  BY <1>1, <1>4, <1>6
<1> QED
  BY <1>5, <1>6

\* The usable names are as many as there are names that are not empty.
LEMMA UsableNames ==
    ASSUME NEW n \in Nat, NEW names, DOMAIN names = 1..n
    PROVE  \E m \in Nat : /\ DOMAIN Usable(names) = 1..m
                          /\ Len(Usable(names)) = m
<1> DEFINE kept == {i \in DOMAIN names : names[i] # NoOption}
           m == Cardinality(kept)
           At(k) == names[CHOOSE i \in kept : Cardinality({j \in kept : j < i}) = k - 1]
<1>1. Usable(names) = [k \in 1..m |-> At(k)]
  BY DEF Usable
<1>2. m \in Nat
  <2>1. IsFiniteSet(1..n)
    BY FS_Interval
  <2>2. kept \subseteq 1..n
    OBVIOUS
  <2> HIDE DEF kept
  <2> QED
    BY <2>1, <2>2, FS_Subset, FS_CardinalityType
<1> HIDE DEF m, At
<1>3. DOMAIN Usable(names) = 1..m
  BY <1>1
<1>4. Len(Usable(names)) = m
  BY <1>1, <1>2
<1> QED
  BY <1>2, <1>3, <1>4

\* Of 1..n, there are k - 1 before k, and only before k.
LEMMA Nth ==
    ASSUME NEW n \in Nat, NEW k \in 1..n
    PROVE  (CHOOSE i \in 1..n : Cardinality({j \in 1..n : j < i}) = k - 1) = k
<1>1. ASSUME NEW i \in 1..n PROVE Cardinality({j \in 1..n : j < i}) = i - 1
  <2>1. {j \in 1..n : j < i} = 1..(i - 1)
    OBVIOUS
  <2>2. i - 1 \in Int /\ i >= 1 /\ 1 \in Int
    OBVIOUS
  <2>3. Cardinality(1..(i - 1)) = IF 1 > i - 1 THEN 0 ELSE i - 1 - 1 + 1
    BY <2>2, FS_Interval
  <2>4. Cardinality(1..(i - 1)) = i - 1
    BY <2>2, <2>3
  <2> QED
    BY <2>1, <2>4
<1> DEFINE r == [i \in 1..n |-> Cardinality({j \in 1..n : j < i})]
<1>2. \A i \in 1..n : r[i] = Cardinality({j \in 1..n : j < i})
  OBVIOUS
<1>3. \A i \in 1..n : r[i] = i - 1
  BY <1>1, <1>2
<1>4. (CHOOSE i \in 1..n : Cardinality({j \in 1..n : j < i}) = k - 1)
        = CHOOSE i \in 1..n : r[i] = k - 1
  BY <1>2
<1> HIDE DEF r
<1>5. (CHOOSE i \in 1..n : r[i] = k - 1) = k
  <2>1. \A i \in 1..n : r[i] = k - 1 <=> i = k
    BY <1>3
  <2> QED
    BY <2>1
<1> QED
  BY <1>4, <1>5

\* Names that are none of them empty are all usable, in their order.
LEMMA AllUsable ==
    ASSUME NEW n \in Nat, NEW names, DOMAIN names = 1..n, \A i \in 1..n : names[i] # NoOption
    PROVE  Usable(names) = [i \in 1..n |-> names[i]]
<1>1. {i \in DOMAIN names : names[i] # NoOption} = 1..n
  OBVIOUS
<1>2. Cardinality(1..n) = n
  <2>1. Cardinality(1..n) = IF 1 > n THEN 0 ELSE n - 1 + 1
    BY FS_Interval
  <2> QED
    BY <2>1
<1> DEFINE kept == {i \in DOMAIN names : names[i] # NoOption}
           Listed(T) == [k \in 1..Cardinality(T) |->
                            names[CHOOSE i \in T : Cardinality({j \in T : j < i}) = k - 1]]
           At(k) == CHOOSE i \in 1..n : Cardinality({j \in 1..n : j < i}) = k - 1
<1>3. Usable(names) = [k \in 1..n |-> names[At(k)]]
  <2>1. Usable(names) = Listed(kept)
    BY DEF Usable
  <2>2. Listed(1..n) = [k \in 1..n |-> names[At(k)]]
    BY <1>2
  <2> HIDE DEF Listed, At, kept
  <2>3. kept = 1..n
    BY <1>1 DEF kept
  <2> QED
    BY <2>1, <2>2, <2>3
<1>4. \A k \in 1..n : At(k) = k
  BY Nth
<1> HIDE DEF At
<1> QED
  BY <1>3, <1>4

\* Named(o): o lists some names.
Named(o) == \E n \in Nat : DOMAIN o = 1..n /\ Len(o) = n

\* A card lists at least two options, its limit and its answer are among them.
CardFits(card) ==
    /\ Len(card.options) \in Nat /\ Len(card.options) >= 2
    /\ card.selectable \in 1..Len(card.options)
    /\ card.answer \in 0..Len(card.options)

LEMMA PollCardFits ==
    ASSUME NEW poll, Named(poll.names), poll.allowed \in Nat, PollCard(poll) # NoPoll
    PROVE  CardFits(PollCard(poll))
<1>1. PICK m \in Nat : DOMAIN Usable(poll.names) = 1..m /\ Len(Usable(poll.names)) = m
  BY UsableNames DEF Named
<1> DEFINE o == Usable(poll.names)
           p == Place(o, poll.right)
           s == CASE poll.allowed = 0 -> Len(o)
                  [] poll.allowed = Unsaid -> 1
                  [] poll.allowed \notin {0, Unsaid} ->
                         IF poll.allowed > Len(o) THEN Len(o) ELSE poll.allowed
           a == IF poll.right = NoOption THEN 0 ELSE p
<1>2. p \in 0..m
  BY <1>1, PlaceOf
<1>3. ~(Len(o) < 2) /\ PollCard(poll) = [options |-> o, selectable |-> s, answer |-> a]
  BY DEF PollCard
<1>4. s \in 1..m
  <2> HIDE DEF o
  <2> QED
    BY <1>1, <1>3 DEF Unsaid, o
<1>5. a \in 0..m
  BY <1>1, <1>2
<1> HIDE DEF o, p, s, a
<1> QED
  BY <1>1, <1>3, <1>4, <1>5 DEF CardFits, o

\* An own poll comes back as the card that was stored for it.
LEMMA OwnPoll ==
    ASSUME NEW request \in Asked, Accepted(request), NEW poll \in OnTheWire(request)
    PROVE  /\ Named(poll.names) /\ poll.allowed \in Nat
           /\ PollCard(poll) = OwnCard(request) /\ PollCard(poll) # NoPoll
<1> DEFINE names == request.names
           own == OwnCard(request)
<1>1. PICK n \in Nat : DOMAIN names = 1..n /\ names = [i \in 1..n |-> names[i]] /\ Len(names) = n
  <2>1. PICK k \in 0..3 : names \in [1..k -> {"a", "b", NoOption}]
    BY DEF Asked
  <2> HIDE DEF names
  <2>2. k \in Nat
    OBVIOUS
  <2>3. DOMAIN names = 1..k /\ names = [i \in 1..k |-> names[i]]
    BY <2>1
  <2>4. Len(names) = k
    BY <2>2, <2>3
  <2> QED
    BY <2>2, <2>3, <2>4
<1>2. /\ n >= 2 /\ \A i \in 1..n : names[i] # NoOption
      /\ \A i, j \in 1..n : names[i] = names[j] => i = j
      /\ IF request.right > 0 THEN request.right \in 1..n ELSE request.allowed \in 1..n
  BY <1>1 DEF Accepted, IsInjective
<1>3. request.right \in Nat /\ request.allowed \in 0..3
  BY DEF Asked
<1>4. own = [options |-> names, answer |-> request.right,
             selectable |-> IF request.right > 0 THEN 1 ELSE request.allowed]
  BY DEF OwnCard
<1>5. PICK z \in {own.selectable}
               \cup (IF request.right = 0 /\ request.allowed = Len(names) THEN {0} ELSE {}) :
         poll = [names |-> names, allowed |-> z,
                 right |-> IF request.right > 0 THEN names[request.right] ELSE NoOption]
  BY DEF OnTheWire
<1>6. own.options = names /\ own.answer = request.right
      /\ own.selectable = IF request.right > 0 THEN 1 ELSE request.allowed
  BY <1>4
<1> HIDE DEF own, names
<1>7. /\ poll.names = names /\ poll.allowed = z
      /\ poll.right = IF request.right > 0 THEN names[request.right] ELSE NoOption
  BY <1>5
<1>8. z = own.selectable \/ (request.right = 0 /\ request.allowed = n /\ z = 0)
  BY <1>1, <1>5
<1>9. z \in Nat /\ (request.right > 0 => own.selectable = 1)
      /\ (request.right = 0 => own.selectable = request.allowed)
  BY <1>3, <1>6, <1>8
<1>10. Usable(names) = names
  BY <1>1, <1>2, AllUsable
<1>11. (IF poll.right = NoOption THEN 0 ELSE Place(names, poll.right)) = request.right
  <2>1. CASE request.right > 0
    <3>1. request.right \in 1..n /\ poll.right = names[request.right] /\ poll.right # NoOption
      BY <1>2, <1>7, <2>1
    <3>2. \A j \in 1..n : names[j] = poll.right => j = request.right
      BY <1>2, <3>1
    <3>3. Place(names, poll.right) = request.right
      BY <1>1, <3>1, <3>2, PlaceOf
    <3> QED
      BY <3>1, <3>3
  <2>2. CASE ~(request.right > 0)
    BY <1>3, <1>7, <2>2
  <2> QED
    BY <2>1, <2>2
<1> DEFINE Limit(o) == CASE poll.allowed = 0 -> Len(o)
                         [] poll.allowed = Unsaid -> 1
                         [] poll.allowed \notin {0, Unsaid} ->
                                IF poll.allowed > Len(o) THEN Len(o) ELSE poll.allowed
           Right(o) == IF poll.right = NoOption THEN 0 ELSE Place(o, poll.right)
           Card(o) == [options |-> o, selectable |-> Limit(o), answer |-> Right(o)]
           s == Limit(names)
           a == Right(names)
<1>12. s = own.selectable
  BY <1>1, <1>2, <1>3, <1>7, <1>8, <1>9 DEF Unsaid
<1>13. PollCard(poll) = [options |-> names, selectable |-> s, answer |-> a]
  <2>1. PollCard(poll) = IF Len(Usable(poll.names)) < 2 THEN NoPoll ELSE Card(Usable(poll.names))
    BY DEF PollCard
  <2>2. Card(names) = [options |-> names, selectable |-> s, answer |-> a]
    OBVIOUS
  <2> HIDE DEF Limit, Right, Card, s, a
  <2>3. Usable(poll.names) = names /\ ~(Len(names) < 2)
    BY <1>1, <1>2, <1>7, <1>10
  <2> QED
    BY <2>1, <2>2, <2>3
<1> HIDE DEF Limit, Right, Card, s, a
<1>14. a = request.right
  BY <1>11 DEF a, Right
<1>15. PollCard(poll) = own
  BY <1>4, <1>6, <1>12, <1>13, <1>14
<1>16. PollCard(poll) # NoPoll
  <2>1. NoPoll.options = <<>> /\ Len(<<>>) = 0
    BY DEF NoPoll
  <2> QED
    BY <1>1, <1>2, <1>13, <2>1
<1> QED
  BY <1>1, <1>7, <1>9, <1>15, <1>16 DEF own, Named

Bodies == {"text", "image", "gif", "location", "live", "poll", "reaction"}

WireOK ==
    /\ wire.body \in Bodies /\ wire.thumb \in BOOLEAN /\ wire.minutes \in Nat
    /\ wire.body # "live" => wire.minutes = 0
    /\ Named(wire.poll.names) /\ wire.poll.allowed \in Nat

(* The media of a message: what kind, and what a kind has. *)
IsLocated == wire.body \in {"location", "live"}
IsCard == wire.body = "poll" /\ PollCard(wire.poll) # NoPoll
MediaKind ==
    IF IsCard THEN "poll"
    ELSE IF IsLocated THEN "location"
    ELSE IF wire.body \in {"image", "gif"} THEN wire.body ELSE "none"
MediaCard == IF IsCard THEN PollCard(wire.poll) ELSE NoPoll

Media(thumb, live, minutes, votes) ==
    [kind |-> MediaKind, thumb |-> IsLocated /\ thumb, live |-> live,
     minutes |-> IF IsLocated THEN minutes ELSE 0, card |-> MediaCard, votes |-> votes]

LEMMA MediaOfWire ==
    ASSUME NEW n \in Nat, WireOK
    PROVE  MediaOf(wire, n) = Media(wire.thumb, wire.body = "live", n, 0)
<1>1. CASE IsCard
  BY <1>1 DEF MediaOf, Media, MediaKind, MediaCard, IsCard, IsLocated, NoMedia
<1>2. CASE IsLocated
  BY <1>2, WireOK DEF MediaOf, Media, MediaKind, MediaCard, IsCard, IsLocated, NoMedia, WireOK
<1>3. CASE wire.body \in {"image", "gif"}
  BY <1>3 DEF MediaOf, Media, MediaKind, MediaCard, IsCard, IsLocated, NoMedia
<1>4. CASE ~IsCard /\ ~IsLocated /\ wire.body \notin {"image", "gif"}
  BY <1>4 DEF MediaOf, Media, MediaKind, MediaCard, IsCard, IsLocated, NoMedia
<1> QED
  BY <1>1, <1>2, <1>3, <1>4

LEMMA NoMediaIs == MediaKind = "none" => NoMedia = Media(FALSE, FALSE, 0, 0)
  BY DEF Media, MediaKind, MediaCard, IsCard, IsLocated, NoMedia

\* Nothing said of the media leaves them; a first word on them is taken.
LEMMA MergesNothing ==
    /\ \A m : MergedMedia(m, NoMedia) = m
    /\ \A t, l, n : MediaKind # "none" =>
          MergedMedia(NoMedia, Media(t, l, n, 0)) = Media(t, l, n, 0)
<1>1. \A m : MergedMedia(m, NoMedia) = m
  BY DEF MergedMedia, NoMedia
<1>2. ASSUME NEW t, NEW l, NEW n, MediaKind # "none"
      PROVE  MergedMedia(NoMedia, Media(t, l, n, 0)) = Media(t, l, n, 0)
  BY <1>2 DEF MergedMedia, NoMedia, Media
<1> QED
  BY <1>1, <1>2

\* A record of media with its fields set.
Fields(kd, th, lv, mi, c, v) ==
    [kind |-> kd, thumb |-> th, live |-> lv, minutes |-> mi, card |-> c, votes |-> v]

\* The media of two deliveries of one message are merged.
LEMMA Merges ==
    ASSUME NEW t \in BOOLEAN, NEW u \in BOOLEAN, NEW l \in BOOLEAN, NEW k \in BOOLEAN,
           NEW n \in Nat, NEW m \in Nat, NEW v \in Nat, IsLocated => v = 0
    PROVE  MergedMedia(Media(t, l, n, v), Media(u, k, m, 0)) =
              IF MediaKind = "none" THEN Media(t, l, n, v)
              ELSE Media(t \/ u, k, IF m = 0 THEN n ELSE m, v)
<1>1. CASE MediaKind = "none"
  BY <1>1 DEF MergedMedia, Media
<1>2. CASE MediaKind # "none" /\ IsLocated
  <2>1. MediaKind = "location" /\ v = 0
    BY <1>2 DEF MediaKind, IsLocated, IsCard
  <2> DEFINE old == Media(t, l, n, v)
             new == Media(u, k, m, 0)
  <2>2. /\ old.kind = "location" /\ old.thumb = t /\ old.minutes = n
        /\ new.kind = "location" /\ new.thumb = u /\ new.minutes = m
        /\ new = Fields("location", u, k, m, MediaCard, 0)
    BY <1>2, <2>1 DEF Media, Fields
  <2>3. Media(t \/ u, k, IF m = 0 THEN n ELSE m, v)
          = Fields("location", t \/ u, k, IF m = 0 THEN n ELSE m, MediaCard, 0)
    BY <1>2, <2>1 DEF Media, Fields
  <2> HIDE DEF old, new
  <2> DEFINE th == old.thumb \/ new.thumb
             mi == IF new.minutes = 0 THEN old.minutes ELSE new.minutes
  <2>4. MergedMedia(old, new) = [new EXCEPT !.thumb = th, !.minutes = mi]
    BY <2>2 DEF MergedMedia
  <2>5. th = (t \/ u) /\ mi = IF m = 0 THEN n ELSE m
    BY <2>2
  <2> HIDE DEF th, mi
  <2>6. MergedMedia(old, new) = Fields("location", th, k, mi, MediaCard, 0)
    <3> DEFINE r == [new EXCEPT !.thumb = th]
    <3>1. new = Fields("location", u, k, m, MediaCard, 0)
      BY <2>2
    <3>2. r = Fields("location", th, k, m, MediaCard, 0)
      BY <3>1 DEF Fields
    <3>3. MergedMedia(old, new) = [r EXCEPT !.minutes = mi]
      BY <2>4
    <3> HIDE DEF r
    <3>4. [r EXCEPT !.minutes = mi] = Fields("location", th, k, mi, MediaCard, 0)
      BY <3>2 DEF Fields
    <3> QED
      BY <3>3, <3>4
  <2> QED
    BY <1>2, <2>1, <2>3, <2>5, <2>6 DEF old, new
<1>3. CASE MediaKind # "none" /\ ~IsLocated
  <2>1. MediaKind # "location"
    BY <1>3 DEF MediaKind, IsLocated, IsCard
  <2> QED
    BY <1>3, <2>1 DEF MergedMedia, Media
<1> QED
  BY <1>1, <1>2, <1>3

(* What the deliveries so far said. *)
Heard == got \ {"reaction"}
Whole == got \ {"bare", "reaction"}
HasThumb == wire.thumb /\ got \cap {"live", "history"} # {}
IsLive == wire.body = "live" /\ ("final" \notin got \/ reopened)
Minutes == IF got \cap {"history", "final"} # {} THEN wire.minutes ELSE 0
Votes == IF ballots THEN 1 ELSE 0

GotOK ==
    /\ got \subseteq {"bare", "live", "history", "final", "own", "reaction"}
    /\ over \in BOOLEAN /\ blank \in BOOLEAN /\ reopened \in BOOLEAN /\ ballots \in BOOLEAN
    /\ over => wire.body = "live"
    /\ "final" \in got => over
    /\ IF IsReaction(wire) THEN got \subseteq {"reaction"} ELSE "reaction" \notin got

\* The first delivery makes the row, and it is blank if that was without the body.
RowOK ==
    /\ row = [text |-> row.text, quote |-> row.quote, media |-> row.media]
    /\ IF Heard = {} THEN row = NoContent ELSE row.text # "none"
    /\ blank => Heard # {}
    /\ Heard # {} /\ ~blank => Whole # {}

TextOK ==
    /\ Heard # {} /\ ~blank => row.text = TextOf(wire) /\ (row.quote <=> Quoted(wire))
    /\ blank => row.text = IF wire.body = "gif" /\ Whole # {} THEN "[GIF]" ELSE Placeholder(wire)

\* Only deliveries with the body say what the media are, and only a poll has votes.
MediaOK ==
    /\ IF Whole = {} THEN row.media = NoMedia /\ ~ballots
       ELSE row.media = Media(HasThumb, IsLive, Minutes, Votes)
    /\ ballots => MediaKind = "poll"

ContentInv == WireOK /\ GotOK /\ RowOK /\ TextOK /\ MediaOK

\* What a delivery with the body says.
LEMMA WholeContent ==
    ASSUME WireOK, NEW form \in {"live", "history", "final"}
    PROVE  /\ Content(form).text = TextOf(wire) /\ (Content(form).quote <=> Quoted(wire))
           /\ Content(form).media = Media(wire.thumb /\ form # "final",
                                          wire.body = "live" /\ form # "final",
                                          IF form = "live" THEN 0 ELSE wire.minutes, 0)
           /\ Content(form) = [text |-> Content(form).text, quote |-> Content(form).quote,
                               media |-> Content(form).media]
<1>1. CASE form = "live"
  <2>1. MediaOf(wire, 0) = Media(wire.thumb, wire.body = "live", 0, 0)
    BY MediaOfWire
  <2>2. Content(form) = [text |-> TextOf(wire), quote |-> Quoted(wire), media |-> MediaOf(wire, 0)]
    BY <1>1 DEF Content
  <2>3. Media(wire.thumb, wire.body = "live", 0, 0)
          = Media(wire.thumb /\ form # "final", wire.body = "live" /\ form # "final",
                  IF form = "live" THEN 0 ELSE wire.minutes, 0)
    BY <1>1 DEF Media, WireOK
  <2> QED
    BY <2>1, <2>2, <2>3
<1>2. CASE form = "history"
  <2>1. MediaOf(wire, wire.minutes) = Media(wire.thumb, wire.body = "live", wire.minutes, 0)
    BY MediaOfWire DEF WireOK
  <2>2. Content(form)
          = [text |-> TextOf(wire), quote |-> Quoted(wire), media |-> MediaOf(wire, wire.minutes)]
    BY <1>2 DEF Content
  <2>3. Media(wire.thumb, wire.body = "live", wire.minutes, 0)
          = Media(wire.thumb /\ form # "final", wire.body = "live" /\ form # "final",
                  IF form = "live" THEN 0 ELSE wire.minutes, 0)
    BY <1>2 DEF Media, WireOK
  <2> QED
    BY <2>1, <2>2, <2>3
<1>3. CASE form = "final"
  <2> DEFINE m == MediaOf(wire, wire.minutes)
  <2>1. m = Media(wire.thumb, wire.body = "live", wire.minutes, 0)
    BY MediaOfWire DEF WireOK
  <2>2. Content(form) = [text |-> TextOf(wire), quote |-> Quoted(wire),
                         media |-> [m EXCEPT !.live = FALSE, !.thumb = FALSE]]
    BY <1>3 DEF Content
  <2> HIDE DEF m
  <2>3. [m EXCEPT !.live = FALSE, !.thumb = FALSE] = Media(FALSE, FALSE, wire.minutes, 0)
    <3> DEFINE n == IF IsLocated THEN wire.minutes ELSE 0
               th == IsLocated /\ wire.thumb
               lv == wire.body = "live"
               no == FALSE
               r == [m EXCEPT !.live = no]
               q == [r EXCEPT !.thumb = no]
    <3>1. m = Fields(MediaKind, th, lv, n, MediaCard, 0)
      <4>1. Media(wire.thumb, wire.body = "live", wire.minutes, 0)
              = Fields(MediaKind, th, lv, n, MediaCard, 0)
        BY Zenon DEF Media, Fields
      <4> QED
        BY <2>1, <4>1
    <3>2. Fields(MediaKind, no, no, n, MediaCard, 0) = Media(FALSE, FALSE, wire.minutes, 0)
      <4>1. (IsLocated /\ FALSE) = FALSE
        OBVIOUS
      <4> QED
        BY <4>1, Zenon DEF Media, Fields
    <3>3. [m EXCEPT !.live = FALSE, !.thumb = FALSE] = q
      OBVIOUS
    <3> HIDE DEF n, th, lv, no
    <3>4. r = Fields(MediaKind, th, no, n, MediaCard, 0)
      BY <3>1 DEF Fields
    <3> HIDE DEF r
    <3>5. q = Fields(MediaKind, no, no, n, MediaCard, 0)
      BY <3>4 DEF Fields
    <3> QED
      BY <3>2, <3>3, <3>5
  <2>4. Media(FALSE, FALSE, wire.minutes, 0)
          = Media(wire.thumb /\ form # "final", wire.body = "live" /\ form # "final",
                  IF form = "live" THEN 0 ELSE wire.minutes, 0)
    BY <1>3 DEF Media
  <2>5. /\ Content(form).text = TextOf(wire) /\ Content(form).quote = Quoted(wire)
        /\ Content(form).media = [m EXCEPT !.live = FALSE, !.thumb = FALSE]
        /\ Content(form) = [text |-> Content(form).text, quote |-> Content(form).quote,
                            media |-> Content(form).media]
    BY <2>2
  <2> QED
    BY <2>3, <2>4, <2>5
<1> QED
  BY <1>1, <1>2, <1>3

\* The text of a GIF is its own label, and not that of a video.
LEMMA GifLabels ==
    wire.body = "gif" => Placeholder(wire) = "[Video]" /\ TextOf(wire) # "[Video]"
  BY DEF Placeholder, TextOf

\* The row's media after another delivery with the body.
LEMMA MediaMerged ==
    ASSUME ContentInv, Heard # {}, NEW form \in {"live", "history", "final"}, ~IsReaction(wire),
           form \in {"history", "final"} => (form = "final") = over,
           got' = got \cup {form},
           reopened' = (form # "final" /\ (reopened \/ (form = "live" /\ "final" \in got))),
           UNCHANGED <<wire, over, ballots>>
    PROVE  MergedMedia(row.media, Content(form).media)
              = Media(HasThumb, IsLive, Minutes, Votes)'
<1> DEFINE u == wire.thumb /\ form # "final"
           k == wire.body = "live" /\ form # "final"
           m == IF form = "live" THEN 0 ELSE wire.minutes
<1>1. Content(form).media = Media(u, k, m, 0)
  BY WholeContent DEF ContentInv
<1>2. /\ u \in BOOLEAN /\ k \in BOOLEAN /\ m \in Nat /\ wire.minutes \in Nat
      /\ wire.thumb \in BOOLEAN /\ reopened \in BOOLEAN /\ ballots \in BOOLEAN
      /\ wire.body # "live" => wire.minutes = 0
  BY DEF ContentInv, WireOK, GotOK
<1>3. /\ HasThumb \in BOOLEAN /\ IsLive \in BOOLEAN /\ Minutes \in Nat /\ Votes \in Nat
      /\ IsLocated => Votes = 0
  BY <1>2 DEF HasThumb, IsLive, Minutes, Votes, ContentInv, MediaOK, MediaKind, IsLocated, IsCard
<1>4. Media(HasThumb, IsLive, Minutes, Votes)'
         = Fields(MediaKind, IsLocated /\ HasThumb', IsLive',
                  IF IsLocated THEN Minutes' ELSE 0, MediaCard, Votes)
  BY Zenon DEF Media, MediaKind, MediaCard, IsCard, IsLocated, Votes, Fields
<1>5. HasThumb' = (HasThumb \/ u) /\ IsLive' = k
  <2>1. HasThumb' = (HasThumb \/ u)
    BY DEF HasThumb
  <2>2. IsLive' = k
    BY DEF IsLive, ContentInv, GotOK
  <2> QED
    BY <2>1, <2>2
<1>6. Minutes' = IF m = 0 THEN Minutes ELSE m
  BY <1>2 DEF Minutes
<1>7. MediaKind = "none" => ~IsLocated /\ ~k /\ ~IsLive
  BY DEF MediaKind, IsLocated, IsCard, IsLive
<1> DEFINE w == HasThumb \/ u
           n == IF m = 0 THEN Minutes ELSE m
<1>8. Media(HasThumb, IsLive, Minutes, Votes)' = Media(w, k, n, Votes)
  BY <1>4, <1>5, <1>6, Zenon DEF Media, Fields
<1>9. ASSUME MediaKind = "none"
      PROVE  /\ Media(FALSE, FALSE, 0, 0) = Media(w, k, n, 0)
             /\ Media(HasThumb, FALSE, Minutes, Votes) = Media(w, k, n, Votes)
  <2> DEFINE none == IsLocated /\ w
  <2>1. /\ (IsLocated /\ FALSE) = none /\ (IsLocated /\ HasThumb) = none /\ k = FALSE
        /\ (IF IsLocated THEN n ELSE 0) = 0 /\ (IF IsLocated THEN Minutes ELSE 0) = 0
        /\ (IF IsLocated THEN 0 ELSE 0) = 0
    BY <1>7, <1>9
  <2>2. \A v : Media(w, k, n, v) = Fields(MediaKind, none, FALSE, 0, MediaCard, v)
    BY <2>1, Zenon DEF Media, Fields
  <2>3. \A v : Media(FALSE, FALSE, 0, v) = Fields(MediaKind, none, FALSE, 0, MediaCard, v)
    BY <2>1, Zenon DEF Media, Fields
  <2>4. \A v : Media(HasThumb, FALSE, Minutes, v) = Fields(MediaKind, none, FALSE, 0, MediaCard, v)
    BY <2>1, Zenon DEF Media, Fields
  <2> HIDE DEF none, w, k, n
  <2> QED
    BY <2>2, <2>3, <2>4, Zenon
<1> HIDE DEF u, k, m
<1>10. CASE Whole = {}
  <2>1. row.media = NoMedia /\ Votes = 0
    BY <1>10 DEF ContentInv, MediaOK, Votes
  <2>2. ~HasThumb /\ Minutes = 0
    BY <1>10 DEF HasThumb, Minutes, Whole
  <2>3. w = u /\ n = m
    BY <1>2, <2>2
  <2>4. CASE MediaKind # "none"
    BY <1>1, <1>8, <2>1, <2>3, <2>4, MergesNothing
  <2>5. CASE MediaKind = "none"
    <3>1. MergedMedia(row.media, Content(form).media) = NoMedia
      BY <1>1, <2>1, <2>5 DEF MergedMedia, Media
    <3>2. NoMedia = Media(FALSE, FALSE, 0, 0)
      BY <2>5, NoMediaIs
    <3> HIDE DEF w, n
    <3>3. Media(FALSE, FALSE, 0, 0) = Media(w, k, n, 0)
      BY <1>9, <2>5, Zenon
    <3>4. Media(w, k, n, 0) = Media(w, k, n, Votes)
      BY <2>1, Zenon
    <3> QED
      BY <1>8, <3>1, <3>2, <3>3, <3>4
  <2> QED
    BY <2>4, <2>5
<1>11. CASE Whole # {}
  <2>1. row.media = Media(HasThumb, IsLive, Minutes, Votes)
    BY <1>11 DEF ContentInv, MediaOK
  <2>2. MergedMedia(row.media, Content(form).media)
          = IF MediaKind = "none" THEN Media(HasThumb, IsLive, Minutes, Votes)
            ELSE Media(w, k, n, Votes)
    <3> DEFINE Flags == BOOLEAN
    <3>1. /\ HasThumb \in Flags /\ IsLive \in Flags /\ u \in Flags /\ k \in Flags
          /\ Minutes \in Nat /\ m \in Nat /\ Votes \in Nat
      BY <1>2, <1>3, Zenon
    <3>2. IsLocated => Votes = 0
      BY <1>3, Zenon
    <3> DEFINE Sum(t, d, l, e, i, j, v) ==
                 MergedMedia(Media(t, l, i, v), Media(d, e, j, 0))
                   = IF MediaKind = "none" THEN Media(t, l, i, v)
                     ELSE Media(t \/ d, e, IF j = 0 THEN i ELSE j, v)
    <3>3. \A t, d, l, e \in Flags : \A i, j, v \in Nat :
             (IsLocated => v = 0) => Sum(t, d, l, e, i, j, v)
      BY Merges, Zenon
    <3>4. Sum(HasThumb, u, IsLive, k, Minutes, m, Votes)
      <4> HIDE DEF Sum, Flags
      <4> QED
        BY <3>1, <3>2, <3>3, Zenon
    <3>5. MergedMedia(Media(HasThumb, IsLive, Minutes, Votes), Media(u, k, m, 0))
            = IF MediaKind = "none" THEN Media(HasThumb, IsLive, Minutes, Votes)
              ELSE Media(HasThumb \/ u, k, IF m = 0 THEN Minutes ELSE m, Votes)
      BY <3>4
    <3> QED
      BY <1>1, <2>1, <3>5, Zenon
  <2>3. MediaKind = "none"
          => Media(HasThumb, IsLive, Minutes, Votes) = Media(w, k, n, Votes)
    <3>1. MediaKind = "none" => IsLive = FALSE
      BY <1>3, <1>7
    <3>2. MediaKind = "none"
            => Media(HasThumb, FALSE, Minutes, Votes) = Media(w, k, n, Votes)
      <4> HIDE DEF w, n
      <4> QED
        BY <1>9, Zenon
    <3> HIDE DEF w, n
    <3> QED
      BY <3>1, <3>2, Zenon
  <2> QED
    BY <1>8, <2>2, <2>3
<1> QED
  BY <1>10, <1>11

LEMMA TupleNames ==
    /\ Named(<<>>) /\ Named(<<"a", "b">>) /\ Named(<<"a", NoOption>>) /\ Named(<<"a", "b", "a">>)
<1>1. DOMAIN <<>> = 1..0 /\ Len(<<>>) = 0 /\ 0 \in Nat
  OBVIOUS
<1>2. DOMAIN <<"a", "b">> = 1..2 /\ Len(<<"a", "b">>) = 2 /\ 2 \in Nat
  OBVIOUS
<1>3. DOMAIN <<"a", NoOption>> = 1..2 /\ Len(<<"a", NoOption>>) = 2
  OBVIOUS
<1>4. DOMAIN <<"a", "b", "a">> = 1..3 /\ Len(<<"a", "b", "a">>) = 3 /\ 3 \in Nat
  OBVIOUS
<1> QED
  BY <1>1, <1>2, <1>3, <1>4 DEF Named

LEMMA WiresAreOK == wire \in Wires => WireOK
<1> SUFFICES ASSUME wire \in Wires PROVE WireOK
  OBVIOUS
<1> DEFINE W(b) == [body |-> b, caption |-> FALSE, quote |-> "none", thumb |-> FALSE,
                    minutes |-> 0, poll |-> NoBallot, depth |-> 0]
<1>0. /\ Named(NoBallot.names) /\ NoBallot.allowed \in Nat
  BY TupleNames DEF NoBallot, Unsaid
<1>1. ASSUME NEW b \in {"text", "image", "gif", "location"}, NEW c \in BOOLEAN,
             NEW q \in {"none", "part", "whole"},
             wire = Captioned(b, c, q)
      PROVE  WireOK
  <2>1. PICK p : p = Wire(b)
    OBVIOUS
  <2>2. PICK t : t = (q = "whole")
    OBVIOUS
  <2>3. wire = [p EXCEPT !.caption = c, !.quote = q, !.thumb = t]
    BY <1>1, <2>1, <2>2 DEF Captioned
  <2>4. p = W(b) /\ t \in BOOLEAN
    BY <2>1, <2>2 DEF Wire
  <2>5. wire.body = b /\ wire.thumb = t /\ wire.minutes = 0 /\ wire.poll = NoBallot
    BY <2>3, <2>4
  <2>6. Named(wire.poll.names) /\ wire.poll.allowed \in Nat
    BY <1>0, <2>5, Zenon
  <2> QED
    BY <2>4, <2>5, <2>6 DEF WireOK, Bodies
<1>2. ASSUME NEW n \in {0, 5}, NEW t \in BOOLEAN,
             wire = Shared(n, t)
      PROVE  WireOK
  <2>1. PICK p : p = Wire("live")
    OBVIOUS
  <2>2. wire = [p EXCEPT !.minutes = n, !.thumb = t]
    BY <1>2, <2>1 DEF Shared
  <2>3. p = W("live")
    BY <2>1 DEF Wire
  <2>4. wire.body = "live" /\ wire.thumb = t /\ wire.minutes = n /\ wire.poll = NoBallot
    BY <2>2, <2>3
  <2>5. Named(wire.poll.names) /\ wire.poll.allowed \in Nat
    BY <1>0, <2>4, Zenon
  <2>6. wire.thumb \in BOOLEAN
    BY <2>4, Zenon
  <2>7. wire.body \in Bodies /\ wire.minutes \in Nat /\ (wire.body # "live" => wire.minutes = 0)
    BY <2>4 DEF Bodies
  <2> QED
    BY <2>5, <2>6, <2>7, Zenon DEF WireOK
<1>3. ASSUME NEW q \in [names : {<<"a", "b">>, <<"a", NoOption>>, <<"a", "b", "a">>},
                         allowed : {0, 1, 5, Unsaid}, right : {NoOption, "b", "c"}],
             wire = Polled(q)
      PROVE  WireOK
  <2>1. PICK p : p = Wire("poll")
    OBVIOUS
  <2>3. wire = [p EXCEPT !.poll = q]
    BY <1>3, <2>1 DEF Polled
  <2>4. p = W("poll")
    BY <2>1 DEF Wire
  <2>5. wire.body = "poll" /\ wire.thumb = FALSE /\ wire.minutes = 0 /\ wire.poll = q
    BY <2>3, <2>4
  <2>6. Named(q.names) /\ q.allowed \in Nat
    <3>1. q.names \in {<<"a", "b">>, <<"a", NoOption>>, <<"a", "b", "a">>}
      OBVIOUS
    <3>2. Named(q.names)
      BY <3>1, TupleNames
    <3>3. q.allowed \in Nat
      BY DEF Unsaid
    <3> QED
      BY <3>2, <3>3
  <2>7. Named(wire.poll.names) /\ wire.poll.allowed \in Nat
    BY <2>5, <2>6, Zenon
  <2>8. wire.thumb \in BOOLEAN
    BY <2>5, Zenon
  <2>9. wire.body \in Bodies /\ wire.minutes \in Nat /\ wire.minutes = 0
    BY <2>5 DEF Bodies
  <2> QED
    BY <2>7, <2>8, <2>9, Zenon DEF WireOK
<1>4. ASSUME NEW d \in {0, 15, 16}, wire = Reacting(d)
      PROVE  WireOK
  <2>1. PICK p : p = Wire("reaction")
    OBVIOUS
  <2>2. wire = [p EXCEPT !.depth = d]
    BY <1>4, <2>1 DEF Reacting
  <2>3. p = W("reaction")
    BY <2>1 DEF Wire
  <2>4. wire.body = "reaction" /\ wire.thumb = FALSE /\ wire.minutes = 0 /\ wire.poll = NoBallot
    BY <2>2, <2>3
  <2>5. Named(wire.poll.names) /\ wire.poll.allowed \in Nat
    BY <1>0, <2>4, Zenon
  <2>6. wire.thumb \in BOOLEAN
    BY <2>4, Zenon
  <2>7. wire.body \in Bodies /\ wire.minutes \in Nat /\ (wire.body # "live" => wire.minutes = 0)
    BY <2>4 DEF Bodies
  <2> QED
    BY <2>5, <2>6, <2>7, Zenon DEF WireOK
<1> DEFINE A == {Captioned(b, c, q) : b \in {"text", "image", "gif", "location"}, c \in BOOLEAN,
                                  q \in {"none", "part", "whole"}}
           B == {Shared(n, t) : n \in {0, 5}, t \in BOOLEAN}
           L == [names : {<<"a", "b">>, <<"a", NoOption>>, <<"a", "b", "a">>},
                 allowed : {0, 1, 5, Unsaid}, right : {NoOption, "b", "c"}]
           C == {Polled(q) : q \in L}
           D == {Reacting(d) : d \in {0, 15, 16}}
<1>5. wire \in A \cup B \cup C \cup D
  BY DEF Wires
<1> HIDE DEF W
<1>6. wire \in A => WireOK
  BY <1>1
<1>7. wire \in B => WireOK
  BY <1>2
<1>8. wire \in C => WireOK
  BY <1>3
<1>9. wire \in D => WireOK
  BY <1>4
<1> HIDE DEF A, B, C, D
<1> QED
  BY <1>5, <1>6, <1>7, <1>8, <1>9

LEMMA ContentStarts == ContentInit => ContentInv
<1> SUFFICES ASSUME ContentInit PROVE ContentInv
  OBVIOUS
<1>0. over = FALSE /\ blank = FALSE /\ reopened = FALSE /\ ballots = FALSE
  BY DEF ContentInit
<1>1. CASE wire \in Wires /\ row = NoContent /\ got = {}
  <2>1. WireOK
    BY <1>1, WiresAreOK
  <2>2. row.media = NoMedia /\ row = [text |-> row.text, quote |-> row.quote, media |-> row.media]
    BY <1>1 DEF NoContent
  <2> QED
    BY <1>0, <1>1, <2>1, <2>2
       DEF ContentInv, GotOK, RowOK, TextOK, MediaOK, Heard, Whole, IsReaction
<1>2. ASSUME NEW request \in Asked, Accepted(request), NEW poll \in OnTheWire(request),
             wire = Polled(poll),
             row = [text |-> "[Poll] name", quote |-> FALSE,
                    media |-> [NoMedia EXCEPT !.kind = "poll", !.card = OwnCard(request)]],
             got = {"own"}
      PROVE  ContentInv
  <2>1. /\ Named(poll.names) /\ poll.allowed \in Nat
        /\ PollCard(poll) = OwnCard(request) /\ PollCard(poll) # NoPoll
    BY <1>2, OwnPoll
  <2>2. /\ wire.body = "poll" /\ wire.poll = poll /\ wire.caption = FALSE
        /\ wire.quote = "none" /\ wire.thumb = FALSE /\ wire.minutes = 0
    <3>1. PICK p : p = Wire("poll")
      OBVIOUS
    <3>2. wire = [p EXCEPT !.poll = poll]
      BY <1>2, <3>1 DEF Polled
    <3>3. /\ p.body = "poll" /\ p.caption = FALSE /\ p.quote = "none" /\ p.thumb = FALSE
          /\ p.minutes = 0 /\ "poll" \in DOMAIN p
      BY <3>1 DEF Wire
    <3> QED
      BY <3>2, <3>3
  <2>3. WireOK
    <3>1. Named(wire.poll.names) /\ wire.poll.allowed \in Nat
      BY <2>1, <2>2, Zenon
    <3>2. wire.thumb \in BOOLEAN
      BY <2>2, Zenon
    <3>3. wire.body \in Bodies /\ wire.minutes \in Nat /\ wire.minutes = 0
      BY <2>2 DEF Bodies
    <3> QED
      BY <3>1, <3>2, <3>3, Zenon DEF WireOK
  <2>4. /\ row.text = "[Poll] name" /\ row.quote = FALSE
        /\ row.media = [NoMedia EXCEPT !.kind = "poll", !.card = OwnCard(request)]
        /\ row = [text |-> row.text, quote |-> row.quote, media |-> row.media]
    BY <1>2
  <2>5. row.media = Media(HasThumb, IsLive, Minutes, Votes)
    <3> DEFINE no == FALSE
               none == NoMedia
               card == OwnCard(request)
               r == [none EXCEPT !.kind = "poll"]
    <3>1. none = Fields("none", no, no, 0, NoPoll, 0)
      BY Zenon DEF NoMedia, Fields
    <3>2. /\ (IsLocated /\ HasThumb) = no /\ IsLive = no /\ Votes = 0 /\ MediaKind = "poll"
          /\ (IF IsLocated THEN Minutes ELSE 0) = 0 /\ MediaCard = card
      BY <1>0, <2>1, <2>2 DEF IsLocated, IsLive, Votes, MediaKind, MediaCard, IsCard
    <3>3. Media(HasThumb, IsLive, Minutes, Votes) = Fields("poll", no, no, 0, card, 0)
      BY <3>2, Zenon DEF Media, Fields
    <3> HIDE DEF no, none, card
    <3>4. row.media = [r EXCEPT !.card = card]
      BY <2>4 DEF none, card
    <3>5. r = Fields("poll", no, no, 0, NoPoll, 0)
      BY <3>1 DEF Fields
    <3> HIDE DEF r
    <3>6. [r EXCEPT !.card = card] = Fields("poll", no, no, 0, card, 0)
      BY <3>5 DEF Fields
    <3> QED
      BY <3>3, <3>4, <3>6
  <2>6. TextOf(wire) = "[Poll] name" /\ ~Quoted(wire) /\ MediaKind = "poll" /\ ~IsReaction(wire)
    BY <2>1, <2>2 DEF TextOf, Quoted, MediaKind, IsCard, IsReaction
  <2>7. Heard = {"own"} /\ Whole = {"own"}
    BY <1>2 DEF Heard, Whole
  <2> QED
    BY <1>0, <1>2, <2>3, <2>4, <2>5, <2>6, <2>7 DEF ContentInv, GotOK, RowOK, TextOK, MediaOK
<1> QED
  BY <1>1, <1>2 DEF ContentInit

\* The row's media after a first delivery with the body.
LEMMA MediaFirst ==
    ASSUME ContentInv, Heard = {}, NEW form \in {"live", "history", "final"}, ~IsReaction(wire),
           got' = got \cup {form},
           reopened' = (form # "final" /\ (reopened \/ (form = "live" /\ "final" \in got))),
           UNCHANGED <<wire, over, ballots>>
    PROVE  Content(form).media = Media(HasThumb, IsLive, Minutes, Votes)'
<1> DEFINE u == wire.thumb /\ form # "final"
           k == wire.body = "live" /\ form # "final"
           m == IF form = "live" THEN 0 ELSE wire.minutes
<1>1. Content(form).media = Media(u, k, m, 0)
  BY WholeContent DEF ContentInv
<1>2. got = {} /\ got' = {form} /\ ~ballots
  BY DEF ContentInv, GotOK, MediaOK, Heard, Whole
<1>3. HasThumb' = u /\ IsLive' = k /\ Minutes' = m /\ Votes' = 0
  <2>1. HasThumb' = u
    BY <1>2 DEF HasThumb
  <2>2. IsLive' = k
    BY <1>2 DEF IsLive
  <2>3. Minutes' = m /\ Votes' = 0
    BY <1>2 DEF Minutes, Votes
  <2> QED
    BY <2>1, <2>2, <2>3
<1>4. MediaKind' = MediaKind /\ MediaCard' = MediaCard /\ (IsLocated <=> IsLocated')
  BY DEF MediaKind, MediaCard, IsCard, IsLocated
<1>5. Media(HasThumb, IsLive, Minutes, Votes)'
         = Fields(MediaKind, IsLocated /\ HasThumb', IsLive',
                  IF IsLocated THEN Minutes' ELSE 0, MediaCard, Votes')
  BY Zenon DEF Media, MediaKind, MediaCard, IsCard, IsLocated, Fields
<1> HIDE DEF u, k, m
<1>6. Media(HasThumb, IsLive, Minutes, Votes)' = Media(u, k, m, 0)
  BY <1>3, <1>5, Zenon DEF Media, Fields
<1> QED
  BY <1>1, <1>6

LEMMA DeliverKeeps ==
    ASSUME ContentInv, NEW form \in {"bare", "live", "history", "final"}, DeliverContent(form)
    PROVE  ContentInv'
<1>1. /\ ~IsReaction(wire) /\ Content(form).text # "none"
      /\ form \in {"history", "final"} => (form = "final") = over
      /\ row' = Absorbed(Content(form)) /\ got' = got \cup {form}
      /\ blank' = (blank \/ (form = "bare" /\ row = NoContent))
      /\ reopened' = (form # "final" /\ (reopened \/ (form = "live" /\ "final" \in got)))
      /\ UNCHANGED <<wire, over, ballots>>
  BY DEF DeliverContent
<1>2. WireOK'
  BY <1>1 DEF ContentInv, WireOK
<1>3. GotOK'
  <2>1. over' \in BOOLEAN /\ ballots' \in BOOLEAN /\ blank' \in BOOLEAN /\ reopened' \in BOOLEAN
    BY <1>1, Zenon DEF ContentInv, GotOK
  <2>2. /\ got' \subseteq {"bare", "live", "history", "final", "own", "reaction"}
        /\ (over => wire.body = "live")' /\ ("final" \in got => over)'
        /\ ~IsReaction(wire)' /\ "reaction" \notin got'
    BY <1>1 DEF ContentInv, GotOK, IsReaction
  <2> QED
    BY <2>1, <2>2 DEF GotOK
<1> DEFINE c == Content(form)
<1>4. c = [text |-> c.text, quote |-> c.quote, media |-> c.media]
  <2>1. CASE form = "bare"
    BY <2>1, <1>1 DEF Content, NoContent
  <2>2. CASE form \in {"live", "history", "final"}
    BY <2>2, WholeContent DEF ContentInv
  <2> QED
    BY <2>1, <2>2
<1>5. Heard' # {} /\ (Whole' # {} <=> Whole # {} \/ form # "bare")
      /\ (Heard = {} => Whole = {})
  BY <1>1 DEF Heard, Whole
<1>6. Heard = {} <=> row = NoContent
  BY DEF ContentInv, RowOK, NoContent
<1>7. CASE Heard = {}
  <2>1. row' = c /\ Whole = {} /\ ~blank /\ ~ballots
    BY <1>1, <1>5, <1>6, <1>7 DEF Absorbed, ContentInv, RowOK, MediaOK
  <2>2. CASE form = "bare"
    <3>1. c.text = Placeholder(wire) /\ c.media = NoMedia
      BY <2>2 DEF Content, NoContent
    <3>2. Whole' = {} /\ blank' /\ ~ballots'
      BY <1>1, <1>5, <1>6, <1>7, <2>1, <2>2
    <3>3. RowOK'
      BY <1>1, <1>4, <1>5, <2>1, <3>2 DEF RowOK
    <3>4. TextOK'
      BY <1>1, <2>1, <3>1, <3>2 DEF TextOK, Placeholder
    <3>5. MediaOK'
      BY <2>1, <3>1, <3>2 DEF MediaOK
    <3> QED
      BY <1>2, <1>3, <3>3, <3>4, <3>5 DEF ContentInv
  <2>3. CASE form # "bare"
    <3>1. form \in {"live", "history", "final"}
      BY <2>3
    <3>2. c.text = TextOf(wire) /\ (c.quote <=> Quoted(wire))
      BY <3>1, WholeContent DEF ContentInv
    <3>3. c.media = Media(HasThumb, IsLive, Minutes, Votes)'
      BY <1>1, <1>7, <3>1, MediaFirst
    <3>4. Whole' # {} /\ ~blank' /\ ~ballots'
      BY <1>1, <1>5, <2>1, <2>3
    <3>5. RowOK'
      BY <1>1, <1>4, <1>5, <2>1, <3>4 DEF RowOK
    <3>6. TextOK'
      BY <1>1, <2>1, <3>2, <3>4 DEF TextOK, TextOf, Quoted
    <3>7. MediaOK'
      BY <2>1, <3>3, <3>4 DEF MediaOK
    <3> QED
      BY <1>2, <1>3, <3>5, <3>6, <3>7 DEF ContentInv
  <2> QED
    BY <2>2, <2>3
<1>8. CASE Heard # {}
  <2> DEFINE M == MergedMedia(row.media, c.media)
             T == IF c.media.kind = "gif" /\ row.text = "[Video]" THEN "[GIF]" ELSE row.text
  <2>1. row' = [row EXCEPT !.media = M, !.text = T]
    BY <1>1, <1>6, <1>8 DEF Absorbed
  <2>2. /\ row = [text |-> row.text, quote |-> row.quote, media |-> row.media]
        /\ row.text # "none"
    BY <1>8 DEF ContentInv, RowOK
  <2>3. T # "none"
    BY <2>2
  <2>4. blank' = blank
    BY <1>1, <1>6, <1>8 DEF ContentInv, GotOK
  <2>5. row'.media = M /\ row'.text = T /\ row'.quote = row.quote
        /\ row' = [text |-> row'.text, quote |-> row'.quote, media |-> row'.media]
    <3> HIDE DEF M, T
    <3> QED
      BY <2>1, <2>2
  <2>6. RowOK'
    <3>1. row'.text # "none"
      BY <2>3, <2>5
    <3>2. ~blank => Whole # {}
      BY <1>8 DEF ContentInv, RowOK
    <3> HIDE DEF M, T
    <3> QED
      BY <1>5, <2>4, <2>5, <3>1, <3>2 DEF RowOK
  <2>7. CASE form = "bare"
    <3>1. c.media = NoMedia
      BY <2>7 DEF Content, NoContent
    <3>2. M = row.media /\ T = row.text
      <4>1. M = row.media
        BY <3>1, MergesNothing
      <4>2. c.media.kind = "none"
        BY <3>1 DEF NoMedia
      <4>3. T = row.text
        BY <4>2
      <4> QED
        BY <4>1, <4>3
    <3>3. Whole' = Whole
      BY <1>1, <2>7 DEF Whole
    <3>4. TextOK'
      <4>1. row'.text = row.text /\ row'.quote = row.quote /\ wire' = wire
        BY <1>1, <2>5, <3>2
      <4> HIDE DEF M, T, c
      <4> QED
        BY <1>8, <2>4, <3>3, <4>1 DEF ContentInv, TextOK
    <3>5. MediaOK'
      <4>1. row'.media = row.media /\ ballots' = ballots
        BY <1>1, <2>5, <3>2
      <4>2. MediaKind' = MediaKind
        BY <1>1 DEF MediaKind, IsCard, IsLocated
      <4>3. Media(HasThumb, IsLive, Minutes, Votes)' = Media(HasThumb, IsLive, Minutes, Votes)
        <5>1. wire' = wire /\ ballots' = ballots
              /\ got \cap {"live", "history"} = got' \cap {"live", "history"}
              /\ got \cap {"history", "final"} = got' \cap {"history", "final"}
              /\ ("final" \in got <=> "final" \in got')
          BY <1>1, <2>7
        <5>2. reopened' = reopened
          BY <1>1, <2>7 DEF ContentInv, GotOK
        <5>3. HasThumb' = HasThumb
          BY <5>1 DEF HasThumb
        <5>4. IsLive' = IsLive
          BY <5>1, <5>2 DEF IsLive
        <5>5. Minutes' = Minutes /\ Votes' = Votes
          BY <5>1 DEF Minutes, Votes
        <5>6. MediaKind' = MediaKind /\ MediaCard' = MediaCard /\ IsLocated' = IsLocated
          BY <5>1 DEF MediaKind, MediaCard, IsCard, IsLocated
        <5> QED
          BY <5>3, <5>4, <5>5, <5>6, Zenon DEF Media
      <4> HIDE DEF M, T, c
      <4> QED
        BY <3>3, <4>1, <4>2, <4>3 DEF ContentInv, MediaOK
    <3> QED
      BY <1>2, <1>3, <2>6, <3>4, <3>5 DEF ContentInv
  <2>8. CASE form # "bare"
    <3>1. form \in {"live", "history", "final"}
      BY <2>8
    <3>2. M = Media(HasThumb, IsLive, Minutes, Votes)'
      BY <1>1, <1>8, <3>1, MediaMerged
    <3>3. c.media.kind = MediaKind
      BY <3>1, WholeContent DEF ContentInv, Media
    <3>4. MediaKind = "gif" <=> wire.body = "gif"
      BY DEF MediaKind, IsCard, IsLocated
    <3>5. TextOK'
      <4>1. /\ ~blank => row.text = TextOf(wire) /\ (row.quote <=> Quoted(wire))
            /\ blank => row.text = IF wire.body = "gif" /\ Whole # {} THEN "[GIF]"
                                   ELSE Placeholder(wire)
        BY <1>8 DEF ContentInv, TextOK
      <4>2. T = IF wire.body = "gif" /\ row.text = "[Video]" THEN "[GIF]" ELSE row.text
        BY <3>3, <3>4
      <4>3. ~blank => T = TextOf(wire)
        BY <4>1, <4>2, GifLabels
      <4>4. blank => T = IF wire.body = "gif" THEN "[GIF]" ELSE Placeholder(wire)
        BY <4>1, <4>2, GifLabels
      <4>5. wire' = wire /\ Whole' # {}
        BY <1>1, <1>5, <2>8
      <4> HIDE DEF M, T, c
      <4> QED
        BY <2>4, <2>5, <4>1, <4>3, <4>4, <4>5 DEF TextOK
    <3>6. MediaOK'
      <4>1. Whole' # {} /\ ballots' = ballots
        BY <1>1, <1>5, <2>8
      <4>2. MediaKind' = MediaKind
        BY <1>1 DEF MediaKind, IsCard, IsLocated
      <4> HIDE DEF M, T, c
      <4> QED
        BY <2>5, <3>2, <4>1, <4>2 DEF ContentInv, MediaOK
    <3> QED
      BY <1>2, <1>3, <2>6, <3>5, <3>6 DEF ContentInv
  <2> QED
    BY <2>7, <2>8
<1> QED
  BY <1>7, <1>8

\* What is said of the media stays what it was as long as the row hears nothing.
LEMMA SameMedia ==
    ASSUME UNCHANGED <<wire, reopened, ballots>>, Whole' = Whole, got' = got \/ got' = got \cup {"reaction"}
    PROVE  Media(HasThumb, IsLive, Minutes, Votes)' = Media(HasThumb, IsLive, Minutes, Votes)
<1>1. /\ got \cap {"live", "history"} = got' \cap {"live", "history"}
      /\ got \cap {"history", "final"} = got' \cap {"history", "final"}
      /\ ("final" \in got <=> "final" \in got')
  OBVIOUS
<1>2. HasThumb' = HasThumb
  BY <1>1 DEF HasThumb
<1>3. IsLive' = IsLive
  BY <1>1 DEF IsLive
<1>4. Minutes' = Minutes /\ Votes' = Votes
  BY <1>1 DEF Minutes, Votes
<1>5. MediaKind' = MediaKind /\ MediaCard' = MediaCard /\ IsLocated' = IsLocated
  BY DEF MediaKind, MediaCard, IsCard, IsLocated
<1> QED
  BY <1>2, <1>3, <1>4, <1>5, Zenon DEF Media

\* A reaction, the end of a share or a step of something else.
LEMMA OthersKeep ==
    ASSUME ContentInv, DeliverReaction \/ EndShare \/ UNCHANGED contentVars
    PROVE  ContentInv'
<1>1. UNCHANGED <<wire, row, blank, reopened, ballots>>
  BY DEF DeliverReaction, EndShare, contentVars
<1>2. WireOK'
  BY <1>1 DEF ContentInv, WireOK
<1>3. got' = got \/ (got' = got \cup {"reaction"} /\ IsReaction(wire))
  BY DEF DeliverReaction, EndShare, contentVars
<1>4. Heard' = Heard /\ Whole' = Whole
  BY <1>3 DEF Heard, Whole
<1>5. GotOK'
  <2>1. over' = over \/ (over' = TRUE /\ wire.body = "live")
    BY DEF DeliverReaction, EndShare, contentVars
  <2>2. over' \in BOOLEAN /\ blank' \in BOOLEAN /\ reopened' \in BOOLEAN /\ ballots' \in BOOLEAN
    BY <1>1, <2>1, Zenon DEF ContentInv, GotOK
  <2>3. /\ got' \subseteq {"bare", "live", "history", "final", "own", "reaction"}
        /\ "final" \in got' => "final" \in got
        /\ IF IsReaction(wire) THEN got' \subseteq {"reaction"} ELSE "reaction" \notin got'
    BY <1>3 DEF ContentInv, GotOK
  <2>4. IsReaction(wire)' = IsReaction(wire) /\ (wire.body)' = wire.body
    BY <1>1 DEF IsReaction
  <2>5. (over' => wire.body = "live") /\ ("final" \in got' => over')
    BY <2>1, <2>3 DEF ContentInv, GotOK
  <2> QED
    BY <2>2, <2>3, <2>4, <2>5 DEF GotOK
<1>6. RowOK' /\ TextOK'
  BY <1>1, <1>4 DEF ContentInv, RowOK, TextOK
<1>7. MediaOK'
  <2>1. Media(HasThumb, IsLive, Minutes, Votes)' = Media(HasThumb, IsLive, Minutes, Votes)
    BY <1>1, <1>3, <1>4, SameMedia
  <2>2. MediaKind' = MediaKind
    BY <1>1 DEF MediaKind, IsCard, IsLocated
  <2> QED
    BY <1>1, <1>4, <2>1, <2>2 DEF ContentInv, MediaOK
<1> QED
  BY <1>2, <1>5, <1>6, <1>7 DEF ContentInv

LEMMA CountVoteKeeps ==
    ASSUME ContentInv, CountVote
    PROVE  ContentInv'
<1>1. /\ row.media.kind = "poll" /\ ~ballots /\ ballots' = TRUE
      /\ row' = [row EXCEPT !.media.votes = 1]
      /\ UNCHANGED <<wire, over, got, blank, reopened>>
  BY DEF CountVote
<1>2. WireOK' /\ GotOK'
  BY <1>1 DEF ContentInv, WireOK, GotOK, IsReaction
<1>3. Heard' = Heard /\ Whole' = Whole
  BY <1>1 DEF Heard, Whole
<1>4. Whole # {} /\ row.media = Media(HasThumb, IsLive, Minutes, Votes) /\ Votes = 0
  BY <1>1 DEF ContentInv, MediaOK, NoMedia, Votes
<1>5. MediaKind = "poll"
  BY <1>1, <1>4 DEF Media
<1> DEFINE x == row.media
           n == [x EXCEPT !.votes = 1]
           th == IsLocated /\ HasThumb
           lv == IsLive
           mi == IF IsLocated THEN Minutes ELSE 0
<1>6. row = [text |-> row.text, quote |-> row.quote, media |-> row.media] /\ Heard # {}
  BY <1>4 DEF ContentInv, RowOK, Heard, Whole
<1>7. row' = [row EXCEPT !.media = n]
  BY <1>1
<1>8. x = Fields(MediaKind, th, lv, mi, MediaCard, 0)
  BY <1>4, Zenon DEF Media, Fields
<1> HIDE DEF x, th, lv, mi
<1>9. n = Fields(MediaKind, th, lv, mi, MediaCard, 1)
  BY <1>8 DEF Fields
<1> HIDE DEF n
<1>10. row'.media = n /\ row'.text = row.text /\ row'.quote = row.quote
       /\ row' = [text |-> row'.text, quote |-> row'.quote, media |-> row'.media]
  BY <1>6, <1>7
<1>11. RowOK'
  BY <1>1, <1>3, <1>6, <1>10 DEF ContentInv, RowOK
<1>12. TextOK'
  BY <1>1, <1>3, <1>10 DEF ContentInv, TextOK
<1>13. Media(HasThumb, IsLive, Minutes, Votes)' = n
  <2>1. HasThumb' = HasThumb /\ IsLive' = IsLive
    BY <1>1 DEF HasThumb, IsLive
  <2>2. Minutes' = Minutes /\ Votes' = 1
    BY <1>1 DEF Minutes, Votes
  <2>3. MediaKind' = MediaKind /\ MediaCard' = MediaCard /\ IsLocated' = IsLocated
    BY <1>1 DEF MediaKind, MediaCard, IsCard, IsLocated
  <2> QED
    BY <1>9, <2>1, <2>2, <2>3, Zenon DEF Media, Fields, th, lv, mi
<1>14. MediaOK'
  <2>1. MediaKind' = MediaKind
    BY <1>1 DEF MediaKind, IsCard, IsLocated
  <2> QED
    BY <1>3, <1>4, <1>5, <1>10, <1>13, <2>1 DEF MediaOK
<1> QED
  BY <1>2, <1>11, <1>12, <1>14 DEF ContentInv

\* What the row's media are in terms of the message and of what was delivered.
LEMMA MediaTell ==
    ASSUME ContentInv
    PROVE  [MediaOf(wire, Minutes) EXCEPT !.live = (@ /\ ("final" \notin got \/ reopened)),
                                          !.thumb = (@ /\ got \cap {"live", "history"} # {}),
                                          !.votes = IF ballots THEN 1 ELSE 0]
              = Media(HasThumb, IsLive, Minutes, Votes)
<1> DEFINE x == MediaOf(wire, Minutes)
           th == IsLocated /\ wire.thumb
           lv == wire.body = "live"
           mi == IF IsLocated THEN Minutes ELSE 0
           tw == IsLocated /\ HasThumb
           lw == IsLive
           v == Votes
           a == [x EXCEPT !.live = lw]
           b == [a EXCEPT !.thumb = tw]
           lx == x.live /\ ("final" \notin got \/ reopened)
           tx == x.thumb /\ got \cap {"live", "history"} # {}
           vx == IF ballots THEN 1 ELSE 0
<1>1. Minutes \in Nat
  BY DEF Minutes, ContentInv, WireOK
<1>2. x = Media(wire.thumb, wire.body = "live", Minutes, 0)
  BY <1>1, MediaOfWire DEF ContentInv
<1>3. x = Fields(MediaKind, th, lv, mi, MediaCard, 0)
  BY <1>2, Zenon DEF Media, Fields
<1>4. x.live = lv /\ x.thumb = th
  <2> HIDE DEF x, th, lv, mi
  <2> QED
    BY <1>3 DEF Fields
<1>5. Media(HasThumb, IsLive, Minutes, Votes) = Fields(MediaKind, tw, lw, mi, MediaCard, v)
  BY Zenon DEF Media, Fields
<1>6. lw = (lv /\ ("final" \notin got \/ reopened))
  BY DEF IsLive
<1>7. tw = (th /\ got \cap {"live", "history"} # {})
  BY DEF HasThumb
<1>8. [x EXCEPT !.live = (@ /\ ("final" \notin got \/ reopened)),
                !.thumb = (@ /\ got \cap {"live", "history"} # {}),
                !.votes = IF ballots THEN 1 ELSE 0]
        = [x EXCEPT !.live = lx, !.thumb = tx, !.votes = vx]
  OBVIOUS
<1>9. lx = lw /\ tx = tw /\ vx = v
  BY <1>4, <1>6, <1>7 DEF Votes
<1> HIDE DEF x, th, lv, mi, tw, lw, v, lx, tx, vx
<1>10. [x EXCEPT !.live = lx, !.thumb = tx, !.votes = vx] = [b EXCEPT !.votes = v]
  BY <1>9, Zenon
<1>11. a = Fields(MediaKind, th, lw, mi, MediaCard, 0)
  BY <1>3 DEF Fields
<1> HIDE DEF a
<1>12. b = Fields(MediaKind, tw, lw, mi, MediaCard, 0)
  BY <1>11 DEF Fields
<1> HIDE DEF b
<1>13. [b EXCEPT !.votes = v] = Fields(MediaKind, tw, lw, mi, MediaCard, v)
  BY <1>12 DEF Fields
<1> QED
  BY <1>5, <1>8, <1>10, <1>13, Zenon DEF x, lx, tx, vx

LEMMA RowTells == ContentInv => ContentConverges
<1> SUFFICES ASSUME ContentInv PROVE ContentConverges
  OBVIOUS
<1>1. IsReaction(wire) => row = NoContent
  BY DEF ContentInv, GotOK, RowOK, Heard
<1>2. Whole # {} => Heard # {}
  BY DEF Heard, Whole
<1>3. Whole # {} /\ ~blank => row.text = TextOf(wire) /\ (row.quote <=> Quoted(wire))
  BY <1>2 DEF ContentInv, TextOK
<1>4. blank => row.text = IF wire.body = "gif" /\ Whole # {} THEN "[GIF]" ELSE Placeholder(wire)
  BY DEF ContentInv, TextOK
<1>5. Whole # {} => row.media = Media(HasThumb, IsLive, Minutes, Votes)
  BY DEF ContentInv, MediaOK
<1>6. row.media.kind = "poll" =>
         /\ row.media.card.selectable \in 1..Len(row.media.card.options)
         /\ row.media.card.answer \in 0..Len(row.media.card.options)
  <2> SUFFICES ASSUME row.media.kind = "poll"
               PROVE  /\ row.media.card.selectable \in 1..Len(row.media.card.options)
                      /\ row.media.card.answer \in 0..Len(row.media.card.options)
    OBVIOUS
  <2>1. Whole # {}
    BY DEF ContentInv, MediaOK, NoMedia
  <2>2. MediaKind = "poll" /\ row.media.card = MediaCard
    BY <1>5, <2>1 DEF Media
  <2>3. IsCard
    BY <2>2 DEF MediaKind, IsLocated
  <2>4. MediaCard = PollCard(wire.poll) /\ CardFits(PollCard(wire.poll))
    BY <2>3, PollCardFits DEF MediaCard, IsCard, ContentInv, WireOK
  <2> QED
    BY <2>2, <2>4 DEF CardFits
<1> QED
  BY <1>1, <1>3, <1>4, <1>5, <1>6, MediaTell, Zenon DEF ContentConverges, Whole, Minutes

\* In whatever order and however often a message's deliveries come, its row shows
\* the same, but for a row made without the body and a share delivered live again.
THEOREM RowConverges == ContentSpec => []ContentConverges
<1>1. ContentInit => ContentInv
  BY ContentStarts
<1>2. ContentInv /\ [ContentNext]_contentVars => ContentInv'
  BY DeliverKeeps, OthersKeep, CountVoteKeeps DEF ContentNext
<1>3. ContentInv => ContentConverges
  BY RowTells
<1> QED
  BY <1>1, <1>2, <1>3, PTL DEF ContentSpec

\* The rows and the pages made of them show what there is.
THEOREM RowsShown == ContentSpec /\ PageSpec => []RowsAreShown
  BY RowConverges, PageFollows, PTL DEF RowsAreShown
=============================================================================
