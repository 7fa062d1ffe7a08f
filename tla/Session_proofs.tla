---------------------------- MODULE Session_proofs ----------------------------
(* Theorems about the generations of a session and about who says whether the  *)
(* daemon is connected, for every number of tasks, generations and faults.     *)
EXTENDS Session, LinkStatus, FiniteSetTheorems, SequenceTheorems, TLAPS

(* The actions of the next-state relation, for case analysis. *)
LEMMA NextCases ==
    ASSUME Next
    PROVE  \/ BeginGeneration
           \/ Prepare
           \/ OnConnected
           \/ Disconnect
           \/ StopForLogout
           \/ StopForResync
           \/ RetireGeneration
           \/ DropClient
           \/ WipeAccount
           \/ KeepAccount
           \/ Restart
           \/ WipeIsCut
           \/ Logout
           \/ TakeTrigger
           \/ StoreFlag
           \/ LogoutEnds
           \/ ResyncChatState
           \/ RemoveMarker
           \/ ReportRequested
           \/ ReplayArrives
           \/ AppStateSyncFailed
           \/ \E w \in Waiters : GiveUp(w)
           \/ \E w \in Waiters : Settle(w)
           \/ \E w \in Waiters : MarkEventSyncComplete(w)
           \/ \E w \in Waiters : TakeRequest(w)
           \/ \E w \in Waiters : ReportOutcome(w)
  BY DEF Next, LoopStep, LogoutStep, ResyncStep, TaskStep

(* Commands and tasks are built well formed, and say what they were given. *)
LEMMA Builders ==
    /\ NoCommand \in Commands /\ NoCommand.step = "none" /\ NoCommand.gen = 0
    /\ \A gen \in Nat : \A step \in {"none", "cloned", "took", "calling", "armed", "report"} :
          /\ At(step, gen) \in Commands
          /\ At(step, gen).step = step /\ At(step, gen).gen = gen
    /\ NoTask \in Tasks /\ NoTask.step = "none"
    /\ \A gen \in Nat, outcome \in Outcomes :
          \A step \in {"none", "waiting", "mark", "swap", "report"} :
             /\ Task(step, gen, outcome) \in Tasks
             /\ Task(step, gen, outcome).step = step
  BY DEF NoCommand, Commands, At, NoTask, Tasks, Task, Outcomes

(* A command and a task have fields of their types. *)
LEMMA Fields ==
    /\ \A c \in Commands :
          /\ c.step \in {"none", "cloned", "took", "calling", "armed", "report"}
          /\ c.gen \in Nat
          /\ \A step, gen : c.step = step /\ c.gen = gen => c = At(step, gen)
    /\ \A t \in Tasks : t.gen \in Nat /\ t.outcome \in Outcomes
  BY DEF Commands, Tasks, At

-----------------------------------------------------------------------------
(* Type correctness *)

(* A step keeps the type invariant. *)
LEMMA TypeStep == TypeOK /\ [Next]_vars => TypeOK'
<1> SUFFICES ASSUME TypeOK, [Next]_vars PROVE TypeOK'
  OBVIOUS
<1> USE Builders, Fields DEF TypeOK, Stages, Statuses, Outcomes
<1>1. CASE UNCHANGED vars
  BY <1>1 DEF vars
<1>2. CASE BeginGeneration
  <2>1. clock' \in Nat /\ trigger' \in 0 .. clock' /\ flagged' \in Nat
    BY <1>2 DEF BeginGeneration
  <2>2. loop' \in Stages /\ signalled' \in BOOLEAN /\ failed' \in BOOLEAN
    BY <1>2 DEF BeginGeneration
  <2> QED BY <1>2, <2>1, <2>2 DEF BeginGeneration, link
<1>3. CASE Prepare
  <2>1. complete' \in BOOLEAN /\ reset' \in BOOLEAN
    BY <1>3 DEF Prepare
  <2>2. requested' \in BOOLEAN /\ status' \in Statuses
    BY <1>3 DEF Prepare, Answer
  <2>3. loop' \in Stages
    BY <1>3 DEF Prepare
  <2> QED BY <1>3, <2>1, <2>2, <2>3 DEF Prepare, stop, link
<1>4. CASE OnConnected
  BY SMTT(60), <1>4 DEF OnConnected, stop, link, replay
<1>5. CASE Disconnect
  BY ZenonT(90), <1>5 DEF Disconnect, stop, link, replay
<1>6. CASE StopForLogout
  BY <1>6 DEF StopForLogout, stop, link, replay
<1>7. CASE StopForResync
  BY ZenonT(90), <1>7 DEF StopForResync, stop, link, replay
<1>8. CASE RetireGeneration
  BY <1>8 DEF RetireGeneration, stop, link, replay
<1>9. CASE DropClient
  BY ZenonT(90), <1>9 DEF DropClient, stop, link, replay
<1>10. CASE WipeAccount
  BY <1>10 DEF WipeAccount, stop, link, replay
<1>11. CASE KeepAccount
  BY <1>11 DEF KeepAccount, stop, link, replay
<1>12. CASE Restart
  <2>1. Forget
    BY <1>12 DEF Restart
  <2>2. clock' \in Nat /\ trigger' \in 0 .. clock' /\ flagged' \in Nat
    BY <2>1 DEF Forget
  <2>3. command' \in Commands /\ waiter' \in [Waiters -> Tasks]
    BY <2>1 DEF Forget
  <2>4. loop' \in Stages /\ status' \in Statuses
    BY <2>1 DEF Forget
  <2>5. marker' \in BOOLEAN /\ complete' \in BOOLEAN /\ reset' \in BOOLEAN
    BY <1>12 DEF Restart
  <2> QED BY <2>1, <2>2, <2>3, <2>4, <2>5 DEF Forget
<1>13. CASE WipeIsCut
  <2>1. Forget
    BY <1>13 DEF WipeIsCut
  <2>2. clock' \in Nat /\ trigger' \in 0 .. clock' /\ flagged' \in Nat
    BY <2>1 DEF Forget
  <2>3. command' \in Commands /\ waiter' \in [Waiters -> Tasks]
    BY <2>1 DEF Forget
  <2>4. loop' \in Stages /\ status' \in Statuses
    BY <2>1 DEF Forget
  <2>5. marker' \in BOOLEAN /\ complete' \in BOOLEAN /\ reset' \in BOOLEAN
    BY <1>13 DEF WipeIsCut
  <2> QED BY <2>1, <2>2, <2>3, <2>4, <2>5 DEF Forget
<1>14. CASE Logout
  <2>1. command' \in Commands
    BY <1>14 DEF Logout
  <2> QED BY <1>14, <2>1 DEF Logout, stop, link, replay
<1>15. CASE TakeTrigger
  <2>1. command' \in Commands
    BY <1>15 DEF TakeTrigger
  <2> QED BY <1>15, <2>1 DEF TakeTrigger, stop, link, replay
<1>16. CASE StoreFlag
  <2>1. command' \in Commands
    BY <1>16 DEF StoreFlag
  <2> QED BY <1>16, <2>1 DEF StoreFlag, stop, link, replay
<1>17. CASE LogoutEnds
  <2>1. command' \in Commands
    BY <1>17 DEF LogoutEnds
  <2> QED BY <1>17, <2>1 DEF LogoutEnds, stop, link, replay
<1>18. CASE ResyncChatState
  <2>1. command' \in Commands
    BY <1>18 DEF ResyncChatState
  <2>2. requested' \in BOOLEAN /\ reset' \in BOOLEAN
    BY <1>18 DEF ResyncChatState
  <2>3. UNCHANGED <<clock, loop, link, stop, permit, status, marker, complete,
                    failed, waiter>>
    BY <1>18 DEF ResyncChatState
  <2> HIDE Builders, Fields
  <2> QED BY <2>1, <2>2, <2>3 DEF stop, link
<1>19. CASE RemoveMarker
  <2>1. command' \in Commands
    BY <1>19 DEF RemoveMarker
  <2>2. marker' \in BOOLEAN /\ requested' \in BOOLEAN /\ status' \in Statuses
    BY <1>19 DEF RemoveMarker
  <2> QED BY <1>19, <2>1, <2>2 DEF RemoveMarker, stop, link
<1>20. CASE ReportRequested
  <2>1. command' \in Commands
    BY <1>20 DEF ReportRequested
  <2>2. permit' \in BOOLEAN /\ status' \in Statuses
    BY <1>20 DEF ReportRequested
  <2> QED BY <1>20, <2>1, <2>2 DEF ReportRequested, stop, link
<1>21. CASE ReplayArrives
  BY <1>21 DEF ReplayArrives, stop, link, replay
<1>22. CASE AppStateSyncFailed
  BY ZenonT(90), <1>22 DEF AppStateSyncFailed, Answer, stop, link, replay
<1>23. ASSUME NEW w \in Waiters, GiveUp(w) PROVE TypeOK'
  BY <1>23 DEF GiveUp, stop, link
<1>24. ASSUME NEW w \in Waiters, Settle(w) PROVE TypeOK'
  <2>1. /\ Task("mark", clock, "Succeeded") \in Tasks
        /\ Task("swap", clock, "Failed") \in Tasks
    OBVIOUS
  <2>2. waiter' \in [Waiters -> Tasks]
    BY <1>24, <2>1 DEF Settle
  <2> QED BY <1>24, <2>2 DEF Settle, stop, link
<1>25. ASSUME NEW w \in Waiters, MarkEventSyncComplete(w) PROVE TypeOK'
  BY SMTT(60), <1>25 DEF MarkEventSyncComplete, stop, link
<1>26. ASSUME NEW w \in Waiters, TakeRequest(w) PROVE TypeOK'
  <2>1. Task("report", waiter[w].gen, waiter[w].outcome) \in Tasks
    BY SMTT(60)
  <2>2. waiter' \in [Waiters -> Tasks] /\ requested' \in BOOLEAN
    BY <1>26, <2>1 DEF TakeRequest
  <2> QED BY <1>26, <2>2 DEF TakeRequest, stop, link
<1>27. ASSUME NEW w \in Waiters, ReportOutcome(w) PROVE TypeOK'
  BY <1>27 DEF ReportOutcome, stop, link
<1> QED
  BY <1>1, <1>2, <1>3, <1>4, <1>5, <1>6, <1>7, <1>8, <1>9, <1>10, <1>11,
     <1>12, <1>13, <1>14, <1>15, <1>16, <1>17, <1>18, <1>19, <1>20, <1>21,
     <1>22, <1>23, <1>24, <1>25, <1>26, <1>27, NextCases

(* Every variable has its type; the installed trigger is never of a later  *)
(* generation than the one that runs (state.rs, arm_logout).               *)
THEOREM TypeCorrect == Spec => []TypeOK
<1>1. Init => TypeOK
  <2> SUFFICES ASSUME Init PROVE TypeOK
    OBVIOUS
  <2>1. clock \in Nat /\ trigger \in 0 .. clock /\ flagged \in Nat
    BY DEF Init
  <2>2. command \in Commands /\ waiter \in [Waiters -> Tasks]
    BY Builders DEF Init
  <2>3. loop \in Stages /\ status \in Statuses
    BY DEF Init, Stages, Statuses
  <2> QED BY <2>1, <2>2, <2>3 DEF Init, TypeOK
<1> QED BY <1>1, TypeStep, PTL DEF Spec

-----------------------------------------------------------------------------
(* Logout *)

(* An accepted logout is owed from its trigger to the wipe. *)
Owed == flag \/ command.step = "took" => owed

(* A step keeps account of the logouts owed. *)
LEMMA OwedStep == TypeOK /\ Owed /\ [Next]_vars => Owed'
<1> SUFFICES ASSUME TypeOK, Owed, [Next]_vars PROVE Owed'
  OBVIOUS
<1> USE Builders DEF Owed
<1>1. CASE UNCHANGED vars
  BY <1>1 DEF vars
<1>2. CASE BeginGeneration
  BY <1>2 DEF BeginGeneration, stop, link, replay
<1>3. CASE Prepare
  BY <1>3 DEF Prepare, Answer, stop, link, replay
<1>4. CASE OnConnected
  BY <1>4 DEF OnConnected, stop, link, replay
<1>5. CASE Disconnect
  BY <1>5 DEF Disconnect, stop, link, replay
<1>6. CASE StopForLogout
  BY <1>6 DEF StopForLogout, stop, link, replay
<1>7. CASE StopForResync
  BY <1>7 DEF StopForResync, stop, link, replay
<1>8. CASE RetireGeneration
  BY <1>8 DEF RetireGeneration, stop, link, replay
<1>9. CASE DropClient
  BY <1>9 DEF DropClient, stop, link, replay
<1>10. CASE WipeAccount
  BY <1>10 DEF WipeAccount, stop, link, replay
<1>11. CASE KeepAccount
  BY <1>11 DEF KeepAccount, stop, link, replay
<1>12. CASE Restart
  BY <1>12 DEF Restart, Forget, stop, link, replay
<1>13. CASE WipeIsCut
  BY <1>13 DEF WipeIsCut, Forget, stop, link, replay
<1>14. CASE Logout
  BY <1>14 DEF Logout, stop, link, replay
<1>15. CASE TakeTrigger
  BY <1>15 DEF TakeTrigger, stop, link, replay
<1>16. CASE StoreFlag
  BY <1>16 DEF StoreFlag, stop, link, replay
<1>17. CASE LogoutEnds
  BY <1>17 DEF LogoutEnds, stop, link, replay
<1>18. CASE ResyncChatState
  BY <1>18 DEF ResyncChatState, stop, link, replay
<1>19. CASE RemoveMarker
  BY <1>19 DEF RemoveMarker, stop, link, replay
<1>20. CASE ReportRequested
  BY <1>20 DEF ReportRequested, stop, link, replay
<1>21. CASE ReplayArrives
  BY <1>21 DEF ReplayArrives, stop, link, replay
<1>22. CASE AppStateSyncFailed
  BY <1>22 DEF AppStateSyncFailed, Answer, stop, link, replay
<1>23. ASSUME NEW w \in Waiters, GiveUp(w) PROVE Owed'
  BY <1>23 DEF GiveUp, stop, link, replay
<1>24. ASSUME NEW w \in Waiters, Settle(w) PROVE Owed'
  BY <1>24 DEF Settle, stop, link, replay
<1>25. ASSUME NEW w \in Waiters, MarkEventSyncComplete(w) PROVE Owed'
  BY <1>25 DEF MarkEventSyncComplete, stop, link, replay
<1>26. ASSUME NEW w \in Waiters, TakeRequest(w) PROVE Owed'
  BY <1>26 DEF TakeRequest, stop, link, replay
<1>27. ASSUME NEW w \in Waiters, ReportOutcome(w) PROVE Owed'
  BY <1>27 DEF ReportOutcome, stop, link, replay
<1> QED
  BY <1>1, <1>2, <1>3, <1>4, <1>5, <1>6, <1>7, <1>8, <1>9, <1>10, <1>11,
     <1>12, <1>13, <1>14, <1>15, <1>16, <1>17, <1>18, <1>19, <1>20, <1>21,
     <1>22, <1>23, <1>24, <1>25, <1>26, <1>27, NextCases

(* No generation is wiped for a logout nobody asked for, however logouts *)
(* and generations interleave (state.rs, take_logout_trigger).           *)
LEMMA WipeOwed == Spec => []WipeIsOwed
<1>1. Init => Owed
  BY Builders DEF Init, Owed
<1>2. Owed => WipeIsOwed
  BY DEF Owed, WipeIsOwed
<1> QED BY <1>1, <1>2, OwedStep, TypeCorrect, PTL DEF Spec

(* Logouts are never meant for a generation to come. *)
FlagInv == command.gen <= clock /\ flagged <= clock /\ FlagStopsItsGeneration

(* A step keeps a flag's stop under way. *)
LEMMA FlagStep == TypeOK /\ FlagInv /\ [Next]_vars => FlagInv'
<1> SUFFICES ASSUME TypeOK, FlagInv, [Next]_vars PROVE FlagInv'
  OBVIOUS
<1> USE Builders, Fields DEF TypeOK, FlagInv, FlagStopsItsGeneration
<1>1. CASE UNCHANGED vars
  BY <1>1 DEF vars
<1>2. CASE BeginGeneration
  BY <1>2 DEF BeginGeneration, stop, link, replay
<1>3. CASE Prepare
  BY <1>3 DEF Prepare, Answer, stop, link, replay
<1>4. CASE OnConnected
  BY <1>4 DEF OnConnected, stop, link, replay
<1>5. CASE Disconnect
  BY <1>5 DEF Disconnect, stop, link, replay
<1>6. CASE StopForLogout
  BY <1>6 DEF StopForLogout, stop, link, replay
<1>7. CASE StopForResync
  BY <1>7 DEF StopForResync, stop, link, replay
<1>8. CASE RetireGeneration
  BY <1>8 DEF RetireGeneration, stop, link, replay
<1>9. CASE DropClient
  BY <1>9 DEF DropClient, stop, link, replay
<1>10. CASE WipeAccount
  BY <1>10 DEF WipeAccount, stop, link, replay
<1>11. CASE KeepAccount
  BY <1>11 DEF KeepAccount, stop, link, replay
<1>12. CASE Restart
  BY <1>12 DEF Restart, Forget, stop, link, replay
<1>13. CASE WipeIsCut
  BY <1>13 DEF WipeIsCut, Forget, stop, link, replay
<1>14. CASE Logout
  BY <1>14 DEF Logout, stop, link, replay
<1>15. CASE TakeTrigger
  BY <1>15 DEF TakeTrigger, stop, link, replay
<1>16. CASE StoreFlag
  BY <1>16 DEF StoreFlag, stop, link, replay
<1>17. CASE LogoutEnds
  BY <1>17 DEF LogoutEnds, stop, link, replay
<1>18. CASE ResyncChatState
  BY <1>18 DEF ResyncChatState, stop, link, replay
<1>19. CASE RemoveMarker
  BY <1>19 DEF RemoveMarker, stop, link, replay
<1>20. CASE ReportRequested
  BY <1>20 DEF ReportRequested, stop, link, replay
<1>21. CASE ReplayArrives
  BY <1>21 DEF ReplayArrives, stop, link, replay
<1>22. CASE AppStateSyncFailed
  BY <1>22 DEF AppStateSyncFailed, Answer, stop, link, replay
<1>23. ASSUME NEW w \in Waiters, GiveUp(w) PROVE FlagInv'
  BY <1>23 DEF GiveUp, stop, link, replay
<1>24. ASSUME NEW w \in Waiters, Settle(w) PROVE FlagInv'
  BY <1>24 DEF Settle, stop, link, replay
<1>25. ASSUME NEW w \in Waiters, MarkEventSyncComplete(w) PROVE FlagInv'
  BY <1>25 DEF MarkEventSyncComplete, stop, link, replay
<1>26. ASSUME NEW w \in Waiters, TakeRequest(w) PROVE FlagInv'
  BY <1>26 DEF TakeRequest, stop, link, replay
<1>27. ASSUME NEW w \in Waiters, ReportOutcome(w) PROVE FlagInv'
  BY <1>27 DEF ReportOutcome, stop, link, replay
<1> QED
  BY <1>1, <1>2, <1>3, <1>4, <1>5, <1>6, <1>7, <1>8, <1>9, <1>10, <1>11,
     <1>12, <1>13, <1>14, <1>15, <1>16, <1>17, <1>18, <1>19, <1>20, <1>21,
     <1>22, <1>23, <1>24, <1>25, <1>26, <1>27, NextCases

(* A logout stored while its generation runs is followed by that generation's *)
(* stop, whether the call returns, times out or its connection closes         *)
(* (commands.rs, Logout).                                                     *)
LEMMA FlagStops == Spec => []FlagStopsItsGeneration
<1>1. Init => FlagInv
  BY Builders DEF Init, FlagInv, FlagStopsItsGeneration
<1>2. FlagInv => FlagStopsItsGeneration
  BY DEF FlagInv
<1> QED BY <1>1, <1>2, FlagStep, TypeCorrect, PTL DEF Spec

(* A wipe always answers an accepted logout that was not carried out yet, and  *)
(* a stored logout stops its generation even if the command is dropped.        *)
THEOREM LogoutExact == Spec => []LogoutIsExact
<1>1. WipeIsOwed /\ FlagStopsItsGeneration => LogoutIsExact
  BY DEF LogoutIsExact
<1> QED BY <1>1, WipeOwed, FlagStops, PTL

-----------------------------------------------------------------------------
(* Resync *)

(* A step keeps a standing request armed. *)
LEMMA ArmedStep == TypeOK /\ RequestStaysArmed /\ [Next]_vars => RequestStaysArmed'
<1> SUFFICES ASSUME TypeOK, RequestStaysArmed, [Next]_vars PROVE RequestStaysArmed'
  OBVIOUS
<1> USE Builders DEF TypeOK, RequestStaysArmed
<1>1. CASE UNCHANGED vars
  BY <1>1 DEF vars
<1>2. CASE BeginGeneration
  BY <1>2 DEF BeginGeneration, stop, link, replay
<1>3. CASE Prepare
  BY <1>3 DEF Prepare, Answer, stop, link, replay
<1>4. CASE OnConnected
  BY <1>4 DEF OnConnected, stop, link, replay
<1>5. CASE Disconnect
  BY <1>5 DEF Disconnect, stop, link, replay
<1>6. CASE StopForLogout
  BY <1>6 DEF StopForLogout, stop, link, replay
<1>7. CASE StopForResync
  BY <1>7 DEF StopForResync, stop, link, replay
<1>8. CASE RetireGeneration
  BY <1>8 DEF RetireGeneration, stop, link, replay
<1>9. CASE DropClient
  BY <1>9 DEF DropClient, stop, link, replay
<1>10. CASE WipeAccount
  BY <1>10 DEF WipeAccount, stop, link, replay
<1>11. CASE KeepAccount
  BY <1>11 DEF KeepAccount, stop, link, replay
<1>12. CASE Restart
  BY <1>12 DEF Restart, Forget, stop, link, replay
<1>13. CASE WipeIsCut
  BY <1>13 DEF WipeIsCut, Forget, stop, link, replay
<1>14. CASE Logout
  BY <1>14 DEF Logout, stop, link, replay
<1>15. CASE TakeTrigger
  BY <1>15 DEF TakeTrigger, stop, link, replay
<1>16. CASE StoreFlag
  BY <1>16 DEF StoreFlag, stop, link, replay
<1>17. CASE LogoutEnds
  BY <1>17 DEF LogoutEnds, stop, link, replay
<1>18. CASE ResyncChatState
  BY <1>18 DEF ResyncChatState, stop, link, replay
<1>19. CASE RemoveMarker
  BY <1>19 DEF RemoveMarker, stop, link, replay
<1>20. CASE ReportRequested
  BY <1>20 DEF ReportRequested, stop, link, replay
<1>21. CASE ReplayArrives
  BY <1>21 DEF ReplayArrives, stop, link, replay
<1>22. CASE AppStateSyncFailed
  BY <1>22 DEF AppStateSyncFailed, Answer, stop, link, replay
<1>23. ASSUME NEW w \in Waiters, GiveUp(w) PROVE RequestStaysArmed'
  BY <1>23 DEF GiveUp, stop, link, replay
<1>24. ASSUME NEW w \in Waiters, Settle(w) PROVE RequestStaysArmed'
  BY <1>24 DEF Settle, stop, link, replay
<1>25. ASSUME NEW w \in Waiters, MarkEventSyncComplete(w) PROVE RequestStaysArmed'
  <2>1. Task("swap", waiter[w].gen, waiter[w].outcome).step = "swap"
    BY Fields
  <2>2. waiter'[w].step = "swap"
    BY <1>25, <2>1 DEF MarkEventSyncComplete
  <2> QED BY <2>2
<1>26. ASSUME NEW w \in Waiters, TakeRequest(w) PROVE RequestStaysArmed'
  BY <1>26 DEF TakeRequest, stop, link, replay
<1>27. ASSUME NEW w \in Waiters, ReportOutcome(w) PROVE RequestStaysArmed'
  BY <1>27 DEF ReportOutcome, stop, link, replay
<1> QED
  BY <1>1, <1>2, <1>3, <1>4, <1>5, <1>6, <1>7, <1>8, <1>9, <1>10, <1>11,
     <1>12, <1>13, <1>14, <1>15, <1>16, <1>17, <1>18, <1>19, <1>20, <1>21,
     <1>22, <1>23, <1>24, <1>25, <1>26, <1>27, NextCases

(* A resync request is not forgotten on disk while it stands, across failures, *)
(* timeouts, reconnects and generations (commands.rs, events.rs).              *)
THEOREM RequestArmed == Spec => []RequestStaysArmed
<1>1. Init => RequestStaysArmed
  BY DEF Init, RequestStaysArmed
<1> QED BY <1>1, ArmedStep, TypeCorrect, PTL DEF Spec

-----------------------------------------------------------------------------
(* The connection status (main.rs, events.rs, state.rs) *)

StatusNames == {"none", "starting", "connected", "disconnected", "logged_out", "error"}
StatusType == [is : StatusNames, code : {0}] \cup [is : {"pairing"}, code : Nat]
EventType == [event : Events, gen : Nat, late : BOOLEAN, number : Nat]
WriterType == [step : {"rests", "client", "qr", "status", "publish"}, says : StatusType,
               client : Nat, late : BOOLEAN]
Writers == {"callback", "stale", "reducer", "loop"}

LinkTypeOK ==
    /\ line \in {"down", "pairing", "up"}
    /\ running \in Nat /\ sessions \in Nat /\ transport \in Nat /\ codeFile \in Nat
    /\ shown \in StatusType /\ told \in StatusType /\ signals \in Nat
    /\ inflow \in Seq(EventType) /\ backlog \in Seq(EventType)
    /\ writer \in [Writers -> WriterType]
    /\ loopAt \in {"runs", "retires", "retires_silently", "swaps"}

\* What waits in a queue, and what of it the reducer will not drop.
Waiting(s) == {s[i] : i \in DOMAIN s}
Ours == {e \in Waiting(backlog) : e.gen = running}

\* The handlers of these set or clear the client.
Switches == {"connected", "dropped", "loggedOut", "replaced"}
SwitchesAt(s, i) == i \in DOMAIN s /\ s[i].event \in Switches
LastSwitch(s, i) == SwitchesAt(s, i) /\ \A j \in DOMAIN s : SwitchesAt(s, j) => j <= i
NoSwitch(s) == \A i \in DOMAIN s : s[i].event \notin Switches

Quiet == "overlap" \notin mixed
NoticeOff == "notice" \notin mixed

\* A status is still to be set by this one.
Setter(w) == writer[w].step \in {"client", "qr", "status"}

\* An app event was or will be handled after a later callback of its client.
Late ==
    \/ "late" \in mixed
    \/ \E e \in Ours : e.late
    \/ Setter("reducer") /\ writer["reducer"].late

LinkStages ==
    /\ sessions # 0 /\ running \in {0, sessions}
    /\ loopAt = "runs" => running = sessions
    /\ loopAt = "swaps" => running = 0
    /\ running = 0 => inflow = <<>> /\ line = "down"
    /\ \A i \in DOMAIN inflow : inflow[i].gen = sessions /\ ~inflow[i].late
    /\ \A e \in Waiting(backlog) : e.gen \in 1..sessions /\ e.event \notin Lifecycle

Turns ==
    /\ \A v, w \in Writers : Writing(v) /\ Writing(w) => v = w
    /\ Writing("callback") => running # 0
    /\ Writing("stale") => running = 0 /\ loopAt # "swaps"
    /\ Writing("reducer") => loopAt # "swaps"
    /\ Writing("loop") => loopAt # "runs" /\ (running = 0 => loopAt = "swaps")

\* The shared values are those of the one who writes, as far as it has come.
ToldAgrees ==
    /\ \A w \in Writers : writer[w].step = "publish" => shown = writer[w].says
    /\ (\A w \in Writers : writer[w].step # "publish") => told = shown

CodeAgrees ==
    {"unwritten", "cut"} \cap mixed = {} =>
        /\ \A w \in Writers : writer[w].step = "status" => codeFile = writer[w].says.code
        /\ (\A w \in Writers : writer[w].step # "status") => codeFile = shown.code

\* Between two clients nothing is connected, unless a resync ended the last one.
SwapAgrees ==
    loopAt = "swaps" =>
        /\ transport = 0 /\ writer["loop"].step # "client"
        /\ Setter("loop") => writer["loop"].says.is # "connected"
        /\ ~Setter("loop") => shown.is # "connected" \/ "silent" \in mixed

Linked == IF line = "up" THEN running ELSE 0

\* The last of the events on their way that sets the client is the line's last
\* change; with none on its way the client is set, or about to be.
ClientFollows ==
    /\ \A i \in DOMAIN inflow :
          LastSwitch(inflow, i) => (line = "up" <=> inflow[i].event = "connected")
    /\ NoSwitch(inflow) /\ (\E e \in Ours : e.event \in Switches) => line # "up"
    /\ NoSwitch(inflow) /\ (\A e \in Ours : e.event \notin Switches) =>
          /\ \A w \in Writers : writer[w].step = "client" => writer[w].client = Linked
          /\ (\A w \in Writers : writer[w].step # "client") => transport = Linked

\* The same of the status; a synchronization error is shown over a live link.
StatusFollows ==
    /\ inflow # <<>> =>
          /\ inflow[Len(inflow)].event = "connected" => line = "up"
          /\ line = "up" => inflow[Len(inflow)].event \in {"connected", "unsynced"}
    /\ inflow = <<>> /\ Ours # {} /\ NoticeOff /\ line = "up" =>
          \E e \in Ours : e.event = "unsynced"
    /\ inflow = <<>> /\ Ours = {} =>
          /\ \A w \in Writers : Setter(w) =>
                /\ writer[w].says.is = "connected" => line = "up"
                /\ line = "up" /\ NoticeOff => writer[w].says.is = "connected"
          /\ (\A w \in Writers : ~Setter(w)) =>
                /\ shown.is = "connected" /\ "silent" \notin mixed => line = "up"
                /\ line = "up" /\ NoticeOff => shown.is = "connected"

LinkInv ==
    /\ LinkTypeOK
    /\ LinkStages
    /\ Quiet => Turns /\ ToldAgrees /\ CodeAgrees /\ SwapAgrees
    /\ Quiet /\ ~Late /\ loopAt = "runs" => ClientFollows /\ StatusFollows

(* Queues of events. *)

LEMMA Appended ==
    ASSUME NEW s \in Seq(EventType), NEW e \in EventType, NEW t, t = Append(s, e)
    PROVE  /\ t \in Seq(EventType) /\ Len(t) = Len(s) + 1 /\ t # <<>>
           /\ t[Len(t)] = e /\ DOMAIN t = 1..Len(t)
           /\ \A i \in DOMAIN s : i \in DOMAIN t /\ i < Len(t) /\ t[i] = s[i]
           /\ \A i \in DOMAIN t : i = Len(t) \/ (i \in DOMAIN s /\ t[i] = s[i])
           /\ Waiting(t) = Waiting(s) \cup {e}
<1>1. /\ t \in Seq(EventType) /\ Len(t) = Len(s) + 1 /\ t # <<>>
      /\ Len(s) \in Nat /\ DOMAIN s = 1..Len(s) /\ DOMAIN t = 1..Len(t)
  BY LenProperties
<1>2. t[Len(t)] = e
  BY <1>1
<1>3. \A i \in DOMAIN s : i \in DOMAIN t /\ i < Len(t) /\ t[i] = s[i]
  BY <1>1
<1>4. \A i \in DOMAIN t : i = Len(t) \/ (i \in DOMAIN s /\ t[i] = s[i])
  BY <1>1
<1>5. Len(t) \in DOMAIN t
  BY <1>1
<1>6. Waiting(t) \subseteq Waiting(s) \cup {e}
  BY <1>2, <1>4 DEF Waiting
<1>7. Waiting(s) \subseteq Waiting(t) /\ e \in Waiting(t)
  BY <1>2, <1>3, <1>5 DEF Waiting
<1> QED
  BY <1>1, <1>2, <1>3, <1>4, <1>6, <1>7

LEMMA WaitingAppended ==
    ASSUME NEW s \in Seq(EventType), NEW e \in EventType, NEW t, t = Append(s, e)
    PROVE  Waiting(t) = Waiting(s) \cup {e}
<1>1. Waiting(t) = Waiting(s) \cup {e}
  BY Appended
<1> QED
  BY <1>1

LEMMA Taken ==
    ASSUME NEW s \in Seq(EventType), s # <<>>, NEW t, t = Tail(s)
    PROVE  /\ t \in Seq(EventType) /\ Head(s) \in EventType /\ 1 \in DOMAIN s
           /\ Head(s) = s[1]
           /\ \A i \in DOMAIN t : i \in Nat /\ i + 1 \in DOMAIN s /\ t[i] = s[i + 1]
           /\ \A i \in DOMAIN s : i \in Nat /\ (i = 1 \/ i - 1 \in DOMAIN t)
           /\ t # <<>> => t[Len(t)] = s[Len(s)]
           /\ t = <<>> => Head(s) = s[Len(s)]
           /\ Waiting(s) = {Head(s)} \cup Waiting(t)
<1>1. /\ t \in Seq(EventType) /\ Head(s) \in EventType
      /\ Len(s) \in Nat /\ Len(s) # 0 /\ DOMAIN s = 1..Len(s)
      /\ Len(t) = Len(s) - 1 /\ DOMAIN t = 1..Len(t) /\ Head(s) = s[1]
      /\ t # <<>> => Len(t) # 0
      /\ t = <<>> => Len(t) = 0
  <2>1. Len(s) \in Nat \ {0} /\ DOMAIN s = 1..Len(s)
    BY EmptySeq, LenProperties
  <2>2. t \in Seq(EventType) /\ Len(t) = Len(s) - 1
    BY <2>1
  <2>3. DOMAIN t = 1..Len(t) /\ (t # <<>> => Len(t) # 0) /\ (t = <<>> => Len(t) = 0)
    BY <2>2, EmptySeq, LenProperties
  <2>4. Head(s) = s[1] /\ Head(s) \in EventType
    BY <2>1
  <2> QED
    BY <2>1, <2>2, <2>3, <2>4
<1>2. 1 \in DOMAIN s
  BY <1>1
<1>3. \A i \in DOMAIN t : i \in Nat /\ i + 1 \in DOMAIN s /\ t[i] = s[i + 1]
  BY <1>1
<1>4. \A i \in DOMAIN s : i \in Nat /\ (i = 1 \/ i - 1 \in DOMAIN t)
  BY <1>1
<1>5. t # <<>> => t[Len(t)] = s[Len(s)]
  BY <1>1
<1>6. t = <<>> => Head(s) = s[Len(s)]
  BY <1>1
<1>7. Waiting(t) \subseteq Waiting(s) /\ Head(s) \in Waiting(s)
  BY <1>1, <1>2, <1>3 DEF Waiting
<1>8. ASSUME NEW i \in DOMAIN s PROVE s[i] \in {Head(s)} \cup Waiting(t)
  <2>1. CASE i = 1
    BY <1>1, <2>1
  <2>2. CASE i - 1 \in DOMAIN t
    <3>1. t[i - 1] = s[i]
      BY <1>3, <1>4, <2>2
    <3> QED
      BY <2>2, <3>1 DEF Waiting
  <2> QED
    BY <1>4, <2>1, <2>2
<1> QED
  BY SMTT(60), <1>1, <1>2, <1>3, <1>4, <1>5, <1>6, <1>7, <1>8 DEF Waiting

LEMMA SwitchesAppended ==
    ASSUME NEW s \in Seq(EventType), NEW e \in EventType, NEW t, t = Append(s, e)
    PROVE  /\ NoSwitch(t) <=> NoSwitch(s) /\ e.event \notin Switches
           /\ \A i \in DOMAIN t : LastSwitch(t, i) /\ e.event \in Switches => t[i] = e
           /\ \A i \in DOMAIN t : LastSwitch(t, i) /\ e.event \notin Switches =>
                 i \in DOMAIN s /\ t[i] = s[i] /\ LastSwitch(s, i)
<1>1. /\ Len(t) \in DOMAIN t /\ t[Len(t)] = e /\ Len(t) \in Nat
      /\ \A i \in DOMAIN s : i \in DOMAIN t /\ i < Len(t) /\ t[i] = s[i]
      /\ \A i \in DOMAIN t : i \in Nat
      /\ \A i \in DOMAIN t : i = Len(t) \/ (i \in DOMAIN s /\ t[i] = s[i])
  BY Appended, LenProperties
<1>2. NoSwitch(t) <=> NoSwitch(s) /\ e.event \notin Switches
  BY <1>1 DEF NoSwitch
<1>3. ASSUME NEW i \in DOMAIN t, LastSwitch(t, i), e.event \in Switches PROVE t[i] = e
  <2>1. Len(t) <= i
    BY <1>1, <1>3 DEF LastSwitch, SwitchesAt
  <2>2. i \notin DOMAIN s
    BY <1>1, <2>1
  <2> QED
    BY <1>1, <2>2
<1>4. ASSUME NEW i \in DOMAIN t, LastSwitch(t, i), e.event \notin Switches
      PROVE  i \in DOMAIN s /\ t[i] = s[i] /\ LastSwitch(s, i)
  <2>1. i \in DOMAIN s /\ t[i] = s[i]
    BY <1>1, <1>4 DEF LastSwitch, SwitchesAt
  <2>2. \A j \in DOMAIN s : SwitchesAt(s, j) => j <= i
    BY <1>1, <1>4 DEF LastSwitch, SwitchesAt
  <2> QED
    BY <1>4, <2>1, <2>2 DEF LastSwitch, SwitchesAt
<1> QED
  BY <1>2, <1>3, <1>4

LEMMA SwitchesTaken ==
    ASSUME NEW s \in Seq(EventType), s # <<>>, NEW t, t = Tail(s)
    PROVE  /\ \A i \in DOMAIN t : LastSwitch(t, i) => LastSwitch(s, i + 1) /\ t[i] = s[i + 1]
           /\ NoSwitch(t) /\ Head(s).event \in Switches => LastSwitch(s, 1) /\ s[1] = Head(s)
           /\ NoSwitch(t) /\ Head(s).event \notin Switches => NoSwitch(s)
<1>1. /\ 1 \in DOMAIN s /\ Head(s) = s[1]
      /\ \A i \in DOMAIN t : i \in Nat /\ i + 1 \in DOMAIN s /\ t[i] = s[i + 1]
      /\ \A i \in DOMAIN s : i \in Nat /\ (i = 1 \/ i - 1 \in DOMAIN t)
  BY Taken
<1>2. \A j \in DOMAIN s : j # 1 => j - 1 \in DOMAIN t /\ t[j - 1] = s[j]
  BY <1>1
<1>3. ASSUME NEW i \in DOMAIN t, LastSwitch(t, i) PROVE LastSwitch(s, i + 1)
  <2>1. ASSUME NEW j \in DOMAIN s, SwitchesAt(s, j) PROVE j <= i + 1
    <3>1. CASE j = 1
      BY <1>1, <3>1
    <3>2. CASE j # 1
      <4>1. j - 1 \in DOMAIN t /\ SwitchesAt(t, j - 1)
        BY <1>2, <2>1, <3>2 DEF SwitchesAt
      <4>2. j - 1 <= i
        BY <1>3, <4>1 DEF LastSwitch
      <4> QED
        BY <1>1, <4>2
    <3> QED
      BY <3>1, <3>2
  <2>2. SwitchesAt(s, i + 1)
    BY <1>1, <1>3 DEF LastSwitch, SwitchesAt
  <2> QED
    BY <2>1, <2>2 DEF LastSwitch
<1>4. ASSUME NoSwitch(t), Head(s).event \in Switches PROVE LastSwitch(s, 1)
  <2>1. ASSUME NEW j \in DOMAIN s, SwitchesAt(s, j) PROVE j = 1
    BY <1>2, <1>4, <2>1 DEF NoSwitch, SwitchesAt
  <2> QED
    BY SMTT(60), <1>1, <1>4, <2>1 DEF LastSwitch, SwitchesAt
<1>5. ASSUME NoSwitch(t), Head(s).event \notin Switches PROVE NoSwitch(s)
  BY <1>1, <1>2, <1>5 DEF NoSwitch
<1> QED
  BY <1>1, <1>3, <1>4, <1>5

LEMMA Overtaken ==
    ASSUME NEW s \in Seq(EventType), NEW t, t = Overtake(s)
    PROVE  /\ t \in Seq(EventType)
           /\ \A e \in Waiting(t) : e.late /\ \E d \in Waiting(s) : e.gen = d.gen /\ e.event = d.event
           /\ \A d \in Waiting(s) : \E e \in Waiting(t) : e.gen = d.gen
<1>1. DOMAIN s = 1..Len(s) /\ Len(s) \in Nat /\ \A i \in DOMAIN s : s[i] \in EventType
  BY LenProperties, ElementOfSeq
<1>2. DOMAIN t = DOMAIN s /\ \A i \in DOMAIN s : t[i] = [s[i] EXCEPT !.late = TRUE]
  BY DEF Overtake
<1>3. \A i \in DOMAIN s : /\ t[i] \in EventType /\ t[i].late
                          /\ t[i].gen = s[i].gen /\ t[i].event = s[i].event
  BY ZenonT(90), <1>1, <1>2 DEF EventType
<1>4. t = [i \in 1..Len(s) |-> t[i]]
  BY <1>1 DEF Overtake
<1>5. t \in [1..Len(s) -> EventType]
  BY <1>1, <1>2, <1>3, <1>4
<1>6. t \in Seq(EventType)
  BY <1>1, <1>5, SeqDef
<1> QED
  BY <1>2, <1>3, <1>6 DEF Waiting

(* Handlers. *)

LEMMA RestingIs ==
    /\ Resting \in WriterType /\ Resting.step = "rests"
    /\ Says("disconnected", 0) \in StatusType /\ Says("logged_out", 0) \in StatusType
    /\ Says("starting", 0) \in StatusType
    /\ Says("disconnected", 0).is # "connected" /\ Says("logged_out", 0).is # "connected"
  BY DEF Resting, WriterType, Says, StatusType, StatusNames

LEMMA HandlingIs ==
    ASSUME NEW e \in EventType, NEW p, p = Handling(e)
    PROVE  /\ p \in WriterType /\ p.late = e.late
           /\ p.step = IF e.event \in Switches THEN "client" ELSE "qr"
           /\ p.client = IF e.event = "connected" THEN e.gen ELSE 0
           /\ p.says.is = "connected" <=> e.event = "connected"
<1>1. PICK q : q = Answered(e.event, e.number)
  OBVIOUS
<1>2. e.event \in Events /\ e.gen \in Nat /\ e.late \in BOOLEAN /\ e.number \in Nat
  BY DEF EventType
<1>3. q \in StatusType /\ (q.is = "connected" <=> e.event = "connected")
  <2>1. /\ StatusOf["code"] = "pairing" /\ StatusOf["connected"] = "connected"
        /\ StatusOf["loggedOut"] = "logged_out" /\ StatusOf["dropped"] = "disconnected"
        /\ StatusOf["replaced"] = "disconnected" /\ StatusOf["exhausted"] = "disconnected"
        /\ StatusOf["refused"] = "error" /\ StatusOf["unsynced"] = "error"
    BY DEF StatusOf
  <2>2. q = [is |-> StatusOf[e.event], code |-> IF e.event = "code" THEN e.number ELSE 0]
    BY <1>1 DEF Answered, Says
  <2>3. e.event \in {"code", "connected", "dropped", "loggedOut", "replaced", "exhausted",
                     "refused", "unsynced"}
    BY <1>2 DEF Events, Lifecycle
  <2> QED
    BY <1>2, <2>1, <2>2, <2>3 DEF StatusType, StatusNames
<1>4. p = [step |-> IF e.event \in Switches THEN "client" ELSE "qr", says |-> q,
           client |-> IF e.event = "connected" THEN e.gen ELSE 0, late |-> e.late]
  BY <1>1 DEF Handling, Switches
<1> QED
  BY <1>2, <1>3, <1>4 DEF WriterType

LEMMA SettingIs ==
    ASSUME NEW s \in StatusType, NEW p, p = Setting(s)
    PROVE  /\ p \in WriterType /\ p.step = "qr" /\ p.says = s /\ p.late = FALSE
  BY DEF Setting, WriterType

LEMMA LinkBegins ==
    ASSUME LinkInit
    PROVE  LinkInv
<1> USE DEF LinkInit
<1>1. LinkTypeOK
  BY RestingIs, EmptySeq DEF LinkTypeOK, Writers
<1>2. Waiting(backlog) = {} /\ Ours = {}
  BY DEF Waiting, Ours
<1>3. LinkStages
  BY <1>2 DEF LinkStages
<1>4. \A w \in Writers : writer[w].step = "rests"
  BY RestingIs DEF Writers
<1>5. Turns
  BY <1>4 DEF Turns, Writing, Writers
<1>6. ToldAgrees /\ SwapAgrees
  BY <1>4 DEF ToldAgrees, SwapAgrees
<1>7. CodeAgrees
  BY <1>4 DEF CodeAgrees, Says
<1>8. ClientFollows
  BY <1>2, <1>4 DEF ClientFollows, Linked
<1>9. StatusFollows
  BY <1>2, <1>4 DEF StatusFollows, Setter, Says
<1> QED
  BY <1>1, <1>3, <1>5, <1>6, <1>7, <1>8, <1>9 DEF LinkInv

(* The steps of a handler. *)

LEMMA WriterTypes ==
    ASSUME LinkTypeOK, NEW w \in Writers
    PROVE  /\ DOMAIN writer = Writers /\ writer[w] \in WriterType
           /\ writer[w].step \in {"rests", "client", "qr", "status", "publish"}
           /\ writer[w].says \in StatusType /\ writer[w].client \in Nat
           /\ writer[w].late \in BOOLEAN
           /\ writer[w].says.code \in Nat
           /\ writer[w].says.is # "pairing" => writer[w].says.code = 0
<1>1. DOMAIN writer = Writers /\ writer[w] \in WriterType
  BY DEF LinkTypeOK
<1>2. writer[w].says \in StatusType
  BY <1>1 DEF WriterType
<1> QED
  BY <1>1, <1>2 DEF WriterType, StatusType, StatusNames

\* Where no two have written at once, the others rest while one writes.
LEMMA Alone ==
    ASSUME Turns, NEW w \in Writers, Writing(w)
    PROVE  /\ \A v \in Writers : v # w => writer[v].step = "rests"
           /\ loopAt = "runs" => w # "loop"
           /\ loopAt = "swaps" => w \in {"loop", "callback"}
<1>1. \A v \in Writers : v # w => writer[v].step = "rests"
  BY DEF Turns, Writing
<1>2. loopAt = "runs" => w # "loop"
  BY DEF Turns
<1>3. loopAt = "swaps" => w # "stale" /\ w # "reducer"
  BY DEF Turns
<1> QED
  BY <1>1, <1>2, <1>3 DEF Writers

\* A step of a writer leaves the client, its events and the loop as they are.
LEMMA StagesStay ==
    ASSUME LinkStages, UNCHANGED <<line, running, sessions, inflow, backlog, loopAt>>
    PROVE  /\ LinkStages' /\ Ours' = Ours /\ Linked' = Linked
           /\ NoSwitch(inflow)' <=> NoSwitch(inflow)
  BY DEF LinkStages, Ours, Waiting, Linked, NoSwitch

LEMMA TurnsStay ==
    ASSUME Turns, \A v \in Writers : writer'[v].step # "rests" => writer[v].step # "rests",
           UNCHANGED <<running, loopAt>>
    PROVE  Turns'
  BY DEF Turns, Writing, Writers

LEMMA SetClientAgrees ==
    ASSUME LinkInv, NEW w \in Writers, SetClient(w)
    PROVE  LinkInv'
<1> USE DEF LinkInv
<1>1. /\ writer[w].step = "client" /\ transport' = writer[w].client
      /\ mixed' = mixed \cup (IF w = "reducer" /\ writer[w].late THEN {"late"} ELSE {})
      /\ line' = line /\ running' = running /\ sessions' = sessions /\ shown' = shown
      /\ told' = told /\ codeFile' = codeFile /\ signals' = signals /\ inflow' = inflow
      /\ backlog' = backlog /\ loopAt' = loopAt
  BY DEF SetClient
<1>2. PICK p : p = [writer[w] EXCEPT !.step = "qr", !.client = 0]
  OBVIOUS
<1>3. /\ DOMAIN writer = Writers /\ writer[w] \in WriterType
      /\ \A v \in Writers : writer[v] \in WriterType
  BY WriterTypes
<1>4. /\ p \in WriterType /\ p.step = "qr" /\ p.says = writer[w].says
      /\ p.late = writer[w].late
  BY <1>2, <1>3 DEF WriterType
<1>5. writer' = [writer EXCEPT ![w] = p]
  BY <1>2, <1>3 DEF SetClient
<1>6. writer'[w] = p /\ \A v \in Writers : v # w => writer'[v] = writer[v]
  BY <1>3, <1>5
<1>7. writer' \in [Writers -> WriterType] /\ transport' \in Nat
  BY <1>1, <1>3, <1>4, <1>5, WriterTypes DEF LinkTypeOK
<1>8. LinkTypeOK'
  BY <1>1, <1>7 DEF LinkTypeOK
<1>9. LinkStages' /\ Ours' = Ours /\ Linked' = Linked /\ (NoSwitch(inflow)' <=> NoSwitch(inflow))
  BY <1>1, StagesStay
<1>10. Quiet' => Quiet
  BY <1>1 DEF Quiet
<1>11. ASSUME Quiet PROVE Turns' /\ ToldAgrees' /\ CodeAgrees' /\ SwapAgrees'
  <2>1. /\ \A v \in Writers : v # w => writer[v].step = "rests"
        /\ loopAt = "swaps" => w \in {"loop", "callback"}
    BY <1>1, <1>11, Alone DEF Writing
  <2>2. \A v \in Writers : v # w => writer'[v].step = "rests"
    BY <1>6, <2>1
  <2>3. Turns'
    BY <1>1, <1>6, <1>11, TurnsStay
  <2>4. told = shown /\ ({"unwritten", "cut"} \cap mixed = {} => codeFile = shown.code)
    BY <1>1, <1>11, <2>1 DEF ToldAgrees, CodeAgrees
  <2>5. ToldAgrees'
    BY <1>1, <1>4, <1>6, <2>2, <2>4 DEF ToldAgrees
  <2>6. CodeAgrees'
    BY <1>1, <1>4, <1>6, <2>2, <2>4 DEF CodeAgrees
  <2>7. loopAt # "swaps"
    <3>1. loopAt = "swaps" => running = 0
      BY DEF LinkStages
    <3>2. w = "callback" => running # 0
      BY <1>1, <1>11 DEF Turns, Writing
    <3>3. loopAt = "swaps" => w # "loop"
      BY <1>1, <1>11 DEF SwapAgrees
    <3> QED
      BY <2>1, <3>1, <3>2, <3>3
  <2>8. SwapAgrees'
    BY <1>1, <2>7 DEF SwapAgrees
  <2> QED
    BY <2>3, <2>5, <2>6, <2>8
<1>12. ASSUME Quiet, ~Late', loopAt = "runs" PROVE ClientFollows' /\ StatusFollows'
  <2>1. ~Late
    <3>1. "late" \notin mixed
      BY <1>1, <1>12 DEF Late
    <3>2. ~(\E e \in Ours : e.late)
      BY <1>9, <1>12 DEF Late
    <3>3. ~(Setter("reducer") /\ writer["reducer"].late)
      BY <1>1, <1>4, <1>6, <1>12 DEF Late, Setter, Writers
    <3> QED
      BY <3>1, <3>2, <3>3 DEF Late
  <2>2. ClientFollows /\ StatusFollows
    BY <1>12, <2>1
  <2>3. \A v \in Writers : v # w => writer[v].step = "rests"
    BY <1>1, <1>12, Alone DEF Writing
  <2>4. \A v \in Writers : writer'[v].step # "client"
    BY <1>4, <1>6, <2>3
  <2>5. ClientFollows'
    <3>1. NoSwitch(inflow) /\ (\A e \in Ours : e.event \notin Switches) => transport' = Linked
      BY <1>1, <2>2 DEF ClientFollows
    <3> QED
      BY <1>1, <1>9, <2>2, <2>4, <3>1 DEF ClientFollows, LastSwitch, SwitchesAt
  <2>6. /\ \A v \in Writers : Setter(v)' <=> Setter(v)
        /\ \A v \in Writers : writer'[v].says = writer[v].says
    BY <1>1, <1>4, <1>6 DEF Setter
  <2>7. NoticeOff' = NoticeOff /\ ("silent" \in mixed' <=> "silent" \in mixed)
    BY <1>1 DEF NoticeOff
  <2>8. StatusFollows'
    BY <1>1, <1>9, <2>2, <2>6, <2>7 DEF StatusFollows
  <2> QED
    BY <2>5, <2>8
<1> QED
  BY <1>1, <1>8, <1>9, <1>10, <1>11, <1>12

LEMMA WriteCodeAgrees ==
    ASSUME LinkInv, NEW w \in Writers, WriteCode(w)
    PROVE  LinkInv'
<1> USE DEF LinkInv
<1>1. /\ writer[w].step = "qr"
      /\ \/ codeFile' = writer[w].says.code /\ mixed' = mixed
         \/ codeFile' = codeFile /\ mixed' = mixed \cup {"unwritten"}
         \/ writer[w].says.is # "pairing" /\ codeFile' = 0 /\ mixed' = mixed
      /\ shown' = shown /\ told' = told
      /\ line' = line /\ running' = running /\ sessions' = sessions /\ transport' = transport
      /\ signals' = signals /\ inflow' = inflow /\ backlog' = backlog /\ loopAt' = loopAt
  BY DEF WriteCode
<1>2. PICK p : p = [writer[w] EXCEPT !.step = "status"]
  OBVIOUS
<1>3. /\ DOMAIN writer = Writers /\ writer[w] \in WriterType
      /\ \A v \in Writers : writer[v] \in WriterType
  BY WriterTypes
<1>4. /\ p \in WriterType /\ p.step = "status" /\ p.says = writer[w].says
      /\ p.late = writer[w].late /\ p.client = writer[w].client
  BY <1>2, <1>3 DEF WriterType
<1>5. writer' = [writer EXCEPT ![w] = p]
  BY <1>2, <1>3 DEF WriteCode, Onto
<1>6. writer'[w] = p /\ \A v \in Writers : v # w => writer'[v] = writer[v]
  BY <1>3, <1>5
<1>7. writer' \in [Writers -> WriterType] /\ codeFile' \in Nat /\ shown' \in StatusType
      /\ told' \in StatusType
  BY <1>1, <1>3, <1>4, <1>5, WriterTypes DEF LinkTypeOK
<1>8. LinkTypeOK'
  BY <1>1, <1>7 DEF LinkTypeOK
<1>9. LinkStages' /\ Ours' = Ours /\ Linked' = Linked /\ (NoSwitch(inflow)' <=> NoSwitch(inflow))
  BY <1>1, StagesStay
<1>10. Quiet' => Quiet
  BY <1>1 DEF Quiet
<1>11. ASSUME Quiet PROVE Turns' /\ ToldAgrees' /\ CodeAgrees' /\ SwapAgrees'
  <2>1. \A v \in Writers : v # w => writer[v].step = "rests"
    BY <1>1, <1>11, Alone DEF Writing
  <2>2. \A v \in Writers : v # w => writer'[v].step = "rests"
    BY <1>6, <2>1
  <2>3. Turns'
    BY <1>1, <1>6, <1>11, TurnsStay
  <2>4. told = shown
    BY <1>1, <1>11, <2>1 DEF ToldAgrees
  <2>5. ToldAgrees'
    BY <1>1, <1>4, <1>6, <2>2, <2>4 DEF ToldAgrees
  <2>6. CodeAgrees'
    <3>1. writer[w].says.is # "pairing" => writer[w].says.code = 0
      BY WriterTypes
    <3>2. {"unwritten", "cut"} \cap mixed' = {} => codeFile' = p.says.code
      BY <1>1, <1>4, <3>1
    <3> QED
      BY <1>4, <1>6, <2>2, <3>2 DEF CodeAgrees
  <2>7. SwapAgrees'
    <3>1. \A v \in Writers : (Setter(v)' <=> Setter(v)) /\ writer'[v].says = writer[v].says
      BY <1>1, <1>4, <1>6 DEF Setter
    <3>2. writer["loop"].step # "client" => writer'["loop"].step # "client"
      BY <1>4, <1>6 DEF Writers
    <3>3. "silent" \in mixed' <=> "silent" \in mixed
      BY <1>1
    <3>4. (Setter("loop")' <=> Setter("loop")) /\ writer'["loop"].says = writer["loop"].says
      BY <3>1 DEF Writers
    <3> QED
      BY <1>1, <1>11, <3>2, <3>3, <3>4 DEF SwapAgrees
  <2> QED
    BY <2>3, <2>5, <2>6, <2>7
<1>12. ASSUME Quiet, ~Late', loopAt = "runs" PROVE ClientFollows' /\ StatusFollows'
  <2>1. ~Late
    <3>1. "late" \notin mixed
      BY <1>1, <1>12 DEF Late
    <3>2. ~(\E e \in Ours : e.late)
      BY <1>9, <1>12 DEF Late
    <3>3. ~(Setter("reducer") /\ writer["reducer"].late)
      BY <1>1, <1>4, <1>6, <1>12 DEF Late, Setter, Writers
    <3> QED
      BY <3>1, <3>2, <3>3 DEF Late
  <2>2. ClientFollows /\ StatusFollows
    BY <1>12, <2>1
  <2>3. \A v \in Writers : v # w => writer[v].step = "rests"
    BY <1>1, <1>12, Alone DEF Writing
  <2>4. \A v \in Writers : (writer'[v].step = "client" <=> writer[v].step = "client")
                           /\ (writer[v].step = "client" => writer'[v] = writer[v])
    BY <1>1, <1>4, <1>6
  <2>5. ClientFollows'
    BY <1>1, <1>9, <2>2, <2>4 DEF ClientFollows, LastSwitch, SwitchesAt
  <2>7. NoticeOff' = NoticeOff /\ ("silent" \in mixed' <=> "silent" \in mixed)
    BY <1>1 DEF NoticeOff
  <2>6. \A v \in Writers : (Setter(v)' <=> Setter(v))
                           /\ (Setter(v) => writer'[v].says = writer[v].says)
    BY <1>1, <1>4, <1>6 DEF Setter
  <2>8. StatusFollows'
    BY <1>1, <1>9, <2>2, <2>6, <2>7 DEF StatusFollows
  <2> QED
    BY <2>5, <2>8
<1> QED
  BY <1>1, <1>8, <1>9, <1>10, <1>11, <1>12

LEMMA SetStatusAgrees ==
    ASSUME LinkInv, NEW w \in Writers, SetStatus(w)
    PROVE  LinkInv'
<1> USE DEF LinkInv
<1>1. /\ writer[w].step = "status" /\ shown' = writer[w].says
      /\ mixed' = mixed \cup (IF w = "reducer" /\ writer[w].late THEN {"late"} ELSE {})
      /\ told' = told /\ codeFile' = codeFile
      /\ line' = line /\ running' = running /\ sessions' = sessions /\ transport' = transport
      /\ signals' = signals /\ inflow' = inflow /\ backlog' = backlog /\ loopAt' = loopAt
  BY DEF SetStatus
<1>2. PICK p : p = [writer[w] EXCEPT !.step = "publish"]
  OBVIOUS
<1>3. /\ DOMAIN writer = Writers /\ writer[w] \in WriterType
      /\ \A v \in Writers : writer[v] \in WriterType
  BY WriterTypes
<1>4. /\ p \in WriterType /\ p.step = "publish" /\ p.says = writer[w].says
      /\ p.late = writer[w].late /\ p.client = writer[w].client
  BY <1>2, <1>3 DEF WriterType
<1>5. writer' = [writer EXCEPT ![w] = p]
  BY <1>2, <1>3 DEF SetStatus, Onto
<1>6. writer'[w] = p /\ \A v \in Writers : v # w => writer'[v] = writer[v]
  BY <1>3, <1>5
<1>7. writer' \in [Writers -> WriterType] /\ codeFile' \in Nat /\ shown' \in StatusType
      /\ told' \in StatusType
  BY <1>1, <1>3, <1>4, <1>5, WriterTypes DEF LinkTypeOK
<1>8. LinkTypeOK'
  BY <1>1, <1>7 DEF LinkTypeOK
<1>9. LinkStages' /\ Ours' = Ours /\ Linked' = Linked /\ (NoSwitch(inflow)' <=> NoSwitch(inflow))
  BY <1>1, StagesStay
<1>10. Quiet' => Quiet
  BY <1>1 DEF Quiet
<1>11. ASSUME Quiet PROVE Turns' /\ ToldAgrees' /\ CodeAgrees' /\ SwapAgrees'
  <2>1. \A v \in Writers : v # w => writer[v].step = "rests"
    BY <1>1, <1>11, Alone DEF Writing
  <2>2. \A v \in Writers : v # w => writer'[v].step = "rests"
    BY <1>6, <2>1
  <2>3. Turns'
    BY <1>1, <1>6, <1>11, TurnsStay
  <2>5. ToldAgrees'
    BY <1>1, <1>4, <1>6, <2>2 DEF ToldAgrees
  <2>6. CodeAgrees'
    BY <1>1, <1>4, <1>6, <1>11, <2>2 DEF CodeAgrees
  <2>7. SwapAgrees'
    <3>1. SwapAgrees
      BY <1>11
    <3>2. CASE w = "loop"
      BY <1>1, <1>4, <1>6, <3>1, <3>2 DEF SwapAgrees, Setter, Writers
    <3>3. CASE w # "loop"
      <4>1. loopAt = "swaps" => w = "callback"
        BY <1>1, <1>11, <3>3, Alone DEF Writing
      <4>2. w = "callback" => running # 0
        BY <1>1, <1>11 DEF Turns, Writing
      <4> QED
        BY <1>1, <4>1, <4>2 DEF SwapAgrees, LinkStages
    <3> QED
      BY <3>2, <3>3
  <2> QED
    BY <2>3, <2>5, <2>6, <2>7
<1>12. ASSUME Quiet, ~Late', loopAt = "runs" PROVE ClientFollows' /\ StatusFollows'
  <2>1. ~Late
    <3>1. "late" \notin mixed
      BY <1>1, <1>12 DEF Late
    <3>2. ~(\E e \in Ours : e.late)
      BY <1>9, <1>12 DEF Late
    <3>3. ~(Setter("reducer") /\ writer["reducer"].late)
      BY <1>1, <1>4, <1>6, <1>12 DEF Late, Setter, Writers
    <3> QED
      BY <3>1, <3>2, <3>3 DEF Late
  <2>2. ClientFollows /\ StatusFollows
    BY <1>12, <2>1
  <2>3. \A v \in Writers : v # w => writer[v].step = "rests"
    BY <1>1, <1>12, Alone DEF Writing
  <2>4. \A v \in Writers : (writer'[v].step = "client" <=> writer[v].step = "client")
                           /\ (writer[v].step = "client" => writer'[v] = writer[v])
    BY <1>1, <1>4, <1>6
  <2>5. ClientFollows'
    BY <1>1, <1>9, <2>2, <2>4 DEF ClientFollows, LastSwitch, SwitchesAt
  <2>7. NoticeOff' = NoticeOff /\ ("silent" \in mixed' <=> "silent" \in mixed)
    BY <1>1 DEF NoticeOff
  <2>6. \A v \in Writers : ~Setter(v)'
    BY <1>4, <1>6, <2>3 DEF Setter
  <2>8. StatusFollows'
    <3>1. Setter(w)
      BY <1>1 DEF Setter
    <3> QED
      BY <1>1, <1>9, <2>2, <2>6, <2>7, <3>1 DEF StatusFollows
  <2> QED
    BY <2>5, <2>8
<1> QED
  BY <1>1, <1>8, <1>9, <1>10, <1>11, <1>12

LEMMA TellStatusAgrees ==
    ASSUME LinkInv, NEW w \in Writers, TellStatus(w)
    PROVE  LinkInv'
<1> USE DEF LinkInv
<1>1. /\ writer[w].step = "publish" /\ told' = writer[w].says
      /\ shown' = shown /\ codeFile' = codeFile /\ mixed' = mixed
      /\ line' = line /\ running' = running /\ sessions' = sessions /\ transport' = transport
      /\ signals' = signals /\ inflow' = inflow /\ backlog' = backlog /\ loopAt' = loopAt
  BY DEF TellStatus
<1>2. PICK p : p = Resting
  OBVIOUS
<1>3. /\ DOMAIN writer = Writers /\ writer[w] \in WriterType
      /\ \A v \in Writers : writer[v] \in WriterType
  BY WriterTypes
<1>4. p \in WriterType /\ p.step = "rests"
  BY <1>2, RestingIs
<1>5. writer' = [writer EXCEPT ![w] = p]
  BY <1>2, <1>3 DEF TellStatus
<1>6. writer'[w] = p /\ \A v \in Writers : v # w => writer'[v] = writer[v]
  BY <1>3, <1>5
<1>7. writer' \in [Writers -> WriterType] /\ codeFile' \in Nat /\ shown' \in StatusType
      /\ told' \in StatusType
  BY <1>1, <1>3, <1>4, <1>5, WriterTypes DEF LinkTypeOK
<1>8. LinkTypeOK'
  BY <1>1, <1>7 DEF LinkTypeOK
<1>9. LinkStages' /\ Ours' = Ours /\ Linked' = Linked /\ (NoSwitch(inflow)' <=> NoSwitch(inflow))
  BY <1>1, StagesStay
<1>10. Quiet' => Quiet
  BY <1>1 DEF Quiet
<1>11. ASSUME Quiet PROVE Turns' /\ ToldAgrees' /\ CodeAgrees' /\ SwapAgrees'
  <2>1. \A v \in Writers : v # w => writer[v].step = "rests"
    BY <1>1, <1>11, Alone DEF Writing
  <2>2. \A v \in Writers : v # w => writer'[v].step = "rests"
    BY <1>6, <2>1
  <2>3. Turns'
    BY <1>1, <1>6, <1>11, TurnsStay
  <2>5. ToldAgrees'
    BY <1>1, <1>4, <1>6, <1>11, <2>2 DEF ToldAgrees
  <2>6. CodeAgrees'
    BY <1>1, <1>4, <1>6, <1>11, <2>1, <2>2 DEF CodeAgrees
  <2>7. SwapAgrees'
    <3>1. \A v \in Writers : (Setter(v)' <=> Setter(v))
                             /\ (Setter(v) => writer'[v].says = writer[v].says)
      BY <1>1, <1>4, <1>6 DEF Setter
    <3>2. writer["loop"].step # "client" => writer'["loop"].step # "client"
      BY <1>4, <1>6 DEF Writers
    <3>4. (Setter("loop")' <=> Setter("loop"))
          /\ (Setter("loop") => writer'["loop"].says = writer["loop"].says)
      BY <3>1 DEF Writers
    <3> QED
      BY <1>1, <1>11, <3>2, <3>4 DEF SwapAgrees
  <2> QED
    BY <2>3, <2>5, <2>6, <2>7
<1>12. ASSUME Quiet, ~Late', loopAt = "runs" PROVE ClientFollows' /\ StatusFollows'
  <2>1. ~Late
    <3>1. "late" \notin mixed
      BY <1>1, <1>12 DEF Late
    <3>2. ~(\E e \in Ours : e.late)
      BY <1>9, <1>12 DEF Late
    <3>3. ~(Setter("reducer") /\ writer["reducer"].late)
      BY <1>1, <1>4, <1>6, <1>12 DEF Late, Setter, Writers
    <3> QED
      BY <3>1, <3>2, <3>3 DEF Late
  <2>2. ClientFollows /\ StatusFollows
    BY <1>12, <2>1
  <2>3. \A v \in Writers : v # w => writer[v].step = "rests"
    BY <1>1, <1>12, Alone DEF Writing
  <2>4. \A v \in Writers : (writer'[v].step = "client" <=> writer[v].step = "client")
                           /\ (writer[v].step = "client" => writer'[v] = writer[v])
    BY <1>1, <1>4, <1>6
  <2>5. ClientFollows'
    BY <1>1, <1>9, <2>2, <2>4 DEF ClientFollows, LastSwitch, SwitchesAt
  <2>7. NoticeOff' = NoticeOff /\ ("silent" \in mixed' <=> "silent" \in mixed)
    BY <1>1 DEF NoticeOff
  <2>6. \A v \in Writers : (Setter(v)' <=> Setter(v))
                           /\ (Setter(v) => writer'[v].says = writer[v].says)
    BY <1>1, <1>4, <1>6 DEF Setter
  <2>8. StatusFollows'
    BY <1>1, <1>9, <2>2, <2>6, <2>7 DEF StatusFollows
  <2> QED
    BY <2>5, <2>8
<1> QED
  BY <1>1, <1>8, <1>9, <1>10, <1>11, <1>12

(* The client and its callbacks. *)

LEMMA RaiseEventAgrees ==
    ASSUME LinkInv, NEW event \in Events, RaiseEvent(event)
    PROVE  LinkInv'
<1> USE DEF LinkInv
<1>1. PICK e : e = [event |-> event, gen |-> running, late |-> FALSE,
                    number |-> IF event = "code" THEN signals + 1 ELSE 0]
  OBVIOUS
<1>2. /\ running # 0 /\ signals' = signals + 1 /\ inflow' = Append(inflow, e)
      /\ running' = running /\ sessions' = sessions /\ transport' = transport
      /\ shown' = shown /\ told' = told /\ codeFile' = codeFile /\ backlog' = backlog
      /\ writer' = writer /\ loopAt' = loopAt /\ mixed' = mixed
  BY <1>1 DEF RaiseEvent
<1>3. Raised(event, line, line')
  BY DEF RaiseEvent
<1>4. event \in {"code", "connected", "dropped", "loggedOut", "replaced", "exhausted",
                 "refused", "unsynced"}
  BY DEF Events, Lifecycle
<1>5. /\ line' \in {"down", "pairing", "up"}
      /\ event \in Switches => (line' = "up" <=> event = "connected")
      /\ event \notin Switches => (line' = "up" <=> line = "up")
      /\ line' = "up" => event \in {"connected", "unsynced"}
      /\ event = "connected" => line' = "up"
  BY <1>3, <1>4 DEF Raised, Switches
<1>6. /\ signals \in Nat /\ inflow \in Seq(EventType) /\ e \in EventType
      /\ e.event = event /\ e.gen = running /\ e.late = FALSE
  BY <1>1 DEF LinkTypeOK, EventType
<1>7. /\ inflow' \in Seq(EventType) /\ inflow' # <<>> /\ inflow'[Len(inflow')] = e
      /\ \A i \in DOMAIN inflow' :
            i = Len(inflow') \/ (i \in DOMAIN inflow /\ inflow'[i] = inflow[i])
  BY <1>2, <1>6, Appended
<1>8. /\ NoSwitch(inflow)' <=> NoSwitch(inflow) /\ event \notin Switches
      /\ \A i \in DOMAIN inflow' : LastSwitch(inflow', i) /\ event \in Switches => inflow'[i] = e
      /\ \A i \in DOMAIN inflow' : LastSwitch(inflow', i) /\ event \notin Switches =>
            i \in DOMAIN inflow /\ inflow'[i] = inflow[i] /\ LastSwitch(inflow, i)
  <2>1. PICK t : t = Append(inflow, e)
    OBVIOUS
  <2>2. NoSwitch(t) <=> NoSwitch(inflow) /\ e.event \notin Switches
    BY <1>6, <2>1, SwitchesAppended
  <2>4. \A i \in DOMAIN t : LastSwitch(t, i) /\ e.event \in Switches => t[i] = e
    BY ZenonT(90), <1>6, <2>1, SwitchesAppended
  <2>5. \A i \in DOMAIN t : LastSwitch(t, i) /\ e.event \notin Switches =>
           i \in DOMAIN inflow /\ t[i] = inflow[i] /\ LastSwitch(inflow, i)
    <3>1. inflow \in Seq(EventType) /\ e \in EventType
      BY <1>6
    <3>2. \A i \in DOMAIN t : LastSwitch(t, i) /\ e.event \notin Switches => i \in DOMAIN inflow
      BY <2>1, <3>1, SwitchesAppended
    <3>3. \A i \in DOMAIN t : LastSwitch(t, i) /\ e.event \notin Switches => t[i] = inflow[i]
      <4>1. \A i \in DOMAIN inflow : i \in DOMAIN t /\ i < Len(t) /\ t[i] = inflow[i]
        BY <2>1, <3>1, Appended
      <4> QED
        BY <3>2, <4>1
    <3>4. \A i \in DOMAIN t : LastSwitch(t, i) /\ e.event \notin Switches => LastSwitch(inflow, i)
      BY <2>1, <3>1, SwitchesAppended
    <3> QED
      BY <3>2, <3>3, <3>4
  <2>3. inflow' = t /\ (NoSwitch(inflow)' <=> NoSwitch(t))
    BY <1>2, <2>1 DEF NoSwitch
  <2> QED
    BY <1>6, <2>2, <2>3, <2>4, <2>5
<1>9. LinkTypeOK'
  BY <1>2, <1>5, <1>6, <1>7 DEF LinkTypeOK
<1>10. Ours' = Ours /\ Waiting(backlog)' = Waiting(backlog)
  BY <1>2 DEF Ours, Waiting
<1>11. LinkStages'
  <2>1. running = sessions
    BY <1>2 DEF LinkStages
  <2>2. \A i \in DOMAIN inflow' : inflow'[i].gen = sessions /\ ~inflow'[i].late
    BY <1>6, <1>7, <2>1 DEF LinkStages
  <2> QED
    BY <1>2, <1>10, <2>2 DEF LinkStages
<1>12. Quiet' = Quiet /\ Late' = Late
  BY <1>2, <1>10 DEF Quiet, Late, Setter
<1>13. ASSUME Quiet PROVE Turns' /\ ToldAgrees' /\ CodeAgrees' /\ SwapAgrees'
  BY <1>2, <1>13 DEF Turns, Writing, ToldAgrees, CodeAgrees, SwapAgrees, Setter
<1>14. ASSUME Quiet, ~Late, loopAt = "runs" PROVE ClientFollows' /\ StatusFollows'
  <2>1. ClientFollows /\ StatusFollows
    BY <1>14
  <2>2. ASSUME NEW i \in DOMAIN inflow', LastSwitch(inflow', i)
        PROVE  line' = "up" <=> inflow'[i].event = "connected"
    <3>1. CASE event \in Switches
      BY <1>5, <1>6, <1>8, <2>2, <3>1
    <3>2. CASE event \notin Switches
      BY <1>5, <1>8, <2>1, <2>2, <3>2 DEF ClientFollows
    <3> QED
      BY <3>1, <3>2
  <2>3. NoSwitch(inflow)' => NoSwitch(inflow) /\ Linked' = Linked
                             /\ (line' = "up" <=> line = "up")
    BY <1>2, <1>5, <1>8 DEF Linked
  <2>4. ClientFollows'
    <3>1. \A i \in DOMAIN inflow' :
             LastSwitch(inflow', i) => (line' = "up" <=> inflow'[i].event = "connected")
      BY <2>2
    <3>2. NoSwitch(inflow)' /\ (\E x \in Ours : x.event \in Switches) => line' # "up"
      BY <2>1, <2>3 DEF ClientFollows
    <3>3. NoSwitch(inflow)' /\ (\A x \in Ours : x.event \notin Switches) =>
            /\ \A w \in Writers : writer[w].step = "client" => writer[w].client = Linked'
            /\ (\A w \in Writers : writer[w].step # "client") => transport = Linked'
      BY <2>1, <2>3 DEF ClientFollows
    <3> QED
      BY <1>2, <1>10, <3>1, <3>2, <3>3 DEF ClientFollows
  <2>5. StatusFollows'
    BY <1>5, <1>6, <1>7 DEF StatusFollows
  <2> QED
    BY <2>4, <2>5
<1> QED
  BY <1>2, <1>9, <1>11, <1>12, <1>13, <1>14

LEMMA CallBackAgrees ==
    ASSUME LinkInv, TakeEvent, Head(inflow).event \in Lifecycle
    PROVE  LinkInv'
<1> USE DEF LinkInv
<1>1. PICK e : e = Head(inflow)
  OBVIOUS
<1>2. PICK p : p = Handling(e)
  OBVIOUS
<1>3. PICK q : q = [writer["reducer"] EXCEPT !.late = Writing("reducer")]
  OBVIOUS
<1>4. /\ inflow # <<>> /\ ~Writing("callback") /\ inflow' = Tail(inflow)
      /\ backlog' = Overtake(backlog)
      /\ mixed' = mixed \cup (IF Others("callback") THEN {"overlap"} ELSE {})
      /\ line' = line /\ running' = running /\ sessions' = sessions
      /\ transport' = transport /\ shown' = shown /\ told' = told /\ codeFile' = codeFile
      /\ signals' = signals /\ loopAt' = loopAt
  <2>1. e.event \in Lifecycle
    BY <1>1
  <2> QED
    BY <1>1, <2>1 DEF TakeEvent
<1>5. inflow \in Seq(EventType) /\ backlog \in Seq(EventType)
  BY DEF LinkTypeOK
<1>6. /\ inflow' \in Seq(EventType) /\ e \in EventType /\ e = inflow[1] /\ 1 \in DOMAIN inflow
      /\ \A i \in DOMAIN inflow' : i + 1 \in DOMAIN inflow /\ inflow'[i] = inflow[i + 1]
      /\ inflow' # <<>> => inflow'[Len(inflow')] = inflow[Len(inflow)]
      /\ inflow' = <<>> => e = inflow[Len(inflow)]
  <2>1. PICK t : t = Tail(inflow)
    OBVIOUS
  <2>2. /\ t \in Seq(EventType) /\ Head(inflow) \in EventType /\ 1 \in DOMAIN inflow
        /\ Head(inflow) = inflow[1]
    BY <1>4, <1>5, <2>1, Taken
  <2>3. \A i \in DOMAIN t : i + 1 \in DOMAIN inflow /\ t[i] = inflow[i + 1]
    BY <1>4, <1>5, <2>1, Taken
  <2>4. t # <<>> => t[Len(t)] = inflow[Len(inflow)]
    BY <1>4, <1>5, <2>1, Taken
  <2>5. t = <<>> => Head(inflow) = inflow[Len(inflow)]
    BY <1>4, <1>5, <2>1, Taken
  <2> QED
    BY <1>1, <1>4, <2>1, <2>2, <2>3, <2>4, <2>5
<1>7. /\ \A i \in DOMAIN inflow' : LastSwitch(inflow', i) =>
            LastSwitch(inflow, i + 1) /\ inflow'[i] = inflow[i + 1]
      /\ NoSwitch(inflow)' /\ e.event \in Switches => LastSwitch(inflow, 1)
      /\ NoSwitch(inflow)' /\ e.event \notin Switches => NoSwitch(inflow)
  BY <1>1, <1>4, <1>5, SwitchesTaken
<1>8. /\ backlog' \in Seq(EventType)
      /\ \A d \in Waiting(backlog)' :
            d.late /\ \E c \in Waiting(backlog) : d.gen = c.gen /\ d.event = c.event
      /\ \A c \in Waiting(backlog) : \E d \in Waiting(backlog)' : d.gen = c.gen
  BY <1>4, <1>5, Overtaken
<1>9. /\ p \in WriterType /\ p.late = e.late
      /\ p.step = IF e.event \in Switches THEN "client" ELSE "qr"
      /\ p.client = IF e.event = "connected" THEN e.gen ELSE 0
      /\ p.says.is = "connected" <=> e.event = "connected"
  BY <1>2, <1>6, HandlingIs
<1>10. DOMAIN writer = Writers /\ writer["reducer"] \in WriterType
  BY WriterTypes DEF Writers
<1>11. Writing("reducer") \in BOOLEAN
  BY DEF Writing
<1>12. /\ q \in WriterType /\ q.step = writer["reducer"].step /\ q.says = writer["reducer"].says
       /\ q.client = writer["reducer"].client
  BY <1>3, <1>10, <1>11 DEF WriterType
<1>13. writer' = [writer EXCEPT !["callback"] = p, !["reducer"] = q]
  <2>1. writer' = [writer EXCEPT !["callback"] = Handling(Head(inflow)),
                                 !["reducer"].late = Writing("reducer")]
    <3>1. Head(inflow).event \in Lifecycle
      OBVIOUS
    <3> QED
      BY <3>1 DEF TakeEvent
  <2> QED
    BY <1>1, <1>2, <1>3, <1>10, <2>1 DEF Writers
<1>14. /\ writer'["callback"] = p /\ writer'["reducer"] = q
       /\ \A v \in Writers : v \notin {"callback", "reducer"} => writer'[v] = writer[v]
  BY <1>10, <1>13 DEF Writers
<1>15. LinkTypeOK'
  <2>1. writer' \in [Writers -> WriterType]
    BY <1>9, <1>12, <1>13 DEF LinkTypeOK
  <2> QED
    BY <1>4, <1>6, <1>8, <2>1 DEF LinkTypeOK
<1>16. running = sessions /\ running # 0 /\ loopAt # "swaps" /\ e.gen = running
  BY <1>4, <1>6 DEF LinkStages
<1>17. LinkStages'
  <2>1. \A i \in DOMAIN inflow' : inflow'[i].gen = sessions /\ ~inflow'[i].late
    BY <1>6 DEF LinkStages
  <2>2. \A d \in Waiting(backlog)' : d.gen \in 1..sessions /\ d.event \notin Lifecycle
    BY <1>8 DEF LinkStages
  <2>3. sessions' # 0 /\ running' \in {0, sessions'}
        /\ (loopAt' = "runs" => running' = sessions') /\ (loopAt' = "swaps" => running' = 0)
        /\ (running' = 0 => inflow' = <<>> /\ line' = "down")
    BY <1>4, <1>16 DEF LinkStages
  <2> QED
    BY <1>4, <2>1, <2>2, <2>3 DEF LinkStages
<1>18. Quiet' => Quiet /\ ~Others("callback")
  BY <1>4 DEF Quiet
<1>19. ASSUME Quiet' PROVE \A v \in Writers : writer[v].step = "rests"
  BY <1>4, <1>10, <1>18, <1>19 DEF Others, Writing
<1>20. ASSUME Quiet' PROVE Turns' /\ ToldAgrees' /\ CodeAgrees' /\ SwapAgrees'
  <2>1. \A v \in Writers : v # "callback" => writer'[v].step = "rests"
    BY <1>12, <1>14, <1>19, <1>20 DEF Writers
  <2>2. p.step \in {"client", "qr"}
    BY <1>9
  <2>3. Turns'
    <3>1. \A v \in Writers : Writing(v)' => v = "callback"
      BY <2>1 DEF Writing
    <3> QED
      BY <1>4, <1>16, <3>1 DEF Turns, Writers
  <2>4. told = shown /\ ({"unwritten", "cut"} \cap mixed = {} => codeFile = shown.code)
    BY <1>18, <1>19, <1>20 DEF ToldAgrees, CodeAgrees
  <2>5. \A v \in Writers : writer'[v].step \notin {"publish", "status"}
    BY <1>14, <2>1, <2>2
  <2>6. ToldAgrees' /\ CodeAgrees' /\ SwapAgrees'
    BY <1>4, <1>16, <2>4, <2>5 DEF ToldAgrees, CodeAgrees, SwapAgrees
  <2> QED
    BY <2>3, <2>6
<1>21. ASSUME Quiet', ~Late', loopAt = "runs" PROVE ClientFollows' /\ StatusFollows'
  <2>1. Ours' = {}
    BY <1>8, <1>21 DEF Late, Ours
  <2>2. Ours = {}
    BY <1>4, <1>8, <2>1 DEF Ours
  <2>3. ~Late
    <3>1. ~Setter("reducer")
      BY <1>19, <1>21 DEF Setter, Writers
    <3>2. "late" \notin mixed
      BY <1>4, <1>21 DEF Late
    <3> QED
      BY <2>2, <3>1, <3>2 DEF Late
  <2>4. ClientFollows /\ StatusFollows
    BY <1>18, <1>21, <2>3
  <2>5. \A v \in Writers : writer'[v].step # "rests" => v = "callback"
    BY <1>12, <1>14, <1>19, <1>21 DEF Writers
  <2>6. transport = Linked \/ ~NoSwitch(inflow)
    BY <1>19, <1>21, <2>2, <2>4 DEF ClientFollows
  <2>7. Linked' = Linked
    BY <1>4 DEF Linked
  <2>8. ClientFollows'
    <3>1. \A i \in DOMAIN inflow' :
             LastSwitch(inflow', i) => (line = "up" <=> inflow'[i].event = "connected")
      BY <1>6, <1>7, <2>4 DEF ClientFollows
    <3>2. CASE e.event \in Switches
      <4>1. NoSwitch(inflow)' => (line = "up" <=> e.event = "connected")
        BY <1>6, <1>7, <2>4, <3>2 DEF ClientFollows
      <4>2. NoSwitch(inflow)' => p.client = Linked
        BY <1>9, <1>16, <4>1 DEF Linked
      <4>3. p.step = "client"
        BY <1>9, <3>2
      <4>4. \A v \in Writers : writer'[v].step = "client" => v = "callback"
        BY <2>5
      <4>5. "callback" \in Writers
        BY DEF Writers
      <4> QED
        BY <1>4, <1>14, <2>1, <2>7, <3>1, <4>2, <4>3, <4>4, <4>5 DEF ClientFollows
    <3>3. CASE e.event \notin Switches
      <4>1. \A v \in Writers : writer'[v].step # "client"
        BY <1>9, <1>14, <2>5, <3>3
      <4>2. NoSwitch(inflow)' => transport = Linked
        BY <1>7, <2>6, <3>3
      <4> QED
        BY <1>4, <2>1, <2>7, <3>1, <4>1, <4>2 DEF ClientFollows
    <3> QED
      BY <3>2, <3>3
  <2>9. StatusFollows'
    <3>1. inflow' = <<>> => (line = "up" <=> e.event = "connected")
      <4>1. e.event # "unsynced"
        <5>1. e.event \in Lifecycle
          BY <1>1
        <5> QED
          BY <5>1 DEF Lifecycle
      <4> QED
        BY <1>4, <1>6, <2>4, <4>1 DEF StatusFollows
    <3>2. inflow' # <<>> =>
            /\ inflow'[Len(inflow')].event = "connected" => line = "up"
            /\ line = "up" => inflow'[Len(inflow')].event \in {"connected", "unsynced"}
      BY <1>4, <1>6, <2>4 DEF StatusFollows
    <3>3. \A v \in Writers : Setter(v)' => v = "callback"
      BY <2>5 DEF Setter
    <3>4. Setter("callback")' /\ "callback" \in Writers
      BY <1>9, <1>14 DEF Setter, Writers
    <3> QED
      BY <1>4, <1>9, <1>14, <2>1, <3>1, <3>2, <3>3, <3>4 DEF StatusFollows
  <2> QED
    BY <2>8, <2>9
<1> QED
  BY <1>4, <1>15, <1>17, <1>18, <1>20, <1>21

LEMMA PassOnAgrees ==
    ASSUME LinkInv, TakeEvent, Head(inflow).event \notin Lifecycle
    PROVE  LinkInv'
<1> USE DEF LinkInv
<1>1. PICK e : e = Head(inflow)
  OBVIOUS
<1>2. /\ inflow # <<>> /\ inflow' = Tail(inflow) /\ backlog' = Append(backlog, e)
      /\ writer' = writer /\ mixed' = mixed
      /\ line' = line /\ running' = running /\ sessions' = sessions
      /\ transport' = transport /\ shown' = shown /\ told' = told /\ codeFile' = codeFile
      /\ signals' = signals /\ loopAt' = loopAt
  <2>1. e.event \notin Lifecycle
    BY <1>1
  <2> QED
    BY <1>1, <2>1 DEF TakeEvent
<1>3. inflow \in Seq(EventType) /\ backlog \in Seq(EventType)
  BY DEF LinkTypeOK
<1>4. /\ inflow' \in Seq(EventType) /\ e \in EventType /\ e = inflow[1] /\ 1 \in DOMAIN inflow
      /\ \A i \in DOMAIN inflow' : i + 1 \in DOMAIN inflow /\ inflow'[i] = inflow[i + 1]
      /\ inflow' # <<>> => inflow'[Len(inflow')] = inflow[Len(inflow)]
      /\ inflow' = <<>> => e = inflow[Len(inflow)]
  <2>1. PICK t : t = Tail(inflow)
    OBVIOUS
  <2>2. /\ t \in Seq(EventType) /\ Head(inflow) \in EventType /\ 1 \in DOMAIN inflow
        /\ Head(inflow) = inflow[1]
    BY <1>2, <1>3, <2>1, Taken
  <2>3. \A i \in DOMAIN t : i + 1 \in DOMAIN inflow /\ t[i] = inflow[i + 1]
    BY <1>2, <1>3, <2>1, Taken
  <2>4. t # <<>> => t[Len(t)] = inflow[Len(inflow)]
    BY <1>2, <1>3, <2>1, Taken
  <2>5. t = <<>> => Head(inflow) = inflow[Len(inflow)]
    BY <1>2, <1>3, <2>1, Taken
  <2> QED
    BY <1>1, <1>2, <2>1, <2>2, <2>3, <2>4, <2>5
<1>5. /\ \A i \in DOMAIN inflow' : LastSwitch(inflow', i) =>
            LastSwitch(inflow, i + 1) /\ inflow'[i] = inflow[i + 1]
      /\ NoSwitch(inflow)' /\ e.event \in Switches => LastSwitch(inflow, 1)
      /\ NoSwitch(inflow)' /\ e.event \notin Switches => NoSwitch(inflow)
  BY <1>1, <1>2, <1>3, SwitchesTaken
<1>6. backlog' \in Seq(EventType) /\ Waiting(backlog)' = Waiting(backlog) \cup {e}
  <2>1. PICK t : t = Append(backlog, e)
    OBVIOUS
  <2>2. t \in Seq(EventType)
    BY <1>3, <1>4, <2>1, Appended
  <2>3. Waiting(t) = Waiting(backlog) \cup {e}
    BY <1>3, <1>4, <2>1, WaitingAppended
  <2>4. backlog' = t /\ Waiting(backlog)' = Waiting(t)
    BY <1>2, <2>1 DEF Waiting
  <2> QED
    BY <2>2, <2>3, <2>4
<1>7. /\ running = sessions /\ running # 0 /\ e.gen = running /\ ~e.late
      /\ e.event \notin Lifecycle
  BY <1>1, <1>2, <1>4 DEF LinkStages
<1>8. Ours' = Ours \cup {e} /\ Linked' = Linked
  BY <1>2, <1>6, <1>7 DEF Ours, Linked
<1>9. LinkTypeOK'
  BY <1>2, <1>4, <1>6 DEF LinkTypeOK
<1>10. LinkStages'
  <2>1. \A i \in DOMAIN inflow' : inflow'[i].gen = sessions /\ ~inflow'[i].late
    BY <1>4 DEF LinkStages
  <2>2. running \in 1..sessions
    BY <1>7 DEF LinkTypeOK
  <2>3. \A d \in Waiting(backlog)' : d.gen \in 1..sessions /\ d.event \notin Lifecycle
    BY <1>6, <1>7, <2>2 DEF LinkStages
  <2>4. /\ sessions' # 0 /\ running' \in {0, sessions'}
        /\ (loopAt' = "runs" => running' = sessions') /\ (loopAt' = "swaps" => running' = 0)
        /\ (running' = 0 => inflow' = <<>> /\ line' = "down")
    BY <1>2, <1>7 DEF LinkStages
  <2> QED
    BY <1>2, <2>1, <2>3, <2>4 DEF LinkStages
<1>11. (Quiet' <=> Quiet) /\ (Late' <=> Late)
  BY <1>2, <1>7, <1>8 DEF Quiet, Late, Setter
<1>12. ASSUME Quiet PROVE Turns' /\ ToldAgrees' /\ CodeAgrees' /\ SwapAgrees'
  BY <1>2, <1>12 DEF Turns, Writing, ToldAgrees, CodeAgrees, SwapAgrees, Setter
<1>13. ASSUME Quiet, ~Late, loopAt = "runs" PROVE ClientFollows' /\ StatusFollows'
  <2>1. ClientFollows /\ StatusFollows
    BY <1>13
  <2>2. ClientFollows'
    <3>1. \A i \in DOMAIN inflow' :
             LastSwitch(inflow', i) => (line = "up" <=> inflow'[i].event = "connected")
      BY <1>4, <1>5, <2>1 DEF ClientFollows
    <3>2. CASE e.event \in Switches
      <4>1. NoSwitch(inflow)' => (line = "up" <=> e.event = "connected")
        BY <1>4, <1>5, <2>1, <3>2 DEF ClientFollows
      <4>2. e.event # "connected"
        BY <1>7 DEF Lifecycle
      <4>3. e \in Ours'
        BY <1>8
      <4> QED
        BY <1>2, <3>1, <3>2, <4>1, <4>2, <4>3 DEF ClientFollows
    <3>3. CASE e.event \notin Switches
      <4>1. NoSwitch(inflow)' => NoSwitch(inflow)
        BY <1>5, <3>3
      <4>2. (\E x \in Ours' : x.event \in Switches) <=> (\E x \in Ours : x.event \in Switches)
        BY <1>8, <3>3
      <4> QED
        BY <1>2, <1>8, <2>1, <3>1, <4>1, <4>2 DEF ClientFollows
    <3> QED
      BY <3>2, <3>3
  <2>3. StatusFollows'
    <3>1. inflow' = <<>> /\ line = "up" => e.event = "unsynced"
      <4>1. e.event # "connected"
        BY <1>7 DEF Lifecycle
      <4> QED
        BY <1>2, <1>4, <2>1, <4>1 DEF StatusFollows
    <3>2. inflow' # <<>> =>
            /\ inflow'[Len(inflow')].event = "connected" => line = "up"
            /\ line = "up" => inflow'[Len(inflow')].event \in {"connected", "unsynced"}
      BY <1>2, <1>4, <2>1 DEF StatusFollows
    <3>3. e \in Ours'
      BY <1>8
    <3> QED
      BY <1>2, <3>1, <3>2, <3>3 DEF StatusFollows
  <2> QED
    BY <2>2, <2>3
<1> QED
  BY <1>2, <1>9, <1>10, <1>11, <1>12, <1>13

LEMMA TakeEventAgrees ==
    ASSUME LinkInv, TakeEvent
    PROVE  LinkInv'
  BY CallBackAgrees, PassOnAgrees

\* The next event leaves the queue: what waits is what is left and the event.
LEMMA Reduced ==
    ASSUME LinkInv, NEW e, e = Head(backlog), backlog # <<>>, backlog' = Tail(backlog),
           running' = running
    PROVE  /\ backlog' \in Seq(EventType) /\ e \in EventType
           /\ Waiting(backlog) = {e} \cup Waiting(backlog)'
           /\ e.gen \in Nat /\ e.event \notin Lifecycle
           /\ Ours = Ours' \cup (IF e.gen = running THEN {e} ELSE {})
<1>1. backlog \in Seq(EventType)
  BY DEF LinkInv, LinkTypeOK
<1>2. PICK t : t = Tail(backlog)
  OBVIOUS
<1>3. t \in Seq(EventType) /\ Head(backlog) \in EventType
  BY <1>1, <1>2, Taken
<1>4. Waiting(backlog) = {Head(backlog)} \cup Waiting(t)
  BY <1>1, <1>2, Taken
<1>5. backlog' = t /\ Waiting(backlog)' = Waiting(t)
  BY <1>2 DEF Waiting
<1>6. e \in EventType /\ Waiting(backlog) = {e} \cup Waiting(backlog)'
  BY <1>3, <1>4, <1>5
<1>7. e.gen \in Nat /\ e.event \notin Lifecycle
  BY <1>6 DEF EventType, LinkInv, LinkStages
<1>8. Ours = Ours' \cup (IF e.gen = running THEN {e} ELSE {})
  BY <1>6 DEF Ours
<1> QED
  BY <1>3, <1>5, <1>6, <1>7, <1>8

LEMMA DropStaleAgrees ==
    ASSUME LinkInv, ReduceEvent, Head(backlog).gen # running
    PROVE  LinkInv'
<1> USE DEF LinkInv
<1>1. PICK e : e = Head(backlog)
  OBVIOUS
<1>2. /\ backlog # <<>> /\ backlog' = Tail(backlog) /\ inflow' = inflow
      /\ writer' = writer /\ mixed' = mixed
      /\ line' = line /\ running' = running /\ sessions' = sessions
      /\ transport' = transport /\ shown' = shown /\ told' = told /\ codeFile' = codeFile
      /\ signals' = signals /\ loopAt' = loopAt
  BY DEF ReduceEvent
<1>3. backlog' \in Seq(EventType) /\ Waiting(backlog)' \subseteq Waiting(backlog)
  BY <1>1, <1>2, Reduced
<1>4. Ours' = Ours
  BY <1>1, <1>2, Reduced
<1>5. LinkTypeOK'
  BY <1>2, <1>3 DEF LinkTypeOK
<1>6. LinkStages'
  BY <1>2, <1>3 DEF LinkStages
<1>7. (Quiet' <=> Quiet) /\ (Late' <=> Late) /\ (NoSwitch(inflow)' <=> NoSwitch(inflow))
  BY <1>2, <1>4 DEF Quiet, Late, Setter, NoSwitch
<1>8. ASSUME Quiet PROVE Turns' /\ ToldAgrees' /\ CodeAgrees' /\ SwapAgrees'
  BY <1>2, <1>8 DEF Turns, Writing, ToldAgrees, CodeAgrees, SwapAgrees, Setter
<1>9. ASSUME Quiet, ~Late, loopAt = "runs" PROVE ClientFollows' /\ StatusFollows'
  <2>1. ClientFollows /\ StatusFollows
    BY <1>9
  <2>2. ClientFollows'
    BY <1>2, <1>4, <1>7, <2>1 DEF ClientFollows, LastSwitch, SwitchesAt, Linked
  <2>3. StatusFollows'
    BY <1>2, <1>4, <2>1 DEF StatusFollows, Setter, NoticeOff
  <2> QED
    BY <2>2, <2>3
<1> QED
  BY <1>2, <1>5, <1>6, <1>7, <1>8, <1>9

LEMMA ReduceOursAgrees ==
    ASSUME LinkInv, ReduceEvent, Head(backlog).gen = running
    PROVE  LinkInv'
<1> USE DEF LinkInv
<1>1. PICK e : e = Head(backlog)
  OBVIOUS
<1>2. PICK p : p = Handling(e)
  OBVIOUS
<1>3. /\ backlog # <<>> /\ backlog' = Tail(backlog) /\ inflow' = inflow
      /\ ~Writing("reducer") /\ writer' = [writer EXCEPT !["reducer"] = p]
      /\ mixed' = mixed \cup (IF Others("reducer") THEN {"overlap"} ELSE {})
                        \cup (IF e.event = "unsynced" THEN {"notice"} ELSE {})
      /\ line' = line /\ running' = running /\ sessions' = sessions
      /\ transport' = transport /\ shown' = shown /\ told' = told /\ codeFile' = codeFile
      /\ signals' = signals /\ loopAt' = loopAt
  <2>1. e.gen = running
    BY <1>1
  <2> QED
    BY <1>1, <1>2, <2>1 DEF ReduceEvent
<1>4. backlog' \in Seq(EventType) /\ Waiting(backlog)' \subseteq Waiting(backlog)
      /\ e \in EventType /\ e \in Waiting(backlog) /\ e.event \notin Lifecycle /\ e.gen = running
  BY <1>1, <1>3, Reduced
<1>5. Ours = Ours' \cup {e}
  BY <1>1, <1>3, Reduced
<1>6. /\ p \in WriterType /\ p.late = e.late
      /\ p.step = IF e.event \in Switches THEN "client" ELSE "qr"
      /\ p.client = IF e.event = "connected" THEN e.gen ELSE 0
      /\ p.says.is = "connected" <=> e.event = "connected"
  BY <1>2, <1>4, HandlingIs
<1>7. e.event # "connected"
  BY <1>4 DEF Lifecycle
<1>8. DOMAIN writer = Writers /\ "reducer" \in Writers
  BY WriterTypes DEF Writers
<1>9. writer'["reducer"] = p /\ \A v \in Writers : v # "reducer" => writer'[v] = writer[v]
  BY <1>3, <1>8
<1>10. LinkTypeOK'
  <2>1. writer' \in [Writers -> WriterType]
    BY <1>3, <1>6 DEF LinkTypeOK
  <2> QED
    BY <1>3, <1>4, <2>1 DEF LinkTypeOK
<1>11. LinkStages'
  BY <1>3, <1>4 DEF LinkStages
<1>12. Quiet' => Quiet /\ ~Others("reducer")
  BY <1>3 DEF Quiet
<1>13. ASSUME Quiet' PROVE \A v \in Writers : writer[v].step = "rests"
  BY <1>3, <1>8, <1>12, <1>13 DEF Others, Writing
<1>14. running # 0 /\ loopAt # "swaps"
  BY <1>4 DEF LinkStages
<1>15. ASSUME Quiet' PROVE Turns' /\ ToldAgrees' /\ CodeAgrees' /\ SwapAgrees'
  <2>1. \A v \in Writers : v # "reducer" => writer'[v].step = "rests"
    BY <1>9, <1>13, <1>15
  <2>2. p.step \in {"client", "qr"}
    BY <1>6
  <2>3. Turns'
    <3>1. \A v \in Writers : Writing(v)' => v = "reducer"
      BY <2>1 DEF Writing
    <3> QED
      BY <1>3, <1>14, <3>1 DEF Turns, Writers
  <2>4. told = shown /\ ({"unwritten", "cut"} \cap mixed = {} => codeFile = shown.code)
    BY <1>12, <1>13, <1>15 DEF ToldAgrees, CodeAgrees
  <2>5. \A v \in Writers : writer'[v].step \notin {"publish", "status"}
    BY <1>9, <2>1, <2>2
  <2>6. ToldAgrees' /\ SwapAgrees'
    BY <1>3, <1>14, <2>4, <2>5 DEF ToldAgrees, SwapAgrees
  <2>7. CodeAgrees'
    BY <1>3, <2>4, <2>5 DEF CodeAgrees
  <2> QED
    BY <2>3, <2>6, <2>7
<1>16. ASSUME Quiet', ~Late', loopAt = "runs" PROVE ClientFollows' /\ StatusFollows'
  <2>1. ~Late
    <3>1. "late" \notin mixed
      BY <1>3, <1>16 DEF Late
    <3>2. ~e.late
      BY <1>6, <1>9, <1>16 DEF Late, Setter
    <3>3. \A x \in Ours : ~x.late
      BY <1>5, <1>16, <3>2 DEF Late
    <3>4. ~Setter("reducer")
      BY <1>3 DEF Setter, Writing
    <3> QED
      BY <3>1, <3>3, <3>4 DEF Late
  <2>2. ClientFollows /\ StatusFollows
    BY <1>12, <1>16, <2>1
  <2>3. \A v \in Writers : writer'[v].step # "rests" => v = "reducer"
    BY <1>9, <1>13, <1>16
  <2>4. Linked' = Linked /\ (NoSwitch(inflow)' <=> NoSwitch(inflow))
    BY <1>3 DEF Linked, NoSwitch
  <2>5. ClientFollows'
    <3>1. \A i \in DOMAIN inflow' :
             LastSwitch(inflow', i) => (line = "up" <=> inflow'[i].event = "connected")
      BY <1>3, <2>2 DEF ClientFollows
    <3>2. NoSwitch(inflow) /\ (\E x \in Ours' : x.event \in Switches) => line # "up"
      BY <1>5, <2>2 DEF ClientFollows
    <3>3. CASE e.event \in Switches
      <4>1. NoSwitch(inflow) => line # "up"
        BY <1>5, <2>2, <3>3 DEF ClientFollows
      <4>2. NoSwitch(inflow) => p.client = Linked
        BY <1>6, <1>7, <4>1 DEF Linked
      <4>3. p.step = "client"
        BY <1>6, <3>3
      <4>4. \A v \in Writers : writer'[v].step = "client" => v = "reducer"
        BY <2>3
      <4> QED
        BY <1>3, <1>8, <1>9, <2>4, <3>1, <3>2, <4>2, <4>3, <4>4 DEF ClientFollows
    <3>4. CASE e.event \notin Switches
      <4>1. \A v \in Writers : writer'[v].step # "client"
        BY <1>6, <1>9, <2>3, <3>4
      <4>2. NoSwitch(inflow) /\ (\A x \in Ours' : x.event \notin Switches) => transport = Linked
        BY <1>5, <1>13, <1>16, <2>2, <3>4 DEF ClientFollows
      <4> QED
        BY <1>3, <2>4, <3>1, <3>2, <4>1, <4>2 DEF ClientFollows
    <3> QED
      BY <3>3, <3>4
  <2>6. StatusFollows'
    <3>1. NoticeOff' => NoticeOff /\ e.event # "unsynced"
      BY <1>3 DEF NoticeOff
    <3>2. inflow = <<>> /\ NoticeOff' /\ line = "up" => \E x \in Ours' : x.event = "unsynced"
      <4>1. Ours # {}
        BY <1>5
      <4> QED
        BY <1>5, <2>2, <3>1, <4>1 DEF StatusFollows
    <3>3. inflow # <<>> =>
            /\ inflow[Len(inflow)].event = "connected" => line = "up"
            /\ line = "up" => inflow[Len(inflow)].event \in {"connected", "unsynced"}
      BY <2>2 DEF StatusFollows
    <3>4. \A v \in Writers : Setter(v)' => v = "reducer"
      BY <2>3 DEF Setter
    <3>5. Setter("reducer")' /\ p.says.is # "connected"
      BY <1>6, <1>7, <1>9 DEF Setter
    <3> QED
      BY <1>3, <1>8, <1>9, <3>2, <3>3, <3>4, <3>5 DEF StatusFollows
  <2> QED
    BY <2>5, <2>6
<1> QED
  BY <1>3, <1>10, <1>11, <1>12, <1>15, <1>16

LEMMA ReduceEventAgrees ==
    ASSUME LinkInv, ReduceEvent
    PROVE  LinkInv'
  BY DropStaleAgrees, ReduceOursAgrees

(* The run loop. *)

LEMMA EndClientAgrees ==
    ASSUME LinkInv, NEW asked, EndClient(asked)
    PROVE  LinkInv'
<1> USE DEF LinkInv
<1>1. /\ loopAt = "runs" /\ loopAt' \in {"retires", "retires_silently"} /\ line' = "down"
      /\ running' = running /\ sessions' = sessions
      /\ transport' = transport /\ shown' = shown /\ told' = told /\ codeFile' = codeFile
      /\ signals' = signals /\ inflow' = inflow /\ backlog' = backlog /\ writer' = writer
      /\ mixed' = mixed
  BY DEF EndClient
<1>2. LinkTypeOK'
  BY <1>1 DEF LinkTypeOK
<1>3. LinkStages'
  BY <1>1 DEF LinkStages, Waiting
<1>4. Quiet' <=> Quiet
  BY <1>1 DEF Quiet
<1>5. ASSUME Quiet PROVE Turns' /\ ToldAgrees' /\ CodeAgrees' /\ SwapAgrees'
  <2>1. Turns'
    BY <1>1, <1>5 DEF Turns, Writing
  <2> QED
    BY <1>1, <1>5, <2>1 DEF ToldAgrees, CodeAgrees, SwapAgrees
<1> QED
  BY <1>1, <1>2, <1>3, <1>4, <1>5

LEMMA EndForResyncAgrees ==
    ASSUME LinkInv, EndForResync
    PROVE  LinkInv'
<1> USE DEF LinkInv
<1>1. PICK p : p = Setting(Says("disconnected", 0))
  OBVIOUS
<1>2. /\ loopAt = "runs" /\ loopAt' = "retires_silently"
      /\ writer' = [writer EXCEPT !["loop"] = p]
      /\ mixed' = mixed \cup (IF Others("loop") THEN {"overlap"} ELSE {})
      /\ line' = line /\ running' = running /\ sessions' = sessions
      /\ transport' = transport /\ shown' = shown /\ told' = told /\ codeFile' = codeFile
      /\ signals' = signals /\ inflow' = inflow /\ backlog' = backlog
  BY <1>1 DEF EndForResync
<1>3. p \in WriterType /\ p.step = "qr"
  BY <1>1, RestingIs, SettingIs
<1>4. DOMAIN writer = Writers /\ "loop" \in Writers
  BY WriterTypes DEF Writers
<1>5. writer'["loop"] = p /\ \A v \in Writers : v # "loop" => writer'[v] = writer[v]
  BY <1>2, <1>4
<1>6. LinkTypeOK'
  <2>1. writer' \in [Writers -> WriterType]
    BY <1>2, <1>3 DEF LinkTypeOK
  <2> QED
    BY <1>2, <2>1 DEF LinkTypeOK
<1>7. LinkStages'
  BY <1>2 DEF LinkStages, Waiting
<1>8. Quiet' => Quiet /\ ~Others("loop")
  BY <1>2 DEF Quiet
<1>9. ASSUME Quiet' PROVE Turns' /\ ToldAgrees' /\ CodeAgrees' /\ SwapAgrees'
  <2>1. \A v \in Writers : writer[v].step = "rests"
    <3>1. ~Writing("loop")
      BY <1>2, <1>8, <1>9 DEF Turns
    <3> QED
      BY <1>4, <1>8, <1>9, <3>1 DEF Others, Writing
  <2>2. \A v \in Writers : v # "loop" => writer'[v].step = "rests"
    BY <1>5, <2>1
  <2>3. running # 0
    BY <1>2 DEF LinkStages
  <2>4. \A v \in Writers : Writing(v)' => v = "loop"
    BY <2>2 DEF Writing
  <2>5. Turns'
    BY <1>2, <2>3, <2>4 DEF Turns, Writers
  <2>6. told = shown /\ ({"unwritten", "cut"} \cap mixed = {} => codeFile = shown.code)
    BY <1>8, <1>9, <2>1 DEF ToldAgrees, CodeAgrees
  <2>7. \A v \in Writers : writer'[v].step \notin {"publish", "status"}
    BY <1>3, <1>5, <2>2
  <2>8. ToldAgrees' /\ SwapAgrees'
    BY <1>2, <2>6, <2>7 DEF ToldAgrees, SwapAgrees
  <2>9. CodeAgrees'
    BY <1>2, <2>6, <2>7 DEF CodeAgrees
  <2> QED
    BY <2>5, <2>8, <2>9
<1> QED
  BY <1>2, <1>6, <1>7, <1>8, <1>9

LEMMA RetireLinkAgrees ==
    ASSUME LinkInv, RetireLink
    PROVE  LinkInv'
<1> USE DEF LinkInv
<1>1. PICK reducing \in {writer["reducer"], Resting} :
         /\ writer["reducer"].step = "publish" => reducing = writer["reducer"]
         /\ writer' = [writer EXCEPT !["stale"] = writer["callback"], !["callback"] = Resting,
                                     !["reducer"] = reducing]
         /\ mixed' = mixed \cup (IF writer["reducer"].step = "status" /\ reducing = Resting
                                 THEN {"cut"} ELSE {})
  BY DEF RetireLink
<1>2. /\ loopAt \in {"retires", "retires_silently"} /\ ~Writing("loop") /\ running # 0
      /\ running' = 0 /\ line' = "down" /\ inflow' = <<>>
      /\ sessions' = sessions /\ transport' = transport /\ shown' = shown /\ told' = told
      /\ codeFile' = codeFile /\ signals' = signals /\ backlog' = backlog /\ loopAt' = loopAt
  BY DEF RetireLink
<1>3. /\ DOMAIN writer = Writers /\ writer \in [Writers -> WriterType]
      /\ writer["callback"] \in WriterType /\ writer["reducer"] \in WriterType
      /\ reducing \in WriterType
  BY RestingIs, WriterTypes DEF Writers, LinkTypeOK
<1>4. PICK rest : rest = Resting
  OBVIOUS
<1>5. rest \in WriterType /\ rest.step = "rests"
  BY <1>4, RestingIs
<1>6. /\ writer'["stale"] = writer["callback"] /\ writer'["callback"] = rest
      /\ writer'["reducer"] = reducing /\ writer'["loop"] = writer["loop"]
  BY <1>1, <1>3, <1>4 DEF Writers
<1>7. LinkTypeOK'
  <2>1. writer' \in [Writers -> WriterType]
    BY <1>1, <1>3, <1>4, <1>5 DEF Writers
  <2>2. <<>> \in Seq(EventType)
    BY EmptySeq
  <2> QED
    BY <1>2, <2>1, <2>2 DEF LinkTypeOK
<1>8. LinkStages'
  <2>1. \A i \in DOMAIN inflow' : FALSE
    BY <1>2
  <2> QED
    BY <1>2, <2>1 DEF LinkStages, Waiting
<1>9. Quiet' => Quiet
  BY <1>1 DEF Quiet
<1>10. ASSUME Quiet PROVE Turns' /\ ToldAgrees' /\ CodeAgrees' /\ SwapAgrees'
  <2>1. writer["stale"].step = "rests" /\ writer["loop"].step = "rests"
    BY <1>2, <1>10 DEF Turns, Writing
  <2>2. writer["callback"].step = "rests" \/ writer["reducer"].step = "rests"
    BY <1>10 DEF Turns, Writing, Writers
  <2>3. reducing = writer["reducer"] \/ reducing = rest
    BY <1>1, <1>4
  <2>4. Turns'
    <3>1. \A v \in Writers : writer'[v].step # "rests" =>
             \/ v = "stale" /\ writer["callback"].step # "rests"
             \/ v = "reducer" /\ writer["reducer"].step # "rests"
      BY <1>5, <1>6, <2>1, <2>3 DEF Writers
    <3> QED
      BY <1>2, <2>2, <3>1 DEF Turns, Writing, Writers
  <2>5. ToldAgrees'
    <3>1. \A v \in Writers : writer'[v].step = "publish" => shown = writer'[v].says
      BY <1>5, <1>6, <1>10, <2>1, <2>3 DEF ToldAgrees, Writers
    <3>2. (\A v \in Writers : writer'[v].step # "publish") =>
             \A v \in Writers : writer[v].step # "publish"
      BY <1>1, <1>6, <2>1 DEF Writers
    <3> QED
      BY <1>2, <1>10, <3>1, <3>2 DEF ToldAgrees
  <2>6. CodeAgrees'
    <3>1. CodeAgrees
      BY <1>10
    <3>2. CASE {"unwritten", "cut"} \cap mixed' # {}
      BY <3>2 DEF CodeAgrees
    <3>3. CASE {"unwritten", "cut"} \cap mixed' = {}
      <4>1. {"unwritten", "cut"} \cap mixed = {}
        BY <1>1, <3>3
      <4>2. writer["reducer"].step = "status" => reducing = writer["reducer"]
        BY <1>1, <3>3
      <4>3. \A v \in Writers : writer'[v].step = "status" => codeFile = writer'[v].says.code
        BY <1>5, <1>6, <2>1, <2>3, <3>1, <4>1 DEF CodeAgrees, Writers
      <4>4. (\A v \in Writers : writer'[v].step # "status") =>
               \A v \in Writers : writer[v].step # "status"
        BY <1>6, <2>1, <4>2 DEF Writers
      <4> QED
        BY <1>2, <3>1, <4>1, <4>3, <4>4 DEF CodeAgrees
    <3> QED
      BY <3>2, <3>3
  <2>7. SwapAgrees'
    BY <1>2 DEF SwapAgrees
  <2> QED
    BY <2>4, <2>5, <2>6, <2>7
<1> QED
  BY <1>2, <1>7, <1>8, <1>9, <1>10

LEMMA DropLinkAgrees ==
    ASSUME LinkInv, NEW said \in {Says("logged_out", 0), Says("disconnected", 0)},
           DropLink(said)
    PROVE  LinkInv'
<1> USE DEF LinkInv
<1>1. PICK p : p = Setting(said)
  OBVIOUS
<1>2. /\ loopAt \in {"retires", "retires_silently"} /\ running = 0 /\ loopAt' = "swaps"
      /\ transport' = 0
      /\ \/ writer' = [writer EXCEPT !["loop"] = p]
         \/ /\ loopAt = "retires_silently" /\ writer' = writer
            /\ shown.is = "connected" => "silent" \in mixed'
      /\ mixed \subseteq mixed' /\ mixed' \subseteq mixed \cup {"overlap", "silent"}
      /\ Others("loop") => "overlap" \in mixed'
      /\ line' = line /\ running' = running /\ sessions' = sessions
      /\ shown' = shown /\ told' = told /\ codeFile' = codeFile
      /\ signals' = signals /\ inflow' = inflow /\ backlog' = backlog
  BY <1>1 DEF DropLink, ForgetClient
<1>3. p \in WriterType /\ p.step = "qr" /\ p.says.is # "connected"
  <2>1. said \in StatusType /\ said.is # "connected"
    BY RestingIs
  <2> QED
    BY <1>1, <2>1, SettingIs
<1>4. DOMAIN writer = Writers /\ "loop" \in Writers
  BY WriterTypes DEF Writers
<1>5. \A v \in Writers : v # "loop" => writer'[v] = writer[v]
  BY <1>2, <1>4
<1>6. writer'["loop"] = p \/ writer' = writer
  BY <1>2, <1>4
<1>7. LinkTypeOK'
  <2>1. writer' \in [Writers -> WriterType]
    BY <1>2, <1>3 DEF LinkTypeOK
  <2> QED
    BY <1>2, <2>1 DEF LinkTypeOK
<1>8. LinkStages'
  BY <1>2 DEF LinkStages, Waiting
<1>9. Quiet' => Quiet /\ ~Others("loop")
  BY <1>2 DEF Quiet
<1>10. ASSUME Quiet' PROVE Turns' /\ ToldAgrees' /\ CodeAgrees' /\ SwapAgrees'
  <2>1. \A v \in Writers : writer[v].step = "rests"
    <3>1. ~Writing("loop")
      BY <1>2, <1>9, <1>10 DEF Turns
    <3> QED
      BY <1>4, <1>9, <1>10, <3>1 DEF Others, Writing
  <2>2. \A v \in Writers : v # "loop" => writer'[v].step = "rests"
    BY <1>5, <2>1
  <2>3. \A v \in Writers : Writing(v)' => v = "loop"
    BY <2>2 DEF Writing
  <2>4. Turns'
    BY <1>2, <2>3 DEF Turns, Writers
  <2>5. told = shown /\ ({"unwritten", "cut"} \cap mixed = {} => codeFile = shown.code)
    BY <1>9, <1>10, <2>1 DEF ToldAgrees, CodeAgrees
  <2>6. \A v \in Writers : writer'[v].step \notin {"publish", "status"}
    BY <1>3, <1>6, <2>1, <2>2
  <2>7. ToldAgrees'
    BY <1>2, <2>5, <2>6 DEF ToldAgrees
  <2>8. CodeAgrees'
    BY <1>2, <2>5, <2>6 DEF CodeAgrees
  <2>9. SwapAgrees'
    <3>1. CASE writer'["loop"] = p
      BY <1>2, <1>3, <3>1 DEF SwapAgrees, Setter
    <3>2. CASE writer' = writer /\ writer'["loop"] # p
      <4>1. writer["loop"].step = "rests"
        BY <1>4, <2>1
      <4>2. shown.is = "connected" => "silent" \in mixed'
        BY <1>2, <1>4, <3>2
      <4> QED
        BY <1>2, <3>2, <4>1, <4>2 DEF SwapAgrees, Setter
    <3> QED
      BY <1>6, <3>1, <3>2
  <2> QED
    BY <2>4, <2>7, <2>8, <2>9
<1> QED
  BY <1>2, <1>7, <1>8, <1>9, <1>10

LEMMA BeginLinkAgrees ==
    ASSUME LinkInv, BeginLink
    PROVE  LinkInv'
<1> USE DEF LinkInv
<1>1. PICK n : n = sessions + 1
  OBVIOUS
<1>2. /\ loopAt = "swaps" /\ ~Writing("loop") /\ sessions' = n /\ running' = n
      /\ loopAt' = "runs"
      /\ line' = line /\ transport' = transport /\ shown' = shown /\ told' = told
      /\ codeFile' = codeFile /\ signals' = signals /\ inflow' = inflow /\ backlog' = backlog
      /\ writer' = writer /\ mixed' = mixed
  BY <1>1 DEF BeginLink
<1>3. sessions \in Nat /\ n \in Nat /\ n # 0 /\ 1..sessions \subseteq 1..n /\ n \notin 1..sessions
  BY <1>1 DEF LinkTypeOK
<1>4. running = 0 /\ inflow = <<>> /\ line = "down"
  BY <1>2 DEF LinkStages
<1>5. LinkTypeOK'
  BY <1>2, <1>3 DEF LinkTypeOK
<1>6. Waiting(backlog)' = Waiting(backlog)
  BY <1>2 DEF Waiting
<1>7. LinkStages'
  <2>1. \A i \in DOMAIN inflow' : FALSE
    BY <1>2, <1>4
  <2>2. \A e \in Waiting(backlog)' : e.gen \in 1..n /\ e.event \notin Lifecycle
    BY <1>3, <1>6 DEF LinkStages
  <2> QED
    BY <1>2, <1>3, <2>1, <2>2 DEF LinkStages
<1>8. Ours' = {}
  BY <1>2, <1>3, <1>6 DEF Ours, LinkStages
<1>9. Quiet' <=> Quiet
  BY <1>2 DEF Quiet
<1>10. ASSUME Quiet PROVE \A v \in Writers : writer[v].step = "rests"
  BY <1>2, <1>4, <1>10 DEF Turns, Writing, Writers
<1>11. ASSUME Quiet PROVE Turns' /\ ToldAgrees' /\ CodeAgrees' /\ SwapAgrees'
  <2>1. Turns'
    BY <1>2, <1>10, <1>11 DEF Turns, Writing, Writers
  <2> QED
    BY <1>2, <1>11, <2>1 DEF ToldAgrees, CodeAgrees, SwapAgrees
<1>12. ASSUME Quiet PROVE ClientFollows' /\ StatusFollows'
  <2>1. transport = 0 /\ (shown.is # "connected" \/ "silent" \in mixed)
    BY <1>2, <1>10, <1>12 DEF SwapAgrees, Setter, Writers
  <2>2. \A i \in DOMAIN inflow' : FALSE
    BY <1>2, <1>4
  <2>3. ClientFollows'
    BY <1>2, <1>4, <1>8, <1>10, <1>12, <2>1, <2>2 DEF ClientFollows, Linked
  <2>4. StatusFollows'
    BY <1>2, <1>4, <1>8, <1>10, <1>12, <2>1 DEF StatusFollows, Setter
  <2> QED
    BY <2>3, <2>4
<1> QED
  BY <1>2, <1>5, <1>7, <1>9, <1>11, <1>12

LEMMA LinkStays ==
    ASSUME LinkInv, UNCHANGED linkVars
    PROVE  LinkInv'
<1>1. /\ line' = line /\ running' = running /\ sessions' = sessions /\ transport' = transport
      /\ shown' = shown /\ told' = told /\ codeFile' = codeFile /\ signals' = signals
      /\ inflow' = inflow /\ backlog' = backlog /\ writer' = writer /\ loopAt' = loopAt
      /\ mixed' = mixed
  BY DEF linkVars
<1>2. LinkTypeOK' /\ LinkStages' /\ Ours' = Ours /\ Linked' = Linked
      /\ (NoSwitch(inflow)' <=> NoSwitch(inflow))
  BY <1>1, StagesStay DEF LinkInv, LinkTypeOK
<1>3. (Quiet' <=> Quiet) /\ (Late' <=> Late)
  BY <1>1, <1>2 DEF Quiet, Late, Setter
<1>4. ASSUME Quiet PROVE Turns' /\ ToldAgrees' /\ CodeAgrees' /\ SwapAgrees'
  BY <1>1, <1>4 DEF LinkInv, Turns, Writing, ToldAgrees, CodeAgrees, SwapAgrees, Setter
<1>5. ASSUME Quiet, ~Late, loopAt = "runs" PROVE ClientFollows' /\ StatusFollows'
  <2>1. ClientFollows'
    BY <1>1, <1>2, <1>5 DEF LinkInv, ClientFollows, LastSwitch, SwitchesAt
  <2>2. StatusFollows'
    BY <1>1, <1>2, <1>5 DEF LinkInv, StatusFollows, Setter, NoticeOff
  <2> QED
    BY <2>1, <2>2
<1> QED
  BY <1>1, <1>2, <1>3, <1>4, <1>5 DEF LinkInv

\* The link, the shared values and those who write them agree (main.rs, events.rs).
LEMMA LinkInvariant == LinkSpec => []LinkInv
<1>1. LinkInit => LinkInv
  BY LinkBegins
<1>2. LinkInv /\ [LinkNext]_linkVars => LinkInv'
  <2> SUFFICES ASSUME LinkInv, [LinkNext]_linkVars PROVE LinkInv'
    OBVIOUS
  <2>1. ASSUME NEW event \in Events, RaiseEvent(event) PROVE LinkInv'
    BY <2>1, RaiseEventAgrees
  <2>2. CASE TakeEvent
    BY <2>2, TakeEventAgrees
  <2>3. CASE ReduceEvent
    BY <2>3, ReduceEventAgrees
  <2>4. ASSUME NEW w \in DOMAIN writer, SetClient(w) \/ WriteCode(w) \/ SetStatus(w) \/ TellStatus(w)
        PROVE  LinkInv'
    <3>1. w \in Writers
      BY DEF LinkInv, LinkTypeOK
    <3> QED
      BY <2>4, <3>1, SetClientAgrees, WriteCodeAgrees, SetStatusAgrees, TellStatusAgrees
  <2>5. ASSUME NEW asked \in BOOLEAN, EndClient(asked) PROVE LinkInv'
    BY <2>5, EndClientAgrees
  <2>6. CASE EndForResync
    BY <2>6, EndForResyncAgrees
  <2>7. CASE RetireLink
    BY <2>7, RetireLinkAgrees
  <2>8. CASE BeginLink
    BY <2>8, BeginLinkAgrees
  <2>9. ASSUME NEW said \in {Says("logged_out", 0), Says("disconnected", 0)}, DropLink(said)
        PROVE  LinkInv'
    BY <2>9, DropLinkAgrees
  <2>10. CASE UNCHANGED linkVars
    BY <2>10, LinkStays
  <2> QED
    BY <2>1, <2>2, <2>3, <2>4, <2>5, <2>6, <2>7, <2>8, <2>9, <2>10 DEF LinkNext
<1> QED
  BY <1>1, <1>2, PTL DEF LinkSpec

\* When nothing is under way, status, client and code agree with each other and with
\* the link, but for what the handlers themselves bring about (set_status,
\* on_connected, handle_app_event, run_daemon).
THEOREM LinkShown == LinkSpec => []LinkIsShown
<1>1. LinkInv => LinkIsShown
  <2> SUFFICES ASSUME LinkInv, AtRest, Quiet
               PROVE  /\ told = shown
                      /\ "late" \notin mixed => transport = (IF line = "up" THEN running ELSE 0)
                      /\ {"late", "silent"} \cap mixed = {} =>
                            (shown.is = "connected" => line = "up")
                      /\ {"late", "notice"} \cap mixed = {} =>
                            (line = "up" => shown.is = "connected")
                      /\ {"unwritten", "cut"} \cap mixed = {} => codeFile = shown.code
    BY DEF LinkIsShown, Quiet
  <2>1. loopAt = "runs" /\ inflow = <<>> /\ backlog = <<>>
    BY DEF AtRest
  <2>2. \A w \in Writers : writer[w].step = "rests"
    BY DEF AtRest, Writing, LinkInv, LinkTypeOK
  <2>3. Ours = {} /\ NoSwitch(inflow)
    BY <2>1 DEF Ours, Waiting, NoSwitch
  <2>4. told = shown
    BY <2>2 DEF LinkInv, ToldAgrees
  <2>5. {"unwritten", "cut"} \cap mixed = {} => codeFile = shown.code
    BY <2>2 DEF LinkInv, CodeAgrees
  <2>6. CASE "late" \in mixed
    BY <2>4, <2>5, <2>6
  <2>7. CASE "late" \notin mixed
    <3>1. ~Late
      BY <2>2, <2>3, <2>7 DEF Late, Setter, Writers
    <3>2. ClientFollows /\ StatusFollows
      BY <2>1, <3>1 DEF LinkInv
    <3>3. transport = IF line = "up" THEN running ELSE 0
      BY <2>2, <2>3, <3>2 DEF ClientFollows, Linked
    <3>4. /\ shown.is = "connected" /\ "silent" \notin mixed => line = "up"
          /\ line = "up" /\ "notice" \notin mixed => shown.is = "connected"
      BY <2>1, <2>2, <2>3, <3>2 DEF StatusFollows, Setter, NoticeOff
    <3> QED
      BY <2>4, <2>5, <3>3, <3>4
  <2> QED
    BY <2>6, <2>7
<1> QED
  BY <1>1, LinkInvariant, PTL
=============================================================================
