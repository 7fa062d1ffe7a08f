------------------------------- MODULE MCSession -------------------------------
(* Instances of Session for TLC: one replay task, or two that may overlap when *)
(* a later generation begins before the first has ended.                       *)
EXTENDS Session

MCTwoTasks == {"one", "two"}

\* The instance's bound: the replay tasks of two generations overlap, or a logout
\* is on its way, not both at once (they meet one after the other).
Overlapping == \A w \in Waiters : waiter[w].step # "none"
LoggingOut == flagged # 0 \/ owed \/ command.step \in {"cloned", "took", "calling"}
OneAtATime == ~(Overlapping' /\ LoggingOut')

MCNext ==
    \/ LoopStep \/ LogoutStep \/ ResyncStep
    \/ OnConnected /\ OneAtATime
    \/ Logout /\ OneAtATime
    \/ Disconnect \/ ResyncChatState \/ ReplayArrives \/ AppStateSyncFailed
    \/ Restart \/ WipeIsCut
    \/ \E w \in Waiters : TaskStep(w)

MCSpec == Init /\ [][MCNext]_vars /\ Fairness
=============================================================================
