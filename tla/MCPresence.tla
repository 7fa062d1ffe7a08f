------------------------------ MODULE MCPresence ------------------------------
(* Instances of Presence for TLC: interchangeable panels and one direct chat.  *)
EXTENDS Presence, FiniteSets, TLC

MCSymmetry == Permutations(Panels)

\* The instance's bounds: no further connection once jobs have overlapped (the
\* second property says nothing past that point, and the first needs none), and
\* three jobs under way at most.
NoMoreOnceOverlapped == overlapped' => connects' < 2
ThreeJobs == Cardinality({s \in Slots : jobs'[s].step # "idle"}) <= 3

Bounded == NoMoreOnceOverlapped /\ ThreeJobs

MCNext ==
    \/ (BeginGeneration \/ RetireGeneration) /\ Bounded
    \/ (OnConnected \/ Disconnect \/ OfflineSyncCompleted) /\ Bounded
    \/ (SelfPushNameUpdated \/ CommandTimesOut) /\ Bounded
    \/ \E p \in Panels :
          \/ (OpenConnection(p) \/ CloseConnection(p)) /\ Bounded
          \/ \E value \in BOOLEAN : SetPresence(p, value) /\ Bounded
          \/ \E c \in Chats \cup {NoChat} : SetActiveChat(p, c) /\ Bounded
    \/ \E s \in Slots :
          \/ (ReadIntents(s) \/ CloneClient(s)) /\ Bounded
          \/ (TellPresence(s) \/ Reconciled(s)) /\ Bounded
          \/ \E c \in Chats : TellChat(s, c) /\ Bounded

MCSpec == Init /\ [][MCNext]_vars
=============================================================================
