----------------------------- MODULE MCReadOutbox -----------------------------
(* Instances of ReadOutbox for TLC: two messages of two senders in chat 1; a   *)
(* chat 2, where there is one, can only be marked read.                         *)
EXTENDS ReadOutbox

MCMessages == {"m1", "m2"}
MCChatOf == [m \in MCMessages |-> 1]
MCSenderOf == [m \in MCMessages |-> IF m = "m2" THEN "bob" ELSE "ada"]
MCStampOf == [m \in MCMessages |-> IF m = "m2" THEN 2 ELSE 1]

\* The instance's bound: a mark-read command's clock is not before the messages'
\* stamps, so what it queues is dated 2 unless an intent dated 1 is there.
ClockFollows == intents'[1] = IF intents[1] = 1 THEN 1 ELSE 2

MCMarkRead ==
    \/ \E c \in Chats : UnreadReceipts(c)
    \/ \E now \in Times : QueueReadReceipts(now) /\ ClockFollows
    \/ ReadBoundary \/ ApplyBoundary \/ MarkReadFails

\* And a connection that stands is not announced once more.
ConnectsAnew == ~client /\ OnConnected

MCNext ==
    \/ \E m \in Messages : Arrive(m) \/ ArriveFocused(m)
    \/ MCMarkRead \/ LoopStep
    \/ ConnectsAnew \/ Disconnect \/ Restart \/ ClearAccountData

MCSpec ==
    /\ Init /\ [][MCNext]_vars
    /\ WF_vars(LoopStep)
    /\ WF_vars((\E now \in Times : QueueReadReceipts(now)) \/ ReadBoundary \/ ApplyBoundary)
=============================================================================
