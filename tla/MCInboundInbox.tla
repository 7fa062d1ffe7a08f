---------------------------- MODULE MCInboundInbox ----------------------------
(* Instances of InboundInbox for TLC: a poll and a vote on it; the same with a  *)
(* poll whose inbox row does not decode.                                        *)
EXTENDS InboundInbox

MCPoll == {"poll", "vote"}
MCPollKind == [m \in MCPoll |-> IF m = "vote" THEN "vote" ELSE "text"]
MCPollPollOf == [m \in MCPoll |-> "poll"]

\* The instance's bound: the library queues a message or a drain when fewer than
\* two are in the callbacks, the held events and the channel together.
InFlight == Cardinality(passing) + Len(events') + Len(queue)
TwoInFlight == InFlight <= 2

MCNext ==
    \/ Connect /\ TwoInFlight
    \/ Disconnect \/ Callback
    \/ \E m \in Messages : (Receive(m) /\ TwoInFlight) \/ DeleteMessage(m)
    \/ \E w \in passing : Enqueue(w)
    \/ Reduce \/ GenerationLoop \/ Restart

MCSpec ==
    /\ Init /\ [][MCNext]_vars
    /\ WF_vars(Callback) /\ WF_vars(\E w \in passing : Enqueue(w))
    /\ WF_vars(Reduce) /\ SF_vars(SendBarrier)

MCOdd == {"odd", "vote"}
MCOddKind == [m \in MCOdd |-> IF m = "vote" THEN "vote" ELSE "garbled"]
MCOddPollOf == [m \in MCOdd |-> "odd"]
=============================================================================
