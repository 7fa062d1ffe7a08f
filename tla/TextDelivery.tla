----------------------------- MODULE TextDelivery -----------------------------
(* What the durable text outbox promises, without its mechanism: no claim     *)
(* loop, no connection, no restart.  A submitted text stays in the outbox      *)
(* until it is recorded in the local history, until the user discards it, or,  *)
(* once it has failed, until newer submissions prune it.  TextOutbox           *)
(* implements this specification.                                              *)
EXTENDS Naturals

CONSTANT Deliveries     \* delivery identifiers; one WhatsApp message id each

VARIABLES
    phase,      \* [Deliveries -> Phases]: the place of each text in the outbox
    known,      \* the identifiers that were ever submitted
    wire,       \* the identifiers whose message reached WhatsApp
    recorded    \* the identifiers whose message the history accepted

vars == <<phase, known, wire, recorded>>

Phases == {"none", "pending", "failed"}

Init ==
    /\ phase = [d \in Deliveries |-> "none"]
    /\ known = {}
    /\ wire = {}
    /\ recorded = {}

\* A text enters the outbox; only failed texts may be dropped to make room.
Accept(d) ==
    /\ phase[d] = "none"
    /\ \E pruned \in SUBSET {e \in Deliveries : phase[e] = "failed"} :
          phase' = [e \in Deliveries |->
                      IF e = d THEN "pending"
                      ELSE IF e \in pruned THEN "none" ELSE phase[e]]
    /\ known' = known \cup {d}
    /\ UNCHANGED <<wire, recorded>>

\* The network takes the message; nothing but a submitted text is ever sent.
Deliver(d) ==
    /\ d \in known
    /\ wire' = wire \cup {d}
    /\ UNCHANGED <<phase, known, recorded>>

\* The history takes the message, and only a message the network took.
Record(d) ==
    /\ d \in wire
    /\ recorded' = recorded \cup {d}
    /\ UNCHANGED <<phase, known, wire>>

\* A text leaves the outbox as sent only when the history has it.
Settle(d) ==
    /\ phase[d] = "pending"
    /\ d \in recorded
    /\ phase' = [phase EXCEPT ![d] = "none"]
    /\ UNCHANGED <<known, wire, recorded>>

Fail(d) ==
    /\ phase[d] = "pending"
    /\ phase' = [phase EXCEPT ![d] = "failed"]
    /\ UNCHANGED <<known, wire, recorded>>

\* Failed texts become pending again, one by the user or all by a reconnect.
Rearm(S) ==
    /\ phase' = [d \in Deliveries |->
                   IF d \in S /\ phase[d] = "failed" THEN "pending" ELSE phase[d]]
    /\ UNCHANGED <<known, wire, recorded>>

Discard(d) ==
    /\ phase[d] # "none"
    /\ phase' = [phase EXCEPT ![d] = "none"]
    /\ UNCHANGED <<known, wire, recorded>>

\* Logging out forgets the account's outbox and history together.
Wipe ==
    /\ phase' = [d \in Deliveries |-> "none"]
    /\ recorded' = {}
    /\ UNCHANGED <<known, wire>>

Next ==
    \/ \E d \in Deliveries :
          Accept(d) \/ Deliver(d) \/ Record(d) \/ Settle(d) \/ Fail(d) \/ Discard(d)
    \/ \E S \in SUBSET Deliveries : Rearm(S)
    \/ Wipe

Spec == Init /\ [][Next]_vars
=============================================================================
