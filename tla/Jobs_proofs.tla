------------------------------ MODULE Jobs_proofs ------------------------------
(* Theorems about what the daemon runs for its clients outside the session     *)
(* (DaemonStart, AvatarFetch, MediaJobs, IpcConnection, ChatList, GroupRoster)  *)
(* and about the jobs of voice notes (VoiceOutbox), for every number of         *)
(* processes, fetches, downloads, requests, chats and recordings.              *)
EXTENDS IpcConnection, MediaJobs, AvatarFetch, ChatList, GroupRoster, DaemonStart, VoiceOutbox,
        SequenceTheorems, FiniteSetTheorems, TLAPS

(* ------------------------------ DaemonStart -------------------------------- *)

(* A send shown as under way, begun where its kind was not yet repaired by     *)
(* another daemon and not left behind, still has no such daemon beside its     *)
(* process; one without a process has none at all.                             *)
NoneRepairedBeside ==
    \A k \in Kinds :
        flight[k].status = "sending" /\ ~flight[k].late /\ ~flight[k].left
            => ~RepairedBeside(flight[k].by, k)

(* The inductive invariant: only what was no daemon's was taken for stale, and *)
(* what sends is a daemon that may.                                            *)
StartInv ==
    /\ StartTypeOK
    /\ \A d \in Daemons : seen[d] \notin Daemons
    /\ \A k \in Kinds : flight[k].by # Nobody => flight[k].by \in Senders
    /\ ListenersOwnThePath
    /\ NoneRepairedBeside

(* The three things at the path that are no daemon's listener. *)
LEMMA StaleIsNoDaemon ==
    /\ "none" \notin Daemons /\ "other" \notin Daemons /\ "stale" \notin Daemons
    /\ Nobody \notin Daemons
    /\ {"none", "other", "stale"} \subseteq Places /\ Daemons \subseteq Places
  BY StartAssumption DEF Places

(* What each action does to the steps of the daemons. *)
LEMMA StepMoves ==
    ASSUME StartTypeOK, NEW d \in Daemons, NEW from, NEW to \in StartSteps, Moves(d, from, to)
    PROVE  /\ step[d] = from /\ step'[d] = to
           /\ \A e \in Daemons \ {d} : step'[e] = step[e]
           /\ step' \in [Daemons -> StartSteps]
  BY DEF StartTypeOK, Moves

LEMMA StartCases ==
    ASSUME StartNext
    PROVE  \E d \in Daemons :
              \/ RecoverVoice(d) \/ Inspect(d) \/ Probe(d) \/ RemoveStale(d)
              \/ Bind(d) \/ SetPermissions(d) \/ OpenDatabase(d)
              \/ \E k \in Kinds : BeginSend(d, k)
              \/ \E k \in Kinds : FinishSend(d, k)
              \/ \E k \in Kinds : LeaveSend(d, k)
              \/ SaveDelivery(d) \/ RetryAllTexts(d)
              \/ Stop(d) \/ Exit(d)
  BY DEF StartNext, Refuse, Ends

(* The stores of a daemon that starts, and of one that is gone, are well formed. *)
LEMMA FlightsAreTyped ==
    ASSUME StartTypeOK
    PROVE  /\ \A k \in Kinds :
                 /\ Interrupted(k) \in [Kinds -> Flights]
                 /\ Interrupted(k)[k].status # "sending"
                 /\ Interrupted(k)[k].by = flight[k].by
                 /\ \A j \in Kinds \ {k} : Interrupted(k)[j] = flight[j]
           /\ \A d \in Daemons :
                 Exit(d) =>
                    /\ flight' \in [Kinds -> Flights]
                    /\ \A k \in Kinds :
                          /\ flight'[k].status = flight[k].status
                          /\ flight'[k].late = flight[k].late
                          /\ flight'[k].left = flight[k].left
                          /\ flight'[k].by = IF flight[k].by = d THEN Nobody ELSE flight[k].by
  <1>1. \A k \in Kinds : flight[k] \in Flights
    BY DEF StartTypeOK
  <1>2. ASSUME NEW k \in Kinds
        PROVE  /\ Interrupted(k) \in [Kinds -> Flights]
               /\ Interrupted(k)[k].status # "sending"
               /\ Interrupted(k)[k].by = flight[k].by
               /\ \A j \in Kinds \ {k} : Interrupted(k)[j] = flight[j]
    BY <1>1, <1>2 DEF Interrupted, StartTypeOK, Flights
  <1>3. ASSUME NEW d \in Daemons, Exit(d)
        PROVE  /\ flight' \in [Kinds -> Flights]
               /\ \A k \in Kinds :
                     /\ flight'[k].status = flight[k].status
                     /\ flight'[k].late = flight[k].late
                     /\ flight'[k].left = flight[k].left
                     /\ flight'[k].by = IF flight[k].by = d THEN Nobody ELSE flight[k].by
    BY <1>1, <1>3 DEF Exit, StartTypeOK, Flights
  <1> QED BY <1>2, <1>3

(* A recovery that fails changes nothing but what history says of a recording. *)
LEMMA RecoverySays ==
    ASSUME StartTypeOK, NEW d \in Daemons, RecoverVoice(d)
    PROVE  /\ flight' \in [Kinds -> Flights]
           /\ flight'["voice"].by = flight["voice"].by
           /\ flight'["voice"].status # "sending" \/ flight'["voice"].left
           /\ flight'["text"] = flight["text"]
  <1>1. flight["voice"] \in Flights /\ "voice" \in Kinds /\ "text" \in Kinds
    BY DEF StartTypeOK, Kinds
  <1>2. CASE flight' = Interrupted("voice")
    BY <1>1, <1>2, FlightsAreTyped
  <1>3. CASE flight' = [flight EXCEPT !["voice"].left = TRUE]
    BY <1>1, <1>3 DEF StartTypeOK, Flights
  <1> QED BY <1>2, <1>3 DEF RecoverVoice

(* What begins, ends or leaves a send does to the two stores. *)
LEMMA SendSteps ==
    ASSUME StartTypeOK, NEW d \in Daemons, NEW j \in Kinds,
           BeginSend(d, j) \/ FinishSend(d, j) \/ LeaveSend(d, j) \/ (SaveDelivery(d) /\ j = "voice")
    PROVE  /\ step' = step /\ flight' \in [Kinds -> Flights]
           /\ \A k \in Kinds \ {j} : flight'[k] = flight[k]
           /\ flight'[j].by = Nobody \/ (flight'[j].by = d /\ d \in Senders)
              \/ flight'[j].by = flight[j].by
           /\ flight'[j].status = "sending" /\ ~flight'[j].late /\ ~flight'[j].left
                 => flight'[j].by = d /\ ~RepairedBeside(d, j)
  <1>1. flight[j] \in Flights
    BY DEF StartTypeOK
  <1>2. RepairedBeside(d, j) \in BOOLEAN
    BY DEF RepairedBeside
  <1>3. CASE BeginSend(d, j)
    BY <1>2, <1>3 DEF BeginSend, StartTypeOK, Flights
  <1>4. CASE FinishSend(d, j)
    BY <1>1, <1>4 DEF FinishSend, StartTypeOK, Flights
  <1>5. CASE LeaveSend(d, j)
    BY <1>1, <1>5 DEF LeaveSend, StartTypeOK, Flights
  <1>6. CASE SaveDelivery(d) /\ j = "voice"
    BY <1>2, <1>6 DEF SaveDelivery, StartTypeOK, Flights
  <1> QED BY <1>3, <1>4, <1>5, <1>6

LEMMA SendIsOne ==
    ASSUME NEW d \in Daemons,
           \/ \E k \in Kinds : BeginSend(d, k) \/ FinishSend(d, k) \/ LeaveSend(d, k)
           \/ SaveDelivery(d)
    PROVE  \E j \in Kinds :
              BeginSend(d, j) \/ FinishSend(d, j) \/ LeaveSend(d, j) \/ (SaveDelivery(d) /\ j = "voice")
  <1>1. CASE \E k \in Kinds : BeginSend(d, k) \/ FinishSend(d, k) \/ LeaveSend(d, k)
    <2>1. PICK k \in Kinds : BeginSend(d, k) \/ FinishSend(d, k) \/ LeaveSend(d, k)
      BY <1>1
    <2> QED BY <2>1
  <1>2. CASE SaveDelivery(d)
    <2>1. PICK j \in Kinds : j = "voice"
      BY DEF Kinds
    <2>2. SaveDelivery(d) /\ j = "voice"
      BY <1>2, <2>1
    <2> QED BY <2>2
  <1> QED BY <1>1, <1>2

(* Type correctness is preserved by every step of every daemon. *)
LEMMA StartTypesKept ==
    ASSUME StartTypeOK, StartNext
    PROVE  StartTypeOK'
  <1>1. PICK d \in Daemons :
              \/ RecoverVoice(d) \/ Inspect(d) \/ Probe(d) \/ RemoveStale(d)
              \/ Bind(d) \/ SetPermissions(d) \/ OpenDatabase(d)
              \/ \E k \in Kinds : BeginSend(d, k)
              \/ \E k \in Kinds : FinishSend(d, k)
              \/ \E k \in Kinds : LeaveSend(d, k)
              \/ SaveDelivery(d) \/ RetryAllTexts(d)
              \/ Stop(d) \/ Exit(d)
    BY StartCases
  <1> USE StaleIsNoDaemon
  <1>2. CASE RecoverVoice(d) \/ OpenDatabase(d) \/ RetryAllTexts(d)
    <2>1. "text" \in Kinds  BY DEF Kinds
    <2>2. step' \in [Daemons -> StartSteps]
      BY <1>2, StepMoves DEF RecoverVoice, OpenDatabase, RetryAllTexts, StartTypeOK, StartSteps
    <2> QED BY <1>2, <2>1, <2>2, FlightsAreTyped, RecoverySays
            DEF StartTypeOK, RecoverVoice, OpenDatabase, RetryAllTexts
  <1>3. CASE Inspect(d) \/ Probe(d) \/ SetPermissions(d) \/ RemoveStale(d) \/ Bind(d) \/ Stop(d)
    <2>1. step' \in [Daemons -> StartSteps]
      BY <1>3, StepMoves DEF Inspect, Probe, SetPermissions, RemoveStale, Bind, Stop, StartSteps
    <2> QED BY <1>3, <2>1
            DEF StartTypeOK, Inspect, Probe, SetPermissions, RemoveStale, Bind, Stop
  <1>4. CASE \E k \in Kinds : BeginSend(d, k) \/ FinishSend(d, k) \/ LeaveSend(d, k)
    BY <1>4, SendSteps DEF StartTypeOK, BeginSend, FinishSend, LeaveSend
  <1>5. CASE SaveDelivery(d)
    BY <1>5, SendSteps DEF StartTypeOK, SaveDelivery, Kinds
  <1>6. CASE Exit(d)
    BY <1>6, FlightsAreTyped DEF StartTypeOK, Exit, StartSteps
  <1> QED BY <1>1, <1>2, <1>3, <1>4, <1>5, <1>6

(* Two daemons that listen: one of them lost the path, or has given it up. *)
LEMMA OneOfTwoLostIt ==
    ASSUME ListenersOwnThePath, NEW d \in Daemons, NEW e \in Daemons, d # e,
           HasListener(d), HasListener(e)
    PROVE  stolen \cap {d, e} # {} \/ step[d] = "leaving" \/ step[e] = "leaving"
  BY DEF ListenersOwnThePath

LEMMA StartInvKept ==
    ASSUME StartInv, StartNext
    PROVE  StartInv'
  <1>1. PICK d \in Daemons :
              \/ RecoverVoice(d) \/ Inspect(d) \/ Probe(d) \/ RemoveStale(d)
              \/ Bind(d) \/ SetPermissions(d) \/ OpenDatabase(d)
              \/ \E k \in Kinds : BeginSend(d, k)
              \/ \E k \in Kinds : FinishSend(d, k)
              \/ \E k \in Kinds : LeaveSend(d, k)
              \/ SaveDelivery(d) \/ RetryAllTexts(d)
              \/ Stop(d) \/ Exit(d)
    BY StartCases
  <1>2. StartTypeOK /\ StartTypeOK'
    BY StartTypesKept DEF StartInv
  <1>3. \A e \in Daemons : seen'[e] \notin Daemons
    <2>1. CASE Probe(d)
      BY <1>2, <2>1 DEF StartInv, StartTypeOK, Probe
    <2>2. CASE ~Probe(d)
      BY <1>1, <2>2 DEF StartInv, RecoverVoice, Inspect, RemoveStale, Bind, SetPermissions,
                        OpenDatabase, BeginSend, FinishSend, LeaveSend, SaveDelivery,
                        RetryAllTexts, Stop, Exit
    <2> QED BY <2>1, <2>2
  <1>4. \A k \in Kinds : flight'[k].by # Nobody => flight'[k].by \in Senders'
    <2> SUFFICES ASSUME NEW k \in Kinds, flight'[k].by # Nobody
                 PROVE  step'[flight'[k].by] \in {"serving", "leaving"} /\ flight'[k].by \in Daemons
      BY DEF Senders
    <2>0. flight'[k].by \in Daemons
      BY <1>2 DEF StartTypeOK, Flights
    <2>1. CASE RecoverVoice(d) \/ OpenDatabase(d)
      <3>1. flight'[k].by = flight[k].by
        BY <1>2, <2>1, FlightsAreTyped, RecoverySays DEF OpenDatabase, Kinds
      <3>2. step[flight[k].by] \in {"serving", "leaving"}
        BY <3>1 DEF StartInv, Senders
      <3>3. flight[k].by # d
        BY <2>1, <3>2 DEF RecoverVoice, OpenDatabase, Moves
      <3> QED BY <1>2, <2>0, <2>1, <3>1, <3>2, <3>3
              DEF RecoverVoice, OpenDatabase, Moves, StartTypeOK
    <2>2. CASE Inspect(d) \/ Probe(d) \/ RemoveStale(d) \/ Bind(d) \/ SetPermissions(d) \/ Stop(d)
      <3>1. flight'[k].by = flight[k].by
        BY <2>2 DEF Inspect, Probe, RemoveStale, Bind, SetPermissions, Stop
      <3>2. step[flight[k].by] \in {"serving", "leaving"}
        BY <3>1 DEF StartInv, Senders
      <3>3. CASE Stop(d)
        BY <1>2, <2>0, <3>1, <3>2, <3>3 DEF Stop, Moves, StartTypeOK
      <3>4. CASE ~Stop(d)
        <4>1. flight[k].by # d
          BY <2>2, <3>2, <3>4 DEF Inspect, Probe, RemoveStale, Bind, SetPermissions, Moves
        <4> QED BY <1>2, <2>0, <2>2, <3>1, <3>2, <3>4, <4>1
                DEF Inspect, Probe, RemoveStale, Bind, SetPermissions, Moves, StartTypeOK
      <3> QED BY <3>3, <3>4
    <2>3. CASE \/ \E j \in Kinds : BeginSend(d, j) \/ FinishSend(d, j) \/ LeaveSend(d, j)
               \/ SaveDelivery(d)
      <3>1. PICK j \in Kinds :
                BeginSend(d, j) \/ FinishSend(d, j) \/ LeaveSend(d, j) \/ (SaveDelivery(d) /\ j = "voice")
        BY <2>3, SendIsOne
      <3> QED BY <1>2, <2>0, <3>1, SendSteps DEF StartInv, Senders
    <2>4. CASE RetryAllTexts(d)
      <3>1. flight'[k].by = flight[k].by
        BY <1>2, <2>4, FlightsAreTyped DEF RetryAllTexts, Kinds
      <3> QED BY <2>4, <3>1 DEF RetryAllTexts, StartInv, Senders
    <2>5. CASE Exit(d)
      <3>1. flight'[k].by = flight[k].by /\ flight[k].by # d
        BY <1>2, <2>5, FlightsAreTyped
      <3> QED BY <1>2, <2>0, <2>5, <3>1 DEF Exit, StartInv, Senders, StartTypeOK
    <2> QED BY <1>1, <2>1, <2>2, <2>3, <2>4, <2>5
  <1>5. ListenersOwnThePath'
    <2> SUFFICES ASSUME NEW e \in Daemons, HasListener(e)'
                 PROVE  path' = e \/ e \in stolen' \/ step'[e] = "leaving"
      BY DEF ListenersOwnThePath
    <2> USE StaleIsNoDaemon
    <2>1. CASE RecoverVoice(d) \/ Inspect(d) \/ Probe(d) \/ SetPermissions(d) \/ OpenDatabase(d)
      <3>1. path' = path /\ stolen' = stolen
        BY <2>1 DEF RecoverVoice, Inspect, Probe, SetPermissions, OpenDatabase
      <3>2. HasListener(e) /\ (step[e] = "leaving" => step'[e] = "leaving")
        BY <1>2, <2>1 DEF RecoverVoice, Inspect, Probe, SetPermissions, OpenDatabase, Moves,
                          HasListener, StartTypeOK
      <3> QED BY <3>1, <3>2 DEF StartInv, ListenersOwnThePath
    <2>2. CASE RemoveStale(d)
      <3>1. e # d /\ step'[e] = step[e]
        BY <1>2, <2>2 DEF RemoveStale, Moves, HasListener, StartTypeOK
      <3>2. path = e \/ e \in stolen \/ step[e] = "leaving"
        BY <3>1 DEF StartInv, ListenersOwnThePath, HasListener
      <3>3. path \in Daemons => path # seen[d]
        BY DEF StartInv
      <3> QED BY <2>2, <3>1, <3>2, <3>3 DEF RemoveStale
    <2>3. CASE Bind(d)
      BY <1>2, <2>3 DEF Bind, Moves, HasListener, StartInv, StartTypeOK, ListenersOwnThePath
    <2>4. CASE Stop(d)
      BY <1>2, <2>4 DEF Stop, Moves, HasListener, StartInv, StartTypeOK, ListenersOwnThePath
    <2>5. CASE Exit(d)
      BY <1>2, <2>5 DEF Exit, HasListener, StartInv, StartTypeOK, ListenersOwnThePath
    <2>6. CASE \/ \E k \in Kinds : BeginSend(d, k) \/ FinishSend(d, k) \/ LeaveSend(d, k)
               \/ SaveDelivery(d) \/ RetryAllTexts(d)
      BY <2>6 DEF BeginSend, FinishSend, LeaveSend, SaveDelivery, RetryAllTexts, HasListener,
                  StartInv, ListenersOwnThePath
    <2> QED BY <1>1, <2>1, <2>2, <2>3, <2>4, <2>5, <2>6
  <1>6. NoneRepairedBeside'
    <2> SUFFICES ASSUME NEW k \in Kinds, flight'[k].status = "sending", ~flight'[k].late,
                        ~flight'[k].left, NEW e \in Daemons, e # flight'[k].by
                 PROVE  IF k = "voice" THEN step'[e] = "off"
                                       ELSE step'[e] \notin {"serving", "leaving"}
      BY DEF NoneRepairedBeside, RepairedBeside, Senders
    <2>0. \A f \in Daemons :
             flight[k].status = "sending" /\ ~flight[k].late /\ ~flight[k].left /\ f # flight[k].by =>
             IF k = "voice" THEN step[f] = "off" ELSE step[f] \notin {"serving", "leaving"}
      BY DEF StartInv, NoneRepairedBeside, RepairedBeside, Senders
    <2>1. CASE RecoverVoice(d)
      <3>1. k # "voice" /\ flight'[k] = flight[k]
        BY <1>2, <2>1, RecoverySays DEF Kinds
      <3> QED BY <1>2, <2>0, <2>1, <3>1 DEF RecoverVoice, Moves, StartTypeOK
    <2>2. CASE OpenDatabase(d)
      <3>1. k # "text" /\ flight'[k] = flight[k]
        BY <1>2, <2>2, FlightsAreTyped DEF OpenDatabase, Kinds
      <3>2. step[d] = "opening"
        BY <2>2 DEF OpenDatabase, Moves
      <3>3. d = flight[k].by
        BY <2>0, <3>1, <3>2 DEF Kinds
      <3> QED BY <3>2, <3>3, StaleIsNoDaemon DEF StartInv, Senders
    <2>3. CASE Inspect(d) \/ Probe(d) \/ RemoveStale(d) \/ Bind(d) \/ SetPermissions(d) \/ Stop(d)
      <3>1. flight'[k] = flight[k]
        BY <2>3 DEF Inspect, Probe, RemoveStale, Bind, SetPermissions, Stop
      <3>2. IF k = "voice" THEN step[e] = "off" ELSE step[e] \notin {"serving", "leaving"}
        BY <2>0, <3>1
      <3> QED BY <1>2, <2>3, <3>2
              DEF Inspect, Probe, RemoveStale, Bind, SetPermissions, Stop, Moves, StartTypeOK
    <2>4. CASE \/ \E j \in Kinds : BeginSend(d, j) \/ FinishSend(d, j) \/ LeaveSend(d, j)
               \/ SaveDelivery(d)
      <3>1. PICK j \in Kinds :
                BeginSend(d, j) \/ FinishSend(d, j) \/ LeaveSend(d, j) \/ (SaveDelivery(d) /\ j = "voice")
        BY <2>4, SendIsOne
      <3>2. CASE j = k
        <4>1. flight'[k].by = d /\ ~RepairedBeside(d, k) /\ step' = step
          BY <1>2, <3>1, <3>2, SendSteps
        <4> QED BY <4>1 DEF RepairedBeside, Senders
      <3>3. CASE j # k
        <4>1. flight'[k] = flight[k] /\ step' = step
          BY <1>2, <3>1, <3>3, SendSteps
        <4> QED BY <2>0, <4>1
      <3> QED BY <3>2, <3>3
    <2>5. CASE RetryAllTexts(d)
      <3>1. k # "text" /\ flight'[k] = flight[k] /\ step' = step
        BY <1>2, <2>5, FlightsAreTyped DEF RetryAllTexts, Kinds
      <3> QED BY <2>0, <3>1
    <2>6. CASE Exit(d)
      <3>1. /\ flight[k].status = "sending" /\ ~flight[k].late /\ ~flight[k].left
            /\ flight'[k].by = IF flight[k].by = d THEN Nobody ELSE flight[k].by
        BY <1>2, <2>6, FlightsAreTyped
      <3>2. step' = [step EXCEPT ![d] = "off"]
        BY <2>6 DEF Exit
      <3>3. CASE e = d
        BY <1>2, <3>2, <3>3 DEF StartTypeOK
      <3>4. CASE e # d
        <4>1. e # flight[k].by
          BY <3>1, <3>4
        <4> QED BY <1>2, <2>0, <3>1, <3>2, <3>4, <4>1 DEF StartTypeOK
      <3> QED BY <3>3, <3>4
    <2> QED BY <1>1, <2>1, <2>2, <2>3, <2>4, <2>5, <2>6
  <1> QED BY <1>2, <1>3, <1>4, <1>5, <1>6 DEF StartInv

(* The invariant says what the run checks in every state. *)
LEMMA StartInvSays ==
    ASSUME StartInv
    PROVE  ListenersOwnThePath /\ OneOwner /\ NoSendIsStranded
  <1>1. OneOwner
    BY OneOfTwoLostIt DEF StartInv, OneOwner, HasListener
  <1>2. NoSendIsStranded
    <2> SUFFICES ASSUME NEW k \in Kinds, NEW d \in Daemons,
                        flight[k].status = "sending", flight[k].by = Nobody,
                        ~flight[k].late, ~flight[k].left
                 PROVE  step[d] # "serving"
      BY DEF NoSendIsStranded
    <2>1. ~RepairedBeside(Nobody, k) /\ d # Nobody
      BY StaleIsNoDaemon DEF StartInv, NoneRepairedBeside
    <2> QED BY <2>1 DEF RepairedBeside, Senders
  <1> QED BY <1>1, <1>2 DEF StartInv

LEMMA StartInvHolds == StartSpec => []StartInv
  <1>1. StartInit => StartInv
    BY StaleIsNoDaemon
    DEF StartInit, StartInv, StartTypeOK, StartSteps, Places, ListenersOwnThePath, HasListener,
        NoneRepairedBeside, Kinds, Flights
  <1>2. StartInv /\ [StartNext]_startVars => StartInv'
    <2> SUFFICES ASSUME StartInv, [StartNext]_startVars PROVE StartInv'
      OBVIOUS
    <2>1. CASE StartNext
      BY <2>1, StartInvKept
    <2>2. CASE UNCHANGED startVars
      BY <2>2 DEF StartInv, StartTypeOK, startVars, ListenersOwnThePath, HasListener,
                  NoneRepairedBeside, RepairedBeside, Senders
    <2> QED BY <2>1, <2>2
  <1> QED BY <1>1, <1>2, PTL DEF StartSpec

(* Every variable of the daemons' starts keeps its type. *)
THEOREM StartTypeCorrect == StartSpec => []StartTypeOK
  <1>1. StartInv => StartTypeOK
    BY DEF StartInv
  <1> QED BY <1>1, StartInvHolds, PTL

(* A text in flight goes out a second time only where its daemon is leaving or *)
(* one of the two lost its path (Database::open, database.rs:807).              *)
LEMMA TextsAreSentByOneKept ==
    ASSUME StartInv, StartNext
    PROVE  TextsAreSentByOne
  <1> DEFINE f == flight["text"]
  <1> SUFFICES ASSUME f.status = "sending", f.by # Nobody, flight'["text"].status = "retry",
                      step' # step
               PROVE  \/ step[f.by] = "leaving"
                      \/ \E d \in Daemons : step'[d] # step[d] /\ stolen \cap {d, f.by} # {}
    BY DEF TextsAreSentByOne
  <1>1. PICK d \in Daemons :
              \/ RecoverVoice(d) \/ Inspect(d) \/ Probe(d) \/ RemoveStale(d)
              \/ Bind(d) \/ SetPermissions(d) \/ OpenDatabase(d)
              \/ \E k \in Kinds : BeginSend(d, k)
              \/ \E k \in Kinds : FinishSend(d, k)
              \/ \E k \in Kinds : LeaveSend(d, k)
              \/ SaveDelivery(d) \/ RetryAllTexts(d)
              \/ Stop(d) \/ Exit(d)
    BY StartCases
  <1>2. StartTypeOK /\ "text" \in Kinds
    BY DEF StartInv, Kinds
  <1>3. f.by \in Daemons /\ step[f.by] \in {"serving", "leaving"}
    BY <1>2 DEF StartInv, Senders, StartTypeOK
  <1>4. OpenDatabase(d)
    <2>1. ~RecoverVoice(d)
      BY <1>2, RecoverySays
    <2>2. ~(Inspect(d) \/ Probe(d) \/ RemoveStale(d) \/ Bind(d) \/ SetPermissions(d) \/ Stop(d))
      BY DEF Inspect, Probe, RemoveStale, Bind, SetPermissions, Stop
    <2>3. ~\E k \in Kinds : BeginSend(d, k) \/ FinishSend(d, k) \/ LeaveSend(d, k)
      BY DEF BeginSend, FinishSend, LeaveSend
    <2>4. ~SaveDelivery(d) /\ ~RetryAllTexts(d)
      BY DEF SaveDelivery, RetryAllTexts
    <2>5. ~Exit(d)
      BY <1>2, FlightsAreTyped
    <2> QED BY <1>1, <2>1, <2>2, <2>3, <2>4, <2>5
  <1>5. step[d] = "opening" /\ step'[d] = "serving" /\ d # f.by
    BY <1>2, <1>3, <1>4, StepMoves DEF OpenDatabase, StartSteps
  <1>6. stolen \cap {d, f.by} # {} \/ step[f.by] = "leaving"
    BY <1>3, <1>5, OneOfTwoLostIt DEF StartInv, HasListener
  <1> QED BY <1>5, <1>6

(* Starts side by side, for any number of processes killed at any step: a      *)
(* listener owns the path unless its socket was taken for a stale one          *)
(* (bind_private_listener), two daemons own the session only then, no send is   *)
(* stranded, and no text goes out twice but past such a loss.                  *)
THEOREM StartsExclude == StartSpec => StartsAreExclusive
  <1>1. StartInv => ListenersOwnThePath /\ OneOwner /\ NoSendIsStranded
    BY StartInvSays
  <1>2. StartInv /\ [StartNext]_startVars => [TextsAreSentByOne]_startVars
    BY TextsAreSentByOneKept
  <1> QED BY <1>1, <1>2, StartInvHolds, PTL DEF StartSpec, StartsAreExclusive

-----------------------------------------------------------------------------
(* ------------------------------ AvatarFetch --------------------------------- *)

AvatarTypeOK ==
    /\ picture \in Pictures \cup {NoPicture}
    /\ events \in Seq(BOOLEAN)
    /\ cached \in Pictures \cup {NoPicture}
    /\ missing \in BOOLEAN /\ crossed \in BOOLEAN
    /\ fetches \in [Fetchers -> [step : {"none", "drop", "ask", "write"},
                                 got : Pictures \cup {NoPicture}]]

(* The last announcement on its way tells what the contact has now. *)
LastIsCurrent ==
    events # <<>> => (events[Len(events)] <=> picture # NoPicture)

(* With no announcement on its way and none handled too early, every answer a  *)
(* fetch still holds is the current picture, and so is what the cache says.    *)
HeldIsCurrent ==
    events = <<>> /\ ~crossed =>
        \A f \in Fetchers : fetches[f].step = "write" => fetches[f].got = picture

CachedIsCurrent ==
    events = <<>> /\ ~crossed =>
        cached \in {NoPicture, picture} /\ (missing => picture = NoPicture)

AvatarInv == AvatarTypeOK /\ LastIsCurrent /\ HeldIsCurrent /\ CachedIsCurrent

LEMMA FetchesAreTyped ==
    ASSUME AvatarTypeOK, NEW f \in Fetchers
    PROVE  /\ \A s \in {"drop", "ask"} : Begin(f, s) =>
                /\ fetches' \in [Fetchers -> [step : {"none", "drop", "ask", "write"},
                                              got : Pictures \cup {NoPicture}]]
                /\ fetches'[f].step = s
                /\ \A g \in Fetchers \ {f} : fetches'[g] = fetches[g]
           /\ End(f) =>
                /\ fetches' \in [Fetchers -> [step : {"none", "drop", "ask", "write"},
                                              got : Pictures \cup {NoPicture}]]
                /\ fetches'[f].step = "none"
                /\ \A g \in Fetchers \ {f} : fetches'[g] = fetches[g]
  BY DEF AvatarTypeOK, Begin, End, NoFetch

(* The announcement that is handled: what is left, and what the last one says. *)
LEMMA HandledEvent ==
    ASSUME AvatarTypeOK, LastIsCurrent, events # <<>>, events' = Tail(events)
    PROVE  /\ events' \in Seq(BOOLEAN)
           /\ events' # <<>> => events'[Len(events')] = events[Len(events)]
           /\ events' = <<>> => (Head(events) <=> picture # NoPicture)
  <1>1. events \in Seq(BOOLEAN) /\ Len(events) \in Nat /\ Len(events) > 0
    BY DEF AvatarTypeOK
  <1>2. /\ events' \in Seq(BOOLEAN) /\ Len(events') = Len(events) - 1
        /\ \A i \in 1..Len(events') : events'[i] = events[i + 1]
    BY <1>1, HeadTailProperties
  <1>3. ASSUME events' # <<>> PROVE events'[Len(events')] = events[Len(events)]
    <2>1. Len(events') \in 1..Len(events') /\ Len(events') + 1 = Len(events)
      BY <1>1, <1>2, <1>3, EmptySeq
    <2> QED BY <1>2, <2>1
  <1>4. ASSUME events' = <<>> PROVE Head(events) = events[Len(events)]
    <2>1. Len(events') = 0
      BY <1>4, EmptySeq, Zenon
    <2>2. Len(events) = 1
      BY <1>1, <1>2, <2>1
    <2>3. Head(events) = events[1]
      BY <1>1
    <2> QED BY <2>2, <2>3, Zenon
  <1> QED BY <1>2, <1>3, <1>4 DEF LastIsCurrent

LEMMA AvatarTypesKept ==
    ASSUME AvatarTypeOK, AvatarNext
    PROVE  AvatarTypeOK'
  <1>1. ASSUME NEW new \in Pictures \cup {NoPicture}, ChangePicture(new)
        PROVE  AvatarTypeOK'
    <2>1. events' \in Seq(BOOLEAN)
      <3>1. (new # NoPicture) \in BOOLEAN /\ events \in Seq(BOOLEAN)
        BY DEF AvatarTypeOK
      <3> QED BY <1>1, <3>1 DEF ChangePicture
    <2> QED BY <1>1, <2>1 DEF ChangePicture, AvatarTypeOK
  <1>2. ASSUME NEW f \in Fetchers, RequestAvatar(f) \/ SyncAvatar(f) \/ ForceAvatar(f)
        PROVE  AvatarTypeOK'
    BY <1>2, FetchesAreTyped DEF RequestAvatar, SyncAvatar, ForceAvatar, AvatarTypeOK
  <1>3. ASSUME NEW f \in Fetchers, PictureUpdate(f)
        PROVE  AvatarTypeOK'
    <2>1. events' \in Seq(BOOLEAN)
      BY <1>3, HeadTailProperties DEF PictureUpdate, AvatarTypeOK
    <2>2. crossed' \in BOOLEAN
      BY <1>3 DEF PictureUpdate
    <2> QED BY <1>3, <2>1, <2>2, FetchesAreTyped DEF PictureUpdate, AvatarTypeOK
  <1>4. ASSUME PictureRemoved
        PROVE  AvatarTypeOK'
    <2>1. events' \in Seq(BOOLEAN)
      BY <1>4, HeadTailProperties DEF PictureRemoved, AvatarTypeOK
    <2>2. crossed' \in BOOLEAN
      BY <1>4 DEF PictureRemoved
    <2> QED BY <1>4, <2>1, <2>2 DEF PictureRemoved, AvatarTypeOK
  <1>5. ASSUME NEW f \in Fetchers, DropAvatar(f) \/ AskPicture(f)
        PROVE  AvatarTypeOK'
    <2>1. fetches' \in [Fetchers -> [step : {"none", "drop", "ask", "write"},
                                     got : Pictures \cup {NoPicture}]]
      BY <1>5 DEF DropAvatar, AskPicture, AvatarTypeOK
    <2>2. missing' \in BOOLEAN /\ cached' \in Pictures \cup {NoPicture}
      BY <1>5 DEF DropAvatar, AskPicture, AvatarTypeOK
    <2>3. UNCHANGED <<picture, events, crossed>>
      BY <1>5 DEF DropAvatar, AskPicture
    <2> QED BY <2>1, <2>2, <2>3 DEF AvatarTypeOK
  <1>6. ASSUME NEW f \in Fetchers, WriteAvatar(f) \/ FetchFails(f)
        PROVE  AvatarTypeOK'
    <2>1. missing' \in BOOLEAN /\ cached' \in Pictures \cup {NoPicture}
      BY <1>6 DEF WriteAvatar, FetchFails, AvatarTypeOK
    <2> QED BY <1>6, <2>1, FetchesAreTyped DEF WriteAvatar, FetchFails, AvatarTypeOK
  <1> QED BY <1>1, <1>2, <1>3, <1>4, <1>5, <1>6 DEF AvatarNext

LEMMA AvatarInvKept ==
    ASSUME AvatarInv, AvatarNext
    PROVE  AvatarInv'
  <1>0. AvatarTypeOK /\ AvatarTypeOK'
    BY AvatarTypesKept DEF AvatarInv
  <1>1. ASSUME NEW new \in Pictures \cup {NoPicture}, ChangePicture(new)
        PROVE  AvatarInv'
    <2>1. events \in Seq(BOOLEAN) /\ (new # NoPicture) \in BOOLEAN
      BY <1>0 DEF AvatarTypeOK
    <2>2. events' # <<>> /\ events'[Len(events')] = (new # NoPicture)
      BY <1>1, <2>1 DEF ChangePicture
    <2> QED BY <1>0, <1>1, <2>2
            DEF ChangePicture, AvatarInv, LastIsCurrent, HeldIsCurrent, CachedIsCurrent
  <1>2. ASSUME NEW f \in Fetchers, RequestAvatar(f) \/ SyncAvatar(f) \/ ForceAvatar(f)
        PROVE  AvatarInv'
    <2>1. UNCHANGED <<picture, events, cached, missing, crossed>>
      BY <1>2 DEF RequestAvatar, SyncAvatar, ForceAvatar
    <2>2. \A g \in Fetchers : fetches'[g].step = "write" =>
             fetches[g].step = "write" /\ fetches'[g].got = fetches[g].got
      BY <1>0, <1>2, FetchesAreTyped DEF RequestAvatar, SyncAvatar, ForceAvatar
    <2> QED BY <1>0, <2>1, <2>2 DEF AvatarInv, LastIsCurrent, HeldIsCurrent, CachedIsCurrent
  <1>3. ASSUME NEW f \in Fetchers, PictureUpdate(f)
        PROVE  AvatarInv'
    <2>1. events # <<>> /\ events' = Tail(events) /\ picture' = picture
      BY <1>3 DEF PictureUpdate
    <2>2. LastIsCurrent'
      BY <1>0, <2>1, HandledEvent DEF AvatarInv, LastIsCurrent
    <2>3. ~crossed' => \A g \in Fetchers : fetches[g].step = "write" => fetches[g].got = picture
      <3>1. ~crossed' => ~Overtaken
        BY <1>3 DEF PictureUpdate
      <3> QED BY <3>1 DEF Overtaken, Running, NoFetch
    <2>4. HeldIsCurrent'
      BY <1>0, <1>3, <2>1, <2>3, FetchesAreTyped DEF PictureUpdate, HeldIsCurrent
    <2>5. CachedIsCurrent'
      BY <1>3 DEF PictureUpdate, CachedIsCurrent
    <2> QED BY <1>0, <2>2, <2>4, <2>5 DEF AvatarInv
  <1>4. ASSUME PictureRemoved
        PROVE  AvatarInv'
    <2>1. events # <<>> /\ events' = Tail(events) /\ picture' = picture /\ fetches' = fetches
      BY <1>4 DEF PictureRemoved
    <2>2. LastIsCurrent' /\ (events' = <<>> => picture = NoPicture)
      BY <1>0, <1>4, <2>1, HandledEvent DEF AvatarInv, LastIsCurrent, PictureRemoved
    <2>3. ~crossed' => \A g \in Fetchers : fetches[g].step = "write" => fetches[g].got = picture
      <3>1. ~crossed' => ~Overtaken
        BY <1>4 DEF PictureRemoved
      <3> QED BY <3>1 DEF Overtaken, Running, NoFetch
    <2>4. HeldIsCurrent' /\ CachedIsCurrent'
      BY <1>4, <2>1, <2>2, <2>3 DEF PictureRemoved, HeldIsCurrent, CachedIsCurrent
    <2> QED BY <1>0, <2>2, <2>4 DEF AvatarInv
  <1>5. ASSUME NEW f \in Fetchers, DropAvatar(f) \/ AskPicture(f)
        PROVE  AvatarInv'
    BY <1>0, <1>5 DEF DropAvatar, AskPicture, AvatarTypeOK, AvatarInv, LastIsCurrent,
                      HeldIsCurrent, CachedIsCurrent
  <1>6. ASSUME NEW f \in Fetchers, WriteAvatar(f)
        PROVE  AvatarInv'
    <2>1. UNCHANGED <<picture, events, crossed>> /\ fetches[f].step = "write"
      BY <1>6 DEF WriteAvatar
    <2>2. HeldIsCurrent'
      BY <1>0, <1>6, <2>1, FetchesAreTyped DEF WriteAvatar, AvatarInv, HeldIsCurrent
    <2>3. events = <<>> /\ ~crossed => fetches[f].got = picture
      BY <2>1 DEF AvatarInv, HeldIsCurrent
    <2>4. CachedIsCurrent'
      <3>1. cached' = fetches[f].got /\ (missing' => fetches[f].got = NoPicture)
        BY <1>6 DEF WriteAvatar
      <3> QED BY <2>1, <2>3, <3>1 DEF CachedIsCurrent
    <2> QED BY <1>0, <2>1, <2>2, <2>4 DEF AvatarInv, LastIsCurrent
  <1>7. ASSUME NEW f \in Fetchers, FetchFails(f)
        PROVE  AvatarInv'
    <2>1. UNCHANGED <<picture, events, cached, missing, crossed>>
      BY <1>7 DEF FetchFails
    <2>2. HeldIsCurrent'
      BY <1>0, <1>7, <2>1, FetchesAreTyped DEF FetchFails, AvatarInv, HeldIsCurrent
    <2> QED BY <1>0, <2>1, <2>2 DEF AvatarInv, LastIsCurrent, CachedIsCurrent
  <1> QED BY <1>1, <1>2, <1>3, <1>4, <1>5, <1>6, <1>7 DEF AvatarNext

LEMMA AvatarInvHolds == AvatarSpec => []AvatarInv
  <1>1. AvatarInit => AvatarInv
    <2> SUFFICES ASSUME AvatarInit PROVE AvatarInv
      OBVIOUS
    <2>1. AvatarTypeOK
      <3>1. events \in Seq(BOOLEAN)
        BY EmptySeq DEF AvatarInit
      <3>2. fetches \in [Fetchers -> [step : {"none", "drop", "ask", "write"},
                                     got : Pictures \cup {NoPicture}]]
        BY DEF AvatarInit, NoFetch
      <3> QED BY <3>1, <3>2 DEF AvatarInit, AvatarTypeOK
    <2>2. \A f \in Fetchers : fetches[f].step # "write"
      BY DEF AvatarInit, NoFetch
    <2> QED BY <2>1, <2>2
            DEF AvatarInit, AvatarInv, LastIsCurrent, HeldIsCurrent, CachedIsCurrent
  <1>2. AvatarInv /\ [AvatarNext]_avatarVars => AvatarInv'
    <2> SUFFICES ASSUME AvatarInv, [AvatarNext]_avatarVars PROVE AvatarInv'
      OBVIOUS
    <2>1. CASE AvatarNext
      BY <2>1, AvatarInvKept
    <2>2. CASE UNCHANGED avatarVars
      BY <2>2 DEF avatarVars, AvatarInv, AvatarTypeOK, LastIsCurrent, HeldIsCurrent,
                  CachedIsCurrent
    <2> QED BY <2>1, <2>2
  <1> QED BY <1>1, <1>2, PTL DEF AvatarSpec

(* For any number of fetches, pictures and announcements: a cache at rest is   *)
(* wrong only after a change was handled while a fetch held an older answer    *)
(* (refresh_avatar).                                                           *)
THEOREM StaleAvatarExplained == AvatarSpec => []StaleAvatarIsExplained
  <1>1. AvatarInv => StaleAvatarIsExplained
    BY DEF AvatarInv, CachedIsCurrent, StaleAvatarIsExplained
  <1> QED BY <1>1, AvatarInvHolds, PTL

-----------------------------------------------------------------------------
(* ----------------------------- IpcConnection -------------------------------- *)

(* Requests that hold a mutex: its name, and the table that leads to it.        *)
Holding == {"gate", "running", "stopping"}

(* A request holds a mutex exactly while it waits for its gate or runs, and it *)
(* is the one the table names for its key: a live mutex is never replaced.     *)
GatesAreTheTables ==
    \A q \in Requests :
        /\ gate[q] # NoGate => /\ Key[q] # NoKey /\ phase[q] \in Holding
                               /\ table[Key[q]] = gate[q]
        /\ phase[q] \in Holding /\ Key[q] # NoKey => gate[q] # NoGate
        /\ phase[q] = "gate" => Key[q] # NoKey

Slots(c) == In(c, Bounded) \cup Waiting(c)
Permits(c) == In(c, {"gate", "running"})

IpcTypes ==
    /\ phase \in [Requests -> Phases]
    /\ gate \in [Requests -> Requests \cup {NoGate}]
    /\ table \in [Keys -> Requests \cup {NoGate}]
    /\ conn \in [Clients -> {"closed", "select", "writing"}]
    /\ reading \in [Clients -> BOOLEAN]
    /\ responses = [c \in Clients |-> responses[c]]

AnswersAreQueued == \A c \in Clients : Once(responses[c], In(c, {"answered"}))

BoundsHold ==
    \A c \in Clients :
        /\ IsFiniteSet(Slots(c)) /\ Cardinality(Slots(c)) <= MaxQueued
        /\ IsFiniteSet(Permits(c)) /\ Cardinality(Permits(c)) <= MaxRunning

(* A sequence that holds each element of a set once: one more, and one less. *)
LEMMA OnceMore ==
    ASSUME NEW S, NEW r, Once(r, S), NEW q, q \notin S, NEW T, T = S \cup {q}
    PROVE  Once(Append(r, q), T)
  <1> DEFINE s == Append(r, q)
             n == Len(r) + 1
  <1>1. r \in Seq(S) /\ r \in Seq(T) /\ Len(r) \in Nat
    BY DEF Once
  <1>2. /\ s \in Seq(T) /\ Len(s) = n
        /\ \A i \in 1..Len(r) : s[i] = r[i] /\ r[i] \in S
        /\ s[n] = q
    BY <1>1
  <1>3. n \in 1..n /\ 1..n = 1..Len(r) \cup {n} /\ n \notin 1..Len(r)
    BY <1>1
  <1> HIDE DEF s, n
  <1>4. ASSUME NEW p \in T
        PROVE  \E i \in 1..n : \A j \in 1..n : s[j] = p <=> j = i
    <2>1. CASE p = q
      <3>1. \A j \in 1..n : s[j] = p <=> j = n
        BY <1>2, <1>3, <2>1
      <3> QED BY <1>3, <3>1
    <2>2. CASE p # q
      <3>1. PICK i \in 1..Len(r) : \A j \in 1..Len(r) : r[j] = p <=> j = i
        BY <2>2 DEF Once
      <3>2. \A j \in 1..n : s[j] = p <=> j = i
        BY <1>2, <1>3, <2>2, <3>1
      <3> QED BY <1>3, <3>1, <3>2
    <2> QED BY <2>1, <2>2
  <1>5. Once(s, T)
    <2>1. s \in Seq(T) /\ Len(s) = n
      BY <1>2
    <2> QED BY <1>4, <2>1, Zenon DEF Once
  <1> QED BY <1>5 DEF s

LEMMA OnceLess ==
    ASSUME NEW S, NEW r, Once(r, S), r # <<>>, NEW T, T = S \ {Head(r)}
    PROVE  Head(r) \in S /\ Once(Tail(r), T)
  <1>1. r \in Seq(S) /\ Len(r) \in Nat /\ Len(r) > 0 /\ Head(r) = r[1] /\ r[1] \in S
    BY DEF Once
  <1>2. /\ Tail(r) \in Seq(S) /\ Len(Tail(r)) = Len(r) - 1
        /\ \A i \in 1..Len(Tail(r)) : Tail(r)[i] = r[i + 1]
    BY <1>1, HeadTailProperties
  <1>3. PICK h \in 1..Len(r) : \A j \in 1..Len(r) : r[j] = r[1] <=> j = h
    BY <1>1 DEF Once
  <1>4. \A j \in 2..Len(r) : r[j] \in S /\ r[j] # r[1]
    BY <1>1, <1>3
  <1>5. \A i \in 1..Len(Tail(r)) : Tail(r)[i] \in T
    BY <1>1, <1>2, <1>4
  <1>6. Tail(r) \in Seq(T)
    <2>1. Tail(r) \in [1..Len(Tail(r)) -> S] /\ Len(Tail(r)) \in Nat
      BY <1>2, LenProperties
    <2>2. Tail(r) \in [1..Len(Tail(r)) -> T]
      BY <1>5, <2>1
    <2> QED BY ZenonT(90), <2>1, <2>2, SeqDef
  <1>7. ASSUME NEW p \in T
        PROVE  \E i \in 1..Len(Tail(r)) : \A j \in 1..Len(Tail(r)) : Tail(r)[j] = p <=> j = i
    <2>1. PICK i \in 1..Len(r) : \A j \in 1..Len(r) : r[j] = p <=> j = i
      BY <1>7 DEF Once
    <2>2. i # 1 /\ i - 1 \in 1..Len(Tail(r))
      BY <1>1, <1>2, <1>7, <2>1
    <2>3. \A j \in 1..Len(Tail(r)) : Tail(r)[j] = p <=> j = i - 1
      BY <1>1, <1>2, <2>1
    <2> QED BY <2>2, <2>3
  <1> QED BY <1>1, <1>6, <1>7 DEF Once

LEMMA IpcCases ==
    ASSUME IpcNext
    PROVE  \/ \E c \in Clients : Accept(c) \/ WriteEvent(c) \/ Stall(c)
           \/ \E c \in Clients : TakeResponse(c)
           \/ \E c \in Clients : FinishWrite(c)
           \/ \E c \in Clients : Close(c)
           \/ \E q \in Requests : ReadLine(q)
           \/ \E q \in Requests : TakePermit(q)
           \/ \E q \in Requests : LockGate(q)
           \/ \E q \in Requests : phase[q] \in Bounded /\ Release(q)
           \/ \E q \in Requests : Stopped(q)
  BY DEF IpcNext, FinishCommand, Timeout, Bounded

(* A frame the loop writes of its own leaves the requests where they are. *)
LEMMA OwnFrames ==
    ASSUME NEW c \in Clients, Accept(c) \/ WriteEvent(c) \/ Stall(c)
    PROVE  phase' = phase /\ gate' = gate /\ table' = table /\ responses' = responses
  BY DEF Accept, WriteEvent, Stall, jobsOf

LEMMA IpcTypesKept ==
    ASSUME IpcTypes, IpcNext
    PROVE  IpcTypes'
  <1> USE RequestsAssumption DEF IpcTypes
  <1>1. ASSUME NEW c \in Clients, Accept(c) \/ WriteEvent(c) \/ Stall(c)
        PROVE  IpcTypes'
    <2>1. reading' \in [Clients -> BOOLEAN]
      BY <1>1, Zenon DEF Accept, WriteEvent, Stall
    <2>2. conn' \in [Clients -> {"closed", "select", "writing"}]
      BY <1>1 DEF Accept, WriteEvent, Stall
    <2> QED BY <1>1, <2>1, <2>2, OwnFrames
  <1>2. ASSUME NEW c \in Clients, TakeResponse(c) PROVE IpcTypes'
    BY <1>2 DEF TakeResponse, Phases, Bounded
  <1>3. ASSUME NEW c \in Clients, FinishWrite(c) PROVE IpcTypes'
    BY <1>3 DEF FinishWrite, Phases, Bounded
  <1>4. ASSUME NEW c \in Clients, Close(c) PROVE IpcTypes'
    BY <1>4 DEF Close, Phases, Bounded
  <1>5. ASSUME NEW q \in Requests, ReadLine(q) PROVE IpcTypes'
    BY <1>5 DEF ReadLine, Phases, Bounded
  <1>6. ASSUME NEW q \in Requests, TakePermit(q) PROVE IpcTypes'
    <2>1. Gate(q) \in Requests \cup {NoGate}
      BY DEF Gate
    <2> QED BY <1>6, <2>1 DEF TakePermit, Phases, Bounded
  <1>7. ASSUME NEW q \in Requests, LockGate(q) PROVE IpcTypes'
    BY <1>7 DEF LockGate, Phases, Bounded
  <1>8. ASSUME NEW q \in Requests, Release(q) PROVE IpcTypes'
    BY <1>8 DEF Release, Phases, Bounded
  <1>9. ASSUME NEW q \in Requests, Stopped(q) PROVE IpcTypes'
    BY <1>9 DEF Stopped, Phases, Bounded
  <1> QED BY <1>1, <1>2, <1>3, <1>4, <1>5, <1>6, <1>7, <1>8, <1>9, IpcCases

(* The answered requests of a connection wait in its channel, each once. *)
LEMMA AnswersKept ==
    ASSUME IpcTypes, AnswersAreQueued, IpcNext
    PROVE  AnswersAreQueued'
  <1> DEFINE A(c) == In(c, {"answered"})
  <1>0. /\ \A c \in Clients : Once(responses[c], A(c))
        /\ \A q \in Requests : Owner[q] \in Clients
    BY RequestsAssumption DEF AnswersAreQueued
  <1>1. ASSUME responses' = responses,
               \A q \in Requests : phase'[q] = "answered" <=> phase[q] = "answered"
        PROVE  AnswersAreQueued'
    <2>1. \A c \in Clients : A(c)' = A(c)
      BY <1>1 DEF In, Of
    <2> QED BY <1>0, <1>1, <2>1 DEF AnswersAreQueued
  <1>2. ASSUME NEW c \in Clients, TakeResponse(c) PROVE AnswersAreQueued'
    <2> SUFFICES ASSUME NEW d \in Clients PROVE Once(responses'[d], A(d)')
      BY DEF AnswersAreQueued
    <2>1. responses[c] # <<>> /\ Once(responses[c], A(c))
      BY <1>0, <1>2 DEF TakeResponse
    <2>2. Head(responses[c]) \in A(c) /\ Once(Tail(responses[c]), A(c) \ {Head(responses[c])})
      BY <2>1, OnceLess
    <2>3. \A q \in Requests : phase'[q] = IF q = Head(responses[c]) THEN "writing" ELSE phase[q]
      BY <1>2 DEF TakeResponse, IpcTypes
    <2>4. CASE d = c
      <3>1. A(c)' = A(c) \ {Head(responses[c])}
        BY <2>3 DEF In, Of
      <3>2. responses'[c] = Tail(responses[c])
        BY <1>2 DEF TakeResponse, IpcTypes
      <3> QED BY <2>2, <2>4, <3>1, <3>2
    <2>5. CASE d # c
      <3>1. A(d)' = A(d)
        BY <2>2, <2>3, <2>5 DEF In, Of
      <3>2. responses'[d] = responses[d]
        BY <1>2, <2>5 DEF TakeResponse, IpcTypes
      <3> QED BY <1>0, <3>1, <3>2
    <2> QED BY <2>4, <2>5
  <1>3. ASSUME NEW c \in Clients, Close(c) PROVE AnswersAreQueued'
    <2> SUFFICES ASSUME NEW d \in Clients PROVE Once(responses'[d], A(d)')
      BY DEF AnswersAreQueued
    <2>1. CASE d = c
      <3>1. A(c)' = {} /\ responses'[c] = <<>>
        BY <1>3 DEF Close, In, Of, IpcTypes
      <3> QED BY <2>1, <3>1, EmptySeq DEF Once
    <2>2. CASE d # c
      <3>1. A(d)' = A(d) /\ responses'[d] = responses[d]
        BY <1>3, <2>2 DEF Close, In, Of, IpcTypes
      <3> QED BY <1>0, <3>1
    <2> QED BY <2>1, <2>2
  <1>4. ASSUME NEW q \in Requests, phase[q] \in Bounded, Release(q) PROVE AnswersAreQueued'
    <2> SUFFICES ASSUME NEW d \in Clients PROVE Once(responses'[d], A(d)')
      BY DEF AnswersAreQueued
    <2>1. \A p \in Requests : phase'[p] = IF p = q THEN "answered" ELSE phase[p]
      BY <1>4 DEF Release, IpcTypes
    <2>2. CASE d = Owner[q]
      <3>1. q \notin A(d)
        BY <1>4 DEF In, Of, Bounded
      <3>2. A(d)' = A(d) \cup {q}
        BY <2>1, <2>2 DEF In, Of
      <3>3. responses'[d] = Append(responses[d], q)
        BY <1>4, <2>2 DEF Release, IpcTypes
      <3> QED BY <1>0, <3>1, <3>2, <3>3, OnceMore
    <2>3. CASE d # Owner[q]
      <3>1. A(d)' = A(d) /\ responses'[d] = responses[d]
        BY <1>4, <2>1, <2>3 DEF Release, In, Of, IpcTypes
      <3> QED BY <1>0, <3>1
    <2> QED BY <2>2, <2>3
  <1>5. ASSUME NEW c \in Clients, Accept(c) \/ WriteEvent(c) \/ Stall(c) PROVE AnswersAreQueued'
    BY <1>1, <1>5, OwnFrames
  <1>6. ASSUME NEW c \in Clients, FinishWrite(c) PROVE AnswersAreQueued'
    BY <1>1, <1>6 DEF FinishWrite, In, Of
  <1>7. ASSUME NEW q \in Requests, ReadLine(q) \/ TakePermit(q) \/ LockGate(q) \/ Stopped(q)
        PROVE  AnswersAreQueued'
    <2>1. /\ responses' = responses /\ phase[q] # "answered"
          /\ \E s \in Phases \ {"answered"} : phase' = [phase EXCEPT ![q] = s]
      BY <1>7 DEF ReadLine, TakePermit, LockGate, Stopped, Phases, Bounded
    <2> QED BY <1>1, <2>1 DEF IpcTypes
  <1> QED BY <1>2, <1>3, <1>4, <1>5, <1>6, <1>7, IpcCases

(* Mutexes: live ones are the table's. *)
LEMMA GatesKept ==
    ASSUME IpcTypes, AnswersAreQueued, GatesAreTheTables, IpcNext
    PROVE  GatesAreTheTables'
  <1> USE DEF Holding
  <1>0. \A q \in Requests : Key[q] \in Keys \cup {NoKey} /\ Owner[q] \in Clients
    BY RequestsAssumption
  <1>1. ASSUME NEW c \in Clients, Accept(c) \/ WriteEvent(c) \/ Stall(c)
        PROVE  GatesAreTheTables'
    BY <1>1, OwnFrames DEF GatesAreTheTables
  <1>2. ASSUME NEW c \in Clients, TakeResponse(c) PROVE GatesAreTheTables'
    <2>1. phase[Head(responses[c])] = "answered"
      <3>1. responses[c] # <<>> /\ Once(responses[c], In(c, {"answered"}))
        BY <1>2 DEF AnswersAreQueued, TakeResponse
      <3>2. Head(responses[c]) \in In(c, {"answered"})
        BY <3>1, OnceLess
      <3> QED BY <3>2 DEF In
    <2> QED BY <1>2, <2>1 DEF TakeResponse, GatesAreTheTables, IpcTypes
  <1>3. ASSUME NEW c \in Clients, FinishWrite(c) PROVE GatesAreTheTables'
    BY <1>3 DEF FinishWrite, In, Of, GatesAreTheTables
  <1>4. ASSUME NEW c \in Clients, Close(c) PROVE GatesAreTheTables'
    <2> SUFFICES ASSUME NEW q \in Requests
                 PROVE  /\ gate'[q] # NoGate => /\ Key[q] # NoKey /\ phase'[q] \in Holding
                                                /\ table'[Key[q]] = gate'[q]
                        /\ phase'[q] \in Holding /\ Key[q] # NoKey => gate'[q] # NoGate
                        /\ phase'[q] = "gate" => Key[q] # NoKey
      BY DEF GatesAreTheTables
    <2>1. CASE q \in Of(c)
      BY <1>4, <2>1 DEF Close, GatesAreTheTables
    <2>2. CASE q \notin Of(c)
      BY <1>4, <2>2 DEF Close, GatesAreTheTables
    <2> QED BY <2>1, <2>2
  <1>5. ASSUME NEW q \in Requests, ReadLine(q) PROVE GatesAreTheTables'
    BY <1>5 DEF ReadLine, GatesAreTheTables, IpcTypes
  <1>6. ASSUME NEW q \in Requests, TakePermit(q) PROVE GatesAreTheTables'
    <2>1. phase[q] = "permit" /\ gate[q] = NoGate
      BY <1>6 DEF TakePermit, GatesAreTheTables
    <2>2. CASE Key[q] = NoKey
      BY <1>6, <2>1, <2>2 DEF TakePermit, GatesAreTheTables, IpcTypes
    <2>3. CASE Key[q] # NoKey
      <3>1. /\ phase' = [phase EXCEPT ![q] = "gate"]
            /\ gate' = [gate EXCEPT ![q] = Gate(q)]
            /\ table' = [table EXCEPT ![Key[q]] = Gate(q)]
        BY <1>6, <2>3 DEF TakePermit
      <3>2. Gate(q) # NoGate
        BY RequestsAssumption DEF Gate
      <3>3. \A p \in Requests : gate[p] # NoGate /\ Key[p] = Key[q] => Gate(q) = gate[p]
        BY DEF GatesAreTheTables, Gate
      <3>4. Key[q] \in Keys
        BY <1>0, <2>3
      <3> QED BY <1>0, <2>1, <2>3, <3>1, <3>2, <3>3, <3>4 DEF GatesAreTheTables, IpcTypes
    <2> QED BY <2>2, <2>3
  <1>7. ASSUME NEW q \in Requests, LockGate(q) PROVE GatesAreTheTables'
    BY <1>7 DEF LockGate, GatesAreTheTables, IpcTypes
  <1>8. ASSUME NEW q \in Requests, Release(q) \/ Stopped(q) PROVE GatesAreTheTables'
    BY <1>8 DEF Release, Stopped, GatesAreTheTables, IpcTypes
  <1> QED BY <1>1, <1>2, <1>3, <1>4, <1>5, <1>6, <1>7, <1>8, IpcCases

(* A gate is taken only while nobody runs behind the same mutex. *)
LEMMA ExclusionKept ==
    ASSUME IpcTypes, AnswersAreQueued, GatesAreTheTables, GateIsExclusive, IpcNext
    PROVE  GateIsExclusive'
  <1> DEFINE R == {"running", "stopping"}
  <1>1. ASSUME \A q \in Requests : phase'[q] \in R => phase[q] \in R \/ Key[q] = NoKey
        PROVE  GateIsExclusive'
    BY <1>1 DEF GateIsExclusive
  <1>2. ASSUME NEW q \in Requests, LockGate(q) PROVE GateIsExclusive'
    <2>1. /\ phase[q] = "gate" /\ ~Locked(gate[q])
          /\ \A p \in Requests : phase'[p] = IF p = q THEN "running" ELSE phase[p]
      BY <1>2 DEF LockGate, IpcTypes
    <2>2. ASSUME NEW p \in Requests, p # q, Key[p] = Key[q], Key[p] # NoKey
          PROVE  phase[p] \notin R
      <3> SUFFICES ASSUME phase[p] \in R PROVE FALSE
        OBVIOUS
      <3>1. gate[p] # NoGate /\ gate[q] # NoGate
        BY <2>1, <2>2 DEF GatesAreTheTables, Holding
      <3>2. gate[p] = gate[q]
        BY <2>2, <3>1 DEF GatesAreTheTables
      <3> QED BY <2>1, <3>2 DEF Locked
    <2> QED BY <2>1, <2>2 DEF GateIsExclusive
  <1>3. ASSUME NEW c \in Clients, Accept(c) \/ WriteEvent(c) \/ Stall(c) PROVE GateIsExclusive'
    BY <1>1, <1>3, OwnFrames
  <1>4. ASSUME NEW c \in Clients, TakeResponse(c) \/ FinishWrite(c) PROVE GateIsExclusive'
    BY <1>1, <1>4 DEF TakeResponse, FinishWrite, IpcTypes
  <1>5. ASSUME NEW c \in Clients, Close(c) PROVE GateIsExclusive'
    BY <1>1, <1>5 DEF Close
  <1>6. ASSUME NEW q \in Requests, ReadLine(q) \/ TakePermit(q) \/ Release(q) \/ Stopped(q)
        PROVE  GateIsExclusive'
    BY <1>1, <1>6 DEF ReadLine, TakePermit, Release, Stopped, IpcTypes
  <1> QED BY <1>2, <1>3, <1>4, <1>5, <1>6, IpcCases

(* The queue slots and execution permits of a connection only go to requests   *)
(* that found one free.                                                        *)
LEMMA SlotsShrink ==
    ASSUME IpcTypes, AnswersAreQueued, IpcNext, NEW c \in Clients
    PROVE  \/ Slots(c)' \subseteq Slots(c)
           \/ \E q \in Requests : /\ Slots(c)' \subseteq Slots(c) \cup {q}
                                  /\ SlotsUsed(c) < MaxQueued
  <1>0. \A d \in Clients : responses[d] \in Seq(In(d, {"answered"}))
    BY DEF AnswersAreQueued, Once
  <1>1. ASSUME responses'[c] = responses[c],
               \A q \in Of(c) : phase'[q] \in Bounded => phase[q] \in Bounded
        PROVE  Slots(c)' \subseteq Slots(c)
    BY <1>1 DEF Slots, In, Of, Waiting
  <1>2. ASSUME NEW d \in Clients, TakeResponse(d) PROVE Slots(c)' \subseteq Slots(c)
    <2>1. \A q \in Requests : phase'[q] \in Bounded => phase[q] \in Bounded
      BY <1>2 DEF TakeResponse, IpcTypes, Bounded
    <2>2. CASE d = c
      <3> DEFINE r == responses[c]
      <3>1. r \in Seq(In(c, {"answered"})) /\ r # <<>> /\ responses'[c] = Tail(r)
        BY <1>0, <1>2, <2>2 DEF TakeResponse, IpcTypes
      <3>2. /\ Len(r) \in Nat /\ Len(Tail(r)) = Len(r) - 1
            /\ \A i \in 1..Len(Tail(r)) : Tail(r)[i] = r[i + 1]
        BY <3>1, HeadTailProperties
      <3>3. Waiting(c)' \subseteq Waiting(c)
        <4> SUFFICES ASSUME NEW i \in (QueueCapacity + 1)..Len(Tail(r))
                     PROVE  \E j \in (QueueCapacity + 1)..Len(r) : Tail(r)[i] = r[j]
          BY <3>1 DEF Waiting
        <4>1. i \in 1..Len(Tail(r)) /\ i + 1 \in (QueueCapacity + 1)..Len(r)
          BY <3>2, IpcLimits
        <4> QED BY <3>2, <4>1
      <3> QED BY <2>1, <3>3 DEF Slots, In, Of
    <2>3. CASE d # c
      <3>1. responses'[c] = responses[c]
        BY <1>2, <2>3 DEF TakeResponse, IpcTypes
      <3> QED BY <1>1, <2>1, <3>1 DEF Of
    <2> QED BY <2>2, <2>3
  <1>3. ASSUME NEW d \in Clients, Close(d) PROVE Slots(c)' \subseteq Slots(c)
    <2>1. CASE d = c
      <3>1. responses'[c] = <<>> /\ In(c, Bounded)' = {}
        BY <1>3, <2>1 DEF Close, In, Of, IpcTypes, Bounded
      <3>2. Waiting(c)' = {}
        <4>1. Len(responses'[c]) = 0
          BY <3>1, EmptySeq, Zenon
        <4> QED BY <4>1, IpcLimits DEF Waiting
      <3> QED BY <3>1, <3>2 DEF Slots
    <2>2. CASE d # c
      <3>1. responses'[c] = responses[c] /\ \A q \in Of(c) : phase'[q] = phase[q]
        BY <1>3, <2>2 DEF Close, Of, IpcTypes
      <3> QED BY <1>1, <3>1
    <2> QED BY <2>1, <2>2
  <1>4. ASSUME NEW q \in Requests, phase[q] \in Bounded, Release(q)
        PROVE  Slots(c)' \subseteq Slots(c)
    <2>1. \A p \in Requests : phase'[p] = IF p = q THEN "answered" ELSE phase[p]
      BY <1>4 DEF Release, IpcTypes
    <2>2. CASE Owner[q] = c
      <3> DEFINE r == responses[c]
      <3>1. r \in Seq(In(c, {"answered"})) /\ responses'[c] = Append(r, q)
        BY <1>0, <1>4, <2>2 DEF Release, IpcTypes
      <3>2. /\ Len(r) \in Nat /\ Len(Append(r, q)) = Len(r) + 1
            /\ \A i \in 1..Len(r) : Append(r, q)[i] = r[i]
            /\ Append(r, q)[Len(r) + 1] = q
        BY <3>1
      <3>3. Waiting(c)' \subseteq Waiting(c) \cup {q}
        <4> SUFFICES ASSUME NEW i \in (QueueCapacity + 1)..(Len(r) + 1)
                     PROVE  \/ \E j \in (QueueCapacity + 1)..Len(r) : Append(r, q)[i] = r[j]
                            \/ Append(r, q)[i] = q
          BY ZenonT(90), <3>1, <3>2 DEF Waiting
        <4>1. i = Len(r) + 1 \/ (i \in 1..Len(r) /\ i \in (QueueCapacity + 1)..Len(r))
          BY <3>2, IpcLimits
        <4> QED BY <3>2, <4>1
      <3>4. q \in In(c, Bounded)
        BY <1>4, <2>2 DEF In, Of
      <3> QED BY <2>1, <3>3, <3>4 DEF Slots, In, Of, Bounded
    <2>3. CASE Owner[q] # c
      <3>1. responses'[c] = responses[c]
        BY <1>4, <2>3 DEF Release, IpcTypes
      <3> QED BY <1>1, <2>1, <3>1 DEF Bounded, Of
    <2> QED BY <2>2, <2>3
  <1>5. ASSUME NEW d \in Clients, Accept(d) \/ WriteEvent(d) \/ Stall(d)
        PROVE  Slots(c)' \subseteq Slots(c)
    BY <1>1, <1>5, OwnFrames
  <1>6. ASSUME NEW d \in Clients, FinishWrite(d) PROVE Slots(c)' \subseteq Slots(c)
    BY <1>1, <1>6 DEF FinishWrite, Bounded, Of
  <1>7. ASSUME NEW q \in Requests, TakePermit(q) \/ LockGate(q) \/ Stopped(q)
        PROVE  Slots(c)' \subseteq Slots(c)
    BY <1>1, <1>7 DEF TakePermit, LockGate, Stopped, Bounded, Of, IpcTypes
  <1>8. ASSUME NEW q \in Requests, ReadLine(q)
        PROVE  \/ Slots(c)' \subseteq Slots(c)
               \/ Slots(c)' \subseteq Slots(c) \cup {q} /\ SlotsUsed(c) < MaxQueued
    <2>1. CASE Owner[q] = c /\ SlotsUsed(c) < MaxQueued
      <3>1. Slots(c)' \subseteq Slots(c) \cup {q}
        BY <1>8, <2>1 DEF ReadLine, Slots, In, Of, Waiting, IpcTypes
      <3> QED BY <2>1, <3>1
    <2>2. CASE ~(Owner[q] = c /\ SlotsUsed(c) < MaxQueued)
      BY <1>1, <1>8, <2>2 DEF ReadLine, Bounded, Of, IpcTypes
    <2> QED BY <2>1, <2>2
  <1> QED BY <1>2, <1>3, <1>4, <1>5, <1>6, <1>7, <1>8, IpcCases

LEMMA PermitsShrink ==
    ASSUME IpcTypes, IpcNext, NEW c \in Clients
    PROVE  \/ Permits(c)' \subseteq Permits(c)
           \/ \E q \in Requests : /\ Permits(c)' \subseteq Permits(c) \cup {q}
                                  /\ PermitsUsed(c) < MaxRunning
  <1>1. ASSUME \A q \in Of(c) : phase'[q] \in {"gate", "running"} => phase[q] \in {"gate", "running"}
        PROVE  Permits(c)' \subseteq Permits(c)
    BY <1>1 DEF Permits, In, Of
  <1>2. ASSUME NEW d \in Clients,
               Accept(d) \/ WriteEvent(d) \/ Stall(d) \/ TakeResponse(d) \/ FinishWrite(d) \/ Close(d)
        PROVE  Permits(c)' \subseteq Permits(c)
    <2>1. CASE Accept(d) \/ WriteEvent(d) \/ Stall(d)
      BY <1>1, <2>1, OwnFrames
    <2>2. CASE TakeResponse(d) \/ FinishWrite(d)
      BY <1>1, <2>2 DEF TakeResponse, FinishWrite, Of, IpcTypes
    <2>3. CASE Close(d)
      BY <1>1, <2>3 DEF Close, Of
    <2> QED BY <1>2, <2>1, <2>2, <2>3
  <1>3. ASSUME NEW q \in Requests, ReadLine(q) \/ LockGate(q) \/ Release(q) \/ Stopped(q)
        PROVE  Permits(c)' \subseteq Permits(c)
    BY <1>1, <1>3 DEF ReadLine, LockGate, Release, Stopped, Of, IpcTypes
  <1>4. ASSUME NEW q \in Requests, TakePermit(q)
        PROVE  \/ Permits(c)' \subseteq Permits(c)
               \/ Permits(c)' \subseteq Permits(c) \cup {q} /\ PermitsUsed(c) < MaxRunning
    <2>1. CASE Owner[q] = c
      BY <1>4, <2>1 DEF TakePermit, Permits, In, Of, IpcTypes
    <2>2. CASE Owner[q] # c
      BY <1>1, <1>4, <2>2 DEF TakePermit, Of, IpcTypes
    <2> QED BY <2>1, <2>2
  <1> QED BY <1>2, <1>3, <1>4, IpcCases

(* What shrinks, or grows by one below a limit, stays within the limit. *)
LEMMA WithinLimit ==
    ASSUME NEW S, NEW T, NEW limit \in Nat, IsFiniteSet(S), Cardinality(S) <= limit,
           \/ T \subseteq S
           \/ \E q : T \subseteq S \cup {q} /\ Cardinality(S) < limit
    PROVE  IsFiniteSet(T) /\ Cardinality(T) <= limit
  <1>0. Cardinality(S) \in Nat
    BY FS_CardinalityType
  <1>1. CASE T \subseteq S
    <2>1. IsFiniteSet(T) /\ Cardinality(T) <= Cardinality(S) /\ Cardinality(T) \in Nat
      BY <1>1, FS_Subset, FS_CardinalityType
    <2> QED BY <1>0, <2>1
  <1>2. CASE \E q : T \subseteq S \cup {q} /\ Cardinality(S) < limit
    <2>1. PICK q : T \subseteq S \cup {q} /\ Cardinality(S) < limit
      BY <1>2
    <2>2. /\ IsFiniteSet(S \cup {q}) /\ Cardinality(S \cup {q}) \in Nat
          /\ Cardinality(S \cup {q}) <= Cardinality(S) + 1
      <3>1. /\ IsFiniteSet(S \cup {q})
            /\ Cardinality(S \cup {q}) = IF q \in S THEN Cardinality(S) ELSE Cardinality(S) + 1
        BY FS_AddElement
      <3> QED BY <1>0, <3>1
    <2>3. IsFiniteSet(T) /\ Cardinality(T) <= Cardinality(S \cup {q}) /\ Cardinality(T) \in Nat
      BY <2>1, <2>2, FS_Subset, FS_CardinalityType
    <2> QED BY <1>0, <2>1, <2>2, <2>3
  <1> QED BY <1>1, <1>2

LEMMA BoundsKept ==
    ASSUME IpcTypes, AnswersAreQueued, BoundsHold, IpcNext
    PROVE  BoundsHold'
  <1> SUFFICES ASSUME NEW c \in Clients
               PROVE  /\ IsFiniteSet(Slots(c)') /\ Cardinality(Slots(c)') <= MaxQueued
                      /\ IsFiniteSet(Permits(c)') /\ Cardinality(Permits(c)') <= MaxRunning
    BY DEF BoundsHold
  <1>1. /\ IsFiniteSet(Slots(c)) /\ Cardinality(Slots(c)) <= MaxQueued
        /\ IsFiniteSet(Permits(c)) /\ Cardinality(Permits(c)) <= MaxRunning
        /\ MaxQueued \in Nat /\ MaxRunning \in Nat
    BY IpcLimits DEF BoundsHold
  <1>2. SlotsUsed(c) = Cardinality(Slots(c)) /\ PermitsUsed(c) = Cardinality(Permits(c))
    BY DEF SlotsUsed, Slots, PermitsUsed, Permits
  <1>3. IsFiniteSet(Slots(c)') /\ Cardinality(Slots(c)') <= MaxQueued
    <2>1. \/ Slots(c)' \subseteq Slots(c)
          \/ \E q : Slots(c)' \subseteq Slots(c) \cup {q} /\ Cardinality(Slots(c)) < MaxQueued
      BY <1>2, SlotsShrink
    <2> QED BY <1>1, <2>1, WithinLimit
  <1>4. IsFiniteSet(Permits(c)') /\ Cardinality(Permits(c)') <= MaxRunning
    <2>1. \/ Permits(c)' \subseteq Permits(c)
          \/ \E q : Permits(c)' \subseteq Permits(c) \cup {q} /\ Cardinality(Permits(c)) < MaxRunning
      BY <1>2, PermitsShrink
    <2> QED BY <1>1, <2>1, WithinLimit
  <1> QED BY <1>3, <1>4

IpcInv == IpcTypes /\ AnswersAreQueued /\ GatesAreTheTables /\ GateIsExclusive /\ BoundsHold

LEMMA IpcInvHolds == IpcSpec => []IpcInv
  <1>1. IpcInit => IpcInv
    <2> SUFFICES ASSUME IpcInit PROVE IpcInv
      OBVIOUS
    <2>1. IpcTypes /\ GatesAreTheTables /\ GateIsExclusive
      BY DEF IpcInit, IpcTypes, GatesAreTheTables, Holding, GateIsExclusive, Phases
    <2>2. ASSUME NEW c \in Clients
          PROVE  /\ In(c, {"answered"}) = {} /\ In(c, Bounded) = {} /\ Permits(c) = {}
                 /\ responses[c] = <<>> /\ Waiting(c) = {}
      <3>1. responses[c] = <<>>
        BY DEF IpcInit
      <3>2. Len(responses[c]) = 0
        BY <3>1, EmptySeq, Zenon
      <3> QED BY <3>1, <3>2, IpcLimits DEF IpcInit, In, Of, Bounded, Permits, Waiting
    <2>3. AnswersAreQueued
      BY <2>2, EmptySeq DEF AnswersAreQueued, Once
    <2>4. BoundsHold
      <3>1. \A c \in Clients : Slots(c) = {} /\ Permits(c) = {}
        BY <2>2 DEF Slots
      <3>2. IsFiniteSet({}) /\ Cardinality({}) = 0
        BY FS_EmptySet
      <3> QED BY <3>1, <3>2, IpcLimits DEF BoundsHold
    <2> QED BY <2>1, <2>3, <2>4 DEF IpcInv
  <1>2. IpcInv /\ [IpcNext]_ipcVars => IpcInv'
    <2> SUFFICES ASSUME IpcInv, [IpcNext]_ipcVars PROVE IpcInv'
      OBVIOUS
    <2>1. CASE IpcNext
      BY <2>1, IpcTypesKept, AnswersKept, GatesKept, ExclusionKept, BoundsKept DEF IpcInv
    <2>2. CASE UNCHANGED ipcVars
      <3>1. UNCHANGED <<phase, gate, table, conn, reading, responses>>
        BY <2>2 DEF ipcVars, jobsOf
      <3>2. \A c \in Clients :
               In(c, {"answered"})' = In(c, {"answered"}) /\ Slots(c)' = Slots(c)
               /\ Permits(c)' = Permits(c)
        BY <3>1 DEF Slots, Permits, In, Of, Waiting
      <3>3. AnswersAreQueued' /\ BoundsHold'
        BY <3>1, <3>2 DEF IpcInv, AnswersAreQueued, BoundsHold
      <3> QED BY <3>1, <3>3 DEF IpcInv, IpcTypes, GatesAreTheTables, GateIsExclusive
    <2> QED BY <2>1, <2>2
  <1> QED BY <1>1, <1>2, PTL DEF IpcSpec

(* Every variable of the connections keeps its type, no connection has more    *)
(* jobs or executing commands than its limits allow, and every answer waits    *)
(* in the channel of its connection once (serve_connection_inner).              *)
THEOREM IpcTypeCorrect == IpcSpec => []IpcTypeOK
  <1>1. IpcInv => IpcTypeOK
    BY DEF IpcInv, IpcTypes, AnswersAreQueued, BoundsHold, IpcTypeOK, SlotsUsed, Slots,
           PermitsUsed, Permits
  <1> QED BY <1>1, IpcInvHolds, PTL

(* Commands with one conflict key never run together, for any number of        *)
(* clients, requests and keys and with deadlines and closed connections at any *)
(* moment (Shared::command_gate).                                              *)
THEOREM GateExcludes == IpcSpec => []GateIsExclusive
  <1>1. IpcInv => GateIsExclusive
    BY DEF IpcInv
  <1> QED BY <1>1, IpcInvHolds, PTL

-----------------------------------------------------------------------------
(* ------------------------------- MediaJobs ---------------------------------- *)

Live == Transfers \cup {"permit", "remove"}

MediaTypes ==
    /\ rows \in [Media -> {"none", "bare", "keyed"}]
    /\ files \subseteq Media /\ erasing \subseteq Media /\ pending \subseteq Media
    /\ tasks \in [Tasks -> [step : Steps, of : Media \cup {NoMedia}]]
    /\ \A t \in Tasks : tasks[t].of = NoMedia <=> tasks[t].step = "none"
    /\ temps \subseteq At({"transfer"})
    /\ linked \in BOOLEAN /\ wipe \in {"idle", "database", "directories", "sets"}
    /\ waiting \subseteq Media /\ overtaken \subseteq Media /\ forgotten \subseteq Media

MediaBounds ==
    /\ IsFiniteSet(pending) /\ Cardinality(pending) <= MaxPending
    /\ IsFiniteSet(At(Transfers)) /\ Cardinality(At(Transfers)) <= MaxParallel

(* What a job carries is in the set of pending downloads, unless a wipe emptied it. *)
CarriedIsPending ==
    \A t \in At(Live) : tasks[t].of \in pending \cup forgotten

(* A transfer has a row to end in, unless that was deleted under it. *)
TransfersHaveRows ==
    \A t \in At({"update", "transfer"}) : tasks[t].of \in Present \cup overtaken

(* Files without a row are explained also while the sets are still to be wiped. *)
OrphansAreExplainedEarly ==
    /\ linked => wipe = "idle"
    /\ wipe \in {"idle", "sets"} => files \ Present \subseteq erasing \cup overtaken

MediaInv == /\ MediaTypes /\ MediaBounds /\ OneJobPerMedium /\ CarriedIsPending
            /\ TransfersHaveRows /\ OrphansAreExplainedEarly

(* The actions by what they do to the jobs: none, one that goes on from step to *)
(* step, one that begins, and one that ends.                                   *)
LEMMA JobsChange ==
    ASSUME MediaTypes, MediaNext
    PROVE  \/ tasks' = tasks /\ temps' \subseteq temps
           \/ \E t \in Tasks, s \in Steps \ {"none"} :
                 /\ tasks[t].step # "none" /\ tasks' = [tasks EXCEPT ![t].step = s]
                 /\ temps' \subseteq (temps \ {t}) \cup (IF s = "transfer" THEN {t} ELSE {})
                 /\ s \in Live => tasks[t].step \in Live
                 /\ s \in Transfers => \/ tasks[t].step \in Transfers
                                       \/ Cardinality(At(Transfers)) < MaxParallel
           \/ \E t \in Tasks, m \in Media :
                 /\ tasks[t].step = "none" /\ m \notin pending
                 /\ tasks' = [tasks EXCEPT ![t] = [step |-> "permit", of |-> m]]
                 /\ temps' = temps
           \/ \E t \in Tasks :
                 /\ tasks[t].step = "publish" /\ tasks' = [tasks EXCEPT ![t] = NoTask]
                 /\ temps' = temps
  <1>1. ASSUME NEW t \in Tasks, JobStep(t)
        PROVE  \/ \E s \in Steps \ {"none"} :
                    /\ tasks[t].step # "none" /\ tasks' = [tasks EXCEPT ![t].step = s]
                    /\ temps' \subseteq (temps \ {t}) \cup (IF s = "transfer" THEN {t} ELSE {})
                    /\ s \in Live => tasks[t].step \in Live
                    /\ s \in Transfers => \/ tasks[t].step \in Transfers
                                          \/ Cardinality(At(Transfers)) < MaxParallel
               \/ /\ tasks[t].step = "publish" /\ tasks' = [tasks EXCEPT ![t] = NoTask]
                  /\ temps' = temps
    <2> USE DEF Steps, Transfers, Live
    <2>0. tasks[t].step # "transfer" => t \notin temps
      BY DEF MediaTypes, At
    <2>1. CASE TakeMediaPermit(t)
      BY <2>0, <2>1 DEF TakeMediaPermit, Move
    <2>2. CASE ReadPayload(t)
      <3>1. \E s \in {"update", "recover", "remove"} : Move(t, s)
        BY <2>2 DEF ReadPayload
      <3> QED BY <2>0, <2>2, <3>1 DEF ReadPayload, Move
    <2>3. CASE FindPayload(t)
      BY <2>0, <2>3 DEF FindPayload, Move
    <2>4. CASE UpdateMedia(t)
      BY <2>0, <2>4 DEF UpdateMedia, Move
    <2>5. CASE \E evicted \in SUBSET (files \ {tasks[t].of}) : CommitFile(t, evicted)
      BY <2>5 DEF CommitFile, Move
    <2>6. CASE GiveUp(t)
      BY <2>6 DEF GiveUp, Move
    <2>7. CASE RemovePending(t)
      BY ZenonT(90), <2>0, <2>7 DEF RemovePending, Move
    <2>8. CASE PublishOutcome(t)
      BY <2>8 DEF PublishOutcome
    <2> QED BY <1>1, <2>1, <2>2, <2>3, <2>4, <2>5, <2>6, <2>7, <2>8 DEF JobStep
  <1>2. ASSUME NEW t \in Tasks, NEW m \in Media, StartDownload(t, m)
        PROVE  /\ tasks[t].step = "none" /\ m \notin pending
               /\ tasks' = [tasks EXCEPT ![t] = [step |-> "permit", of |-> m]]
               /\ temps' = temps
    BY <1>2 DEF StartDownload, Spawn, NoTask
  <1>3. ASSUME NEW m \in Media,
               \/ JoinDownload(m) \/ EraseFiles(m)
               \/ \E row \in {"bare", "keyed"} : StoreMessage(m, row)
               \/ \E keep \in BOOLEAN : DeleteRow(m, keep)
        PROVE  tasks' = tasks /\ temps' \subseteq temps
    <2>1. CASE EraseFiles(m)
      BY <2>1 DEF EraseFiles
    <2>2. CASE ~EraseFiles(m)
      BY <1>3, <2>2 DEF JoinDownload, StoreMessage, DeleteRow
    <2> QED BY <2>1, <2>2
  <1>4. ASSUME \/ Link \/ (\E logout \in BOOLEAN : Unlink(logout))
               \/ WipeDatabase \/ WipeDirectories \/ WipeSets
        PROVE  tasks' = tasks /\ temps' \subseteq temps
    BY <1>4 DEF Link, Unlink, WipeDatabase, WipeDirectories, WipeSets
  <1> QED BY <1>1, <1>2, <1>3, <1>4 DEF MediaNext

(* The rest of the state keeps its type, whatever the action. *)
LEMMA StoresAreTyped ==
    ASSUME MediaTypes, MediaNext
    PROVE  /\ rows' \in [Media -> {"none", "bare", "keyed"}]
           /\ files' \subseteq Media /\ erasing' \subseteq Media /\ pending' \subseteq Media
           /\ linked' \in BOOLEAN /\ wipe' \in {"idle", "database", "directories", "sets"}
           /\ waiting' \subseteq Media /\ overtaken' \subseteq Media /\ forgotten' \subseteq Media
  <1> DEFINE Goal == /\ rows' \in [Media -> {"none", "bare", "keyed"}]
                     /\ files' \subseteq Media /\ erasing' \subseteq Media
                     /\ pending' \subseteq Media /\ linked' \in BOOLEAN
                     /\ wipe' \in {"idle", "database", "directories", "sets"}
                     /\ waiting' \subseteq Media /\ overtaken' \subseteq Media
                     /\ forgotten' \subseteq Media
  <1> USE DEF MediaTypes
  <1>1. ASSUME NEW m \in Media, NEW t \in Tasks, StartDownload(t, m) PROVE Goal
    BY <1>1 DEF StartDownload
  <1>2. ASSUME NEW m \in Media,
               \/ JoinDownload(m) \/ EraseFiles(m)
               \/ \E row \in {"bare", "keyed"} : StoreMessage(m, row)
               \/ \E keep \in BOOLEAN : DeleteRow(m, keep)
        PROVE  Goal
    <2>1. CASE JoinDownload(m) \/ EraseFiles(m)
      BY <2>1 DEF JoinDownload, EraseFiles
    <2>2. CASE \E row \in {"bare", "keyed"} : StoreMessage(m, row)
      BY <2>2 DEF StoreMessage
    <2>3. CASE \E keep \in BOOLEAN : DeleteRow(m, keep)
      BY <2>3 DEF DeleteRow
    <2> QED BY <1>2, <2>1, <2>2, <2>3
  <1>3. ASSUME NEW t \in Tasks, JobStep(t) PROVE Goal
    <2>1. CASE \E evicted \in SUBSET (files \ {tasks[t].of}) : CommitFile(t, evicted)
      <3>1. PICK evicted \in SUBSET (files \ {tasks[t].of}) : CommitFile(t, evicted)
        BY <2>1
      <3>2. tasks[t].of \in Media
        BY <3>1 DEF CommitFile
      <3> QED BY <3>1, <3>2 DEF CommitFile
    <2>2. CASE TakeMediaPermit(t) \/ ReadPayload(t) \/ FindPayload(t) \/ UpdateMedia(t)
      BY <2>2 DEF TakeMediaPermit, ReadPayload, FindPayload, UpdateMedia
    <2>3. CASE GiveUp(t) \/ RemovePending(t) \/ PublishOutcome(t)
      BY <2>3 DEF GiveUp, RemovePending, PublishOutcome
    <2> QED BY <1>3, <2>1, <2>2, <2>3 DEF JobStep
  <1>4. ASSUME \/ Link \/ (\E logout \in BOOLEAN : Unlink(logout))
               \/ WipeDatabase \/ WipeDirectories \/ WipeSets
        PROVE  Goal
    <2>1. Carried \subseteq Media
      BY DEF Carried, At, Transfers
    <2>2. CASE Link \/ WipeDirectories
      BY <2>2 DEF Link, WipeDirectories
    <2>3. CASE \E logout \in BOOLEAN : Unlink(logout)
      BY <2>3 DEF Unlink
    <2>4. CASE WipeDatabase
      BY <2>1, <2>4 DEF WipeDatabase
    <2>5. CASE WipeSets
      BY <2>1, <2>5 DEF WipeSets
    <2> QED BY <1>4, <2>2, <2>3, <2>4, <2>5
  <1> QED BY <1>1, <1>2, <1>3, <1>4 DEF MediaNext

LEMMA MediaTypesKept ==
    ASSUME MediaTypes, MediaNext
    PROVE  MediaTypes'
  <1>1. /\ tasks' \in [Tasks -> [step : Steps, of : Media \cup {NoMedia}]]
        /\ \A t \in Tasks : tasks'[t].of = NoMedia <=> tasks'[t].step = "none"
        /\ temps' \subseteq At({"transfer"})'
    <2> USE MediaAssumption DEF MediaTypes
    <2>1. CASE tasks' = tasks /\ temps' \subseteq temps
      BY <2>1 DEF At
    <2>2. ASSUME NEW t \in Tasks, NEW s \in Steps \ {"none"},
                 /\ tasks[t].step # "none" /\ tasks' = [tasks EXCEPT ![t].step = s]
                 /\ temps' \subseteq (temps \ {t}) \cup (IF s = "transfer" THEN {t} ELSE {})
          PROVE  <1>1!1 /\ <1>1!2 /\ <1>1!3
      <3>1. \A u \in Tasks : /\ tasks'[u].of = tasks[u].of
                             /\ tasks'[u].step = IF u = t THEN s ELSE tasks[u].step
        BY <2>2
      <3> QED BY <2>2, <3>1 DEF At
    <2>3. ASSUME NEW t \in Tasks, NEW m \in Media,
                 /\ tasks[t].step = "none"
                 /\ tasks' = [tasks EXCEPT ![t] = [step |-> "permit", of |-> m]]
                 /\ temps' = temps
          PROVE  <1>1!1 /\ <1>1!2 /\ <1>1!3
      <3>1. t \notin temps
        BY <2>3 DEF At
      <3> QED BY <2>3, <3>1 DEF At, Steps, Transfers
    <2>4. ASSUME NEW t \in Tasks, tasks[t].step = "publish",
                 tasks' = [tasks EXCEPT ![t] = NoTask], temps' = temps
          PROVE  <1>1!1 /\ <1>1!2 /\ <1>1!3
      <3>1. t \notin temps
        BY <2>4 DEF At
      <3> QED BY <2>4, <3>1 DEF At, Steps, Transfers, NoTask
    <2> QED BY <2>1, <2>2, <2>3, <2>4, JobsChange
  <1> QED BY <1>1, StoresAreTyped DEF MediaTypes

(* What the actions do to the set of pending downloads and to the wiped jobs. *)
LEMMA PendingChanges ==
    ASSUME MediaTypes, MediaNext
    PROVE  /\ forgotten \subseteq forgotten'
           /\ \/ pending' = pending /\ tasks' = tasks
              \/ \E t \in Tasks, m \in Media : StartDownload(t, m)
              \/ \E t \in Tasks : RemovePending(t)
              \/ WipeSets
              \/ \E t \in Tasks, s \in Steps \ {"none"} :
                    /\ pending' = pending /\ tasks[t].step # "none"
                    /\ tasks' = [tasks EXCEPT ![t].step = s]
                    /\ s \in Live => tasks[t].step \in Live
              \/ \E t \in Tasks : /\ pending' = pending /\ tasks[t].step = "publish"
                                  /\ tasks' = [tasks EXCEPT ![t] = NoTask]
  <1>1. ASSUME NEW t \in Tasks, JobStep(t)
        PROVE  forgotten' = forgotten /\ (pending' = pending \/ RemovePending(t))
    BY <1>1 DEF JobStep, TakeMediaPermit, ReadPayload, FindPayload, UpdateMedia, CommitFile,
                GiveUp, RemovePending, PublishOutcome
  <1>2. ASSUME NEW m \in Media,
               \/ JoinDownload(m) \/ EraseFiles(m)
               \/ \E row \in {"bare", "keyed"} : StoreMessage(m, row)
               \/ \E keep \in BOOLEAN : DeleteRow(m, keep)
        PROVE  forgotten' = forgotten /\ pending' = pending /\ tasks' = tasks
    BY <1>2 DEF JoinDownload, EraseFiles, StoreMessage, DeleteRow
  <1>3. ASSUME \/ Link \/ (\E logout \in BOOLEAN : Unlink(logout))
               \/ WipeDatabase \/ WipeDirectories
        PROVE  forgotten' = forgotten /\ pending' = pending /\ tasks' = tasks
    BY <1>3 DEF Link, Unlink, WipeDatabase, WipeDirectories
  <1>4. ASSUME NEW t \in Tasks, NEW m \in Media, StartDownload(t, m)
        PROVE  forgotten' = forgotten
    BY <1>4 DEF StartDownload
  <1>5. WipeSets => forgotten \subseteq forgotten'
    BY DEF WipeSets
  <1>6. CASE \E t \in Tasks : JobStep(t)
    <2>1. PICK t \in Tasks : JobStep(t)
      BY <1>6
    <2>2. \/ tasks' = tasks
          \/ \E u \in Tasks, s \in Steps \ {"none"} :
                /\ tasks[u].step # "none" /\ tasks' = [tasks EXCEPT ![u].step = s]
                /\ s \in Live => tasks[u].step \in Live
          \/ \E u \in Tasks, m \in Media :
                /\ tasks[u].step = "none" /\ m \notin pending
                /\ tasks' = [tasks EXCEPT ![u] = [step |-> "permit", of |-> m]]
          \/ \E u \in Tasks : tasks[u].step = "publish" /\ tasks' = [tasks EXCEPT ![u] = NoTask]
      BY JobsChange
    <2>3. ~\E u \in Tasks, m \in Media :
              /\ tasks[u].step = "none" /\ m \notin pending
              /\ tasks' = [tasks EXCEPT ![u] = [step |-> "permit", of |-> m]]
      BY <2>1 DEF MediaTypes, JobStep, TakeMediaPermit, ReadPayload, FindPayload, UpdateMedia,
                  CommitFile, GiveUp, RemovePending, PublishOutcome, Move, NoTask, Transfers
    <2> QED BY <1>1, <2>1, <2>2, <2>3
  <1> QED BY <1>2, <1>3, <1>4, <1>5, <1>6 DEF MediaNext

(* A job that goes on carries what it carried. *)
LEMMA JobGoesOn ==
    ASSUME MediaTypes, NEW t \in Tasks, NEW s, tasks' = [tasks EXCEPT ![t].step = s]
    PROVE  \A u \in Tasks : /\ tasks'[u].of = tasks[u].of
                            /\ tasks'[u].step = IF u = t THEN s ELSE tasks[u].step
  BY DEF MediaTypes

LEMMA OneJobKept ==
    ASSUME MediaTypes, OneJobPerMedium, CarriedIsPending, MediaNext
    PROVE  OneJobPerMedium' /\ CarriedIsPending'
  <1>0. /\ \A t, u \in Tasks : t # u /\ tasks[t].step \in Live /\ tasks[u].step \in Live
                               /\ tasks[t].of = tasks[u].of => tasks[t].of \in forgotten
        /\ \A t \in Tasks : tasks[t].step \in Live => tasks[t].of \in pending \cup forgotten
    BY DEF OneJobPerMedium, CarriedIsPending, At, Live
  <1> SUFFICES /\ \A t, u \in Tasks : t # u /\ tasks'[t].step \in Live /\ tasks'[u].step \in Live
                               /\ tasks'[t].of = tasks'[u].of => tasks'[t].of \in forgotten'
               /\ \A t \in Tasks : tasks'[t].step \in Live => tasks'[t].of \in pending' \cup forgotten'
    BY DEF OneJobPerMedium, CarriedIsPending, At, Live
  <1> DEFINE Goal ==
        /\ \A t, u \in Tasks : t # u /\ tasks'[t].step \in Live /\ tasks'[u].step \in Live
                               /\ tasks'[t].of = tasks'[u].of => tasks'[t].of \in forgotten'
        /\ \A t \in Tasks : tasks'[t].step \in Live => tasks'[t].of \in pending' \cup forgotten'
  <1>1. forgotten \subseteq forgotten'
    BY PendingChanges
  <1>2. CASE pending' = pending /\ tasks' = tasks
    BY <1>0, <1>1, <1>2
  <1>3. ASSUME NEW t \in Tasks, NEW m \in Media, StartDownload(t, m) PROVE Goal
    <2>1. /\ m \notin pending /\ pending' = pending \cup {m} /\ forgotten' = forgotten
          /\ tasks' = [tasks EXCEPT ![t] = [step |-> "permit", of |-> m]]
      BY <1>3 DEF StartDownload, Spawn
    <2>2. /\ tasks'[t].of = m /\ \A u \in Tasks \ {t} : tasks'[u] = tasks[u]
      BY <2>1 DEF MediaTypes
    <2>3. \A u \in Tasks \ {t} : tasks[u].step \in Live /\ tasks[u].of = m => m \in forgotten
      BY <1>0, <2>1
    <2> QED BY <1>0, <2>1, <2>2, <2>3
  <1>4. ASSUME NEW t \in Tasks, RemovePending(t) PROVE Goal
    <2>1. /\ tasks[t].step = "remove" /\ pending' = pending \ {tasks[t].of}
          /\ forgotten' = forgotten /\ tasks' = [tasks EXCEPT ![t].step = "publish"]
      BY <1>4 DEF RemovePending, Move
    <2>2. \A u \in Tasks : /\ tasks'[u].of = tasks[u].of
                           /\ tasks'[u].step = IF u = t THEN "publish" ELSE tasks[u].step
      <3>1. "publish" \in Steps \ {"none"}
        BY DEF Steps
      <3>2. tasks' = [tasks EXCEPT ![t].step = "publish"]
        BY <2>1
      <3> QED BY ZenonT(90), <3>1, <3>2, JobGoesOn
    <2>3. \A u \in Tasks \ {t} :
             tasks[u].step \in Live /\ tasks[u].of = tasks[t].of => tasks[u].of \in forgotten
      BY <1>0, <2>1 DEF Live
    <2>4. "publish" \notin Live
      BY DEF Live, Transfers
    <2> QED BY <1>0, <2>1, <2>2, <2>3, <2>4
  <1>5. ASSUME WipeSets PROVE Goal
    <2>1. /\ tasks' = tasks /\ forgotten' = forgotten \cup Carried
      BY <1>5 DEF WipeSets
    <2>2. \A t \in Tasks : tasks[t].step \in Live => tasks[t].of \in Carried
      BY DEF Carried, At, Live
    <2> QED BY <2>1, <2>2
  <1>6. ASSUME NEW t \in Tasks, NEW s \in Steps \ {"none"},
               pending' = pending, tasks' = [tasks EXCEPT ![t].step = s],
               s \in Live => tasks[t].step \in Live
        PROVE  Goal
    BY <1>0, <1>1, <1>6, JobGoesOn
  <1>7. ASSUME NEW t \in Tasks, pending' = pending, tasks' = [tasks EXCEPT ![t] = NoTask]
        PROVE  Goal
    <2>1. tasks'[t].step \notin Live /\ \A u \in Tasks \ {t} : tasks'[u] = tasks[u]
      BY <1>7 DEF MediaTypes, NoTask, Live, Transfers
    <2> QED BY <1>0, <1>1, <1>7, <2>1
  <1> QED BY <1>2, <1>3, <1>4, <1>5, <1>6, <1>7, PendingChanges

LEMMA RowsKept ==
    ASSUME MediaTypes, TransfersHaveRows, MediaNext
    PROVE  TransfersHaveRows'
  <1> DEFINE Late == {"update", "transfer"}
             Goal == \A t \in Tasks : tasks'[t].step \in Late =>
                        rows'[tasks'[t].of] # "none" \/ tasks'[t].of \in overtaken'
  <1>0. \A t \in Tasks : tasks[t].step \in Late =>
           rows[tasks[t].of] # "none" \/ tasks[t].of \in overtaken
    BY DEF TransfersHaveRows, At, Present
  <1>a. \A t \in Tasks : tasks[t].step \in Late => tasks[t].of \in Media /\ tasks[t].of \in Carried
    BY DEF MediaTypes, Carried, At, Transfers
  <1>b. \A t \in Tasks : tasks'[t].step \in Late => tasks'[t].of \in Media
    BY MediaTypesKept DEF MediaTypes
  <1> SUFFICES Goal
    BY <1>b DEF TransfersHaveRows, At, Present
  <1>1. ASSUME NEW t \in Tasks, NEW m \in Media, StartDownload(t, m) PROVE Goal
    BY <1>0, <1>1 DEF StartDownload, Spawn, MediaTypes
  <1>2. ASSUME NEW m \in Media, JoinDownload(m) \/ EraseFiles(m) PROVE Goal
    BY <1>0, <1>2 DEF JoinDownload, EraseFiles
  <1>3. ASSUME NEW m \in Media, NEW row \in {"bare", "keyed"}, StoreMessage(m, row) PROVE Goal
    BY <1>0, <1>a, <1>3 DEF StoreMessage, MediaTypes
  <1>4. ASSUME NEW m \in Media, NEW keep \in BOOLEAN, DeleteRow(m, keep) PROVE Goal
    <2>1. /\ tasks' = tasks /\ rows' = [rows EXCEPT ![m] = "none"]
          /\ overtaken \subseteq overtaken' /\ (m \in Carried => m \in overtaken')
      BY <1>4 DEF DeleteRow
    <2> QED BY <1>0, <1>a, <2>1 DEF MediaTypes
  <1>5. ASSUME NEW t \in Tasks, JobStep(t) PROVE Goal
    <2>1. rows' = rows /\ overtaken' = overtaken
      BY <1>5 DEF JobStep, TakeMediaPermit, ReadPayload, FindPayload, UpdateMedia, CommitFile,
                  GiveUp, RemovePending, PublishOutcome
    <2>2. CASE ReadPayload(t)
      <3>1. /\ tasks' = [tasks EXCEPT ![t].step = tasks'[t].step]
            /\ tasks'[t].step = "update" => rows[tasks[t].of] = "keyed"
            /\ tasks'[t].step # "transfer"
        BY <2>2 DEF ReadPayload, Move, MediaTypes
      <3> QED BY <1>0, <2>1, <3>1, JobGoesOn
    <2>3. CASE FindPayload(t)
      BY <1>0, <2>1, <2>3, JobGoesOn DEF FindPayload, Move
    <2>4. CASE UpdateMedia(t)
      <3>1. \E s \in {"remove", "transfer"} : tasks' = [tasks EXCEPT ![t].step = s]
        BY <2>4 DEF UpdateMedia, Move
      <3> QED BY <1>0, <2>1, <2>4, <3>1, JobGoesOn DEF UpdateMedia
    <2>5. ASSUME NEW s \in {"payload", "remove", "publish"}, tasks' = [tasks EXCEPT ![t].step = s]
          PROVE  Goal
      BY <1>0, <2>1, <2>5, JobGoesOn
    <2>6. CASE PublishOutcome(t)
      BY <1>0, <2>1, <2>6 DEF PublishOutcome, MediaTypes, NoTask
    <2> QED BY <1>5, <2>2, <2>3, <2>4, <2>5, <2>6
            DEF JobStep, TakeMediaPermit, CommitFile, GiveUp, RemovePending, Move
  <1>6. ASSUME Link \/ (\E logout \in BOOLEAN : Unlink(logout)) \/ WipeDirectories \/ WipeSets
        PROVE  Goal
    BY <1>0, <1>6 DEF Link, Unlink, WipeDirectories, WipeSets
  <1>7. ASSUME WipeDatabase PROVE Goal
    <2>1. tasks' = tasks /\ overtaken' = overtaken \cup (Carried \cap Present)
      BY <1>7 DEF WipeDatabase
    <2>2. \A m \in Media : rows[m] # "none" => m \in Present
      BY DEF Present
    <2> QED BY <1>0, <1>a, <2>1, <2>2
  <1> QED BY <1>1, <1>2, <1>3, <1>4, <1>5, <1>6, <1>7 DEF MediaNext

LEMMA OrphansKept ==
    ASSUME MediaTypes, TransfersHaveRows, OrphansAreExplainedEarly, MediaNext
    PROVE  OrphansAreExplainedEarly'
  <1>0. /\ linked => wipe = "idle"
        /\ wipe \in {"idle", "sets"} =>
              \A m \in files : rows[m] # "none" \/ m \in erasing \cup overtaken
    BY DEF OrphansAreExplainedEarly, Present, MediaTypes
  <1> DEFINE Goal == wipe' \in {"idle", "sets"} =>
                        \A m \in files' : rows'[m] # "none" \/ m \in erasing' \cup overtaken'
             Idle == linked' => wipe' = "idle"
  <1> SUFFICES Goal /\ Idle
    BY StoresAreTyped DEF OrphansAreExplainedEarly, Present
  <1> USE DEF MediaTypes
  <1>1. ASSUME NEW m \in Media,
               \/ \E t \in Tasks : StartDownload(t, m)
               \/ JoinDownload(m) \/ EraseFiles(m)
        PROVE  Goal /\ Idle
    BY <1>0, <1>1 DEF StartDownload, JoinDownload, EraseFiles
  <1>2. ASSUME NEW m \in Media, NEW row \in {"bare", "keyed"}, StoreMessage(m, row)
        PROVE  Goal /\ Idle
    BY <1>0, <1>2 DEF StoreMessage
  <1>3. ASSUME NEW m \in Media, NEW keep \in BOOLEAN, DeleteRow(m, keep) PROVE Goal /\ Idle
    <2>1. /\ m \in erasing' \cup overtaken' /\ erasing \subseteq erasing'
          /\ overtaken \subseteq overtaken'
      BY <1>3 DEF DeleteRow
    <2> QED BY <1>0, <1>3, <2>1 DEF DeleteRow
  <1>4. ASSUME NEW t \in Tasks, JobStep(t) PROVE Goal /\ Idle
    <2>1. UNCHANGED <<rows, erasing, overtaken, linked, wipe>>
      BY <1>4 DEF JobStep, TakeMediaPermit, ReadPayload, FindPayload, UpdateMedia, CommitFile,
                  GiveUp, RemovePending, PublishOutcome
    <2>2. files' \subseteq files
          \/ (tasks[t].step = "transfer" /\ files' \subseteq files \cup {tasks[t].of})
      BY <1>4 DEF JobStep, TakeMediaPermit, ReadPayload, FindPayload, UpdateMedia, CommitFile,
                  GiveUp, RemovePending, PublishOutcome
    <2>3. tasks[t].step = "transfer" => rows[tasks[t].of] # "none" \/ tasks[t].of \in overtaken
      BY DEF TransfersHaveRows, At, Present
    <2> QED BY <1>0, <2>1, <2>2, <2>3
  <1>5. ASSUME Link \/ (\E logout \in BOOLEAN : Unlink(logout)) PROVE Goal /\ Idle
    BY <1>0, <1>5 DEF Link, Unlink
  <1>6. ASSUME WipeDatabase \/ WipeDirectories \/ WipeSets PROVE Goal /\ Idle
    BY <1>0, <1>6 DEF WipeDatabase, WipeDirectories, WipeSets
  <1> QED BY <1>1, <1>2, <1>3, <1>4, <1>5, <1>6 DEF MediaNext

LEMMA MediaBoundsKept ==
    ASSUME MediaTypes, MediaBounds, MediaNext
    PROVE  MediaBounds'
  <1>0. MaxPending \in Nat /\ MaxParallel \in Nat
    BY MediaLimits
  <1>1. \/ pending' \subseteq pending
        \/ \E m : pending' \subseteq pending \cup {m} /\ Cardinality(pending) < MaxPending
    <2>1. CASE \E t \in Tasks, m \in Media : StartDownload(t, m)
      BY <2>1 DEF StartDownload
    <2>2. CASE ~\E t \in Tasks, m \in Media : StartDownload(t, m)
      <3>1. pending' \subseteq pending
        BY <2>2, PendingChanges DEF RemovePending, WipeSets
      <3> QED BY <3>1
    <2> QED BY <2>1, <2>2
  <1>2. \/ At(Transfers)' \subseteq At(Transfers)
        \/ \E t : /\ At(Transfers)' \subseteq At(Transfers) \cup {t}
                  /\ Cardinality(At(Transfers)) < MaxParallel
    <2>1. CASE tasks' = tasks
      BY <2>1 DEF At
    <2>2. ASSUME NEW t \in Tasks, NEW s \in Steps \ {"none"}, tasks' = [tasks EXCEPT ![t].step = s],
                 s \in Transfers => \/ tasks[t].step \in Transfers
                                    \/ Cardinality(At(Transfers)) < MaxParallel
          PROVE  <1>2
      <3>1. \A u \in Tasks : tasks'[u].step = IF u = t THEN s ELSE tasks[u].step
        BY ZenonT(90), <2>2, JobGoesOn
      <3>2. At(Transfers)' \subseteq At(Transfers) \cup {t}
        BY <3>1 DEF At
      <3>3. s \notin Transfers \/ tasks[t].step \in Transfers => At(Transfers)' \subseteq At(Transfers)
        BY <3>1 DEF At
      <3> QED BY <2>2, <3>2, <3>3
    <2>3. ASSUME NEW t \in Tasks, NEW v, v.step \notin Transfers, tasks' = [tasks EXCEPT ![t] = v]
          PROVE  <1>2
      <3>1. At(Transfers)' \subseteq At(Transfers)
        BY <2>3 DEF At, MediaTypes
      <3> QED BY <3>1
    <2>4. NoTask.step \notin Transfers
          /\ \A m : [step |-> "permit", of |-> m].step \notin Transfers
      BY DEF NoTask, Transfers
    <2> QED BY <2>1, <2>2, <2>3, <2>4, JobsChange
  <1>3. IsFiniteSet(pending') /\ Cardinality(pending') <= MaxPending
    BY <1>0, <1>1, WithinLimit DEF MediaBounds
  <1>4. IsFiniteSet(At(Transfers)') /\ Cardinality(At(Transfers)') <= MaxParallel
    BY <1>0, <1>2, WithinLimit DEF MediaBounds
  <1> QED BY <1>3, <1>4 DEF MediaBounds

LEMMA MediaInvHolds == MediaSpec => []MediaInv
  <1>1. MediaInit => MediaInv
    <2> SUFFICES ASSUME MediaInit PROVE MediaInv
      OBVIOUS
    <2>1. MediaTypes
      BY DEF MediaInit, MediaTypes, NoTask, Steps, At
    <2>2. \A S \in SUBSET Steps : "none" \notin S => At(S) = {}
      BY DEF MediaInit, NoTask, At
    <2>3. At(Transfers) = {} /\ At(Live) = {} /\ At({"update", "transfer"}) = {}
      BY <2>2 DEF Transfers, Live, Steps
    <2>4. MediaBounds
      BY <2>3, FS_EmptySet, MediaLimits DEF MediaInit, MediaBounds
    <2> QED BY <2>1, <2>3, <2>4
            DEF MediaInit, MediaInv, OneJobPerMedium, Live, CarriedIsPending, TransfersHaveRows,
                OrphansAreExplainedEarly
  <1>2. MediaInv /\ [MediaNext]_mediaVars => MediaInv'
    <2> SUFFICES ASSUME MediaInv, [MediaNext]_mediaVars PROVE MediaInv'
      OBVIOUS
    <2>1. CASE MediaNext
      BY <2>1, MediaTypesKept, OneJobKept, RowsKept, OrphansKept, MediaBoundsKept DEF MediaInv
    <2>2. CASE UNCHANGED mediaVars
      <3>1. UNCHANGED <<rows, files, pending, tasks, temps, erasing, linked, wipe, waiting,
                        overtaken, forgotten>>
        BY <2>2 DEF mediaVars
      <3>2. Present' = Present /\ \A S : At(S)' = At(S)
        BY <3>1 DEF Present, At
      <3> QED BY <3>1, <3>2 DEF MediaInv, MediaTypes, MediaBounds, OneJobPerMedium,
              CarriedIsPending, TransfersHaveRows, OrphansAreExplainedEarly
    <2> QED BY <2>1, <2>2
  <1> QED BY <1>1, <1>2, PTL DEF MediaSpec

(* Every variable of the media jobs keeps its type, only a transfer has a      *)
(* temporary file, and the limits on pending and parallel downloads hold       *)
(* (start_media_download).                                                     *)
THEOREM MediaTypeCorrect == MediaSpec => []MediaTypeOK
  <1>1. MediaInv => MediaTypeOK
    BY DEF MediaInv, MediaTypes, MediaBounds, MediaTypeOK
  <1> QED BY <1>1, MediaInvHolds, PTL

(* For any number of media, jobs and limits: two jobs carry one medium only    *)
(* after a wipe forgot the first, and a file without a row is about to be      *)
(* removed or belongs to a download a deletion or the wipe overtook.           *)
THEOREM DownloadsAccounted == MediaSpec => []DownloadsAreAccounted
  <1>1. MediaInv => DownloadsAreAccounted
    BY DEF MediaInv, DownloadsAreAccounted, OrphansAreExplainedEarly, OrphansAreExplained
  <1> QED BY <1>1, MediaInvHolds, PTL

-----------------------------------------------------------------------------
(* The voice-note outbox (voice_outbox.rs, commands.rs) *)

\* A write left behind is of a command that began, and of none that still runs.
Orders(r) ==
    /\ command[r].step # "idle" => tried[r] >= 1
    /\ \A w \in abandoned[r] :
          /\ w.of <= tried[r]
          /\ command[r].step # "idle" => w.of < tried[r]

\* The job names the ID WhatsApp knows for as long as there is a job; without
\* one there is no recording to send again.
JobNamesDelivery(r) ==
    /\ 0 \notin wire[r]
    /\ \E i \in MessageIds : wire[r] \subseteq {i}
    /\ job[r].status # "none" => wire[r] \subseteq {job[r].id}
    /\ job[r].status = "none" /\ wire[r] # {} => r \notin audio
    /\ tried[r] = 0 => wire[r] = {}

\* A running command and its job agree.
CommandOwnsJob(r) ==
    /\ command[r].step \notin {"idle", "prepare"} =>
          /\ r \in audio
          /\ job[r].status = "sending" /\ ~job[r].stale /\ job[r].id = command[r].id
    /\ command[r].step = "assign" =>
          /\ command[r].next # 0
          /\ command[r].id # 0 => command[r].next = command[r].id
    /\ command[r].step = "upload" => command[r].id # 0

\* The last command's left write repeats the ID.
LeftWritesAgree(r) ==
    \A w \in abandoned[r] :
        w.of = tried[r] /\ w.write \in {"assign", "fail"} => wire[r] \subseteq {w.id}

DiscardIsKept(r) == r \in discarded => job[r].status = "none" /\ r \notin audio

VoiceSound(r) ==
    JobNamesDelivery(r) /\ CommandOwnsJob(r) /\ LeftWritesAgree(r) /\ DiscardIsKept(r)

VoiceInv ==
    /\ VoiceTypeOK
    /\ \A r \in Recordings : Orders(r)
    /\ \A r \in Recordings \ raced : VoiceSound(r)

\* cleanup_inner keeps whole jobs only, and of these the preserved and the active.
LEMMA RetainedKeeps ==
    ASSUME NEW P, NEW J \in Retained(P)
    PROVE  /\ J \subseteq Held(job) \cap audio
           /\ \A s \in Held(job) \cap audio : s \in P \/ ActivelySending(job[s]) => s \in J
<1> DEFINE whole == Held(job) \cap audio
<1> DEFINE old == {s \in whole \ P : job[s].stale}
<1> DEFINE Over(K) == IF Cardinality(K) > MaxJobs THEN Cardinality(K) - MaxJobs ELSE 0
<1> DEFINE Evictable(K) == {s \in K \ P : ~ActivelySending(job[s])}
<1> DEFINE Chosen0(K) == {F \in SUBSET Evictable(K) :
                            Cardinality(F) = LeastOf(Over(K), Cardinality(Evictable(K)))}
<1>1. J \in UNION {{(whole \ X) \ E : E \in Chosen0(whole \ X)} : X \in SUBSET old}
  BY DEF Retained
<1> HIDE DEF Over
<1>2. PICK X \in SUBSET old : J \in {(whole \ X) \ E : E \in Chosen0(whole \ X)}
  BY <1>1
<1>3. PICK E \in Chosen0(whole \ X) : J = (whole \ X) \ E
  BY <1>2
<1>4. E \subseteq Evictable(whole \ X)
  BY <1>3
<1>5. J \subseteq whole
  BY <1>3
<1>6. ASSUME NEW s \in whole, s \in P \/ ActivelySending(job[s]) PROVE s \in J
  <2>1. s \notin X
    BY <1>2, <1>6 DEF ActivelySending
  <2>2. s \notin E
    BY <1>4, <1>6
  <2> QED
    BY <2>1, <2>2, <1>3
<1> QED
  BY <1>5, <1>6

LEMMA CleanupEffect ==
    ASSUME VoiceTypeOK, NEW P, NEW J \in Retained(P), NEW O \in SUBSET Orphans,
           NEW s \in Recordings
    PROVE  /\ JobsAfter(J)[s] = job[s] \/ JobsAfter(J)[s] = NoJob
           /\ s \in AudioAfter(J, O) => s \in audio
           /\ JobsAfter(J)[s].status = "none" /\ s \in AudioAfter(J, O) =>
                 job[s].status = "none"
           /\ s \in audio /\ job[s].status # "none" /\ (s \in P \/ ActivelySending(job[s])) =>
                 s \in J /\ JobsAfter(J)[s] = job[s] /\ s \in AudioAfter(J, O)
<1>1. JobsAfter(J)[s] = IF s \in J THEN job[s] ELSE NoJob
  BY DEF JobsAfter
<1>2. /\ J \subseteq Held(job) \cap audio
      /\ s \in Held(job) \cap audio /\ (s \in P \/ ActivelySending(job[s])) => s \in J
  BY RetainedKeeps
<1>3. s \in Held(job) <=> job[s].status # "none"
  BY DEF Held
<1>4. s \in AudioAfter(J, O) <=> s \in audio /\ s \notin O /\ ~(s \in Held(job) /\ s \notin J)
  BY DEF AudioAfter
<1>5. s \in O => s \notin Held(job)
  BY DEF Orphans
<1> QED
  BY <1>1, <1>2, <1>3, <1>4, <1>5

\* A step leaves a recording alone.
SameRecording(s) ==
    /\ s \in audio' <=> s \in audio
    /\ job'[s] = job[s] /\ command'[s] = command[s]
    /\ abandoned'[s] = abandoned[s] /\ tried'[s] = tried[s]
    /\ wire'[s] = wire[s]
    /\ s \in discarded' <=> s \in discarded

\* The clean-up another recording's preparation brings with it, or none.
CleanedAlong(s) ==
    /\ command'[s] = command[s]
    /\ abandoned'[s] = abandoned[s] /\ tried'[s] = tried[s]
    /\ wire'[s] = wire[s]
    /\ s \in discarded' <=> s \in discarded
    /\ job'[s] = job[s] \/ job'[s] = NoJob
    /\ s \in audio' => s \in audio
    /\ job'[s].status = "none" /\ s \in audio' => job[s].status = "none"
    /\ s \in audio /\ job[s].status # "none" /\ ActivelySending(job[s]) =>
          job'[s] = job[s] /\ s \in audio'

LEMMA OthersStaySound ==
    ASSUME NEW s \in Recordings, SameRecording(s) \/ CleanedAlong(s)
    PROVE  /\ Orders(s) => Orders(s)'
           /\ VoiceSound(s) => VoiceSound(s)'
<1>1. Orders(s) => Orders(s)'
  BY DEF Orders, SameRecording, CleanedAlong
<1>2. CASE SameRecording(s)
  BY <1>1, <1>2 DEF VoiceSound, JobNamesDelivery, CommandOwnsJob, LeftWritesAgree,
                    DiscardIsKept, SameRecording
<1>3. CASE CleanedAlong(s)
  <2> SUFFICES ASSUME VoiceSound(s) PROVE VoiceSound(s)'
    BY <1>1
  <2>1. NoJob.status = "none"
    BY DEF NoJob
  <2>2. JobNamesDelivery(s)'
    BY <1>3, <2>1 DEF VoiceSound, JobNamesDelivery, CleanedAlong
  <2>3. CommandOwnsJob(s)'
    <3>1. command[s].step \notin {"idle", "prepare"} => job'[s] = job[s] /\ s \in audio'
      BY <1>3 DEF VoiceSound, CommandOwnsJob, CleanedAlong, ActivelySending
    <3> QED
      BY <1>3, <3>1 DEF VoiceSound, CommandOwnsJob, CleanedAlong
  <2>4. LeftWritesAgree(s)'
    BY <1>3 DEF VoiceSound, LeftWritesAgree, CleanedAlong
  <2>5. DiscardIsKept(s)'
    BY <1>3, <2>1 DEF VoiceSound, DiscardIsKept, CleanedAlong
  <2> QED
    BY <2>2, <2>3, <2>4, <2>5 DEF VoiceSound
<1> QED
  BY <1>1, <1>2, <1>3

LEMMA OneMoves ==
    ASSUME VoiceInv, NEW r \in Recordings, VoiceTypeOK', raced \subseteq raced',
           \A s \in Recordings \ {r} : SameRecording(s) \/ CleanedAlong(s),
           Orders(r)', r \notin raced' => VoiceSound(r)'
    PROVE  VoiceInv'
<1>1. ASSUME NEW s \in Recordings \ {r} PROVE Orders(s)' /\ (s \notin raced' => VoiceSound(s)')
  BY OthersStaySound DEF VoiceInv
<1>2. ASSUME NEW s \in Recordings PROVE Orders(s)' /\ (s \notin raced' => VoiceSound(s)')
  BY <1>1
<1> QED
  BY <1>2 DEF VoiceInv

LEMMA SavedIs ==
    ASSUME NEW status, NEW id
    PROVE  /\ Saved(status, id).status = status /\ Saved(status, id).id = id
           /\ ~Saved(status, id).stale
           /\ status \in {"sending", "failed", "sent"} /\ id \in MessageIds =>
                 Saved(status, id) \in Jobs
BY DEF Saved, Jobs

LEMMA NoneIs ==
    /\ NoJob \in Jobs /\ NoJob.status = "none" /\ NoJob.id = 0
    /\ NoCommand \in Commands /\ NoCommand.step = "idle"
    /\ 0 \in MessageIds
<1>1. 0 \in MessageIds
  BY VoiceLimits DEF MessageIds
<1> QED
  BY <1>1 DEF NoJob, NoCommand, Jobs, Commands

\* Steps of a command that leave the outbox and WhatsApp alone.
LEMMA ToTyped ==
    ASSUME VoiceTypeOK, NEW r \in Recordings,
           NEW to \in Writes \cup {"idle", "ready", "upload", "wait", "store"}
    PROVE  /\ [command EXCEPT ![r].step = to] \in [Recordings -> Commands]
           /\ [command EXCEPT ![r].step = to][r].step = to
           /\ [command EXCEPT ![r].step = to][r].id = command[r].id
           /\ [command EXCEPT ![r].step = to][r].next = command[r].next
           /\ \A s \in Recordings \ {r} : [command EXCEPT ![r].step = to][s] = command[s]
BY DEF VoiceTypeOK, Commands

LEMMA VoiceInitial == VoiceInit => VoiceInv
<1> SUFFICES ASSUME VoiceInit PROVE VoiceInv
  OBVIOUS
<1>1. VoiceTypeOK
  <2>1. 0 \in 0 .. Attempts
    BY VoiceLimits
  <2> QED
    BY <2>1, NoneIs DEF VoiceInit, VoiceTypeOK
<1>2. ASSUME NEW r \in Recordings PROVE Orders(r) /\ VoiceSound(r)
  BY NoneIs DEF VoiceInit, Orders, VoiceSound, JobNamesDelivery, CommandOwnsJob,
                LeftWritesAgree, DiscardIsKept
<1> QED
  BY <1>1, <1>2 DEF VoiceInv

LEMMA RecordSound ==
    ASSUME VoiceInv, NEW r \in Recordings, Record(r)
    PROVE  VoiceInv'
<1>1. VoiceTypeOK'
  BY DEF VoiceInv, VoiceTypeOK, Record, sends
<1>2. \A s \in Recordings \ {r} : SameRecording(s)
  BY DEF Record, sends, SameRecording
<1>3. Orders(r)'
  BY DEF VoiceInv, Orders, Record
<1>4. r \notin raced' => VoiceSound(r)'
  <2> SUFFICES ASSUME r \notin raced PROVE VoiceSound(r)'
    BY DEF Record
  <2>1. VoiceSound(r) /\ Orders(r) /\ tried[r] = 0 /\ r \notin discarded
    BY DEF VoiceInv, Record
  <2>2. command[r].step = "idle" /\ wire[r] = {}
    <3>1. ~(0 >= 1)
      OBVIOUS
    <3> QED
      BY <2>1, <3>1 DEF Orders, VoiceSound, JobNamesDelivery
  <2> QED
    BY <2>1, <2>2 DEF Record, sends, VoiceSound, JobNamesDelivery, CommandOwnsJob,
                      LeftWritesAgree, DiscardIsKept
<1> QED
  BY <1>1, <1>2, <1>3, <1>4, OneMoves DEF Record

LEMMA AgeSound ==
    ASSUME VoiceInv, NEW r \in Recordings, Age(r)
    PROVE  VoiceInv'
<1> PICK j : j = job[r]
  OBVIOUS
<1>j. j \in Jobs /\ job' = [job EXCEPT ![r] = [j EXCEPT !.stale = TRUE]]
  BY DEF Age, VoiceInv, VoiceTypeOK
<1>k. [j EXCEPT !.stale = TRUE] \in Jobs
  BY <1>j DEF Jobs
<1>1. VoiceTypeOK'
  <2>1. job' \in [Recordings -> Jobs]
    BY <1>j, <1>k DEF VoiceInv, VoiceTypeOK
  <2> QED
    BY <2>1 DEF VoiceInv, VoiceTypeOK, Age, sends
<1>2. \A s \in Recordings \ {r} : SameRecording(s)
  BY DEF Age, sends, SameRecording, VoiceInv, VoiceTypeOK
<1>3. Orders(r)'
  BY DEF VoiceInv, Orders, Age
<1>4. r \notin raced' => VoiceSound(r)'
  <2> SUFFICES ASSUME r \notin raced PROVE VoiceSound(r)'
    BY DEF Age
  <2>1. job'[r].status = j.status /\ job'[r].id = j.id
    BY <1>j DEF VoiceInv, VoiceTypeOK, Jobs
  <2>2. VoiceSound(r)
    BY DEF VoiceInv
  <2> QED
    BY <2>1, <2>2 DEF Age, sends, VoiceSound, JobNamesDelivery, CommandOwnsJob,
                      LeftWritesAgree, DiscardIsKept
<1> QED
  BY <1>1, <1>2, <1>3, <1>4, OneMoves DEF Age

LEMMA SendVoiceMessageSound ==
    ASSUME VoiceInv, NEW r \in Recordings, SendVoiceMessage(r)
    PROVE  VoiceInv'
<1> PICK c : c = [NoCommand EXCEPT !.step = "prepare"]
  OBVIOUS
<1>c. c \in Commands /\ c.step = "prepare"
  BY NoneIs DEF Commands, NoCommand, Writes
<1>d. /\ command' = [command EXCEPT ![r] = c] /\ tried' = [tried EXCEPT ![r] = @ + 1]
      /\ tried[r] \in 0 .. Attempts /\ tried[r] < Attempts
  BY DEF SendVoiceMessage, VoiceInv, VoiceTypeOK
<1>e. tried'[r] = tried[r] + 1 /\ tried'[r] \in 0 .. Attempts
  BY <1>d, VoiceLimits DEF VoiceInv, VoiceTypeOK
<1>1. VoiceTypeOK'
  <2>1. command' \in [Recordings -> Commands]
    BY <1>c, <1>d DEF VoiceInv, VoiceTypeOK
  <2>2. tried' \in [Recordings -> 0 .. Attempts]
    BY <1>d, <1>e DEF VoiceInv, VoiceTypeOK
  <2> QED
    BY <2>1, <2>2 DEF VoiceInv, VoiceTypeOK, SendVoiceMessage, sends
<1>2. \A s \in Recordings \ {r} : SameRecording(s)
  BY <1>d DEF SendVoiceMessage, sends, SameRecording, VoiceInv, VoiceTypeOK
<1>3. Orders(r)'
  <2>1. tried'[r] >= 1
    BY <1>d, <1>e
  <2>2. ASSUME NEW w \in abandoned[r] PROVE w.of < tried'[r] /\ w.of <= tried'[r]
    <3>1. w \in Left /\ w.of <= tried[r]
      BY DEF VoiceInv, VoiceTypeOK, Orders
    <3> QED
      BY <3>1, <1>d, <1>e, VoiceLimits DEF Left
  <2> QED
    BY <2>1, <2>2 DEF Orders, SendVoiceMessage
<1>4. r \notin raced' => VoiceSound(r)'
  <2> SUFFICES ASSUME r \notin raced PROVE VoiceSound(r)'
    BY DEF SendVoiceMessage
  <2>1. VoiceSound(r) /\ Orders(r)'
    BY <1>3 DEF VoiceInv
  <2>2. command'[r] = c
    BY <1>d DEF VoiceInv, VoiceTypeOK
  <2>3. tried'[r] # 0
    BY <1>d, <1>e
  <2>4. \A w \in abandoned[r] : w.of # tried'[r]
    <3> SUFFICES ASSUME NEW w \in abandoned[r] PROVE w.of # tried'[r]
      OBVIOUS
    <3>1. w \in Left /\ w.of <= tried[r]
      BY DEF VoiceInv, VoiceTypeOK, Orders
    <3> QED
      BY <3>1, <1>d, <1>e, VoiceLimits DEF Left
  <2> QED
    BY <2>1, <2>2, <2>3, <2>4, <1>c
       DEF SendVoiceMessage, sends, VoiceSound, JobNamesDelivery, CommandOwnsJob,
           LeftWritesAgree, DiscardIsKept
<1> QED
  BY <1>1, <1>2, <1>3, <1>4, OneMoves DEF SendVoiceMessage

\* What prepare does, as a step of a command or of a write it left behind.
LEMMA PreparedSound ==
    ASSUME VoiceInv, NEW r \in Recordings, NEW done \in BOOLEAN, Prepared(r, done)
    PROVE  /\ audio' \subseteq Recordings /\ job' \in [Recordings -> Jobs]
           /\ \A s \in Recordings \ {r} :
                 /\ job'[s] = job[s] \/ job'[s] = NoJob
                 /\ s \in audio' => s \in audio
                 /\ job'[s].status = "none" /\ s \in audio' => job[s].status = "none"
                 /\ s \in audio /\ job[s].status # "none" /\ ActivelySending(job[s]) =>
                       job'[s] = job[s] /\ s \in audio'
           /\ r \in audio' => r \in audio
           /\ done => r \in audio' /\ job'[r].status = "sending" /\ ~job'[r].stale
           /\ job'[r].status # "none" => job'[r].id = job[r].id \/ job[r].status = "none"
           /\ job'[r].status # "none" => job[r].status # "none" \/ (done /\ job'[r].id = 0)
           /\ job'[r].status = "none" /\ r \in audio' => job[r].status = "none"
<1>1. PICK J \in Retained({r}), O \in SUBSET Orphans :
        /\ audio' = AudioAfter(J, O)
        /\ done => r \in audio'
        /\ job' = [JobsAfter(J) EXCEPT ![r] = IF done THEN Saved("sending", JobsAfter(J)[r].id)
                                              ELSE @]
  BY DEF Prepared
<1>t. VoiceTypeOK
  BY DEF VoiceInv
<1> PICK C : C = JobsAfter(J)
  OBVIOUS
<1>2. C \in [Recordings -> Jobs]
  BY <1>t, NoneIs DEF JobsAfter, VoiceTypeOK
<1>3. \A s \in Recordings :
        /\ C[s] = job[s] \/ C[s] = NoJob
        /\ s \in audio' => s \in audio
        /\ C[s].status = "none" /\ s \in audio' => job[s].status = "none"
        /\ s \in audio /\ job[s].status # "none" /\ (s \in {r} \/ ActivelySending(job[s])) =>
              C[s] = job[s] /\ s \in audio'
  BY <1>1, <1>t, CleanupEffect
<1> PICK j : j = IF done THEN Saved("sending", C[r].id) ELSE C[r]
  OBVIOUS
<1>4. job' = [C EXCEPT ![r] = j]
  BY <1>1
<1>5. C[r] \in Jobs /\ C[r].id \in MessageIds
  BY <1>2 DEF Jobs
<1>6. j \in Jobs
  BY <1>5, SavedIs
<1>7. job' \in [Recordings -> Jobs]
  BY <1>2, <1>4, <1>6
<1>8. audio' \subseteq Recordings
  BY <1>1, <1>t DEF AudioAfter, VoiceTypeOK
<1>9. job'[r] = j /\ \A s \in Recordings \ {r} : job'[s] = C[s]
  BY <1>2, <1>4
<1>10. done => r \in audio' /\ j.status = "sending" /\ ~j.stale /\ j.id = C[r].id
  BY <1>1, SavedIs
<1>11. ~done => j = C[r]
  OBVIOUS
<1>12. C[r] = job[r] \/ (C[r] = NoJob /\ (r \in audio' => job[r].status = "none"))
  BY <1>3, NoneIs
<1>13. job'[r].status # "none" => job'[r].id = job[r].id \/ job[r].status = "none"
  <2>1. CASE done
    BY <2>1, <1>9, <1>10, <1>12
  <2>2. CASE ~done
    BY <2>2, <1>9, <1>11, <1>12, NoneIs
  <2> QED
    BY <2>1, <2>2
<1>14. job'[r].status # "none" => job[r].status # "none" \/ (done /\ job'[r].id = 0)
  <2>1. CASE done
    <3>1. job[r].status = "none" => C[r].id = 0 \/ C[r] = job[r]
      BY <1>12, NoneIs
    <3>2. job[r].status = "none" => C[r] = NoJob
      <4>1. r \in Held(job) <=> job[r].status # "none"
        BY DEF Held
      <4>2. J \subseteq Held(job)
        BY RetainedKeeps
      <4> QED
        BY <4>1, <4>2 DEF JobsAfter
    <3> QED
      BY <2>1, <3>2, <1>9, <1>10, NoneIs
  <2>2. CASE ~done
    BY <2>2, <1>9, <1>11, <1>12, NoneIs
  <2> QED
    BY <2>1, <2>2
<1>15. job'[r].status = "none" /\ r \in audio' => job[r].status = "none"
  BY <1>3, <1>9, <1>10, <1>11
<1> QED
  BY <1>3, <1>7, <1>8, <1>9, <1>10, <1>13, <1>14, <1>15

LEMMA PrepareSound ==
    ASSUME VoiceInv, NEW r \in Recordings, Prepare(r)
    PROVE  VoiceInv'
<1>1. PICK done \in BOOLEAN :
        /\ Prepared(r, done)
        /\ command' = [command EXCEPT ![r] =
              IF done THEN [step |-> "ready", id |-> job'[r].id, next |-> 0] ELSE NoCommand]
  BY DEF Prepare
<1>p. /\ audio' \subseteq Recordings /\ job' \in [Recordings -> Jobs]
      /\ \A s \in Recordings \ {r} :
            /\ job'[s] = job[s] \/ job'[s] = NoJob
            /\ s \in audio' => s \in audio
            /\ job'[s].status = "none" /\ s \in audio' => job[s].status = "none"
            /\ s \in audio /\ job[s].status # "none" /\ ActivelySending(job[s]) =>
                  job'[s] = job[s] /\ s \in audio'
      /\ r \in audio' => r \in audio
      /\ done => r \in audio' /\ job'[r].status = "sending" /\ ~job'[r].stale
      /\ job'[r].status # "none" => job'[r].id = job[r].id \/ job[r].status = "none"
      /\ job'[r].status # "none" => job[r].status # "none" \/ (done /\ job'[r].id = 0)
      /\ job'[r].status = "none" /\ r \in audio' => job[r].status = "none"
  BY <1>1, PreparedSound
<1> PICK c : c = IF done THEN [step |-> "ready", id |-> job'[r].id, next |-> 0] ELSE NoCommand
  OBVIOUS
<1>c. /\ c \in Commands /\ c.step \in {"ready", "idle"}
      /\ c.step = "ready" => done /\ c.id = job'[r].id
  <2>1. job'[r].id \in MessageIds
    BY <1>p DEF Jobs
  <2>2. [step |-> "ready", id |-> job'[r].id, next |-> 0] \in Commands
    BY <2>1, NoneIs DEF Commands
  <2> QED
    BY <2>2, NoneIs
<1>d. command' = [command EXCEPT ![r] = c]
  BY <1>1
<1>u. /\ abandoned' = abandoned /\ tried' = tried /\ wire' = wire /\ stored' = stored
      /\ discarded' = discarded /\ raced' = raced /\ command[r].step = "prepare"
  BY DEF Prepare, sends
<1>2. VoiceTypeOK'
  <2>1. command' \in [Recordings -> Commands]
    BY <1>c, <1>d DEF VoiceInv, VoiceTypeOK
  <2> QED
    BY <2>1, <1>p, <1>u DEF VoiceInv, VoiceTypeOK
<1>3. command'[r] = c /\ \A s \in Recordings \ {r} : command'[s] = command[s]
  BY <1>d DEF VoiceInv, VoiceTypeOK
<1>4. \A s \in Recordings \ {r} : CleanedAlong(s)
  BY <1>p, <1>u, <1>3 DEF CleanedAlong
<1>o. Orders(r)
  BY DEF VoiceInv
<1>5. Orders(r)'
  BY <1>o, <1>u DEF Orders
<1>6. r \notin raced' => VoiceSound(r)'
  <2> SUFFICES ASSUME r \notin raced PROVE VoiceSound(r)'
    BY <1>u
  <2>1. VoiceSound(r)
    BY DEF VoiceInv
  <2>2. JobNamesDelivery(r)'
    <3>1. job'[r].status # "none" => wire[r] \subseteq {job'[r].id}
      <4>1. CASE job[r].status # "none"
        BY <4>1, <1>p, <2>1 DEF VoiceSound, JobNamesDelivery
      <4>2. CASE job[r].status = "none"
        BY <4>2, <1>p, <2>1 DEF VoiceSound, JobNamesDelivery
      <4> QED
        BY <4>1, <4>2
    <3> QED
      BY <3>1, <1>p, <1>u, <2>1 DEF VoiceSound, JobNamesDelivery
  <2>3. CommandOwnsJob(r)'
    BY <1>c, <1>3, <1>p DEF CommandOwnsJob
  <2>4. LeftWritesAgree(r)'
    BY <2>1, <1>u DEF VoiceSound, LeftWritesAgree
  <2>5. DiscardIsKept(r)'
    BY <2>1, <1>p, <1>u DEF VoiceSound, DiscardIsKept
  <2> QED
    BY <2>2, <2>3, <2>4, <2>5 DEF VoiceSound
<1> QED
  BY <1>2, <1>4, <1>5, <1>6, <1>u, OneMoves

\* A command moves on without touching its files.
LEMMA CommandMoves ==
    ASSUME VoiceInv, NEW r \in Recordings, NEW c \in Commands,
           command' = [command EXCEPT ![r] = c],
           command[r].step \notin {"idle", "prepare"},
           c.step \notin {"idle", "prepare"}, c.id = command[r].id,
           c.step = "assign" => c.next # 0 /\ (c.id # 0 => c.next = c.id),
           c.step = "upload" => c.id # 0,
           UNCHANGED <<audio, job, abandoned, tried, discarded, raced>>,
           stored' \in [Recordings -> SUBSET MessageIds],
           wire' \in [Recordings -> SUBSET MessageIds],
           \A s \in Recordings \ {r} : wire'[s] = wire[s],
           wire'[r] = wire[r] \/ (c.id # 0 /\ wire'[r] = wire[r] \cup {c.id})
    PROVE  VoiceInv'
<1>1. VoiceTypeOK'
  BY DEF VoiceInv, VoiceTypeOK
<1>2. \A s \in Recordings \ {r} : SameRecording(s)
  BY DEF VoiceInv, VoiceTypeOK, SameRecording
<1>3. command'[r] = c
  BY DEF VoiceInv, VoiceTypeOK
<1>4. Orders(r)'
  BY <1>3 DEF VoiceInv, Orders
<1>5. r \notin raced' => VoiceSound(r)'
  <2> SUFFICES ASSUME r \notin raced PROVE VoiceSound(r)'
    OBVIOUS
  <2>1. VoiceSound(r) /\ Orders(r)
    BY DEF VoiceInv
  <2>2. c.id = job[r].id /\ job[r].status # "none" /\ r \in audio
    BY <2>1 DEF VoiceSound, CommandOwnsJob
  <2>3. wire'[r] \subseteq {c.id} /\ 0 \notin wire'[r]
    BY <2>1, <2>2 DEF VoiceSound, JobNamesDelivery
  <2>4. c.id \in MessageIds
    BY DEF Commands
  <2>5. tried[r] # 0
    <3>1. ~(0 >= 1)
      OBVIOUS
    <3> QED
      BY <2>1, <3>1 DEF Orders
  <2>6. JobNamesDelivery(r)'
    BY <2>2, <2>3, <2>4, <2>5 DEF JobNamesDelivery
  <2>7. CommandOwnsJob(r)'
    BY <2>1, <1>3 DEF VoiceSound, CommandOwnsJob
  <2>8. LeftWritesAgree(r)'
    <3>1. \A w \in abandoned[r] : w.of # tried[r]
      <4> SUFFICES ASSUME NEW w \in abandoned[r] PROVE w.of # tried[r]
        OBVIOUS
      <4>1. w \in Left /\ w.of < tried[r] /\ tried[r] \in 0 .. Attempts
        BY <2>1 DEF VoiceInv, VoiceTypeOK, Orders
      <4> QED
        BY <4>1, VoiceLimits DEF Left
    <3> QED
      BY <3>1 DEF LeftWritesAgree
  <2>9. DiscardIsKept(r)'
    BY <2>1 DEF VoiceSound, DiscardIsKept
  <2> QED
    BY <2>6, <2>7, <2>8, <2>9 DEF VoiceSound
<1> QED
  BY <1>1, <1>2, <1>4, <1>5, OneMoves

LEMMA SendingSteps ==
    ASSUME VoiceInv, NEW r \in Recordings,
           ChooseDelivery(r) \/ Transmit(r) \/ Confirmed(r) \/ StoreSent(r) \/ FailSend(r)
    PROVE  VoiceInv'
<1>t. VoiceTypeOK /\ Orders(r)
  BY DEF VoiceInv
<1> PICK k : k = command[r]
  OBVIOUS
<1>k. k \in Commands /\ k.id \in MessageIds
  BY <1>t DEF VoiceTypeOK, Commands
<1>1. CASE ChooseDelivery(r)
  <2> PICK c : c = [k EXCEPT !.step = "assign", !.next = DeliveryId(r)]
    OBVIOUS
  <2>1. tried[r] \in 0 .. Attempts /\ tried[r] >= 1
    BY <1>1, <1>t DEF VoiceTypeOK, Orders, ChooseDelivery
  <2>2. DeliveryId(r) \in MessageIds /\ DeliveryId(r) # 0
        /\ (k.id # 0 => DeliveryId(r) = k.id)
    <3>1. CASE k.id # 0
      BY <3>1, <1>k DEF DeliveryId
    <3>2. CASE k.id = 0
      BY <3>2, <2>1 DEF DeliveryId, MessageIds
    <3> QED
      BY <3>1, <3>2
  <2>3. c \in Commands /\ c.step = "assign" /\ c.id = k.id /\ c.next = DeliveryId(r)
    BY <1>k, <2>2 DEF Commands, Writes
  <2>4. command' = [command EXCEPT ![r] = c]
    BY <1>1, <1>t DEF ChooseDelivery, VoiceTypeOK
  <2>5. k.step = "ready"
    BY <1>1 DEF ChooseDelivery
  <2> QED
    <3>1. c.next # 0 /\ (c.id # 0 => c.next = c.id) /\ c.step = "assign"
      BY <2>2, <2>3
    <3>2. /\ UNCHANGED <<audio, job, abandoned, tried, wire, stored, discarded, raced>>
          /\ wire' \in [Recordings -> SUBSET MessageIds]
          /\ stored' \in [Recordings -> SUBSET MessageIds]
      BY <1>1, <1>t DEF ChooseDelivery, sends, VoiceTypeOK
    <3> QED
      BY <2>3, <2>4, <2>5, <3>1, <3>2, CommandMoves
<1>2. CASE Transmit(r)
  <2> PICK c : c = [k EXCEPT !.step = "wait"]
    OBVIOUS
  <2>1. c \in Commands /\ c.step = "wait" /\ c.id = k.id
    BY <1>k DEF Commands
  <2>2. command' = [command EXCEPT ![r] = c] /\ k.step = "upload"
    BY <1>2, <1>t DEF Transmit, To, VoiceTypeOK
  <2>3. wire[r] \cup {k.id} \in SUBSET MessageIds
    BY <1>k, <1>t DEF VoiceTypeOK
  <2>4. wire' = [wire EXCEPT ![r] = wire[r] \cup {k.id}]
    BY <1>2 DEF Transmit
  <2>5. wire' \in [Recordings -> SUBSET MessageIds] /\ wire'[r] = wire[r] \cup {k.id}
        /\ \A s \in Recordings \ {r} : wire'[s] = wire[s]
    BY <2>3, <2>4, <1>t DEF VoiceTypeOK
  <2>6. CASE k.id # 0
    BY ZenonT(90), <1>2, <1>t, <2>1, <2>2, <2>5, <2>6, CommandMoves DEF Transmit, sends, VoiceTypeOK
  <2>7. CASE k.id = 0
    <3>1. r \in raced
      BY <2>2, <2>7 DEF VoiceInv, VoiceSound, CommandOwnsJob
    <3>2. VoiceTypeOK'
      BY <1>2, <1>t, <2>1, <2>2, <2>5 DEF VoiceTypeOK, Transmit
    <3>3. Orders(r)'
      BY <1>2, <1>t, <2>2, <2>1 DEF Transmit, Orders, VoiceTypeOK
    <3>4. \A s \in Recordings \ {r} : SameRecording(s)
      BY <1>2, <1>t, <2>2, <2>5 DEF SameRecording, Transmit, VoiceTypeOK
    <3> QED
      BY <1>2, <3>1, <3>2, <3>3, <3>4, OneMoves DEF Transmit
  <2> QED
    BY <2>6, <2>7
<1>3. CASE Confirmed(r)
  <2> PICK c : c = [k EXCEPT !.step = "store"]
    OBVIOUS
  <2>1. c \in Commands /\ c.step = "store" /\ c.id = k.id
    BY <1>k DEF Commands
  <2>2. command' = [command EXCEPT ![r] = c] /\ k.step = "wait"
    BY <1>3, <1>t DEF Confirmed, To, VoiceTypeOK
  <2> QED
    BY <1>3, <1>t, <2>1, <2>2, CommandMoves DEF Confirmed, sends, VoiceTypeOK
<1>4. CASE StoreSent(r)
  <2> PICK c : c = [k EXCEPT !.step = "finish"]
    OBVIOUS
  <2>1. c \in Commands /\ c.step = "finish" /\ c.id = k.id
    BY <1>k DEF Commands, Writes
  <2>2. command' = [command EXCEPT ![r] = c] /\ k.step = "store"
    BY <1>4, <1>t DEF StoreSent, To, VoiceTypeOK
  <2>3. stored' \in [Recordings -> SUBSET MessageIds]
    BY <1>4, <1>t, <1>k DEF StoreSent, VoiceTypeOK
  <2> QED
    BY <1>4, <1>t, <2>1, <2>2, <2>3, CommandMoves DEF StoreSent, VoiceTypeOK
<1>5. CASE FailSend(r)
  <2> PICK c : c = [k EXCEPT !.step = "fail"]
    OBVIOUS
  <2>1. c \in Commands /\ c.step = "fail" /\ c.id = k.id
    BY <1>k DEF Commands, Writes
  <2>2. command' = [command EXCEPT ![r] = c] /\ k.step \notin {"idle", "prepare"}
    BY <1>5, <1>t DEF FailSend, To, VoiceTypeOK
  <2> QED
    BY <1>5, <1>t, <2>1, <2>2, CommandMoves DEF FailSend, sends, VoiceTypeOK
<1> QED
  BY <1>1, <1>2, <1>3, <1>4, <1>5

LEMMA AssignDeliverySound ==
    ASSUME VoiceInv, NEW r \in Recordings, AssignDelivery(r)
    PROVE  VoiceInv'
<1>t. VoiceTypeOK /\ Orders(r)
  BY DEF VoiceInv
<1> PICK n : n = command[r].next
  OBVIOUS
<1>n. n \in MessageIds
  BY <1>t DEF VoiceTypeOK, Commands
<1> PICK c : c = [step |-> IF n \in stored[r] THEN "finish" ELSE "upload", id |-> n, next |-> n]
  OBVIOUS
<1>c. c \in Commands /\ c.step \in {"finish", "upload"} /\ c.id = n
  BY <1>n DEF Commands, Writes
<1>j. Saved("sending", n) \in Jobs
  BY <1>n, SavedIs
<1>1. /\ command' = [command EXCEPT ![r] = c]
      /\ job' = [job EXCEPT ![r] = Saved("sending", n)]
      /\ command[r].step = "assign"
      /\ UNCHANGED <<audio, abandoned, tried, wire, stored, discarded, raced>>
  BY DEF AssignDelivery, sends
<1>2. VoiceTypeOK'
  BY <1>t, <1>c, <1>j, <1>1 DEF VoiceTypeOK
<1>3. /\ command'[r] = c /\ job'[r] = Saved("sending", n)
      /\ \A s \in Recordings \ {r} : command'[s] = command[s] /\ job'[s] = job[s]
  BY <1>t, <1>1 DEF VoiceTypeOK
<1>4. \A s \in Recordings \ {r} : SameRecording(s)
  BY <1>1, <1>3 DEF SameRecording
<1>5. Orders(r)'
  BY <1>t, <1>1, <1>3, <1>c DEF Orders
<1>6. r \notin raced' => VoiceSound(r)'
  <2> SUFFICES ASSUME r \notin raced PROVE VoiceSound(r)'
    BY <1>1
  <2>1. VoiceSound(r)
    BY DEF VoiceInv
  <2>2. job[r].status = "sending" /\ job[r].id = command[r].id /\ r \in audio
        /\ n # 0 /\ (command[r].id # 0 => n = command[r].id)
    BY <2>1, <1>1 DEF VoiceSound, CommandOwnsJob
  <2>3. wire[r] \subseteq {n}
    BY <2>1, <2>2 DEF VoiceSound, JobNamesDelivery
  <2>4. JobNamesDelivery(r)'
    BY <2>1, <2>3, <1>1, <1>3, SavedIs DEF VoiceSound, JobNamesDelivery
  <2>5. CommandOwnsJob(r)'
    BY <2>2, <1>1, <1>3, <1>c, SavedIs DEF CommandOwnsJob
  <2>6. LeftWritesAgree(r)'
    BY <2>1, <1>1 DEF VoiceSound, LeftWritesAgree
  <2>7. DiscardIsKept(r)'
    BY <2>1, <2>2, <1>1 DEF VoiceSound, DiscardIsKept
  <2> QED
    BY <2>4, <2>5, <2>6, <2>7 DEF VoiceSound
<1> QED
  BY <1>1, <1>2, <1>4, <1>5, <1>6, OneMoves

\* The end of a command, or the discard of a recording at rest: its job is what
\* it was, names the same ID, or is gone with the recording.
LEMMA CommandEnds ==
    ASSUME VoiceInv, NEW r \in Recordings,
           audio' \subseteq audio, job' \in [Recordings -> Jobs],
           \A s \in Recordings \ {r} : (s \in audio' <=> s \in audio) /\ job'[s] = job[s],
           command' \in [Recordings -> Commands], command'[r].step = "idle",
           \A s \in Recordings \ {r} : command'[s] = command[s],
           UNCHANGED <<abandoned, tried, wire, stored, raced>>,
           discarded' \subseteq Recordings,
           \A s \in Recordings \ {r} : s \in discarded' <=> s \in discarded,
           \/ r \notin audio' /\ job'[r] = NoJob
           \/ /\ (r \in audio' <=> r \in audio) /\ (r \in discarded' <=> r \in discarded)
              /\ \/ job'[r] = job[r]
                 \/ /\ command[r].step \notin {"idle", "prepare"}
                    /\ job'[r].status # "none" /\ job'[r].id = command[r].id
    PROVE  VoiceInv'
<1>1. VoiceTypeOK'
  BY DEF VoiceInv, VoiceTypeOK
<1>2. \A s \in Recordings \ {r} : SameRecording(s)
  BY DEF SameRecording
<1>3. Orders(r)'
  BY DEF VoiceInv, Orders
<1>4. r \notin raced' => VoiceSound(r)'
  <2> SUFFICES ASSUME r \notin raced PROVE VoiceSound(r)'
    OBVIOUS
  <2>1. VoiceSound(r)
    BY DEF VoiceInv
  <2>2. CommandOwnsJob(r)' /\ LeftWritesAgree(r)'
    BY <2>1 DEF VoiceSound, CommandOwnsJob, LeftWritesAgree
  <2>3. JobNamesDelivery(r)' /\ DiscardIsKept(r)'
    <3>1. CASE r \notin audio' /\ job'[r] = NoJob
      BY <2>1, <3>1, NoneIs DEF VoiceSound, JobNamesDelivery, DiscardIsKept
    <3>2. CASE (r \in audio' <=> r \in audio) /\ (r \in discarded' <=> r \in discarded)
               /\ job'[r] = job[r]
      BY <2>1, <3>2 DEF VoiceSound, JobNamesDelivery, DiscardIsKept
    <3>3. CASE /\ (r \in audio' <=> r \in audio) /\ (r \in discarded' <=> r \in discarded)
               /\ command[r].step \notin {"idle", "prepare"}
               /\ job'[r].status # "none" /\ job'[r].id = command[r].id
      <4>1. job[r].status = "sending" /\ job[r].id = command[r].id /\ r \in audio
        BY <2>1, <3>3 DEF VoiceSound, CommandOwnsJob
      <4> QED
        BY <2>1, <3>3, <4>1 DEF VoiceSound, JobNamesDelivery, DiscardIsKept
    <3> QED
      BY <3>1, <3>2, <3>3
  <2> QED
    BY <2>2, <2>3 DEF VoiceSound
<1> QED
  BY <1>1, <1>2, <1>3, <1>4, OneMoves

LEMMA EndingSteps ==
    ASSUME VoiceInv, NEW r \in Recordings, MarkFailed(r) \/ FinishSent(r) \/ Discard(r)
    PROVE  VoiceInv'
<1>t. VoiceTypeOK
  BY DEF VoiceInv
<1>i. command[r].id \in MessageIds
  BY <1>t DEF VoiceTypeOK, Commands
<1>n. /\ [command EXCEPT ![r] = NoCommand] \in [Recordings -> Commands]
      /\ [command EXCEPT ![r] = NoCommand][r].step = "idle"
      /\ \A s \in Recordings \ {r} : [command EXCEPT ![r] = NoCommand][s] = command[s]
  BY <1>t, NoneIs DEF VoiceTypeOK
<1>f. FilesRemoved(r) => /\ audio' \subseteq audio /\ r \notin audio' /\ job'[r] = NoJob
                         /\ job' \in [Recordings -> Jobs]
                         /\ \A s \in Recordings \ {r} : (s \in audio' <=> s \in audio)
                                                        /\ job'[s] = job[s]
  BY <1>t, NoneIs DEF FilesRemoved, VoiceTypeOK
<1>s. ASSUME NEW status \in {"failed", "sent"},
             job' \in {job, [job EXCEPT ![r] = Saved(status, command[r].id)]}
      PROVE  /\ job' \in [Recordings -> Jobs]
             /\ \A s \in Recordings \ {r} : job'[s] = job[s]
             /\ \/ job'[r] = job[r]
                \/ job'[r].status # "none" /\ job'[r].id = command[r].id
  <2>1. /\ Saved(status, command[r].id) \in Jobs
        /\ Saved(status, command[r].id).status = status
        /\ Saved(status, command[r].id).id = command[r].id
    BY <1>i, SavedIs
  <2> QED
    BY <1>s, <1>t, <2>1 DEF VoiceTypeOK
<1>1. CASE MarkFailed(r)
  <2>1. /\ job' \in {job, [job EXCEPT ![r] = Saved("failed", command[r].id)]}
        /\ command' = [command EXCEPT ![r] = NoCommand] /\ command[r].step = "fail"
        /\ UNCHANGED <<audio, abandoned, tried, wire, stored, discarded, raced>>
    BY <1>1 DEF MarkFailed, sends
  <2>2. /\ job' \in [Recordings -> Jobs]
        /\ \A s \in Recordings \ {r} : job'[s] = job[s]
        /\ \/ job'[r] = job[r]
           \/ job'[r].status # "none" /\ job'[r].id = command[r].id
    BY <2>1, <1>s
  <2> QED
    BY <2>1, <2>2, <1>n, <1>t, CommandEnds DEF VoiceTypeOK
<1>2. CASE FinishSent(r)
  <2>1. /\ command' = [command EXCEPT ![r] = NoCommand] /\ command[r].step = "finish"
        /\ UNCHANGED <<abandoned, tried, wire, stored, discarded, raced>>
    BY <1>2 DEF FinishSent, sends
  <2>2. CASE FilesRemoved(r)
    BY <2>1, <2>2, <1>n, <1>f, <1>t, CommandEnds DEF VoiceTypeOK
  <2>3. CASE /\ job' \in {job, [job EXCEPT ![r] = Saved("sent", command[r].id)]}
             /\ UNCHANGED audio
    <3>1. /\ job' \in [Recordings -> Jobs]
          /\ \A s \in Recordings \ {r} : job'[s] = job[s]
          /\ \/ job'[r] = job[r]
             \/ job'[r].status # "none" /\ job'[r].id = command[r].id
      BY <2>3, <1>s
    <3> QED
      BY <2>1, <2>3, <3>1, <1>n, <1>t, CommandEnds DEF VoiceTypeOK
  <2> QED
    BY <1>2, <2>2, <2>3 DEF FinishSent
<1>3. CASE Discard(r)
  <2>1. /\ FilesRemoved(r) /\ command[r].step = "idle" /\ command' = command
        /\ discarded' = discarded \cup {r}
        /\ UNCHANGED <<abandoned, tried, wire, stored, raced>>
    BY <1>3 DEF Discard, sends
  <2> QED
    BY <2>1, <1>f, <1>t, CommandEnds DEF VoiceTypeOK
<1> QED
  BY <1>1, <1>2, <1>3

LEMMA CommandTimeoutSound ==
    ASSUME VoiceInv, NEW r \in Recordings, CommandTimeout(r)
    PROVE  VoiceInv'
<1>t. VoiceTypeOK /\ Orders(r)
  BY DEF VoiceInv
<1> PICK k : k = command[r]
  OBVIOUS
<1>k. k \in Commands /\ k.step # "idle"
  BY <1>t DEF VoiceTypeOK, CommandTimeout
<1> PICK w : w = [write |-> k.step, of |-> tried[r],
                  id |-> IF k.step = "assign" THEN k.next ELSE k.id]
  OBVIOUS
<1> PICK A : A = IF k.step \in Writes THEN abandoned[r] \cup {w} ELSE abandoned[r]
  OBVIOUS
<1>o. tried[r] \in 1 .. Attempts
  BY <1>t, <1>k, VoiceLimits DEF VoiceTypeOK, Orders
<1>A. A \in SUBSET Left
  <2>1. abandoned[r] \in SUBSET Left
    BY <1>t DEF VoiceTypeOK
  <2>2. k.step \in Writes => w \in Left
    BY <1>k, <1>o DEF Commands, Left
  <2> QED
    BY <2>1, <2>2
<1>1. /\ command' = [command EXCEPT ![r] = NoCommand]
      /\ abandoned' = [abandoned EXCEPT ![r] = A]
      /\ UNCHANGED <<audio, job, tried, wire, stored, discarded, raced>>
  BY DEF CommandTimeout, sends
<1>2. VoiceTypeOK'
  BY <1>t, <1>1, <1>A, NoneIs DEF VoiceTypeOK
<1>3. /\ command'[r] = NoCommand /\ abandoned'[r] = A
      /\ \A s \in Recordings \ {r} : command'[s] = command[s] /\ abandoned'[s] = abandoned[s]
  BY <1>t, <1>1 DEF VoiceTypeOK
<1>4. \A s \in Recordings \ {r} : SameRecording(s)
  BY <1>1, <1>3 DEF SameRecording
<1>5. Orders(r)'
  <2>1. w.of <= tried[r]
    BY <1>o
  <2> QED
    BY <2>1, <1>t, <1>1, <1>3, NoneIs DEF Orders
<1>6. r \notin raced' => VoiceSound(r)'
  <2> SUFFICES ASSUME r \notin raced PROVE VoiceSound(r)'
    BY <1>1
  <2>1. VoiceSound(r)
    BY DEF VoiceInv
  <2>2. JobNamesDelivery(r)' /\ DiscardIsKept(r)'
    BY <2>1, <1>1 DEF VoiceSound, JobNamesDelivery, DiscardIsKept
  <2>3. CommandOwnsJob(r)'
    BY <1>3, NoneIs DEF CommandOwnsJob
  <2>4. k.step \in {"assign", "fail"} => wire[r] \subseteq {w.id}
    <3>1. HAVE k.step \in {"assign", "fail"}
    <3>2. wire[r] \subseteq {k.id} /\ 0 \notin wire[r]
      BY <2>1, <3>1 DEF VoiceSound, JobNamesDelivery, CommandOwnsJob
    <3>3. k.step = "assign" => (k.id # 0 => k.next = k.id)
      BY <2>1 DEF VoiceSound, CommandOwnsJob
    <3> QED
      BY <3>1, <3>2, <3>3
  <2>5. LeftWritesAgree(r)'
    BY <2>1, <2>4, <1>1, <1>3 DEF VoiceSound, LeftWritesAgree
  <2> QED
    BY <2>2, <2>3, <2>5 DEF VoiceSound
<1> QED
  BY <1>1, <1>2, <1>4, <1>5, <1>6, OneMoves

LEMMA LeftWriteSound ==
    ASSUME VoiceInv, NEW r \in Recordings, NEW w \in Left, LeftWrite(r, w)
    PROVE  VoiceInv'
<1>t. VoiceTypeOK /\ Orders(r) /\ w \in abandoned[r] /\ w.id \in MessageIds
  BY DEF VoiceInv, LeftWrite, Left
<1>1. /\ abandoned' = [abandoned EXCEPT ![r] = @ \ {w}]
      /\ raced' = IF w.of < tried[r] \/ r \in discarded THEN raced \cup {r} ELSE raced
      /\ UNCHANGED <<command, tried, wire, stored, discarded>>
  BY DEF LeftWrite, sends
<1>2. /\ abandoned' \in [Recordings -> SUBSET Left] /\ abandoned'[r] = abandoned[r] \ {w}
      /\ \A s \in Recordings \ {r} : abandoned'[s] = abandoned[s]
      /\ raced \subseteq raced' /\ raced' \subseteq Recordings
  BY <1>t, <1>1 DEF VoiceTypeOK
<1>3. Orders(r)'
  BY <1>t, <1>1, <1>2 DEF Orders
<1>4. r \notin raced' => /\ r \notin raced /\ r \notin discarded /\ VoiceSound(r)
                         /\ command[r].step = "idle" /\ w.of = tried[r]
  <2>1. HAVE r \notin raced'
  <2>2. r \notin raced /\ r \notin discarded /\ ~(w.of < tried[r])
    BY <1>1, <2>1
  <2>3. command[r].step = "idle"
    BY <1>t, <2>2 DEF Orders
  <2>4. w.of <= tried[r] /\ w.of \in Int /\ tried[r] \in Int
    BY <1>t, VoiceLimits DEF Orders, Left, VoiceTypeOK
  <2>5. w.of = tried[r]
    BY <2>2, <2>4
  <2> QED
    BY <2>2, <2>3, <2>5 DEF VoiceInv
<1>5. r \notin raced' => CommandOwnsJob(r)' /\ LeftWritesAgree(r)' /\ DiscardIsKept(r)'
  BY <1>1, <1>2, <1>4 DEF VoiceSound, CommandOwnsJob, LeftWritesAgree, DiscardIsKept
<1>6. CASE w.write = "prepare" /\ \E done \in BOOLEAN : Prepared(r, done)
  <2>1. PICK done \in BOOLEAN : Prepared(r, done)
    BY <1>6
  <2>p. /\ audio' \subseteq Recordings /\ job' \in [Recordings -> Jobs]
        /\ \A s \in Recordings \ {r} :
              /\ job'[s] = job[s] \/ job'[s] = NoJob
              /\ s \in audio' => s \in audio
              /\ job'[s].status = "none" /\ s \in audio' => job[s].status = "none"
              /\ s \in audio /\ job[s].status # "none" /\ ActivelySending(job[s]) =>
                    job'[s] = job[s] /\ s \in audio'
        /\ r \in audio' => r \in audio
        /\ done => r \in audio' /\ job'[r].status = "sending" /\ ~job'[r].stale
        /\ job'[r].status # "none" => job'[r].id = job[r].id \/ job[r].status = "none"
        /\ job'[r].status # "none" => job[r].status # "none" \/ (done /\ job'[r].id = 0)
        /\ job'[r].status = "none" /\ r \in audio' => job[r].status = "none"
    BY <2>1, PreparedSound
  <2>2. \A s \in Recordings \ {r} : CleanedAlong(s)
    BY <2>p, <1>1, <1>2 DEF CleanedAlong
  <2>3. VoiceTypeOK'
    BY <2>p, <1>t, <1>1, <1>2 DEF VoiceTypeOK
  <2>4. r \notin raced' => JobNamesDelivery(r)'
    <3> SUFFICES ASSUME r \notin raced' PROVE JobNamesDelivery(r)'
      OBVIOUS
    <3>s. JobNamesDelivery(r)
      BY <1>4 DEF VoiceSound
    <3>1. job'[r].status # "none" => wire[r] \subseteq {job'[r].id}
      <4>1. CASE job[r].status # "none"
        BY <4>1, <2>p, <3>s DEF JobNamesDelivery
      <4>2. CASE job[r].status = "none"
        BY <4>2, <2>p, <3>s DEF JobNamesDelivery
      <4> QED
        BY <4>1, <4>2
    <3> QED
      BY <3>1, <3>s, <2>p, <1>1 DEF JobNamesDelivery
  <2> QED
    BY <1>2, <1>3, <1>5, <2>2, <2>3, <2>4, OneMoves DEF VoiceSound
<1>7. ASSUME NEW status \in {"sending", "failed"},
             w.write \in {"assign", "fail"},
             job' = [job EXCEPT ![r] = Saved(status, w.id)], UNCHANGED audio
      PROVE  VoiceInv'
  <2>1. Saved(status, w.id) \in Jobs /\ Saved(status, w.id).id = w.id
        /\ Saved(status, w.id).status # "none"
    BY <1>t, SavedIs
  <2>2. /\ job' \in [Recordings -> Jobs] /\ job'[r] = Saved(status, w.id)
        /\ \A s \in Recordings \ {r} : job'[s] = job[s]
    BY <1>7, <1>t, <2>1 DEF VoiceTypeOK
  <2>3. \A s \in Recordings \ {r} : SameRecording(s)
    BY <2>2, <1>7, <1>1, <1>2 DEF SameRecording
  <2>4. VoiceTypeOK'
    BY <1>7, <2>2, <1>t, <1>1, <1>2 DEF VoiceTypeOK
  <2>5. r \notin raced' => JobNamesDelivery(r)'
    <3> SUFFICES ASSUME r \notin raced' PROVE JobNamesDelivery(r)'
      OBVIOUS
    <3>1. wire[r] \subseteq {w.id}
      BY <1>4, <1>7, <1>t DEF VoiceSound, LeftWritesAgree
    <3> QED
      BY <3>1, <2>1, <2>2, <1>1, <1>4 DEF VoiceSound, JobNamesDelivery
  <2> QED
    BY <1>2, <1>3, <1>5, <2>3, <2>4, <2>5, OneMoves DEF VoiceSound
<1>8. CASE w.write = "finish" /\ FilesRemoved(r)
  <2>1. /\ job' \in [Recordings -> Jobs] /\ job'[r] = NoJob /\ r \notin audio'
        /\ audio' \subseteq Recordings
        /\ \A s \in Recordings \ {r} : job'[s] = job[s] /\ (s \in audio' <=> s \in audio)
    BY <1>8, <1>t, NoneIs DEF FilesRemoved, VoiceTypeOK
  <2>2. \A s \in Recordings \ {r} : SameRecording(s)
    BY <2>1, <1>1, <1>2 DEF SameRecording
  <2>3. VoiceTypeOK'
    BY <2>1, <1>t, <1>1, <1>2 DEF VoiceTypeOK
  <2>4. r \notin raced' => JobNamesDelivery(r)'
    BY <2>1, <1>1, <1>4, NoneIs DEF VoiceSound, JobNamesDelivery
  <2> QED
    BY <1>2, <1>3, <1>5, <2>2, <2>3, <2>4, OneMoves DEF VoiceSound
<1> QED
  BY <1>6, <1>7, <1>8 DEF LeftWrite

LEMMA RestartVoiceSound ==
    ASSUME VoiceInv, RestartVoice
    PROVE  VoiceInv'
<1>t. VoiceTypeOK
  BY DEF VoiceInv
<1>1. PICK J \in Retained({}), O \in SUBSET Orphans :
        LET K == {r \in J : job[r].status # "sent"}
        IN  /\ audio' = AudioAfter(K, O)
            /\ job' = [r \in Recordings |-> IF r \in K THEN Recovered(job[r]) ELSE NoJob]
  BY DEF RestartVoice
<1>2. /\ command' = [r \in Recordings |-> NoCommand]
      /\ abandoned' = [r \in Recordings |-> {}]
      /\ UNCHANGED <<tried, wire, stored, discarded, raced>>
  BY DEF RestartVoice, sends
<1> PICK K : K = {r \in J : job[r].status # "sent"}
  OBVIOUS
<1>3. /\ audio' = (audio \ O) \ (Held(job) \ K)
      /\ job' = [r \in Recordings |-> IF r \in K THEN Recovered(job[r]) ELSE NoJob]
      /\ K \subseteq Held(job)
  <2>1. J \subseteq Held(job)
    BY RetainedKeeps
  <2> QED
    BY <1>1, <2>1 DEF AudioAfter
<1>4. ASSUME NEW r \in Recordings
      PROVE  /\ Recovered(job[r]) \in Jobs /\ Recovered(job[r]).id = job[r].id
             /\ job[r].status # "none" => Recovered(job[r]).status # "none"
  <2>1. job[r] \in Jobs /\ job[r].id \in MessageIds
    BY <1>t DEF VoiceTypeOK, Jobs
  <2> QED
    BY <2>1, SavedIs DEF Recovered
<1>5. VoiceTypeOK'
  BY <1>t, <1>2, <1>3, <1>4, NoneIs DEF VoiceTypeOK
<1>6. ASSUME NEW r \in Recordings PROVE Orders(r)'
  BY <1>2, NoneIs DEF Orders
<1>7. ASSUME NEW r \in Recordings \ raced PROVE VoiceSound(r)'
  <2>1. VoiceSound(r)
    BY DEF VoiceInv
  <2>2. r \in Held(job) <=> job[r].status # "none"
    BY DEF Held
  <2>3. /\ job'[r].status # "none" => job[r].status # "none" /\ job'[r].id = job[r].id
        /\ job'[r].status = "none" /\ r \in audio' => job[r].status = "none"
        /\ r \in audio' => r \in audio
    <3>1. CASE r \in K
      BY <3>1, <1>3, <1>4, <2>2
    <3>2. CASE r \notin K
      BY <3>2, <1>3, <2>2, NoneIs
    <3> QED
      BY <3>1, <3>2
  <2>4. JobNamesDelivery(r)'
    BY <2>1, <2>3, <1>2 DEF VoiceSound, JobNamesDelivery
  <2>5. CommandOwnsJob(r)' /\ LeftWritesAgree(r)'
    BY <1>2, NoneIs DEF CommandOwnsJob, LeftWritesAgree
  <2>6. DiscardIsKept(r)'
    BY <2>1, <2>3, <1>2 DEF VoiceSound, DiscardIsKept
  <2> QED
    BY <2>4, <2>5, <2>6 DEF VoiceSound
<1> QED
  BY <1>2, <1>5, <1>6, <1>7 DEF VoiceInv

LEMMA VoiceInvariant == VoiceSpec => []VoiceInv
<1>1. VoiceInv /\ [VoiceNext]_voiceVars => VoiceInv'
  <2> SUFFICES ASSUME VoiceInv, [VoiceNext]_voiceVars PROVE VoiceInv'
    OBVIOUS
  <2>1. CASE UNCHANGED voiceVars
    <3>1. UNCHANGED <<audio, job, command, abandoned, tried, wire, stored, discarded, raced>>
      BY <2>1 DEF voiceVars
    <3>2. VoiceTypeOK' /\ \A r \in Recordings : Orders(r)'
      BY <3>1 DEF VoiceInv, VoiceTypeOK, Orders
    <3>3. ASSUME NEW r \in Recordings \ raced PROVE VoiceSound(r)'
      BY <3>1 DEF VoiceInv, VoiceSound, JobNamesDelivery, CommandOwnsJob, LeftWritesAgree,
                  DiscardIsKept
    <3> QED
      BY <3>1, <3>2, <3>3 DEF VoiceInv
  <2>2. ASSUME NEW r \in Recordings,
               \/ Record(r) \/ Age(r) \/ SendVoiceMessage(r) \/ Prepare(r)
               \/ ChooseDelivery(r) \/ AssignDelivery(r) \/ Transmit(r) \/ Confirmed(r)
               \/ StoreSent(r) \/ FailSend(r) \/ MarkFailed(r) \/ FinishSent(r)
               \/ CommandTimeout(r) \/ \E w \in Left : LeftWrite(r, w)
               \/ Discard(r) \/ RestartVoice
        PROVE  VoiceInv'
    BY <2>2, RecordSound, AgeSound, SendVoiceMessageSound, PrepareSound, SendingSteps,
       AssignDeliverySound, EndingSteps, CommandTimeoutSound, LeftWriteSound,
       RestartVoiceSound
  <2> QED
    BY <2>1, <2>2 DEF VoiceNext, VoiceRests
<1> QED
  BY <1>1, VoiceInitial, PTL DEF VoiceSpec

\* Every variable of the voice-note outbox holds a value of its type
\* (voice_outbox.rs, send_voice_message).
THEOREM VoiceTypeCorrect == VoiceSpec => []VoiceTypeOK
BY VoiceInvariant, PTL DEF VoiceInv

\* WhatsApp accepts one message ID of a recording at most, a send in progress
\* keeps its files and a discarded recording stays gone, for any recordings, any
\* cap and any number of attempts (assign_delivery, cleanup_inner, finish_sent).
THEOREM VoiceIsFinal == VoiceSpec => []RecordingsAreFinal
<1>1. VoiceInv => RecordingsAreFinal
  <2> SUFFICES ASSUME VoiceInv PROVE RecordingsAreFinal
    OBVIOUS
  <2>1. ASSUME NEW r \in Recordings \ raced PROVE Cardinality(wire[r]) <= 1
    <3>1. PICK i \in MessageIds : wire[r] \subseteq {i}
      BY DEF VoiceInv, VoiceSound, JobNamesDelivery
    <3>2. wire[r] = {} \/ wire[r] = {i}
      BY <3>1
    <3> QED
      <4>1. Cardinality({}) = 0 /\ Cardinality({i}) = 1
        BY FS_EmptySet, FS_Singleton
      <4>2. Cardinality(wire[r]) = 0 \/ Cardinality(wire[r]) = 1
        BY <3>2, <4>1
      <4> QED
        BY <4>2
  <2>2. DiscardedStaysGone /\ ActiveSendKeepsItsFiles
    BY DEF VoiceInv, VoiceTypeOK, VoiceSound, DiscardIsKept, CommandOwnsJob,
           DiscardedStaysGone, ActiveSendKeepsItsFiles
  <2> QED
    BY <2>1, <2>2 DEF RecordingsAreFinal, OneDeliveryId
<1> QED
  BY <1>1, VoiceInvariant, PTL

(* ------------------------------- GroupRoster -------------------------------- *)

ReadType == [n : Nat, id : Nat, step : {"asking", "resolving"}, v : Nat]

RosterFrame == [seq : Nat, id : Nat, v : Nat, ok : BOOLEAN, late : BOOLEAN]

RosterTypes ==
    /\ version \in Nat /\ stamp \in Nat /\ newest \in Nat /\ happened \in Nat
    /\ reads \in SUBSET ReadType
    /\ pushed \in Seq(RosterFrame) /\ answered \in Seq(RosterFrame)
    /\ selected \in BOOLEAN /\ asked \in Nat /\ known \in Nat
    /\ roster \in [shown : BOOLEAN, v : Nat, error : BOOLEAN, late : BOOLEAN]
    /\ missed \in BOOLEAN /\ unanswered \in BOOLEAN

\* The frames on their way to the shell, in either channel.
Members(s) == {s[i] : i \in DOMAIN s}

Sent == Members(pushed) \cup Members(answered)

\* The newest members are on their way under a later stamp than n.
Overtaking(n) == \E g \in Sent : g.ok /\ g.v = newest /\ g.seq > n

\* An event's read will tell of the present members.
Telling == \E j \in reads : j.id = 0 /\ (j.step = "asking" \/ j.v = version)

\* Nothing is stamped or read ahead of the clock and of WhatsApp.
Bounds ==
    /\ known <= stamp /\ newest <= version
    /\ \A j \in reads : j.step = "resolving" => j.v <= version
    /\ \A f \in Sent : f.seq <= stamp /\ (f.ok => f.v <= newest)
    /\ roster.shown => selected /\ (~roster.error => roster.v <= newest)

\* The present members were stamped, will be, or an event's read failed.
Told == missed \/ newest = version \/ Telling

\* A list that is not shown is awaited or was given up.
Awaited == selected /\ ~roster.shown => asked # 0 \/ unanswered

\* What is older than the newest stamped, on its way or shown, and was stamped
\* before it, is followed by it.
FramesGiveWay ==
    \A f \in Sent : f.ok /\ ~f.late /\ f.v < newest => f.seq <= known \/ Overtaking(f.seq)

RosterGivesWay ==
    roster.shown /\ ~roster.error /\ ~roster.late /\ roster.v < newest => Overtaking(known)

RosterInv ==
    RosterTypes /\ Bounds /\ Told /\ Awaited /\ FramesGiveWay /\ RosterGivesWay

LEMMA MembersAppended ==
    ASSUME NEW S, NEW s \in Seq(S), NEW e \in S
    PROVE  Append(s, e) \in Seq(S) /\ Members(Append(s, e)) = Members(s) \cup {e}
<1>1. /\ Append(s, e) \in Seq(S) /\ Len(Append(s, e)) = Len(s) + 1 /\ Len(s) \in Nat
      /\ \A i \in 1..Len(s) : Append(s, e)[i] = s[i]
      /\ Append(s, e)[Len(s) + 1] = e
  OBVIOUS
<1>2. DOMAIN s = 1..Len(s) /\ DOMAIN Append(s, e) = 1..(Len(s) + 1)
  BY <1>1
<1>3. \A i \in 1..(Len(s) + 1) : i \in 1..Len(s) \/ i = Len(s) + 1
  BY <1>1
<1>4. Len(s) + 1 \in 1..(Len(s) + 1) /\ \A i \in 1..Len(s) : i \in 1..(Len(s) + 1)
  BY <1>1
<1>5. Members(Append(s, e)) \subseteq Members(s) \cup {e}
  BY <1>1, <1>2, <1>3 DEF Members
<1>6. Members(s) \cup {e} \subseteq Members(Append(s, e))
  BY <1>1, <1>2, <1>4 DEF Members
<1> QED
  BY <1>1, <1>5, <1>6

LEMMA MembersTaken ==
    ASSUME NEW S, NEW s \in Seq(S), s # <<>>
    PROVE  /\ Tail(s) \in Seq(S) /\ Head(s) \in S
           /\ Members(s) = Members(Tail(s)) \cup {Head(s)}
<1>1. /\ Tail(s) \in Seq(S) /\ Head(s) \in S
      /\ Len(Tail(s)) = Len(s) - 1 /\ Len(s) > 0 /\ Head(s) = s[1] /\ Len(s) \in Nat
  OBVIOUS
<1>2. DOMAIN s = 1..Len(s) /\ DOMAIN Tail(s) = 1..(Len(s) - 1)
  BY <1>1
<1>3. \A i \in DOMAIN Tail(s) : i + 1 \in DOMAIN s /\ Tail(s)[i] = s[i + 1]
  BY <1>1, <1>2
<1>4. 1 \in DOMAIN s
  BY <1>1, <1>2
<1>5. Members(Tail(s)) \cup {Head(s)} \subseteq Members(s)
  BY <1>1, <1>3, <1>4 DEF Members
<1>6. ASSUME NEW x \in Members(s) PROVE x \in Members(Tail(s)) \cup {Head(s)}
  <2>1. PICK i \in DOMAIN s : x = s[i]
    BY <1>6 DEF Members
  <2>2. CASE i = 1
    BY <1>1, <2>1, <2>2
  <2>3. CASE i # 1
    <3>1. i - 1 \in DOMAIN Tail(s) /\ (i - 1) + 1 = i
      BY <1>1, <1>2, <2>1, <2>3
    <3>2. Tail(s)[i - 1] = x
      BY <1>3, <2>1, <3>1
    <3> QED
      BY <3>1, <3>2 DEF Members
  <2> QED
    BY <2>2, <2>3
<1> QED
  BY <1>1, <1>5, <1>6

\* A step that sends nothing and takes nothing leaves the frames' order alone.
LEMMA StillGivesWay ==
    ASSUME RosterInv, UNCHANGED <<frameVars, known>>
    PROVE  /\ Sent' = Sent /\ FramesGiveWay'
           /\ \A n \in Nat : Overtaking(n)' <=> Overtaking(n)
<1>1. /\ stamp' = stamp /\ newest' = newest /\ pushed' = pushed /\ answered' = answered
      /\ known' = known
  BY DEF frameVars
<1>2. Sent' = Sent
  BY <1>1 DEF Sent, Members
<1> QED
  BY <1>1, <1>2 DEF RosterInv, FramesGiveWay, Overtaking

\* What WhatsApp does and what the shell asks for.
LEMMA ShellKept ==
    ASSUME RosterInv, GroupUpdate \/ SelectGroup \/ SelectOther \/ ChatsShown \/ Expire
    PROVE  RosterInv'
<1>1. /\ UNCHANGED <<stamp, newest, pushed, answered>> /\ known' = known /\ missed' = missed
      /\ happened' \in Nat
  BY DEF GroupUpdate, SelectGroup, SelectOther, ChatsShown, Expire, Ask, Occurs, frameVars,
         shellVars, RosterInv, RosterTypes
<1>2. UNCHANGED <<frameVars, known>>
  BY <1>1 DEF frameVars
<1>3. /\ Sent' = Sent /\ FramesGiveWay'
      /\ \A n \in Nat : Overtaking(n)' <=> Overtaking(n)
  BY <1>2, StillGivesWay
<1>4. /\ Read(happened', 0) \in ReadType /\ Read(happened', happened') \in ReadType
      /\ Read(happened', 0).id = 0 /\ Read(happened', 0).step = "asking"
      /\ Read(happened', happened').step = "asking"
  BY <1>1 DEF Read, ReadType
<1>5. /\ NoRoster \in [shown : BOOLEAN, v : Nat, error : BOOLEAN, late : BOOLEAN]
      /\ ~NoRoster.shown
  BY DEF NoRoster
<1>6. CASE GroupUpdate
  <2>1. /\ version' = version + 1 /\ reads' = reads \cup {Read(happened', 0)}
        /\ UNCHANGED <<selected, asked, roster, unanswered>>
    BY <1>6 DEF GroupUpdate, shellVars
  <2>2. RosterTypes'
    BY <1>1, <1>4, <2>1 DEF RosterInv, RosterTypes
  <2>3. Telling'
    BY <1>4, <2>1 DEF Telling
  <2>4. Bounds'
    <3>1. newest' <= version' /\ known' <= stamp'
      BY <1>1, <2>1 DEF RosterInv, RosterTypes, Bounds
    <3>2. ASSUME NEW j \in reads', j.step = "resolving" PROVE j.v <= version'
      <4>1. j \in reads
        BY <1>4, <2>1, <3>2
      <4>2. j.v <= version /\ j.v \in Nat /\ version \in Nat
        BY <3>2, <4>1 DEF RosterInv, RosterTypes, Bounds, ReadType
      <4> QED
        BY <2>1, <4>2
    <3> QED
      BY <1>1, <1>3, <2>1, <3>1, <3>2 DEF RosterInv, Bounds
  <2>5. Awaited' /\ RosterGivesWay'
    BY <1>1, <1>3, <2>1 DEF RosterInv, RosterTypes, Awaited, RosterGivesWay
  <2> QED
    BY <1>3, <2>2, <2>3, <2>4, <2>5 DEF RosterInv, Told
<1>7. CASE SelectGroup \/ ChatsShown
  <2>1. /\ version' = version /\ selected' = TRUE /\ roster' = NoRoster
        /\ \/ /\ reads' = reads \cup {Read(happened', happened')}
              /\ asked' = happened' /\ unanswered' = FALSE
           \/ asked # 0 /\ UNCHANGED <<reads, asked, unanswered>>
    BY <1>7 DEF SelectGroup, ChatsShown, Ask, RosterInv, RosterTypes
  <2>2. happened' # 0
    BY <1>7 DEF SelectGroup, ChatsShown, Occurs, RosterInv, RosterTypes
  <2>3. RosterTypes'
    BY <1>1, <1>4, <1>5, <2>1 DEF RosterInv, RosterTypes
  <2>4. reads \subseteq reads' /\ \A j \in reads' : j \in reads \/ j.step = "asking"
    BY <1>4, <2>1
  <2>5. Told'
    BY <1>1, <2>1, <2>4 DEF RosterInv, Told, Telling
  <2>6. Bounds'
    BY <1>1, <1>3, <1>5, <2>1, <2>4 DEF RosterInv, Bounds
  <2>7. Awaited' /\ RosterGivesWay'
    BY <1>5, <2>1, <2>2 DEF Awaited, RosterGivesWay
  <2> QED
    BY <1>3, <2>3, <2>5, <2>6, <2>7 DEF RosterInv
<1>8. CASE SelectOther
  <2>1. /\ UNCHANGED <<version, reads, asked, unanswered>>
        /\ selected' = FALSE /\ roster' = NoRoster
    BY <1>8 DEF SelectOther
  <2>2. RosterTypes'
    BY <1>1, <1>5, <2>1 DEF RosterInv, RosterTypes
  <2>3. Told' /\ Bounds'
    BY <1>1, <1>3, <1>5, <2>1 DEF RosterInv, Told, Telling, Bounds
  <2>4. Awaited' /\ RosterGivesWay'
    BY <1>5, <2>1 DEF Awaited, RosterGivesWay
  <2> QED
    BY <1>3, <2>2, <2>3, <2>4 DEF RosterInv
<1>9. CASE Expire
  <2>1. /\ UNCHANGED <<version, reads, selected, roster>> /\ asked' = 0
        /\ unanswered' = (unanswered \/ selected)
    BY <1>9 DEF Expire
  <2>2. RosterTypes'
    BY <1>1, <2>1 DEF RosterInv, RosterTypes
  <2>3. Told' /\ Bounds'
    BY <1>1, <1>3, <2>1 DEF RosterInv, Told, Telling, Bounds
  <2>4. Awaited' /\ RosterGivesWay'
    BY <1>1, <1>3, <2>1 DEF RosterInv, RosterTypes, Awaited, RosterGivesWay
  <2> QED
    BY <1>3, <2>2, <2>3, <2>4 DEF RosterInv
<1> QED
  BY <1>6, <1>7, <1>8, <1>9

LEMMA ReadMetadataKept ==
    ASSUME RosterInv, NEW j \in reads, ReadMetadata(j)
    PROVE  RosterInv'
<1> DEFINE k == [j EXCEPT !.step = "resolving", !.v = version]
<1>1. /\ j.step = "asking" /\ reads' = (reads \ {j}) \cup {k}
      /\ UNCHANGED <<version, stamp, newest, pushed, answered, selected, asked, known, roster,
                     unanswered, missed, happened>>
  BY DEF ReadMetadata, frameVars, shellVars
<1>2. k \in ReadType /\ k.id = j.id /\ k.step = "resolving" /\ k.v = version
  BY DEF RosterInv, RosterTypes, ReadType
<1>3. /\ Sent' = Sent /\ FramesGiveWay'
      /\ \A n \in Nat : Overtaking(n)' <=> Overtaking(n)
  BY <1>1, StillGivesWay DEF frameVars
<1> HIDE DEF k
<1>4. RosterTypes'
  BY <1>1, <1>2 DEF RosterInv, RosterTypes
<1>5. Telling => Telling'
  <2> SUFFICES ASSUME NEW i \in reads, i.id = 0, i.step = "asking" \/ i.v = version
               PROVE  Telling'
    BY DEF Telling
  <2>1. CASE i = j
    BY <1>1, <1>2, <2>1 DEF Telling
  <2>2. CASE i # j
    BY <1>1, <2>2 DEF Telling
  <2> QED
    BY <2>1, <2>2
<1>6. Bounds'
  <2>1. ASSUME NEW i \in reads', i.step = "resolving" PROVE i.v <= version'
    <3>1. CASE i = k
      BY <1>1, <1>2, <3>1 DEF RosterInv, RosterTypes
    <3>2. CASE i # k
      BY <1>1, <2>1, <3>2 DEF RosterInv, Bounds
    <3> QED
      BY <3>1, <3>2
  <2> QED
    BY <1>1, <1>3, <2>1 DEF RosterInv, Bounds
<1>7. Told' /\ Awaited' /\ RosterGivesWay'
  BY <1>1, <1>3, <1>5 DEF RosterInv, RosterTypes, Told, Awaited, RosterGivesWay
<1> QED
  BY <1>3, <1>4, <1>6, <1>7 DEF RosterInv

\* A frame is stamped: it gives way to none, and older ones give way to it.
LEMMA StampedKept ==
    ASSUME RosterInv, NEW j \in reads, NEW ok \in BOOLEAN, ok => j.v <= version,
           reads' = reads \ {j}, stamp' = stamp + 1,
           newest' = IF ok /\ j.v > newest THEN j.v ELSE newest,
           \/ pushed' = Append(pushed, Frame(j, ok)) /\ answered' = answered
           \/ answered' = Append(answered, Frame(j, ok)) /\ pushed' = pushed,
           UNCHANGED <<version, shellVars, missed, happened>>,
           ok \/ j.id # 0, j.id = 0 => j.step = "resolving"
    PROVE  RosterInv'
<1> DEFINE f == Frame(j, ok)
<1>1. /\ version' = version /\ selected' = selected /\ asked' = asked /\ known' = known
      /\ roster' = roster /\ unanswered' = unanswered /\ missed' = missed
      /\ happened' = happened
  BY DEF shellVars
<1>2. /\ j.v \in Nat /\ j.id \in Nat /\ version \in Nat /\ newest \in Nat /\ stamp \in Nat
      /\ known \in Nat /\ known <= stamp /\ newest <= version
  BY DEF RosterInv, RosterTypes, ReadType, Bounds
<1>3. /\ f \in RosterFrame /\ f.seq = stamp + 1 /\ f.v = j.v /\ f.ok = ok
      /\ f.late = (j.v < newest)
  BY <1>2 DEF Frame, RosterFrame
<1> HIDE DEF f
<1>4. /\ pushed' \in Seq(RosterFrame) /\ answered' \in Seq(RosterFrame)
      /\ Sent' = Sent \cup {f}
  <2>1. pushed \in Seq(RosterFrame) /\ answered \in Seq(RosterFrame)
    BY DEF RosterInv, RosterTypes
  <2>2. /\ Append(pushed, f) \in Seq(RosterFrame)
        /\ Members(Append(pushed, f)) = Members(pushed) \cup {f}
    BY <1>3, <2>1, MembersAppended
  <2>3. /\ Append(answered, f) \in Seq(RosterFrame)
        /\ Members(Append(answered, f)) = Members(answered) \cup {f}
    BY <1>3, <2>1, MembersAppended
  <2>4. CASE pushed' = Append(pushed, f) /\ answered' = answered
    BY <2>1, <2>2, <2>4, SMTT(60) DEF Sent, Members
  <2>5. CASE answered' = Append(answered, f) /\ pushed' = pushed
    BY <2>1, <2>3, <2>5 DEF Sent, Members
  <2> QED
    BY <2>4, <2>5 DEF f
<1>5. /\ newest' \in Nat /\ newest <= newest' /\ newest' <= version'
      /\ newest' = newest \/ (ok /\ newest' = j.v)
      /\ ok => j.v <= newest'
  BY <1>1, <1>2
<1>6. \A g \in Sent : g.seq \in Nat /\ g.v \in Nat /\ g.seq <= stamp /\ (g.ok => g.v <= newest)
  <2>1. pushed \in Seq(RosterFrame) /\ answered \in Seq(RosterFrame)
    BY DEF RosterInv, RosterTypes
  <2>2. Sent \subseteq RosterFrame
    BY <2>1 DEF Sent, Members
  <2> QED
    BY <2>2 DEF RosterInv, Bounds, RosterFrame
<1>7. RosterTypes'
  BY <1>1, <1>2, <1>4, <1>5 DEF RosterInv, RosterTypes
<1>8. Bounds'
  <2>1. known' <= stamp' /\ newest' <= version'
    BY <1>1, <1>2, <1>5
  <2>2. \A i \in reads' : i.step = "resolving" => i.v <= version'
    BY <1>1 DEF RosterInv, Bounds
  <2>3. ASSUME NEW g \in Sent' PROVE g.seq <= stamp' /\ (g.ok => g.v <= newest')
    <3>1. CASE g \in Sent
      BY <1>2, <1>5, <1>6, <3>1
    <3>2. CASE g = f
      BY <1>2, <1>3, <1>5, <3>2
    <3> QED
      BY <1>4, <2>3, <3>1, <3>2
  <2>4. roster'.shown => selected' /\ (~roster'.error => roster'.v <= newest')
    BY <1>1, <1>2, <1>5 DEF RosterInv, RosterTypes, Bounds
  <2> QED
    BY <2>1, <2>2, <2>3, <2>4 DEF Bounds
<1>9. Told'
  <2>1. CASE missed \/ newest = version
    BY <1>1, <1>2, <1>5, <2>1 DEF Told
  <2>2. CASE Telling
    <3>1. PICK i \in reads : i.id = 0 /\ (i.step = "asking" \/ i.v = version)
      BY <2>2 DEF Telling
    <3>2. CASE i = j
      <4>1. ok /\ j.v = version
        BY <3>1, <3>2
      <4> QED
        BY <1>1, <1>2, <1>5, <4>1 DEF Told
    <3>3. CASE i # j
      BY <1>1, <3>1, <3>3 DEF Told, Telling
    <3> QED
      BY <3>2, <3>3
  <2> QED
    BY <2>1, <2>2 DEF RosterInv, Told
<1>10. Awaited'
  BY <1>1 DEF RosterInv, Awaited
\* What the newest stamp overtakes.
<1>11. \A n \in Nat : n <= stamp =>
          ((newest' = newest /\ Overtaking(n)) \/ newest' # newest => Overtaking(n)')
  <2> SUFFICES ASSUME NEW n \in Nat, n <= stamp,
                      (newest' = newest /\ Overtaking(n)) \/ newest' # newest
               PROVE  Overtaking(n)'
    OBVIOUS
  <2>1. CASE newest' = newest /\ Overtaking(n)
    BY <1>4, <2>1 DEF Overtaking
  <2>2. CASE newest' # newest
    <3>1. f \in Sent' /\ f.ok /\ f.v = newest' /\ f.seq > n
      BY <1>2, <1>3, <1>4, <1>5, <2>2
    <3> QED
      BY <3>1 DEF Overtaking
  <2> QED
    BY <2>1, <2>2
<1>12. FramesGiveWay'
  <2> SUFFICES ASSUME NEW g \in Sent', g.ok, ~g.late, g.v < newest'
               PROVE  g.seq <= known' \/ Overtaking(g.seq)'
    BY DEF FramesGiveWay
  <2>1. CASE g \in Sent
    <3>1. g.seq \in Nat /\ g.seq <= stamp
      BY <1>6, <2>1
    <3>2. CASE newest' = newest
      <4>1. g.seq <= known \/ Overtaking(g.seq)
        BY <2>1, <3>2 DEF RosterInv, FramesGiveWay
      <4> QED
        BY <1>1, <1>11, <3>1, <3>2, <4>1
    <3>3. CASE newest' # newest
      BY <1>11, <3>1, <3>3
    <3> QED
      BY <3>2, <3>3
  <2>2. CASE g = f
    <3>1. ok /\ ~(j.v < newest) /\ j.v < newest'
      BY <1>3, <2>2
    <3> QED
      BY <1>2, <1>5, <3>1
  <2> QED
    BY <1>4, <2>1, <2>2
<1>13. RosterGivesWay'
  <2> SUFFICES ASSUME roster.shown, ~roster.error, ~roster.late, roster.v < newest'
               PROVE  Overtaking(known)'
    BY <1>1 DEF RosterGivesWay
  <2>1. CASE newest' = newest
    BY <1>1, <1>2, <1>11, <2>1 DEF RosterInv, RosterGivesWay, Overtaking
  <2>2. CASE newest' # newest
    BY <1>1, <1>2, <1>11, <2>2 DEF Overtaking
  <2> QED
    BY <2>1, <2>2
<1> QED
  BY <1>7, <1>8, <1>9, <1>10, <1>12, <1>13 DEF RosterInv

LEMMA ReadEnds ==
    ASSUME RosterInv, NEW j \in reads, Publish(j) \/ Fail(j)
    PROVE  RosterInv'
<1>1. CASE Publish(j)
  <2>1. /\ j.step = "resolving" /\ j.v <= version /\ TRUE \in BOOLEAN
        /\ reads' = reads \ {j} /\ stamp' = stamp + 1
        /\ newest' = IF j.v > newest THEN j.v ELSE newest
        /\ \/ pushed' = Append(pushed, Frame(j, TRUE)) /\ answered' = answered
           \/ answered' = Append(answered, Frame(j, TRUE)) /\ pushed' = pushed
        /\ UNCHANGED <<version, shellVars, missed, happened>>
    BY <1>1 DEF Publish, RosterInv, Bounds
  <2> QED
    BY <2>1, StampedKept
<1>2. CASE Fail(j) /\ j.id # 0
  <2>1. /\ FALSE \in BOOLEAN /\ reads' = reads \ {j} /\ stamp' = stamp + 1
        /\ newest' = newest
        /\ answered' = Append(answered, Frame(j, FALSE)) /\ pushed' = pushed
        /\ UNCHANGED <<version, shellVars, missed, happened>>
    BY <1>2 DEF Fail
  <2> QED
    BY <1>2, <2>1, StampedKept
<1>3. CASE Fail(j) /\ j.id = 0
  <2>1. /\ reads' = reads \ {j} /\ missed' = TRUE
        /\ UNCHANGED <<version, stamp, newest, pushed, answered, selected, asked, known, roster,
                       unanswered, happened>>
    BY <1>3 DEF Fail, shellVars
  <2>2. /\ Sent' = Sent /\ FramesGiveWay'
        /\ \A n \in Nat : Overtaking(n)' <=> Overtaking(n)
    BY <2>1, StillGivesWay DEF frameVars
  <2>3. RosterTypes' /\ Told'
    BY <2>1 DEF RosterInv, RosterTypes, Told
  <2>4. Bounds' /\ Awaited' /\ RosterGivesWay'
    BY <2>1, <2>2 DEF RosterInv, RosterTypes, Bounds, Awaited, RosterGivesWay
  <2> QED
    BY <2>2, <2>3, <2>4 DEF RosterInv
<1> QED
  BY <1>1, <1>2, <1>3

\* The shell takes a frame or refuses it: what it refuses is older than what it
\* took, and what it takes is the newest, late, or followed by the newest.
LEMMA ReceiveKept ==
    ASSUME RosterInv, NEW f \in RosterFrame, Receive(f), Sent = Sent' \cup {f},
           pushed' \in Seq(RosterFrame), answered' \in Seq(RosterFrame)
    PROVE  RosterInv'
<1>1. UNCHANGED <<version, reads, stamp, newest, selected, happened>>
  BY DEF Receive
<1>2. /\ f.seq \in Nat /\ f.id \in Nat /\ f.v \in Nat /\ f.ok \in BOOLEAN /\ f.late \in BOOLEAN
      /\ known \in Nat /\ stamp \in Nat /\ known <= stamp /\ newest \in Nat /\ asked \in Nat
      /\ f \in Sent /\ f.seq <= stamp /\ (f.ok => f.v <= newest) /\ Sent' \subseteq Sent
      /\ version \in Nat /\ newest <= version
  BY DEF RosterFrame, RosterInv, RosterTypes, Bounds
<1>3. /\ asked' \in Nat /\ known' \in Nat /\ known <= known' /\ known' <= stamp
      /\ f.ok => f.seq <= known'
      /\ known' = known \/ (f.ok /\ f.seq > known /\ known' = f.seq)
  BY <1>2 DEF Receive, Accepts
<1>4. \A n \in Nat : Overtaking(n) => Overtaking(n)' \/ (f.ok /\ f.seq > n)
  BY <1>1 DEF Overtaking
<1>5. Sent' \subseteq RosterFrame
  BY DEF Sent, Members
<1>6. CASE Accepts(f) /\ selected /\ (f.ok \/ IsAnswer(f))
  <2>1. /\ roster' = [shown |-> TRUE, v |-> f.v, error |-> ~f.ok, late |-> f.late]
        /\ missed' = (missed /\ (~f.ok \/ f.v # version)) /\ unanswered' = FALSE
    BY <1>6 DEF Receive
  <2>2. RosterTypes'
    BY <1>1, <1>2, <1>3, <2>1 DEF RosterInv, RosterTypes
  <2>3. Bounds'
    BY <1>1, <1>2, <1>3, <1>6, <2>1 DEF RosterInv, Bounds
  <2>4. Told'
    <3>1. CASE missed' = missed
      BY <1>1, <3>1 DEF RosterInv, Told, Telling
    <3>2. CASE f.ok /\ f.v = version
      BY <1>1, <1>2, <3>2 DEF Told
    <3> QED
      BY <1>2, <2>1, <3>1, <3>2 DEF RosterInv, RosterTypes
  <2>5. Awaited'
    BY <2>1 DEF Awaited
  <2>6. RosterGivesWay'
    <3> SUFFICES ASSUME f.ok, ~f.late, f.v < newest PROVE Overtaking(known)'
      BY <1>1, <2>1 DEF RosterGivesWay
    <3>1. f.seq > known /\ known' = f.seq
      BY <1>6 DEF Accepts, Receive
    <3>2. Overtaking(f.seq)
      BY <1>2, <3>1 DEF RosterInv, FramesGiveWay
    <3>3. Overtaking(f.seq)'
      BY <1>2, <1>4, <3>2
    <3> QED
      BY <3>1, <3>3 DEF Overtaking
  <2>7. FramesGiveWay'
    <3> SUFFICES ASSUME NEW g \in Sent', g.ok, ~g.late, g.v < newest
                 PROVE  g.seq <= known' \/ Overtaking(g.seq)'
      BY <1>1 DEF FramesGiveWay
    <3>1. g \in Sent /\ g.seq \in Nat
      BY <1>2, <1>5 DEF RosterFrame
    <3>2. g.seq <= known \/ Overtaking(g.seq)
      BY <3>1 DEF RosterInv, FramesGiveWay
    <3> QED
      BY <1>2, <1>3, <1>4, <3>1, <3>2
  <2> QED
    BY <2>2, <2>3, <2>4, <2>5, <2>6, <2>7 DEF RosterInv
<1>7. CASE ~(Accepts(f) /\ selected /\ (f.ok \/ IsAnswer(f)))
  <2>1. /\ roster' = roster /\ missed' = missed
        /\ unanswered' = (unanswered \/ (~Accepts(f) /\ IsAnswer(f) /\ selected))
        /\ asked' = IF IsAnswer(f) THEN 0 ELSE asked
    BY <1>7 DEF Receive
  <2>2. RosterTypes'
    BY <1>1, <1>3, <2>1 DEF RosterInv, RosterTypes
  <2>3. Bounds' /\ Told'
    BY <1>1, <1>2, <1>3, <2>1 DEF RosterInv, Bounds, Told, Telling
  <2>4. Awaited'
    <3>1. selected /\ IsAnswer(f) => unanswered'
      BY <1>7, <2>1
    <3> QED
      BY <1>1, <2>1, <3>1 DEF RosterInv, Awaited
  <2>5. RosterGivesWay'
    <3> SUFFICES ASSUME roster.shown, ~roster.error, ~roster.late, roster.v < newest
                 PROVE  Overtaking(known)'
      BY <1>1, <2>1 DEF RosterGivesWay
    <3>1. selected /\ Overtaking(known)
      BY DEF RosterInv, Bounds, RosterGivesWay
    <3>2. ~(f.ok /\ f.seq > known)
      BY <1>7, <3>1 DEF Accepts
    <3>3. known' = known
      BY <1>3, <3>2
    <3> QED
      BY <1>2, <1>4, <3>1, <3>2, <3>3 DEF Overtaking
  <2>6. FramesGiveWay'
    <3> SUFFICES ASSUME NEW g \in Sent', g.ok, ~g.late, g.v < newest
                 PROVE  g.seq <= known' \/ Overtaking(g.seq)'
      BY <1>1 DEF FramesGiveWay
    <3>1. g \in Sent /\ g.seq \in Nat
      BY <1>2, <1>5 DEF RosterFrame
    <3>2. g.seq <= known \/ Overtaking(g.seq)
      BY <3>1 DEF RosterInv, FramesGiveWay
    <3> QED
      BY <1>2, <1>3, <1>4, <3>1, <3>2
  <2> QED
    BY <2>2, <2>3, <2>4, <2>5, <2>6 DEF RosterInv
<1> QED
  BY <1>6, <1>7

LEMMA DeliverKept ==
    ASSUME RosterInv, Deliver
    PROVE  RosterInv'
<1>1. pushed \in Seq(RosterFrame) /\ answered \in Seq(RosterFrame)
  BY DEF RosterInv, RosterTypes
<1>2. CASE pushed # <<>> /\ Receive(Head(pushed)) /\ pushed' = Tail(pushed) /\ answered' = answered
  <2>1. /\ Tail(pushed) \in Seq(RosterFrame) /\ Head(pushed) \in RosterFrame
        /\ Members(pushed) = Members(Tail(pushed)) \cup {Head(pushed)}
    BY <1>1, <1>2, MembersTaken
  <2>2. Sent = Sent' \cup {Head(pushed)}
    BY <1>2, <2>1 DEF Sent, Members
  <2> QED
    BY <1>1, <1>2, <2>1, <2>2, ReceiveKept
<1>3. CASE answered # <<>> /\ Receive(Head(answered)) /\ answered' = Tail(answered) /\ pushed' = pushed
  <2>1. /\ Tail(answered) \in Seq(RosterFrame) /\ Head(answered) \in RosterFrame
        /\ Members(answered) = Members(Tail(answered)) \cup {Head(answered)}
    BY <1>1, <1>3, MembersTaken
  <2>2. Sent = Sent' \cup {Head(answered)}
    BY <1>3, <2>1 DEF Sent, Members
  <2> QED
    BY <1>1, <1>3, <2>1, <2>2, ReceiveKept
<1> QED
  BY <1>2, <1>3 DEF Deliver

LEMMA RosterInvHolds == RosterSpec => []RosterInv
<1>1. RosterInit => RosterInv
  <2> SUFFICES ASSUME RosterInit PROVE RosterInv
    OBVIOUS
  <2>1. /\ version = 0 /\ reads = {} /\ stamp = 0 /\ newest = 0 /\ pushed = <<>>
        /\ answered = <<>> /\ selected = FALSE /\ asked = 0 /\ known = 0
        /\ roster = NoRoster /\ missed = FALSE /\ unanswered = FALSE /\ happened = 0
    BY DEF RosterInit
  <2>2. RosterTypes
    <3>1. <<>> \in Seq(RosterFrame)
      OBVIOUS
    <3>2. roster \in [shown : BOOLEAN, v : Nat, error : BOOLEAN, late : BOOLEAN]
      BY <2>1 DEF NoRoster
    <3> QED
      BY <2>1, <3>1, <3>2 DEF RosterTypes
  <2>3. Sent = {}
    BY <2>1 DEF Sent, Members
  <2>4. ~roster.shown
    BY <2>1 DEF NoRoster
  <2> QED
    BY <2>1, <2>2, <2>3, <2>4
       DEF RosterInv, Bounds, Told, Awaited, FramesGiveWay, RosterGivesWay
<1>2. RosterInv /\ [RosterNext]_rosterVars => RosterInv'
  <2> SUFFICES ASSUME RosterInv, [RosterNext]_rosterVars PROVE RosterInv'
    OBVIOUS
  <2>1. CASE UNCHANGED rosterVars
    <3>1. UNCHANGED <<version, reads, stamp, newest, pushed, answered, selected, asked, known,
                      roster, missed, unanswered, happened>>
      BY <2>1 DEF rosterVars
    <3>2. /\ Sent' = Sent /\ FramesGiveWay'
          /\ \A n \in Nat : Overtaking(n)' <=> Overtaking(n)
      BY <3>1, StillGivesWay DEF frameVars
    <3>3. RosterTypes' /\ Told'
      BY <3>1 DEF RosterInv, RosterTypes, Told, Telling
    <3> QED
      BY <3>1, <3>2, <3>3 DEF RosterInv, RosterTypes, Bounds, Awaited, RosterGivesWay
  <2>2. CASE RosterNext
    BY <2>2, ShellKept, ReadMetadataKept, ReadEnds, DeliverKept DEF RosterNext
  <2> QED
    BY <2>1, <2>2
<1> QED
  BY <1>1, <1>2, PTL DEF RosterSpec

\* Once nothing is under way, the shell shows the present members of the selected
\* group or says why it cannot: they are older only past an event's read that
\* failed or that an older read overtook, and absent only past an answer given up
\* or refused (process_group_event, GetGroupParticipants, acceptFrame), for any
\* number of changes, selections and reads at one time.
THEOREM RosterFollows == RosterSpec => []RosterIsCurrent
<1>1. RosterInv => RosterIsCurrent
  <2> SUFFICES ASSUME RosterInv, reads = {}, pushed = <<>>, answered = <<>>, selected,
                      asked = 0
               PROVE  IF roster.shown
                      THEN roster.error \/ roster.v = version \/ roster.late \/ missed
                      ELSE unanswered
    BY DEF RosterIsCurrent
  <2>1. Sent = {}
    BY DEF Sent, Members
  <2>2. CASE ~roster.shown
    BY <2>2 DEF RosterInv, Awaited
  <2>3. CASE roster.shown
    <3> SUFFICES ASSUME ~roster.error, ~roster.late, ~missed
                 PROVE  roster.v = version
      BY <2>3
    <3>1. ~(roster.v < newest)
      BY <2>1, <2>3 DEF RosterInv, RosterGivesWay, Overtaking
    <3>2. roster.v <= newest /\ roster.v \in Nat /\ newest \in Nat
      BY <2>3 DEF RosterInv, RosterTypes, Bounds
    <3>3. newest = version
      BY DEF RosterInv, Told, Telling
    <3> QED
      BY <3>1, <3>2, <3>3
  <2> QED
    BY <2>2, <2>3
<1> QED
  BY <1>1, RosterInvHolds, PTL

(* -------------------------------- ChatList --------------------------------- *)

\* R orders the members of S strictly and totally.
OrdersAll(R, S) ==
    /\ \A i \in S : <<i, i>> \notin R
    /\ \A i, j, k \in S : <<i, j>> \in R /\ <<j, k>> \in R => <<i, k>> \in R
    /\ \A i, j \in S : i = j \/ <<i, j>> \in R \/ <<j, i>> \in R

\* The members of S before i, and the place this gives each member.
Under(R, S, i) == {j \in S : <<j, i>> \in R}
Ranks(R, S) == [i \in S |-> Cardinality(Under(R, S, i))]

LEMMA RanksGrow ==
    ASSUME NEW S, IsFiniteSet(S), NEW R, OrdersAll(R, S), NEW i \in S, NEW j \in S,
           <<i, j>> \in R
    PROVE  Ranks(R, S)[i] < Ranks(R, S)[j]
<1>1. Under(R, S, i) \subseteq Under(R, S, j)
  BY DEF OrdersAll, Under
<1>2. i \in Under(R, S, j) /\ i \notin Under(R, S, i)
  BY DEF OrdersAll, Under
<1>3. IsFiniteSet(Under(R, S, j))
  BY FS_Subset DEF Under
<1>4. /\ Cardinality(Under(R, S, i)) <= Cardinality(Under(R, S, j))
      /\ Cardinality(Under(R, S, i)) # Cardinality(Under(R, S, j))
  BY <1>1, <1>2, <1>3, FS_Subset
<1>5. Cardinality(Under(R, S, i)) \in Nat /\ Cardinality(Under(R, S, j)) \in Nat
  BY <1>1, <1>3, FS_Subset, FS_CardinalityType
<1> QED
  BY <1>4, <1>5 DEF Ranks

LEMMA RanksFill ==
    ASSUME NEW S, IsFiniteSet(S), NEW R, OrdersAll(R, S)
    PROVE  /\ Cardinality(S) \in Nat
           /\ Ranks(R, S) \in [S -> 0..(Cardinality(S) - 1)]
           /\ \A i, j \in S : Ranks(R, S)[i] = Ranks(R, S)[j] => i = j
           /\ \A k \in 0..(Cardinality(S) - 1) : \E i \in S : Ranks(R, S)[i] = k
<1>1. Cardinality(S) \in Nat
  BY FS_CardinalityType
<1> DEFINE P == Ranks(R, S)
           T == 0..(Cardinality(S) - 1)
<1>2. \A i \in S : Cardinality(Under(R, S, i)) \in T
  <2> SUFFICES ASSUME NEW i \in S PROVE Cardinality(Under(R, S, i)) \in T
    OBVIOUS
  <2>1. Under(R, S, i) \subseteq S /\ Under(R, S, i) # S
    BY DEF Under, OrdersAll
  <2>2. /\ IsFiniteSet(Under(R, S, i))
        /\ Cardinality(Under(R, S, i)) <= Cardinality(S)
        /\ Cardinality(Under(R, S, i)) # Cardinality(S)
    BY <2>1, FS_Subset
  <2>3. Cardinality(Under(R, S, i)) \in Nat
    BY <2>2, FS_CardinalityType
  <2> QED
    BY <1>1, <2>2, <2>3
<1>3. P \in [S -> T]
  BY <1>2 DEF Ranks
<1>4. \A i, j \in S : P[i] = P[j] => i = j
  <2> SUFFICES ASSUME NEW i \in S, NEW j \in S, P[i] = P[j], i # j PROVE FALSE
    OBVIOUS
  <2>1. <<i, j>> \in R \/ <<j, i>> \in R
    BY DEF OrdersAll
  <2>2. P[i] < P[j] \/ P[j] < P[i]
    BY <2>1, RanksGrow
  <2>3. P[i] \in Nat /\ P[j] \in Nat
    BY <1>1, <1>3
  <2> QED
    BY <2>2, <2>3
<1>5. IsFiniteSet(T) /\ Cardinality(T) = Cardinality(S)
  <2>1. Cardinality(S) - 1 \in Int
    BY <1>1
  <2>2. /\ IsFiniteSet(T)
        /\ Cardinality(T) = IF 0 > Cardinality(S) - 1 THEN 0 ELSE Cardinality(S) - 1 - 0 + 1
    BY <2>1, FS_Interval
  <2> QED
    BY <1>1, <2>2
<1>6. P \in Injection(S, T)
  BY <1>3, <1>4 DEF Injection, IsInjective
<1>7. P \in Surjection(S, T)
  BY <1>5, <1>6, FS_Injection
<1>8. \A k \in T : \E i \in S : P[i] = k
  BY <1>7 DEF Surjection
<1> QED
  BY <1>1, <1>3, <1>4, <1>8


LEMMA LeastNumber ==
    ASSUME NEW B \in SUBSET Nat, B # {}
    PROVE  \E m \in B : \A k \in B : m <= k
<1>1. PICK x \in B : TRUE
  OBVIOUS
<1> DEFINE C == {k \in B : k <= x}
           R == {p \in Nat \X Nat : p[1] < p[2]}
<1>2. C \in SUBSET Nat /\ x \in Nat /\ \A k \in C : k <= x
  BY <1>1
<1> HIDE DEF C
<1>3. IsFiniteSet(C)
  BY <1>2, FS_BoundedSetOfNaturals
<1>4. \A i, j \in Nat : <<i, j>> \in R <=> i < j
  OBVIOUS
<1> HIDE DEF R
<1>5. OrdersAll(R, C)
  <2>1. \A i, j, k \in Nat : /\ ~(i < i)
                             /\ i < j /\ j < k => i < k
                             /\ i = j \/ i < j \/ j < i
    OBVIOUS
  <2> QED
    BY <1>2, <1>4, <2>1 DEF OrdersAll
<1>6. x \in C
  BY <1>1 DEF C
<1>7. Cardinality(C) \in Nat /\ Cardinality(C) # 0
  BY <1>3, <1>6, FS_CardinalityType, FS_EmptySet
<1>8. 0 \in 0..(Cardinality(C) - 1)
  BY <1>7
<1>9. PICK m \in C : Ranks(R, C)[m] = 0
  BY <1>3, <1>5, <1>8, RanksFill
<1>10. \A k \in C : ~(k < m)
  <2> SUFFICES ASSUME NEW k \in C, k < m PROVE FALSE
    OBVIOUS
  <2>1. <<k, m>> \in R
    BY <1>2, <1>4
  <2>2. Ranks(R, C)[k] < Ranks(R, C)[m]
    BY <1>3, <1>5, <2>1, RanksGrow
  <2>3. Ranks(R, C)[k] \in 0..(Cardinality(C) - 1)
    BY <1>3, <1>5, RanksFill
  <2> QED
    BY <1>7, <1>9, <2>2, <2>3
<1>11. m \in B /\ m <= x
  BY <1>2 DEF C
<1>12. \A k \in B : m <= k
  <2> SUFFICES ASSUME NEW k \in B PROVE m <= k
    OBVIOUS
  <2>1. CASE k <= x
    <3>1. k \in C
      BY <2>1 DEF C
    <3> QED
      BY <1>2, <1>10, <3>1
  <2>2. CASE ~(k <= x)
    BY <1>2, <1>11, <2>2
  <2> QED
    BY <2>1, <2>2
<1> QED
  BY <1>11, <1>12

\* Of the subsets of a finite set that belong to W, one has the fewest members.
LEMMA SmallestSubset ==
    ASSUME NEW S, IsFiniteSet(S), NEW W \in SUBSET (SUBSET S), W # {}
    PROVE  \E T \in W : \A U \in W : Cardinality(T) <= Cardinality(U)
<1> DEFINE B == {Cardinality(T) : T \in W}
<1>1. B \in SUBSET Nat /\ B # {}
  <2>1. \A T \in W : Cardinality(T) \in Nat
    BY FS_Subset, FS_CardinalityType
  <2> QED
    BY <2>1
<1>2. PICK n \in B : \A k \in B : n <= k
  BY <1>1, LeastNumber
<1> QED
  BY <1>2

LEMMA OneFewer ==
    ASSUME NEW S, IsFiniteSet(S), NEW T \in SUBSET S, NEW x \in T
    PROVE  /\ Cardinality(T) \in Nat /\ Cardinality(T \ {x}) \in Nat
           /\ Cardinality(T \ {x}) = Cardinality(T) - 1
           /\ Cardinality(T \ {x}) < Cardinality(T)
<1>1. IsFiniteSet(T) /\ IsFiniteSet(T \ {x})
  BY FS_Subset
<1>2. Cardinality(T) \in Nat /\ Cardinality(T \ {x}) \in Nat
  BY <1>1, FS_CardinalityType
<1>3. Cardinality(T \ {x}) = Cardinality(T) - 1
  BY <1>1, FS_RemoveElement
<1> QED
  BY <1>2, <1>3

-----------------------------------------------------------------------------
\* The step of SumOf's recursion.
SumStep(f, T) == IF T = {} THEN 0
                 ELSE LET c == CHOOSE c \in T : TRUE IN Badge(c) + f[T \ {c}]
Sums(f, S) == f = [T \in SUBSET S |-> SumStep(f, T)]

LEMMA SumsAgree ==
    ASSUME NEW S, IsFiniteSet(S), NEW f, Sums(f, S), NEW V, NEW g, Sums(g, V),
           NEW T \in SUBSET S, T \in SUBSET V
    PROVE  f[T] = g[T]
<1> DEFINE W == {U \in SUBSET S : U \in SUBSET V /\ f[U] # g[U]}
<1> SUFFICES ASSUME W # {} PROVE FALSE
  OBVIOUS
<1>1. PICK U \in W : \A X \in W : Cardinality(U) <= Cardinality(X)
  <2>1. W \in SUBSET (SUBSET S)
    OBVIOUS
  <2> HIDE DEF W
  <2> QED
    BY <2>1, SmallestSubset
<1>2. U \in SUBSET S /\ U \in SUBSET V /\ f[U] # g[U]
  OBVIOUS
<1>3. f[U] = SumStep(f, U) /\ g[U] = SumStep(g, U)
  BY <1>2 DEF Sums
<1>4. CASE U = {}
  BY <1>2, <1>3, <1>4 DEF SumStep
<1>5. CASE U # {}
  <2> DEFINE c == CHOOSE c \in U : TRUE
             X == U \ {c}
  <2>1. c \in U
    BY <1>5
  <2>2. f[U] = Badge(c) + f[X] /\ g[U] = Badge(c) + g[X]
    BY <1>3, <1>5 DEF SumStep
  <2>3. X \in SUBSET S /\ X \in SUBSET V /\ f[X] # g[X]
    BY <1>2, <2>2
  <2>4. Cardinality(X) < Cardinality(U) /\ Cardinality(X) \in Nat /\ Cardinality(U) \in Nat
    BY <1>2, <2>1, OneFewer
  <2>5. Cardinality(U) <= Cardinality(X)
    BY <1>1, <2>3
  <2> QED
    BY <2>4, <2>5
<1> QED
  BY <1>4, <1>5

LEMMA SumsExist ==
    ASSUME NEW S, IsFiniteSet(S), \A c \in S : Badge(c) \in Nat
    PROVE  \E f \in [SUBSET S -> Nat] : Sums(f, S)
<1> DEFINE Good(f, n) == \A T \in SUBSET S : Cardinality(T) <= n => f[T] = SumStep(f, T)
           Bad == {n \in Nat : ~\E f \in [SUBSET S -> Nat] : Good(f, n)}
<1>1. \A T \in SUBSET S : IsFiniteSet(T) /\ Cardinality(T) \in Nat /\ Cardinality(T) <= Cardinality(S)
  BY FS_Subset, FS_CardinalityType
<1>2. Bad = {}
  <2> SUFFICES ASSUME Bad # {} PROVE FALSE
    OBVIOUS
  <2>1. PICK n \in Bad : \A k \in Bad : n <= k
    BY LeastNumber
  <2>2. n \in Nat /\ ~\E f \in [SUBSET S -> Nat] : Good(f, n)
    OBVIOUS
  <2>5. \A k \in Nat : k \notin Bad => \E f \in [SUBSET S -> Nat] : Good(f, k)
    OBVIOUS
  <2> HIDE DEF Bad
  <2>3. CASE n = 0
    <3> DEFINE f == [T \in SUBSET S |-> 0]
    <3>1. f \in [SUBSET S -> Nat]
      OBVIOUS
    <3>2. Good(f, 0)
      <4> SUFFICES ASSUME NEW T \in SUBSET S, Cardinality(T) <= 0 PROVE f[T] = SumStep(f, T)
        OBVIOUS
      <4>1. Cardinality(T) = 0
        BY <1>1
      <4>2. T = {}
        BY <1>1, <4>1, FS_EmptySet
      <4> QED
        BY <4>2 DEF SumStep
    <3> QED
      BY <2>2, <2>3, <3>1, <3>2
  <2>4. CASE n # 0
    <3>1. n - 1 \in Nat /\ n - 1 \notin Bad
      <4>1. n \in Nat /\ ~(n <= n - 1) /\ n - 1 \in Nat
        BY <2>2, <2>4
      <4> QED
        BY <2>1, <4>1
    <3>2. PICK f \in [SUBSET S -> Nat] : Good(f, n - 1)
      BY <2>5, <3>1
    <3> DEFINE g == [T \in SUBSET S |-> SumStep(f, T)]
    <3>3. \A T \in SUBSET S : T # {} =>
             LET c == CHOOSE c \in T : TRUE
             IN  c \in T /\ T \ {c} \in SUBSET S /\ Badge(c) \in Nat
      OBVIOUS
    <3>4. \A T \in SUBSET S : SumStep(f, T) \in Nat
      <4> SUFFICES ASSUME NEW T \in SUBSET S PROVE SumStep(f, T) \in Nat
        OBVIOUS
      <4>1. CASE T = {}
        BY <4>1 DEF SumStep
      <4>2. CASE T # {}
        <5> DEFINE c == CHOOSE c \in T : TRUE
        <5>1. T \ {c} \in SUBSET S /\ Badge(c) \in Nat
          BY <3>3, <4>2
        <5>2. SumStep(f, T) = Badge(c) + f[T \ {c}]
          BY <4>2 DEF SumStep
        <5> HIDE DEF c
        <5>3. f[T \ {c}] \in Nat
          BY <5>1
        <5> QED
          BY <5>1, <5>2, <5>3
      <4> QED
        BY <4>1, <4>2
    <3>5. g \in [SUBSET S -> Nat]
      BY <3>4
    <3>6. Good(g, n)
      <4> SUFFICES ASSUME NEW T \in SUBSET S, Cardinality(T) <= n PROVE g[T] = SumStep(g, T)
        OBVIOUS
      <4>1. g[T] = SumStep(f, T)
        OBVIOUS
      <4>2. CASE T = {}
        BY <4>1, <4>2 DEF SumStep
      <4>3. CASE T # {}
        <5> DEFINE c == CHOOSE c \in T : TRUE
                   X == T \ {c}
        <5>1. c \in T
          BY <4>3
        <5>2. X \in SUBSET S
          OBVIOUS
        <5>3. SumStep(f, T) = Badge(c) + f[X] /\ SumStep(g, T) = Badge(c) + g[X]
          BY <4>3 DEF SumStep
        <5>4. Cardinality(X) = Cardinality(T) - 1
          BY <5>1, OneFewer
        <5>5. Cardinality(X) <= n - 1
          BY <1>1, <2>2, <5>4
        <5>6. f[X] = SumStep(f, X)
          BY <3>2, <5>2, <5>5
        <5>7. g[X] = SumStep(f, X)
          BY <5>2
        <5> QED
          BY <4>1, <5>3, <5>6, <5>7
      <4> QED
        BY <4>2, <4>3
    <3> HIDE DEF g
    <3> QED
      BY <2>2, <3>5, <3>6
  <2> QED
    BY <2>3, <2>4
<1>3. Cardinality(S) \in Nat
  BY FS_CardinalityType
<1>4. PICK f \in [SUBSET S -> Nat] : Good(f, Cardinality(S))
  BY <1>2, <1>3
<1>5. Sums(f, S)
  <2>1. \A T \in SUBSET S : f[T] = SumStep(f, T)
    BY <1>1, <1>4
  <2>2. f = [T \in SUBSET S |-> f[T]]
    OBVIOUS
  <2> QED
    BY <2>1, <2>2 DEF Sums
<1> QED
  BY <1>5

\* Of a finite set of chats, SumOf gives a number, to which each of its members
\* contributes its badge.
LEMMA SumIsFunction ==
    ASSUME NEW S, IsFiniteSet(S), \A c \in S : Badge(c) \in Nat
    PROVE  \E f \in [SUBSET S -> Nat] : Sums(f, S) /\ f[S] = SumOf(S)
<1> DEFINE g == CHOOSE f : Sums(f, S)
<1>1. PICK f \in [SUBSET S -> Nat] : Sums(f, S)
  BY SumsExist
<1>2. Sums(g, S)
  BY <1>1
<1>3. SumOf(S) = g[S]
  BY DEF SumOf, Sums, SumStep
<1> HIDE DEF g
<1>4. f[S] = g[S]
  BY <1>1, <1>2, SumsAgree
<1> QED
  BY <1>1, <1>3, <1>4

LEMMA SumPeels ==
    ASSUME NEW S, IsFiniteSet(S), \A c \in S : Badge(c) \in Nat,
           NEW f \in [SUBSET S -> Nat], Sums(f, S)
    PROVE  \A T \in SUBSET S : \A x \in T : f[T] = Badge(x) + f[T \ {x}]
<1> DEFINE W == {U \in SUBSET S : \E y \in U : f[U] # Badge(y) + f[U \ {y}]}
<1> SUFFICES ASSUME W # {} PROVE FALSE
  OBVIOUS
<1>1. PICK U \in W : \A X \in W : Cardinality(U) <= Cardinality(X)
  <2>1. W \in SUBSET (SUBSET S)
    OBVIOUS
  <2> HIDE DEF W
  <2> QED
    BY <2>1, SmallestSubset
<1>2. PICK y \in U : U \in SUBSET S /\ f[U] # Badge(y) + f[U \ {y}]
  OBVIOUS
<1>3. \A X \in SUBSET S : X \notin W => \A z \in X : f[X] = Badge(z) + f[X \ {z}]
  OBVIOUS
<1> HIDE DEF W
<1> DEFINE c == CHOOSE c \in U : TRUE
           Y == U \ {y}
           C == U \ {c}
           B == (U \ {y}) \ {c}
<1>4. c \in U /\ f[U] = Badge(c) + f[C]
  BY <1>2 DEF Sums, SumStep
<1>5. c # y
  BY <1>2, <1>4
<1> HIDE DEF c
<1>6. Y \in SUBSET S /\ C \in SUBSET S /\ B \in SUBSET S /\ c \in Y /\ y \in C /\ B = C \ {y}
  BY <1>2, <1>4, <1>5
<1>7. Y \notin W /\ C \notin W
  <2>1. Cardinality(Y) < Cardinality(U) /\ Cardinality(C) < Cardinality(U)
    BY <1>2, <1>4, OneFewer
  <2>2. Cardinality(Y) \in Nat /\ Cardinality(C) \in Nat /\ Cardinality(U) \in Nat
    BY <1>2, <1>4, OneFewer
  <2>3. ~(Cardinality(U) <= Cardinality(Y)) /\ ~(Cardinality(U) <= Cardinality(C))
    BY <2>1, <2>2
  <2> QED
    BY <1>1, <2>3
<1>8. f[Y] = Badge(c) + f[B] /\ f[C] = Badge(y) + f[B]
  BY <1>3, <1>6, <1>7
<1>9. f[B] \in Nat /\ Badge(c) \in Nat /\ Badge(y) \in Nat
  BY <1>2, <1>4, <1>6
<1>10. f[U] = Badge(y) + f[Y]
  BY <1>4, <1>8, <1>9
<1> QED
  BY <1>2, <1>10

LEMMA SumCounts ==
    ASSUME NEW S, IsFiniteSet(S), \A c \in S : Badge(c) \in Nat
    PROVE  \E f \in [SUBSET S -> Nat] :
              /\ Sums(f, S) /\ f[S] = SumOf(S)
              /\ \A T \in SUBSET S : \A x \in T : f[T] = Badge(x) + f[T \ {x}]
<1>1. PICK f \in [SUBSET S -> Nat] : Sums(f, S) /\ f[S] = SumOf(S)
  BY SumIsFunction
<1>2. \A T \in SUBSET S : \A x \in T : f[T] = Badge(x) + f[T \ {x}]
  <2>1. Sums(f, S)
    BY <1>1
  <2>2. \A g \in [SUBSET S -> Nat] : Sums(g, S) =>
           \A T \in SUBSET S : \A x \in T : g[T] = Badge(x) + g[T \ {x}]
    BY SumPeels
  <2> QED
    BY <2>1, <2>2
<1> QED
  BY <1>1, <1>2

LEMMA SumOverMore ==
    ASSUME NEW S, IsFiniteSet(S), \A c \in S : Badge(c) \in Nat,
           NEW T \in SUBSET S, \A c \in S \ T : Badge(c) = 0
    PROVE  SumOf(S) = SumOf(T)
<1>1. PICK f \in [SUBSET S -> Nat] :
         /\ Sums(f, S) /\ f[S] = SumOf(S)
         /\ \A U \in SUBSET S : \A x \in U : f[U] = Badge(x) + f[U \ {x}]
  BY SumCounts
<1>2. PICK g \in [SUBSET T -> Nat] : Sums(g, T) /\ g[T] = SumOf(T)
  <2>1. IsFiniteSet(T) /\ \A c \in T : Badge(c) \in Nat
    BY FS_Subset
  <2> QED
    BY <2>1, SumIsFunction
<1>3. f[T] = g[T]
  BY <1>1, <1>2, SumsAgree
<1>4. f[S] = f[T]
  <2> DEFINE W == {U \in SUBSET S : T \subseteq U /\ f[U] # f[T]}
  <2> SUFFICES ASSUME W # {} PROVE FALSE
    OBVIOUS
  <2>1. PICK U \in W : \A X \in W : Cardinality(U) <= Cardinality(X)
    <3>1. W \in SUBSET (SUBSET S)
      OBVIOUS
    <3> HIDE DEF W
    <3> QED
      BY <3>1, SmallestSubset
  <2>2. U \in SUBSET S /\ T \subseteq U /\ f[U] # f[T]
    OBVIOUS
  <2>3. PICK x \in U : x \notin T
    BY <2>2
  <2> DEFINE X == U \ {x}
  <2>4. X \in SUBSET S /\ T \subseteq X
    BY <2>2, <2>3
  <2>5. f[U] = Badge(x) + f[X]
    BY <1>1, <2>2
  <2>6. Badge(x) = 0 /\ f[X] \in Nat
    BY <2>2, <2>3, <2>4
  <2>7. f[X] # f[T]
    BY <2>2, <2>5, <2>6
  <2>8. Cardinality(U) <= Cardinality(X)
    BY <2>1, <2>4, <2>7
  <2>9. Cardinality(X) < Cardinality(U) /\ Cardinality(X) \in Nat /\ Cardinality(U) \in Nat
    BY <2>2, OneFewer
  <2> QED
    BY <2>8, <2>9
<1> QED
  BY <1>1, <1>2, <1>3, <1>4

LEMMA SumAndOne ==
    ASSUME NEW S, IsFiniteSet(S), NEW x, x \notin S, \A c \in S \cup {x} : Badge(c) \in Nat
    PROVE  SumOf(S \cup {x}) = SumOf(S) + Badge(x)
<1> DEFINE A == S \cup {x}
<1>1. IsFiniteSet(A)
  BY FS_AddElement
<1>2. PICK f \in [SUBSET A -> Nat] :
         /\ Sums(f, A) /\ f[A] = SumOf(A)
         /\ \A U \in SUBSET A : \A y \in U : f[U] = Badge(y) + f[U \ {y}]
  BY <1>1, SumCounts
<1>3. PICK g \in [SUBSET S -> Nat] : Sums(g, S) /\ g[S] = SumOf(S)
  BY SumIsFunction
<1>4. f[S] = g[S]
  BY <1>1, <1>2, <1>3, SumsAgree
<1>5. A \ {x} = S /\ x \in A /\ A \in SUBSET A
  OBVIOUS
<1>6. f[A] = Badge(x) + f[A \ {x}]
  BY <1>2, <1>5
<1>7. f[S] \in Nat /\ Badge(x) \in Nat
  BY <1>5
<1>8. SumOf(A) = Badge(x) + f[S] /\ f[S] = SumOf(S)
  BY <1>2, <1>3, <1>4, <1>5, <1>6
<1> QED
  BY <1>7, <1>8
-----------------------------------------------------------------------------
ChatRow == [unread : Nat, explicit : 0..1, archived : BOOLEAN, pinned : BOOLEAN]

RowsAreTyped == chat \in [Listable \cup {HiddenChat} -> ChatRow]

PhoneTypes ==
    /\ session \in Nat \ {0} /\ client \in 0..session /\ learnt \in 0..session
    /\ misses \in [gen : 0..session, chat : BOOLEAN]
    /\ asking \in SUBSET [of : 0..session, early : BOOLEAN]
    /\ given \in SUBSET [why : {"offline", "missing", "unknown", "error"}, gen : 0..session]

\* What began before the library learnt the number belongs to no later session;
\* a miss of this one was recorded before it, or for an earlier client.
LookupsHold ==
    /\ \A l \in asking : l.early => learnt = 0 \/ learnt >= l.of
    /\ misses.chat /\ misses.gen = session =>
          learnt = 0 \/ learnt >= session \/ session \in strays

ReplyType ==
    [step : {"none", "queued", "sent"}, who : {"nobody", "me", "ada"},
     form : {"none", "pn", "lid"}, fault : BOOLEAN]

MetaType ==
    [mode : {"pn", "lid"}, members : SUBSET {"me", "ada"}, numbers : BOOLEAN, ownLid : BOOLEAN]

ListInv ==
    /\ RowsAreTyped /\ PhoneTypes /\ LookupsHold /\ MissesAreThisSessions
    /\ meta \in MetaType /\ reply \in ReplyType /\ QuotesFitTheGroup

\* The chats that are not archived come first.
LEMMA ListedAreNotArchived ==
    ASSUME RowsAreTyped,
           Cardinality({c \in Listable : ~chat[c].archived}) <= ListLimit
    PROVE  {c \in Listable : ~chat[c].archived} \subseteq Listed
<1> DEFINE N == {c \in Listable : ~chat[c].archived}
<1> SUFFICES ASSUME NEW c \in N PROVE c \in Listed
  OBVIOUS
<1> DEFINE E == {d \in Listable : Before(d, c)}
<1>1. \A d \in Listable : chat[d].archived \in BOOLEAN /\ chat[d].pinned \in BOOLEAN /\ Recency[d] \in Nat
  BY ListAssumption DEF RowsAreTyped, ChatRow
<1>2. c \in Listable /\ ~chat[c].archived
  OBVIOUS
<1>3. E \subseteq N
  BY <1>2 DEF Before
<1>4. c \notin E
  BY <1>1, <1>2 DEF Before, PinnedFirst
<1> HIDE DEF E
<1>5. IsFiniteSet(N) /\ N \in SUBSET Listable
  BY ListAssumption, FS_Subset
<1> HIDE DEF N
<1>6. E \in SUBSET (N \ {c})
  BY <1>3, <1>4
<1>7. /\ Cardinality(N \ {c}) < Cardinality(N)
      /\ Cardinality(N \ {c}) \in Nat /\ Cardinality(N) \in Nat
  BY <1>5, ListAssumption, OneFewer
<1>8. Cardinality(E) <= Cardinality(N \ {c}) /\ Cardinality(E) \in Nat
  BY <1>5, <1>6, FS_Subset, FS_CardinalityType
<1>9. Cardinality(N) <= ListLimit /\ ListLimit \in Nat
  BY ListAssumption DEF N
<1>10. Cardinality(E) < ListLimit
  BY <1>7, <1>8, <1>9
<1> QED
  BY <1>2, <1>10 DEF Listed, E

LEMMA BadgeAddsUp == RowsAreTyped => BadgeIsTheList
<1> SUFFICES ASSUME RowsAreTyped,
                    Cardinality({c \in Listable : ~chat[c].archived}) <= ListLimit
             PROVE  UnreadTotal = SumOf(Listed) + Badge(HiddenChat)
  BY DEF BadgeIsTheList
<1>1. \A c \in Listable \cup {HiddenChat} : Badge(c) \in Nat
  <2> SUFFICES ASSUME NEW c \in Listable \cup {HiddenChat} PROVE Badge(c) \in Nat
    OBVIOUS
  <2>1. chat[c] \in ChatRow
    BY DEF RowsAreTyped
  <2>2. chat[c].unread \in Nat
    BY <2>1 DEF ChatRow
  <2> QED
    BY <2>2 DEF Badge
<1>2. {c \in Listable : ~chat[c].archived} \subseteq Listed
  BY ListedAreNotArchived
<1>3. Listed \in SUBSET Listable /\ \A c \in Listable \ Listed : Badge(c) = 0
  BY <1>2 DEF Listed, Badge
<1>4. IsFiniteSet(Listable) /\ HiddenChat \notin Listable
  BY ListAssumption
<1>5. SumOf(Listable) = SumOf(Listed)
  BY <1>1, <1>3, <1>4, SumOverMore
<1>6. SumOf(Listable \cup {HiddenChat}) = SumOf(Listable) + Badge(HiddenChat)
  BY <1>1, <1>4, SumAndOne
<1> QED
  BY <1>5, <1>6 DEF UnreadTotal

LEMMA ListStarts == ListInit => ListInv
<1> SUFFICES ASSUME ListInit PROVE ListInv
  OBVIOUS
<1>1. RowsAreTyped
  BY DEF ListInit, RowsAreTyped, ChatRow
<1>2. PhoneTypes /\ LookupsHold /\ MissesAreThisSessions
  BY DEF ListInit, PhoneTypes, LookupsHold, MissesAreThisSessions
<1>3. meta \in MetaType /\ reply \in ReplyType /\ QuotesFitTheGroup
  BY DEF ListInit, NoReply, MetaType, ReplyType, QuotesFitTheGroup
<1> QED
  BY <1>1, <1>2, <1>3 DEF ListInv

LEMMA RowsStep ==
    ASSUME RowsAreTyped, RowsNext
    PROVE  RowsAreTyped'
<1>1. PICK c \in Listable \cup {HiddenChat} :
         \/ \E n \in 0..1 : chat' = [chat EXCEPT ![c].unread = n]
         \/ chat' = [chat EXCEPT ![c].explicit = 1 - @]
         \/ chat' = [chat EXCEPT ![c].archived = ~@]
         \/ chat' = [chat EXCEPT ![c].pinned = ~@]
  BY DEF RowsNext
<1>2. chat[c] \in ChatRow
  BY DEF RowsAreTyped
<1>3. \E e \in ChatRow : chat' = [chat EXCEPT ![c] = e]
  <2>1. ASSUME NEW n \in 0..1, chat' = [chat EXCEPT ![c].unread = n]
        PROVE  \E e \in ChatRow : chat' = [chat EXCEPT ![c] = e]
    <3>1. [chat[c] EXCEPT !.unread = n] \in ChatRow
      BY <1>2 DEF ChatRow
    <3> QED
      BY <2>1, <3>1
  <2>2. CASE chat' = [chat EXCEPT ![c].explicit = 1 - @]
    <3> DEFINE n == 1 - chat[c].explicit
    <3>1. n \in 0..1
      BY <1>2 DEF ChatRow
    <3>2. chat' = [chat EXCEPT ![c].explicit = n]
      BY <2>2
    <3> HIDE DEF n
    <3>3. [chat[c] EXCEPT !.explicit = n] \in ChatRow
      BY <1>2, <3>1 DEF ChatRow
    <3> QED
      BY <3>2, <3>3
  <2>3. CASE chat' = [chat EXCEPT ![c].archived = ~@]
    <3>1. [chat[c] EXCEPT !.archived = ~@] \in ChatRow
      BY <1>2 DEF ChatRow
    <3> QED
      BY <2>3, <3>1
  <2>4. CASE chat' = [chat EXCEPT ![c].pinned = ~@]
    <3>1. [chat[c] EXCEPT !.pinned = ~@] \in ChatRow
      BY <1>2 DEF ChatRow
    <3> QED
      BY <2>4, <3>1
  <2> QED
    BY <1>1, <2>1, <2>2, <2>3, <2>4
<1> QED
  BY <1>3 DEF RowsAreTyped

LEMMA PhoneStep ==
    ASSUME PhoneTypes, LookupsHold, MissesAreThisSessions, PhoneNext
    PROVE  PhoneTypes' /\ LookupsHold' /\ MissesAreThisSessions'
<1> USE DEF PhoneTypes, LookupsHold, MissesAreThisSessions
<1>1. CASE AskList /\ client # 0 /\ ~IsMissing
  <2>1. /\ asking' = asking \cup {[of |-> client, early |-> learnt = 0]}
        /\ UNCHANGED <<session, client, learnt, number, misses, strays, given>>
    BY <1>1 DEF AskList
  <2>2. (learnt = 0) \in BOOLEAN
    OBVIOUS
  <2>3. [of |-> client, early |-> learnt = 0] \in [of : 0..session, early : BOOLEAN]
    BY <2>2
  <2>4. PhoneTypes'
    BY <2>1, <2>3
  <2>5. LookupsHold'
    BY <2>1, <2>3
  <2> QED
    BY <2>1, <2>4, <2>5
<1>2. CASE AskList /\ client # 0 /\ IsMissing
  BY <1>2 DEF AskList, IsMissing, Shows
<1>3. CASE AskList /\ client = 0
  BY <1>3 DEF AskList, Shows
<1>4. CASE LearnNumber
  BY <1>4 DEF LearnNumber
<1>5. CASE NextClient
  BY <1>5 DEF NextClient
<1>6. ASSUME NEW l \in asking, AnswerNumber(l)
      PROVE  PhoneTypes' /\ LookupsHold' /\ MissesAreThisSessions'
  BY <1>6 DEF AnswerNumber
<1>7. ASSUME NEW l \in asking, AnswerNone(l)
      PROVE  PhoneTypes' /\ LookupsHold' /\ MissesAreThisSessions'
  BY <1>7 DEF AnswerNone, Shows
<1>8. ASSUME NEW l \in asking, AnswerError(l)
      PROVE  PhoneTypes' /\ LookupsHold' /\ MissesAreThisSessions'
  BY <1>8 DEF AnswerError, Shows
<1> QED
  BY <1>1, <1>2, <1>3, <1>4, <1>5, <1>6, <1>7, <1>8 DEF PhoneNext

LEMMA QuoteStep ==
    ASSUME meta \in MetaType, reply \in ReplyType, QuotesFitTheGroup, QuoteNext
    PROVE  meta' \in MetaType /\ reply' \in ReplyType /\ QuotesFitTheGroup'
<1>1. ASSUME NEW who \in {"me", "ada"}, NEW form \in {"pn", "lid"},
             NEW found \in BOOLEAN, NEW again \in BOOLEAN, AcceptReply(who, form, found, again)
      PROVE  meta' \in MetaType /\ reply' \in ReplyType /\ QuotesFitTheGroup'
  <2>1. Participant(who, form, again) \in {"pn", "lid"}
    BY DEF Participant, MetaType
  <2>2. /\ reply' = [step |-> "queued", who |-> who, form |-> Participant(who, form, again),
                     fault |-> FALSE]
        /\ meta' = meta
    BY <1>1 DEF AcceptReply
  <2> QED
    BY <2>1, <2>2 DEF ReplyType, QuotesFitTheGroup
<1>2. ASSUME NEW found \in BOOLEAN, SendReply(found)
      PROVE  meta' \in MetaType /\ reply' \in ReplyType /\ QuotesFitTheGroup'
  <2> DEFINE who == reply.who
             form == Participant(reply.who, reply.form, found)
             fault == ~found \/ reply.who \notin meta.members \/ reply.form \notin ListedForms
  <2>1. /\ reply' = [reply EXCEPT !.step = "sent", !.form = form, !.fault = fault]
        /\ meta' = meta
    BY <1>2 DEF SendReply
  <2>2. form \in {"none", "pn", "lid"} /\ fault \in BOOLEAN
    BY DEF Participant, MetaType, ReplyType
  <2>3. ~fault => form = meta.mode
    BY DEF Participant
  <2> HIDE DEF form, fault
  <2>4. reply' \in ReplyType /\ reply'.form = form /\ reply'.fault = fault
    BY <2>1, <2>2 DEF ReplyType
  <2> QED
    BY <2>1, <2>3, <2>4 DEF QuotesFitTheGroup
<1>3. CASE ChangeGroup
  <2>1. reply' = reply /\ reply.step # "sent" /\ meta' \in MetaType
    BY <1>3 DEF ChangeGroup, MetaType
  <2> QED
    BY <2>1 DEF QuotesFitTheGroup
<1> QED
  BY <1>1, <1>2, <1>3 DEF QuoteNext

LEMMA ListInductive == ListInv /\ [ListNext]_listVars => ListInv'
<1> SUFFICES ASSUME ListInv, [ListNext]_listVars PROVE ListInv'
  OBVIOUS
<1>1. CASE RowsNext
  <2>1. UNCHANGED <<session, client, learnt, misses, asking, given, strays, meta, reply>>
    BY <1>1 DEF RowsNext, phoneVars, quoteVars
  <2>2. RowsAreTyped'
    BY <1>1, RowsStep DEF ListInv
  <2> QED
    BY <2>1, <2>2
       DEF ListInv, PhoneTypes, LookupsHold, MissesAreThisSessions, QuotesFitTheGroup
<1>2. CASE PhoneNext
  <2>1. UNCHANGED <<chat, meta, reply>>
    BY <1>2 DEF PhoneNext, rowVars, quoteVars
  <2>2. PhoneTypes' /\ LookupsHold' /\ MissesAreThisSessions'
    BY <1>2, PhoneStep DEF ListInv
  <2> QED
    BY <2>1, <2>2 DEF ListInv, RowsAreTyped, QuotesFitTheGroup
<1>3. CASE QuoteNext
  <2>1. UNCHANGED <<chat, session, client, learnt, misses, asking, given, strays>>
    BY <1>3 DEF QuoteNext, rowVars, phoneVars
  <2>2. meta' \in MetaType /\ reply' \in ReplyType /\ QuotesFitTheGroup'
    BY <1>3, QuoteStep DEF ListInv
  <2> QED
    BY <2>1, <2>2 DEF ListInv, RowsAreTyped, PhoneTypes, LookupsHold, MissesAreThisSessions
<1>4. CASE UNCHANGED listVars
  <2>1. UNCHANGED <<chat, session, client, learnt, misses, asking, given, strays, meta, reply>>
    BY <1>4 DEF listVars, rowVars, phoneVars, quoteVars
  <2> QED
    BY <2>1 DEF ListInv, RowsAreTyped, PhoneTypes, LookupsHold, MissesAreThisSessions,
       QuotesFitTheGroup
<1> QED
  BY <1>1, <1>2, <1>3, <1>4 DEF ListNext

\* The badge is the sum of what the list shows, as long as the chats that are not
\* archived fit into it; a number is left out for a recorded miss only where this
\* session's library did not know it, but for lookups of an earlier client; and a
\* reply quotes under an address of the group's present mode.
THEOREM ListsHold == ListSpec => []ListsAreTrue
<1>1. ListInit => ListInv
  BY ListStarts
<1>2. ListInv /\ [ListNext]_listVars => ListInv'
  BY ListInductive
<1>3. ListInv => ListsAreTrue
  BY BadgeAddsUp DEF ListInv, ListsAreTrue
<1> QED
  BY <1>1, <1>2, <1>3, PTL DEF ListSpec

\* What clients are answered is true of both: the lists and the members.
THEOREM ClientsAnswered == ListSpec /\ RosterSpec => []AnswersAreTrue
  BY ListsHold, RosterFollows, PTL DEF AnswersAreTrue
=============================================================================
