-------------------------------- MODULE MCJobs --------------------------------
(* An instance for TLC of what the daemon runs for its clients outside the     *)
(* session: the connections and their commands (IpcConnection), the media jobs *)
(* (MediaJobs), the avatar fetches (AvatarFetch), what it answers with         *)
(* (ChatList, GroupRoster), and how it starts (DaemonStart).                   *)
(* They share no state, so a property of one holds in every interleaving of    *)
(* all if it holds where the others rest: a behaviour exercises one.           *)
EXTENDS IpcConnection, MediaJobs, AvatarFetch, ChatList, GroupRoster, DaemonStart, TLC

VARIABLE focus      \* the part that moves

answerVars == <<rosterVars, startVars>>
allVars == <<ipcVars, mediaVars, avatarVars, listVars, answerVars, focus>>

MCListable == {"ada", "bob", "cy"}
MCRecency == "ada" :> 1 @@ "bob" :> 2 @@ "cy" :> 3
MCRequests == {"a", "b", "c", "d"}
MCOwner == [q \in MCRequests |-> IF q = "d" THEN "bar" ELSE "panel"]
MCKey == [q \in MCRequests |-> IF q = "c" THEN "none" ELSE "chat"]

JobsInit ==
    /\ IpcInit /\ MediaInit /\ AvatarInit /\ ListInit /\ RosterInit /\ StartInit
    /\ focus \in {"ipc", "media", "avatar", "rows", "phones", "quotes", "roster", "start"}
    /\ focus # "quotes" => meta.mode = "pn" /\ meta.numbers /\ meta.ownLid
    /\ focus # "start" => path = "none"

\* Lists are asked for no more, all that happens to the group has happened, or no
\* daemon is started again.
Settled ==
    /\ focus \in {"phones", "quotes", "roster", "start"}
    /\ UNCHANGED <<ipcVars, mediaVars, avatarVars, listVars, answerVars>>

\* The instance's bound: of c, the panel's third request, and d, the other
\* client's, one is under way at a time.
ThreeUnderWay == \E q \in {"c", "d"} : phase'[q] = "idle"

\* And of the two kinds of sends, which meet in no step, one is followed.
OneKindIsSent == \E k \in Kinds : flight'[k].status = "none" /\ flight'[k].by = Nobody

JobsNext ==
    /\ \/ focus = "ipc" /\ IpcNext /\ ThreeUnderWay
          /\ UNCHANGED <<mediaVars, avatarVars, listVars, answerVars>>
       \/ focus = "media" /\ MediaNext /\ UNCHANGED <<ipcVars, avatarVars, listVars, answerVars>>
       \/ focus = "avatar" /\ AvatarNext /\ UNCHANGED <<ipcVars, mediaVars, listVars, answerVars>>
       \/ /\ \/ focus = "rows" /\ RowsNext
             \/ focus = "phones" /\ PhoneNext
             \/ focus = "quotes" /\ QuoteNext
          /\ UNCHANGED <<ipcVars, mediaVars, avatarVars, answerVars>>
       \/ /\ \/ focus = "roster" /\ RosterNext /\ UNCHANGED startVars
             \/ focus = "start" /\ StartNext /\ OneKindIsSent /\ UNCHANGED rosterVars
          /\ UNCHANGED <<ipcVars, mediaVars, avatarVars, listVars>>
       \/ Settled
    /\ UNCHANGED focus

JobsSpec == JobsInit /\ [][JobsNext]_allVars /\ IpcFairness /\ MediaFairness

\* What a client asks is answered, and what it was told is under way has its
\* outcome told: commands and downloads.
CommandsAreAnswered == EveryRequestIsAnswered /\ OutcomeFollowsAck
=============================================================================
