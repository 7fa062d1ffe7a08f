------------------------------- MODULE MCStores -------------------------------
(* An instance for TLC of what the daemon stores: the messages and unread      *)
(* state of a contact with two addresses (ChatHistory), the registers kept     *)
(* beside one of its messages (ChatRegisters), the names of a contact and of a *)
(* group (ContactNames), the schema of all these (SchemaLadder), the files of  *)
(* its media (MediaCache), what a message's row shows (MessageContent) and the *)
(* page of a conversation read of them (ConversationPage).                     *)
(* They share no state, nor do the registers, so a behaviour exercises one.    *)
EXTENDS ChatHistory, ChatRegisters, ContactNames, SchemaLadder, MediaCache,
        MessageContent, ConversationPage, TLC

VARIABLES
    focus,      \* the part that moves
    merges      \* how often the files of the LID were copied so far

storeVars == <<vars, registerVars, nameVars, ladderVars, cacheVars, contentVars, pageVars,
               focus, merges>>

MCAttachments == {"image", "video", "document"}
MCKindOf == [m \in MCAttachments |-> m]
MCTime == "first" :> 2 @@ "second" :> 3
MCSymmetry == Permutations(Jids)

\* Bound of the cache: what comes from outside, how often the files are copied,
\* and of how many messages there is anything, add up to five.
Concerned == {m \in Attachments :
                 \/ \E at \in AddressPair : m \in Carded(at) \cup buried[at]
                 \/ \E n \in Held(cache) : n.of = m}
CacheIsSmall == happened + merges + Cardinality(Concerned) <= 5

\* Each part's choice of initial states is made where it moves, and there only.
StoresInit ==
    /\ focus \in {"messages", "reaction", "vote", "receipt", "setting",
                  "names", "subject", "schema", "cache", "content", "page"}
    /\ focus # "schema" => Fresh(disk)
    /\ focus # "cache" => cache = <<>>
    /\ focus # "content" => wire = Wire("text")
    /\ ContentInit /\ CacheInit /\ LadderInit
    /\ Init /\ RegistersInit /\ NamesInit /\ PageInit
    /\ merges = 0

Registering ==
    \/ focus = "reaction" /\ ReactionNext
    \/ focus = "vote" /\ VoteNext
    \/ focus = "receipt" /\ ReceiptNext
    \/ focus = "setting" /\ SettingNext
    \/ focus \in {"reaction", "vote", "receipt", "setting"} /\ MessageNext

StoresNext ==
    /\ \/ /\ focus = "messages" /\ Next
          /\ UNCHANGED <<registerVars, nameVars, ladderVars, cacheVars, contentVars, pageVars>>
       \/ /\ Registering
          /\ UNCHANGED <<vars, nameVars, ladderVars, cacheVars, contentVars, pageVars>>
       \/ /\ \/ focus = "names" /\ NamesNext
             \/ focus = "subject" /\ SubjectNext
          /\ UNCHANGED <<vars, registerVars, ladderVars, cacheVars, contentVars, pageVars>>
       \/ /\ focus = "schema" /\ LadderNext
          /\ UNCHANGED <<vars, registerVars, nameVars, cacheVars, contentVars, pageVars>>
       \/ /\ focus = "cache" /\ CacheNext
          /\ UNCHANGED <<vars, registerVars, nameVars, ladderVars, contentVars, pageVars>>
       \/ /\ focus = "content" /\ ContentNext
          /\ UNCHANGED <<vars, registerVars, nameVars, ladderVars, cacheVars, pageVars>>
       \/ /\ focus = "page" /\ PageNext
          /\ UNCHANGED <<vars, registerVars, nameVars, ladderVars, cacheVars, contentVars>>
    /\ merges' = IF merge = "none" /\ merge' # "none" THEN merges + 1 ELSE merges
    /\ focus = "cache" => CacheIsSmall'
    /\ UNCHANGED focus

StoresSpec == StoresInit /\ [][StoresNext]_storeVars
=============================================================================
