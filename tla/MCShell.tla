-------------------------------- MODULE MCShell --------------------------------
(* An instance for TLC of what the shell shows and sends on, and of the work   *)
(* behind it: how the lists and totals of the daemon reach Service.qml         *)
(* (Publication), the voice notes it hands over (VoiceOutbox), its commands    *)
(* that ask WhatsApp first (DirectSend), what its composer stages and sends    *)
(* (Attachments), the jobs a session generation leaves behind (GenerationWork), *)
(* the connection state (LinkStatus), what a chat's list asks the phone for    *)
(* (MessageRecovery), its contacts' pictures (AvatarGallery) and the launcher's *)
(* menu (LauncherMenu).  They share no state, so a behaviour exercises one.    *)
EXTENDS Publication, VoiceOutbox, DirectSend, Attachments, GenerationWork,
        LinkStatus, MessageRecovery, AvatarGallery, LauncherMenu, TLC

VARIABLE focus      \* the part that moves

shellVars == <<vars, voiceVars, sendVars, attachVars, workVars, linkVars, recoveryVars,
               galleryVars, menuVars, focus>>

MCSymmetry == Permutations(Recordings)
MCListings == <<"first", "second">>
MCChatKey == [c \in Senders |-> c]

ShellInit ==
    /\ Init /\ VoiceInit /\ SendInit /\ AttachInit /\ WorkInit /\ LinkInit
    /\ RecoveryInit /\ GalleryInit /\ MenuInit
    /\ focus \in {"views", "voice", "sends", "compose", "work", "link", "recovery",
                 "gallery", "launcher"}
    /\ focus # "views" => watched = {"chats"}
    /\ focus # "sends" => subject = "image"
    /\ focus # "compose" => offered.type = "text"
    /\ focus # "gallery" => files = [f \in Faces |-> 0]
    /\ focus # "launcher" => menu = NoFile

\* Bounds of this instance, beside the constants: the changes and happenings of a
\* view are not both at their most, one recording alone is sent again and none is
\* followed past a race that RecordingsAreFinal excludes, and the generation after
\* the first is met by the work of one callback.
FewDisturbances == Total(db') + (Happenings - left') < Changes + Happenings
OneIsSentAgain == raced = {} /\ \E r \in Recordings : tried'[r] < Attempts
OneCallbackOutlives == begun' = 1 \/ delivered' <= 1

\* Commands and callbacks come from outside: past their bound none does.
BoundReached ==
    /\ \/ focus \in {"sends", "compose", "work", "link", "recovery", "gallery", "launcher"}
       \/ focus = "voice" /\ raced # {}
    /\ UNCHANGED <<vars, voiceVars, sendVars, attachVars, workVars, linkVars,
                   recoveryVars, galleryVars, menuVars>>

ShellNext ==
    /\ \/ /\ focus = "views" /\ Next /\ FewDisturbances
          /\ UNCHANGED <<voiceVars, sendVars, attachVars, workVars, linkVars,
                         recoveryVars, galleryVars, menuVars>>
       \/ /\ focus = "voice" /\ VoiceNext /\ OneIsSentAgain
          /\ UNCHANGED <<vars, sendVars, attachVars, workVars, linkVars,
                         recoveryVars, galleryVars, menuVars>>
       \/ /\ focus = "sends" /\ SendNext
          /\ UNCHANGED <<vars, voiceVars, attachVars, workVars, linkVars,
                         recoveryVars, galleryVars, menuVars>>
       \/ /\ focus = "compose" /\ AttachNext
          /\ UNCHANGED <<vars, voiceVars, sendVars, workVars, linkVars,
                         recoveryVars, galleryVars, menuVars>>
       \/ /\ focus = "work" /\ WorkNext /\ OneCallbackOutlives
          /\ UNCHANGED <<vars, voiceVars, sendVars, attachVars, linkVars,
                         recoveryVars, galleryVars, menuVars>>
       \/ /\ focus = "link" /\ LinkNext
          /\ "overlap" \notin mixed     \* past that LinkIsShown says nothing
          /\ UNCHANGED <<vars, voiceVars, sendVars, attachVars, workVars,
                         recoveryVars, galleryVars, menuVars>>
       \/ /\ focus = "recovery" /\ RecoveryNext
          /\ UNCHANGED <<vars, voiceVars, sendVars, attachVars, workVars,
                         linkVars, galleryVars, menuVars>>
       \/ /\ focus = "gallery" /\ GalleryNext
          /\ UNCHANGED <<vars, voiceVars, sendVars, attachVars, workVars, linkVars,
                         recoveryVars, menuVars>>
       \/ /\ focus = "launcher" /\ MenuNext
          /\ UNCHANGED <<vars, voiceVars, sendVars, attachVars, workVars, linkVars,
                         recoveryVars, galleryVars>>
       \/ BoundReached
    /\ UNCHANGED focus

ShellSpec == ShellInit /\ [][ShellNext]_shellVars
=============================================================================
