------------------------------ MODULE Attachments ------------------------------
(* The attachment in the shell's composer (Service.qml): pasted or dropped,    *)
(* staged by the daemon (paste.rs, commands.rs), cleared, or sent and checked  *)
(* again (send_image).  The shell holds one paste request and one send request *)
(* at a time and forgets each on its deadline or with the connection; answers  *)
(* of forgotten requests are not looked at.                                    *)
EXTENDS Naturals, FiniteSets

CONSTANTS
    Requests        \* bound: paste, stage and send requests

ASSUME RequestsAssumption == Requests \in Nat

VARIABLES
    offered,    \* external: what is on the clipboard, or is dropped
    staged,     \* stagedAttachment
    pasting,    \* imagePasteRequestId, 0 if none
    posting,    \* imageSendRequestId, 0 if none
    asked,      \* requests so far; the next id
    answers,    \* answers on their way to the shell
    posts,      \* what each send request carries, and how far it is
    replaced    \* history: an attachment came while another was being sent

attachVars == <<offered, staged, pasting, posting, asked, answers, posts, replaced>>

-----------------------------------------------------------------------------
(* Contents *)

\* size: 0 empty, 1 within the limit of images, 2 within that of documents.
Bytes == [is : {"png", "jpeg", "heif", "gif", "other"}, size : 0..3, framed : BOOLEAN]
NoBytes == [is |-> "other", size |-> 0, framed |-> FALSE]

\* sniff_image_mime, validate_pasted_bytes and pasted_image_dimensions agree.
IsPicture(b) == b.is \in {"png", "jpeg"} /\ b.size = 1 /\ b.framed

\* heif_as_jpeg: ffmpeg's JPEG, or what there was.
Converted(b) ==
    {b} \cup IF b.is = "heif" THEN [is : {"jpeg"}, size : {1, 2}, framed : BOOLEAN] ELSE {}

Nothing == [as |-> "nothing", bytes |-> NoBytes, plain |-> TRUE]
Refused == [as |-> "error", bytes |-> NoBytes, plain |-> TRUE]
Image(b) == [as |-> "image", bytes |-> b, plain |-> TRUE]
Document(b, plain) == [as |-> "document", bytes |-> b, plain |-> plain]

\* Mutation: the signature alone makes an image.
StagedBySignature(b, plain) ==
    {IF c.is \in {"png", "jpeg"} THEN Image(c) ELSE Document(c, plain) : c \in Converted(b)}

\* stage_bytes
StagedAs(b, plain) ==
    {IF IsPicture(c) THEN Image(c) ELSE Document(c, plain) : c \in Converted(b)}

\* stage_local_file
StagedFile(b, plain) == IF b.size \in {1, 2} THEN StagedAs(b, plain) ELSE {Refused}

\* paste_image_from_clipboard: a picture first, then a copied file, then what
\* goes as a document.  read: whether the bytes were still there.
Pasted(o, read) ==
    IF o.type = "text" \/ ~read THEN {Nothing}
    ELSE IF o.type = "file" THEN StagedFile(o.bytes, o.plain)
    ELSE IF o.bytes.is # o.type \/ o.bytes.size # 1 THEN {Refused}
    ELSE IF o.type \in {"heif", "gif"} THEN StagedAs(o.bytes, TRUE)
    ELSE {IF IsPicture(o.bytes) THEN Image(o.bytes) ELSE Refused}

\* The first type the clipboard offers that counts, or a dropped file; gif
\* stands for what goes as a document.
Offers ==
    {o \in [type : {"png", "jpeg", "file", "heif", "gif", "text"}, bytes : Bytes, plain : BOOLEAN] :
        /\ o.bytes.framed => o.bytes.is \in {"png", "jpeg"}
        /\ o.type # "file" => o.plain
        /\ o.type = "text" => o.bytes = NoBytes}

\* The checks of send_image over what it reads back.
Sendable(s) ==
    \/ s.as = "image" /\ IsPicture(s.bytes)
    \/ s.as = "document" /\ s.bytes.size \in {1, 2} /\ s.plain   \* validate_document_name

-----------------------------------------------------------------------------
(* The shell *)

\* The attachment and the request that brought it.
NoStaged == [id |-> 0, content |-> Nothing]
NoSend == [of |-> 0, step |-> "none"]

AttachInit ==
    /\ offered \in Offers
    /\ staged = NoStaged /\ pasting = 0 /\ posting = 0 /\ asked = 0
    /\ answers = {} /\ posts = [r \in 1..Requests |-> NoSend] /\ replaced = {}

Asks == asked < Requests /\ asked' = asked + 1

\* pasteImage, stageFile: one request at a time.
RequestPaste ==
    /\ pasting = 0 /\ Asks
    /\ pasting' = asked'
    /\ \E read \in BOOLEAN, drop \in BOOLEAN :
          \E content \in IF drop /\ offered.type = "file"
                         THEN StagedFile(offered.bytes, offered.plain)
                         ELSE Pasted(offered, read) :
             answers' = answers \cup {[id |-> asked', event |-> "staged", content |-> content]}
    /\ UNCHANGED <<offered, staged, posting, posts, replaced>>

\* finishImagePasteRequest; staged_event or an error.
FinishPaste(a) ==
    /\ a \in answers /\ a.event = "staged"
    /\ answers' = answers \ {a}
    /\ IF a.id = pasting
       THEN /\ pasting' = 0
            /\ staged' = IF a.content.as \in {"image", "document"}
                         THEN [id |-> a.id, content |-> a.content] ELSE staged
            /\ replaced' = IF posting # 0 THEN replaced \cup {a.id} ELSE replaced
       ELSE UNCHANGED <<pasting, staged, replaced>>
    /\ UNCHANGED <<offered, posting, asked, posts>>

\* clearStagedAttachment
ClearStaged ==
    /\ staged # NoStaged
    /\ staged' = NoStaged
    /\ UNCHANGED <<offered, pasting, posting, asked, answers, posts, replaced>>

\* sendImageMessage: every request has a delivery ID of its own.
SendStaged ==
    /\ staged # NoStaged /\ posting = 0 /\ Asks
    /\ posting' = asked'
    /\ posts' = [posts EXCEPT ![asked'] =
          [of |-> staged.id, step |-> IF Sendable(staged.content) THEN "daemon" ELSE "refused"]]
    /\ UNCHANGED <<offered, staged, pasting, answers, replaced>>

\* Mutation: the composer is emptied by an error, too.
ClearsOnAnyAnswer(a) == TRUE

\* finishImageSendRequest empties the composer on `sent`.
Clears(a) == a.event = "sent"

FinishSendRequest(a) ==
    /\ a \in answers /\ a.event \in {"sent", "error"}
    /\ answers' = answers \ {a}
    /\ IF a.id = posting
       THEN /\ posting' = 0
            /\ staged' = IF Clears(a) THEN NoStaged ELSE staged
       ELSE UNCHANGED <<posting, staged>>
    /\ UNCHANGED <<offered, pasting, asked, posts, replaced>>

\* expireRequests: the request is treated as answered by an error.
ExpireRequest ==
    /\ \/ pasting # 0 /\ pasting' = 0 /\ UNCHANGED posting
       \/ posting # 0 /\ posting' = 0 /\ UNCHANGED pasting
    /\ UNCHANGED <<offered, staged, asked, answers, posts, replaced>>

\* resetRequestState: the connection is gone, and the answers with it.
ResetRequests ==
    /\ pasting # 0 \/ posting # 0 \/ answers # {}
    /\ pasting' = 0 /\ posting' = 0 /\ answers' = {}
    /\ UNCHANGED <<offered, staged, asked, posts, replaced>>

-----------------------------------------------------------------------------
(* The daemon *)

Answer(r, event) ==
    answers' = answers \cup {[id |-> r, event |-> event, content |-> Nothing]}

\* WhatsApp accepts the message; what remains may still fail.
PostImage(r) ==
    /\ posts[r].step = "daemon"
    /\ posts' = [posts EXCEPT ![r].step = "posted"]
    /\ UNCHANGED <<offered, staged, pasting, posting, asked, answers, replaced>>

AnswerSent(r) ==
    /\ posts[r].step = "posted"
    /\ posts' = [posts EXCEPT ![r].step = "told"]
    /\ Answer(r, "sent")
    /\ UNCHANGED <<offered, staged, pasting, posting, asked, replaced>>

\* A refused file, a failed upload, or a failure after WhatsApp took it.
AnswerError(r) ==
    /\ posts[r].step \in {"refused", "daemon", "posted"}
    /\ posts' = [posts EXCEPT ![r].step = IF @ = "posted" THEN "posted_failed" ELSE "failed"]
    /\ Answer(r, "error")
    /\ UNCHANGED <<offered, staged, pasting, posting, asked, replaced>>

AttachNext ==
    \/ RequestPaste \/ ClearStaged \/ SendStaged \/ ExpireRequest \/ ResetRequests
    \/ \E a \in answers : FinishPaste(a) \/ FinishSendRequest(a)
    \/ \E r \in 1..asked : PostImage(r) \/ AnswerSent(r) \/ AnswerError(r)

AttachSpec == AttachInit /\ [][AttachNext]_attachVars

-----------------------------------------------------------------------------
(* Properties *)

\* What the daemon staged as an image or a document passes the checks of
\* send_image as the same (stage_bytes, validate_pasted_bytes, send_image); the
\* exception is a file whose name holds a control character, which is staged
\* under a name validate_document_name refuses.
StagedIsSendable ==
    staged # NoStaged => Sendable(staged.content) \/ ~staged.content.plain

Posts(id) == {r \in 1..asked : posts[r].of = id /\ posts[r].step \in {"posted", "told", "posted_failed"}}

\* An answer takes an attachment from the composer only after WhatsApp took it,
\* or if it came to the composer while another one was being sent
\* (finishImageSendRequest does not ask which attachment was sent).
LeavesForAReason ==
    [][staged # NoStaged /\ staged' = NoStaged /\ answers' # answers =>
          Posts(staged.id) # {} \/ staged.id \in replaced]_attachVars

\* What is staged can be sent, and stays staged until it is.
AttachmentsAreAccounted == []StagedIsSendable /\ LeavesForAReason
=============================================================================
