------------------------------ MODULE MediaCache ------------------------------
(* The private media directory (assets.rs) as a cache: the previews that live  *)
(* and replayed messages bring (message_media, messages.rs), what downloads    *)
(* (perform_media_download, commands.rs) and posters add, the drafts of the    *)
(* shell (paste.rs) and the copies of what it sent, the pruning to a budget,   *)
(* the copies under the second address of a contact (identity.rs), and the     *)
(* rows of history.db that name the files, as the shell reads them             *)
(* (decode_message, database.rs).  Only a file's name, size, age and nature    *)
(* count, and a merge of the addresses follows another, never meets it.        *)
(* MediaJobs models how downloads are queued and cut short.                    *)
EXTENDS Naturals, Sequences, FiniteSets, Functions

CONSTANTS
    Attachments,    \* messages with a medium, of one contact
    KindOf,         \* "image", "video" or "document"
    TitledOnly,         \* documents whose sender gave a title and no file name
    Drafts,         \* attachments staged by the shell
    Budget,         \* MAX_MEDIA_CACHE_BYTES, 256 MiB in the code
    CacheEvents     \* bound: messages, commands and events

PreviewSize == 1
Declared == 2           \* file_length of a medium, and what a draft takes

\* No file has the size of the cache: MAX_DOCUMENT_BYTES, 100 MiB in the code,
\* bounds the largest.
ASSUME CacheAssumption ==
    /\ Budget \in Nat /\ Declared + 1 <= Budget
    /\ KindOf \in [Attachments -> {"image", "video", "document"}]
    /\ TitledOnly \subseteq {m \in Attachments : KindOf[m] = "document"}

VARIABLES
    cache,      \* the directory without temporary files, oldest file first
    cards,      \* by address, rows of messages and the paths in media_json
    buried,     \* message_tombstones, by address
    merge,      \* the merge of the addresses: "none", "copying" or "copied"
    entries,    \* the files under the LID when its copying began
    moves,      \* the replacements of copy_chat_media_alias so far
    copy,       \* the file it is copying, as it was when that began
    transfer,   \* the download under way
    sending,    \* drafts whose send has read their bytes
    late,       \* history: messages that came anew under one address while
                \* a preview was their medium under the other
    torn,       \* history: copies begun and not ended, until their message
                \* came anew
    unpruned,   \* history: bytes written without a prune since the last one
    happened    \* history: what came from outside so far

mergeVars == <<merge, entries, moves, copy>>
cacheVars == <<cache, cards, buried, merge, entries, moves, copy, transfer, sending,
              late, torn, unpruned, happened>>

\* The LID and the phone number of the contact.
AddressPair == {"lid", "phone"}

-----------------------------------------------------------------------------
(* Names and sizes *)

Nobody == "nobody"
Name(m, at, part) == [of |-> m, at |-> at, part |-> part]
NoFile == Name(Nobody, "none", "none")
Full(m, at) == Name(m, at, "full")
Preview(m, at) == Name(m, at, "preview")
Staged(d) == Name(d, "staged", "full")

\* A document's extension comes from its file name, and from its title only
\* where the row is built.
Downloaded(m, at) == IF m \in TitledOnly THEN Name(m, at, "bare") ELSE Full(m, at)

Sizes(m) == IF KindOf[m] = "image" THEN {Declared, Declared + 1} ELSE {Declared}

File(n, size, is) == [name |-> n, size |-> size, is |-> is]
Held(c) == {c[i].name : i \in DOMAIN c}
FileAt(c, n) == c[CHOOSE i \in DOMAIN c : c[i].name = n]

\* The bytes of a directory, which has one file of a name.
Bytes(F) == UNION {{f} \X (1..f.size) : f \in F}
Total(c) == Cardinality(Bytes(Range(c)))

\* What of c has a name in N, in the same order.
FilesIn(c, N) ==
    LET kept == {i \in DOMAIN c : c[i].name \in N}
    IN  [k \in 1..Cardinality(kept) |->
            c[CHOOSE i \in kept : Cardinality({j \in kept : j < i}) = k - 1]]

Without(c, N) == FilesIn(c, Held(c) \ N)
Written(c, file) == Append(Without(c, {file.name}), file)
RenamedTo(c, old, new) ==
    [i \in DOMAIN c |-> IF c[i].name = old THEN [c[i] EXCEPT !.name = new] ELSE c[i]]

\* Mutation: it stops one file early.
TrimmedShort(c, keep) == IF Total(c) <= Budget + 1 THEN c ELSE Without(c, {c[1].name} \ {keep})

\* prune_media_cache: the oldest files go, but never `keep`, until the rest fits.
Trimmed(c, keep) ==
    LET Left(k) == LET lost == {c[i].name : i \in 1..k} \ {keep} IN Without(c, lost)
        enough == {k \in 0..Len(c) : Total(Left(k)) <= Budget \/ k = Len(c)}
    IN  IF Total(c) <= Budget THEN c
        ELSE Left(CHOOSE k \in enough : \A j \in enough : k <= j)

-----------------------------------------------------------------------------
(* Rows *)

NoCard == [path |-> NoFile, thumb |-> NoFile]
Card(m, at) ==
    [path |-> Full(m, at),
     thumb |-> IF KindOf[m] = "document" THEN NoFile ELSE Preview(m, at)]

\* An early build's row: its path holds the preview.
EarlyCard(m) == [path |-> Full(m, "lid"), thumb |-> NoFile]

Carded(at) == {m \in Attachments : cards[at][m] # NoCard}

\* decode_message: what the shell is told of the medium.
IsShown(c, at, m) ==
    /\ cards[at][m] # NoCard /\ cards[at][m].path \in Held(c)
    /\ KindOf[m] = "image" => cards[at][m].thumb # NoFile

-----------------------------------------------------------------------------
(* Previews *)

\* Mutation: what lies at the final path is never taken for a preview.
NeverPreview(c, m, at, thumb) == FALSE

\* existing_is_preview
IsPreview(c, m, at, thumb) ==
    /\ Full(m, at) \in Held(c)
    /\ LET size == FileAt(c, Full(m, at)).size
       IN  size # Declared \/ (thumb /\ size = PreviewSize)

\* cache_media_thumbnail: a preview of an early build makes way, else the
\* embedded one is written; what changed the directory prunes it.
PreviewCached(c, m, at, thumb) ==
    LET full == Full(m, at)
        preview == Preview(m, at)
    IN  IF KindOf[m] = "document" THEN c
        ELSE IF IsPreview(c, m, at, thumb)
        THEN Trimmed(IF preview \in Held(c) THEN Without(c, {full})
                    ELSE RenamedTo(c, full, preview), preview)
        ELSE IF preview \notin Held(c) /\ thumb
        THEN Trimmed(Written(c, File(preview, PreviewSize, "preview")), preview)
        ELSE c

\* Nothing is left over a prune; what was not pruned stays counted.
Counted(c) == IF c # cache THEN 0 ELSE unpruned

\* What lies where the medium belongs is, or will be, an early build's preview.
Spoiled(c, m, at) ==
    \E f \in Range(c) :
        f.name = Full(m, at) /\ "preview" = IF f.is = "copying" THEN copy.is ELSE f.is

\* The message m is stored anew under `at`, where its files were looked at.
Anew(m, at) ==
    /\ late' = IF \E other \in AddressPair \ {at} : Spoiled(cache, m, other)
               THEN late \cup {m} ELSE late
    /\ torn' = IF KindOf[m] = "document" THEN torn ELSE torn \ {Full(m, at)}

CacheEvent == happened < CacheEvents /\ happened' = happened + 1

NoTransfer == [step |-> "none", of |-> Nobody, at |-> "none"]

\* message_media builds the medium before the row is admitted: a new row, a
\* replaced medium, or neither.  A document new to the history is downloaded.
\* canonical_contact_jid gives the LID wherever the look-up fails, whatever it
\* gave before, and the number although rows are left under the LID.
ReceiveMedia(m, at, thumb) ==
    /\ CacheEvent
    /\ cache' = PreviewCached(cache, m, at, thumb)
    /\ unpruned' = Counted(cache')
    /\ cards' = IF m \in buried[at] THEN cards ELSE [cards EXCEPT ![at][m] = Card(m, at)]
    /\ LET wanted == /\ KindOf[m] = "document" /\ m \notin Carded(at) \cup buried[at]
                     /\ Downloaded(m, at) \notin Held(cache)
       IN  \/ /\ wanted /\ transfer = NoTransfer
              /\ transfer' = [step |-> "transfer", of |-> m, at |-> at]
           \/ /\ ~wanted
              /\ UNCHANGED transfer
    /\ Anew(m, at)
    /\ UNCHANGED <<buried, mergeVars, sending>>

-----------------------------------------------------------------------------
(* Downloads and posters *)

\* perform_media_download up to the transfer: the preview, the row's medium,
\* and nothing more if the file is there in its declared size.
BeginDownload(m, at) ==
    /\ CacheEvent
    /\ transfer = NoTransfer /\ KindOf[m] # "document" /\ m \in Carded(at)
    /\ \E thumb \in BOOLEAN : cache' = PreviewCached(cache, m, at, thumb)
    /\ unpruned' = Counted(cache')
    /\ cards' = [cards EXCEPT ![at][m] = Card(m, at)]
    /\ LET next == IF Full(m, at) \notin Held(cache') \/ FileAt(cache', Full(m, at)).size # Declared
                   THEN "transfer" ELSE IF KindOf[m] = "video" THEN "poster" ELSE "none"
       IN  transfer' = IF next = "none" THEN NoTransfer
                       ELSE [step |-> next, of |-> m, at |-> at]
    /\ Anew(m, at)
    /\ UNCHANGED <<buried, mergeVars, sending>>

\* The transfer ended: an accepted size is committed, any other one refused.
\* The job still uses the address it began with.
FinishDownload ==
    /\ transfer.step = "transfer"
    /\ \E size \in Sizes(transfer.of) :
          LET path == Downloaded(transfer.of, transfer.at)
          IN  /\ cache' = Trimmed(Written(cache, File(path, size, "whole")), path)
              /\ torn' = torn \ {path}
    /\ unpruned' = 0
    /\ transfer' = IF KindOf[transfer.of] = "video" THEN [transfer EXCEPT !.step = "poster"]
                   ELSE NoTransfer
    /\ UNCHANGED <<cards, buried, mergeVars, sending, late, happened>>

\* A refused size, a failed transfer, the deadline.
EndTransfer ==
    /\ transfer # NoTransfer
    /\ transfer' = NoTransfer
    /\ UNCHANGED <<cache, cards, buried, mergeVars, sending, late, torn, unpruned, happened>>

\* generate_message_video_thumbnail: ffmpeg wrote a frame of the video.
PosterMade(m, at) ==
    /\ Full(m, at) \in Held(cache)
    /\ cache' = Trimmed(Written(cache, File(Preview(m, at), PreviewSize, "frame")), Preview(m, at))
    /\ unpruned' = 0

\* refresh_message_video_thumbnail: a fresh download supersedes the preview.
RefreshPoster ==
    /\ transfer.step = "poster"
    /\ PosterMade(transfer.of, transfer.at)
    /\ transfer' = NoTransfer
    /\ UNCHANGED <<cards, buried, mergeVars, sending, late, torn, happened>>

Age(c, n) == CHOOSE i \in DOMAIN c : c[i].name = n

\* backfill_message_video_thumbnails, one video: its poster is missing or stale.
BackfillPoster(m, at) ==
    /\ KindOf[m] = "video" /\ Full(m, at) \in Held(cache)
    /\ Preview(m, at) \in Held(cache) => Age(cache, Preview(m, at)) < Age(cache, Full(m, at))
    /\ CacheEvent
    /\ PosterMade(m, at)
    /\ UNCHANGED <<cards, buried, mergeVars, transfer, sending, late, torn>>

-----------------------------------------------------------------------------
(* Drafts *)

\* stage_pasted_image, for a clipboard's picture or a chosen file.
Stage(d) ==
    /\ CacheEvent
    /\ Staged(d) \notin Held(cache) /\ d \notin sending
    /\ cache' = Written(cache, File(Staged(d), Declared, "whole"))
    /\ unpruned' = unpruned + Declared
    /\ UNCHANGED <<cards, buried, mergeVars, transfer, sending, late, torn>>

\* send_image reads the staged file before it uploads it.
BeginSend(d) ==
    /\ CacheEvent
    /\ Staged(d) \in Held(cache) /\ d \notin sending
    /\ sending' = sending \cup {d}
    /\ UNCHANGED <<cache, cards, buried, mergeVars, transfer, late, torn, unpruned>>

\* The ID of a message sent comes from its delivery: no row, file or transfer
\* has it (a row that does ends the command before).
NewId(m) ==
    /\ \A at \in AddressPair : m \notin Carded(at)
    /\ transfer.of # m /\ copy.name.of # m /\ \A n \in Held(cache) : n.of # m

\* Sent: what is left of the draft is copied for the row, whose preview is the
\* copy itself.
FinishSend(d, m, at) ==
    /\ d \in sending /\ NewId(m) /\ KindOf[m] # "video"
    /\ LET path == Full(m, at)
           copied == Staged(d) \in Held(cache)
       IN  /\ cache' = IF copied
                       THEN Trimmed(Written(cache, File(path, Declared, "whole")), path)
                       ELSE Trimmed(cache, Staged(d))
           /\ cards' = IF m \in buried[at] THEN cards
                       ELSE [cards EXCEPT ![at][m] =
                               [path |-> path,
                                thumb |-> IF KindOf[m] = "image" THEN path ELSE NoFile]]
    /\ unpruned' = 0
    /\ sending' = sending \ {d}
    /\ UNCHANGED <<buried, mergeVars, transfer, late, torn, happened>>

AbandonSend(d) ==
    /\ d \in sending
    /\ sending' = sending \ {d}
    /\ UNCHANGED <<cache, cards, buried, mergeVars, transfer, late, torn, unpruned, happened>>

-----------------------------------------------------------------------------
(* Deletions *)

\* DeleteMessageForMeUpdate: the row and a tombstone, then remove_message_media.
DeleteAttachment(m, at) ==
    /\ CacheEvent
    /\ cards' = [cards EXCEPT ![at][m] = NoCard]
    /\ buried' = [buried EXCEPT ![at] = @ \cup {m}]
    /\ cache' = Without(cache, {Full(m, at), Preview(m, at), Name(m, at, "bare")})
    /\ UNCHANGED <<mergeVars, transfer, sending, late, torn, unpruned>>

\* DeleteChatUpdate, ClearChatUpdate: the rows of the chat, and its files by
\* prefix unless the event keeps them.
ClearAttachments(at, keep) ==
    /\ CacheEvent
    /\ cards' = [cards EXCEPT ![at] = [m \in Attachments |-> NoCard]]
    /\ cache' = IF keep THEN cache ELSE Without(cache, {n \in Held(cache) : n.at = at})
    /\ UNCHANGED <<buried, mergeVars, transfer, sending, late, torn, unpruned>>

-----------------------------------------------------------------------------
(* The merge of the addresses *)

UnderLid(c) == {n \in Held(c) : n.at = "lid"}
AtPhone(n) == [n EXCEPT !.at = "phone"]

NoCopy == File(NoFile, 0, "none")

\* migrate_contact_jid found something under the LID, this time or once more:
\* of two rows of a message the number's keeps its medium.  The event of a
\* changed number ends here.
MigrateRows ==
    /\ merge = "none"
    /\ UnderLid(cache) # {} \/ Carded("lid") # {} \/ buried["lid"] # {}
    /\ cards' = [at \in AddressPair |-> [m \in Attachments |->
                    IF at = "lid" THEN NoCard
                    ELSE IF m \in Carded("phone") THEN cards["phone"][m] ELSE cards["lid"][m]]]
    /\ buried' = [at \in AddressPair |-> IF at = "lid" THEN {} ELSE buried["phone"] \cup buried["lid"]]
    /\ \/ merge' = "copying" /\ entries' = UnderLid(cache)
       \/ UNCHANGED <<merge, entries>>
    /\ UNCHANGED <<cache, moves, copy, transfer, sending, late, torn, unpruned, happened>>

\* What was not pruned since it was written.
Grown == unpruned' = unpruned + (Total(cache') - Total(cache))

\* copy_chat_media_alias, one entry: what has its name there already is not
\* looked at; anything else is copied (std::fs::copy).  Entries that came after
\* the copying began may be read or not.
SkipEntry(n) ==
    /\ merge = "copying" /\ copy = NoCopy
    /\ n \in (entries \cup UnderLid(cache)) \ moves /\ AtPhone(n) \in Held(cache)
    /\ moves' = moves \cup {n}
    /\ UNCHANGED <<cache, cards, buried, merge, entries, copy, transfer, sending,
                   late, torn, unpruned, happened>>

\* Mutation: the file is moved, and an error then leaves its rows behind.
MoveEntry(n) ==
    /\ merge = "copying" /\ copy = NoCopy
    /\ n \in UnderLid(cache) \ moves /\ AtPhone(n) \notin Held(cache)
    /\ cache' = RenamedTo(cache, n, AtPhone(n))
    /\ moves' = moves \cup {n}
    /\ UNCHANGED <<cards, buried, merge, entries, copy, transfer, sending,
                   late, torn, unpruned, happened>>

\* Half of a file, for any part of it: never as much as a sender declared.
Half(size) == size \div 2

BeginCopy(n) ==
    /\ merge = "copying" /\ copy = NoCopy
    /\ n \in UnderLid(cache) \ moves /\ AtPhone(n) \notin Held(cache)
    /\ copy' = FileAt(cache, n)
    /\ cache' = Written(cache, File(AtPhone(n), Half(FileAt(cache, n).size), "copying"))
    /\ torn' = torn \cup {AtPhone(n)}
    /\ Grown
    /\ UNCHANGED <<cards, buried, merge, entries, moves, transfer, sending, late, happened>>

\* The copy ends where its file is by now: taken for a preview it was renamed,
\* removed it is nowhere.
EndCopy ==
    /\ copy # NoCopy
    /\ \/ \E file \in Range(cache) :
             /\ file.is = "copying"
             /\ cache' = Written(cache, File(file.name, copy.size, copy.is))
       \/ /\ \A file \in Range(cache) : file.is # "copying"
          /\ UNCHANGED cache
    /\ torn' = torn \ {AtPhone(copy.name)}
    /\ moves' = moves \cup {copy.name} /\ copy' = NoCopy
    /\ Grown
    /\ UNCHANGED <<cards, buried, merge, entries, transfer, sending, late, happened>>

\* The file that was being copied stays as it is.
Broken(c) == [i \in DOMAIN c |-> IF c[i].is = "copying" THEN [c[i] EXCEPT !.is = "cut"] ELSE c[i]]

\* An entry or its copy failed: no replacement is returned.
FailCopying ==
    /\ merge = "copying"
    /\ cache' = Broken(cache)
    /\ merge' = "none" /\ entries' = {} /\ moves' = {} /\ copy' = NoCopy
    /\ UNCHANGED <<cards, buried, transfer, sending, late, torn, unpruned, happened>>

EndCopying ==
    /\ merge = "copying" /\ copy = NoCopy /\ entries \cap Held(cache) \subseteq moves
    /\ merge' = "copied" /\ entries' = {}
    /\ UNCHANGED <<cache, cards, buried, moves, copy, transfer, sending,
                   late, torn, unpruned, happened>>

\* rewrite_media_paths, in the rows of any chat, or its failure.
RewritePaths ==
    /\ merge = "copied"
    /\ LET Moved(n) == IF n \in moves THEN AtPhone(n) ELSE n
       IN  cards' \in {cards, [at \in AddressPair |-> [m \in Attachments |->
              [path |-> Moved(cards[at][m].path), thumb |-> Moved(cards[at][m].thumb)]]]}
    /\ merge' = "none" /\ moves' = {}
    /\ UNCHANGED <<cache, buried, entries, copy, transfer, sending, late, torn, unpruned, happened>>

\* The daemon stops, as at a crash, and starts: temporary files go, a copy that
\* was under way stays as far as it came.
RestartCache ==
    /\ CacheEvent
    /\ cache' = Broken(cache)
    /\ merge' = "none" /\ entries' = {} /\ moves' = {} /\ copy' = NoCopy
    /\ transfer' = NoTransfer /\ sending' = {}
    /\ UNCHANGED <<cards, buried, late, torn, unpruned>>

-----------------------------------------------------------------------------
\* An empty directory, or one in which an early build left a preview.
CacheInit ==
    /\ \/ /\ cache = <<>> /\ cards = [at \in AddressPair |-> [m \in Attachments |-> NoCard]]
       \/ \E early \in Attachments :
             /\ KindOf[early] = "image"
             /\ cache = <<File(Full(early, "lid"), PreviewSize, "preview")>>
             /\ cards = [at \in AddressPair |-> [m \in Attachments |->
                           IF at = "lid" /\ m = early THEN EarlyCard(m) ELSE NoCard]]
    /\ buried = [at \in AddressPair |-> {}]
    /\ merge = "none" /\ entries = {} /\ moves = {} /\ copy = NoCopy
    /\ transfer = NoTransfer /\ sending = {}
    /\ late = {} /\ torn = {} /\ unpruned = 0 /\ happened = 0

CacheNext ==
    \/ \E m \in Attachments, at \in AddressPair :
          \/ \E thumb \in BOOLEAN : ReceiveMedia(m, at, thumb)
          \/ BeginDownload(m, at) \/ DeleteAttachment(m, at) \/ BackfillPoster(m, at)
          \/ \E d \in Drafts : FinishSend(d, m, at)
    \/ \E d \in Drafts : Stage(d) \/ BeginSend(d) \/ AbandonSend(d)
    \/ FinishDownload \/ EndTransfer \/ RefreshPoster
    \/ \E at \in AddressPair, keep \in BOOLEAN : ClearAttachments(at, keep)
    \/ \E n \in entries \cup UnderLid(cache) : SkipEntry(n) \/ BeginCopy(n)
    \/ MigrateRows \/ EndCopy \/ FailCopying \/ EndCopying \/ RewritePaths \/ RestartCache

CacheSpec == CacheInit /\ [][CacheNext]_cacheVars

-----------------------------------------------------------------------------
(* Properties *)

\* What decode_message calls downloaded is the whole medium, never the preview
\* an early build left at its path nor the part of it that a failed copy left,
\* through replays, downloads and merges.  The exceptions are a message that
\* came anew under one address while the preview was at its place under the
\* other, which a copy or the rewriting then brings together with the new row,
\* and a copy that has not ended whole, until its message comes anew: pictures
\* and videos are told by their size then, documents never.
DownloadedIsWhole ==
    \A at \in AddressPair : \A m \in Carded(at) \ late :
        IsShown(cache, at, m) /\ cards[at][m].path \notin torn =>
            FileAt(cache, cards[at][m].path).is = "whole"

\* A prune that dropped the files N of the cache left no room for them.
Squeezed(N) ==
    Total(cache') + Total(FilesIn(cache, N)) > Budget

\* An event removed the files of m under the address.
Discarded(m, at) ==
    happened' # happened /\ \A n \in Held(cache') : n.of = m => n.at # at

\* A medium that is shown as downloaded stays so while its row exists under its
\* address, and a draft stays until the restart of its shell, unless
\* prune_directory needed the room; the medium has another size than its sender
\* declared, so that cache_media_thumbnail takes it for a preview; or its row
\* and its file are, or come to be, under different addresses: the row is led to
\* another file (the message arrived again, or the paths were rewritten), or the
\* file goes with what is deleted under its own.
KeptFilesGoForAReason ==
    [][LET lost == Held(cache) \ Held(cache')
       IN  /\ \A d \in Drafts : Staged(d) \in lost => Squeezed(lost)
           /\ \A at \in AddressPair : \A m \in Carded(at) :
                LET path == cards[at][m].path
                    next == cards'[at][m].path
                IN  IsShown(cache, at, m) /\ cards'[at][m] # NoCard /\ ~IsShown(cache, at, m)' =>
                        \/ path \in lost /\ Squeezed(lost)
                        \/ FileAt(cache, path).size # Declared
                        \/ next # path /\ (path.at # at \/ next.at # at)
                        \/ path.at # at /\ Discarded(m, path.at)]_cacheVars

\* Past its budget the directory holds at most what was staged or copied since
\* the last prune, or the one file that prune was told to keep.
CacheIsBounded == Total(cache) <= Budget + unpruned

\* Both, of every state of the media directory.
CacheIsSound == DownloadedIsWhole /\ CacheIsBounded

\* "the daemon hands the shell a cached file that the desktop's own handler
\* opens" (DocumentCard.qml): a downloaded document is where its row says, or
\* would be had its path not stayed under the former address.
DocumentIsFound ==
    \A at \in AddressPair : \A m \in Carded(at) :
        /\ KindOf[m] = "document" /\ cards[at][m].path.at = at
        /\ Downloaded(m, at) \in Held(cache)
        => cards[at][m].path \in Held(cache)
=============================================================================
