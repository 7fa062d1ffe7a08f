----------------------------- MODULE AvatarGallery -----------------------------
(* How the pictures in the avatar directory reach the shell (state.rs,         *)
(* assets.rs, Service.qml).  A writer puts a file in place and then marks the  *)
(* directory dirty; one delayed flush compares a scan with the last one and    *)
(* announces the list and what changed under a new revision, which makes the   *)
(* shell load those pictures again.  Two flushes that have both scanned are    *)
(* numbered, stamped and sent in any order.  A snapshot carries the list alone. *)
EXTENDS Naturals, Sequences, FiniteSets

CONSTANTS
    Faces,          \* contacts with a picture
    FaceChanges,    \* bound: files written or removed
    Breaks          \* bound: lags and disconnections

ASSUME GalleryAssumption == FaceChanges \in Nat /\ Breaks \in Nat

VARIABLES
    files,      \* the version of each file, 0 if there is none
    turn,       \* bound: changes of files so far
    unmarked,   \* contacts whose writer has not called avatars_changed
    coalescer,  \* AvatarCoalescer: fingerprints, seeded, flush_scheduled
    number,     \* AvatarBroadcaster.revision
    flushes,    \* flushes that have scanned and not sent; wrong, history: what
                \* the list names wrongly when it is stamped
    stamped,    \* revisions the clock has given to frames of this resource
    bus,        \* the events of the shell's connection
    listings,   \* list_avatars under way: asked, read, or an answer on its way
    linked,     \* the shell is connected
    gallery,    \* the shell: avatarAvailable, avatarRevisions, the sequence and
                \* the version it loaded at the present URL
    breaks,     \* bound: lags and disconnections so far
    unseen      \* history: contacts whose newest change the shell was not told

galleryVars == <<files, turn, unmarked, coalescer, number, flushes, stamped, bus, listings,
                 linked, gallery, breaks, unseen>>

GalleryInit ==
    /\ files \in [Faces -> {0, 1}] /\ turn = 0 /\ unmarked = {}
    /\ coalescer = [known |-> [f \in Faces |-> 0], seeded |-> FALSE, due |-> FALSE]
    /\ number = 0 /\ flushes = {} /\ stamped = 0
    /\ bus = <<>> /\ listings = {} /\ linked = FALSE
    /\ gallery = [has |-> {}, rev |-> [f \in Faces |-> 0], seq |-> 0,
                  loaded |-> [f \in Faces |-> 0]]
    /\ breaks = 0 /\ unseen = {}

OnDisk == {f \in Faces : files[f] # 0}

-----------------------------------------------------------------------------
(* The daemon *)

\* A fetch, a picture event or a merge writes a file anew or removes it.
ChangeFace(f, version) ==
    /\ turn < FaceChanges /\ version # files[f]
    /\ turn' = turn + 1
    /\ files' = [files EXCEPT ![f] = version]
    /\ unmarked' = unmarked \cup {f}
    /\ UNCHANGED <<coalescer, number, flushes, stamped, bus, listings, linked, gallery,
                   breaks, unseen>>

\* avatars_changed: the caller that finds no flush pending spawns one.
MarkDirty(f) ==
    /\ f \in unmarked
    /\ unmarked' = unmarked \ {f}
    /\ coalescer' = [coalescer EXCEPT !.due = TRUE]
    /\ UNCHANGED <<files, turn, number, flushes, stamped, bus, listings, linked, gallery,
                   breaks, unseen>>

\* The delayed flush: the scan and the comparison are one critical section,
\* which ends before the flush goes on.
ScanChanges ==
    /\ coalescer.due
    /\ coalescer' = [known |-> files, seeded |-> TRUE, due |-> FALSE]
    /\ LET changed == {f \in Faces : files[f] # coalescer.known[f]}
       IN  flushes' = IF changed = {} THEN flushes
                      ELSE flushes \cup {[step |-> "scanned", at |-> turn, has |-> OnDisk,
                                         changed |-> changed, rev |-> 0, seq |-> 0, wrong |-> {}]}
    /\ UNCHANGED <<files, turn, unmarked, number, stamped, bus, listings, linked, gallery,
                   breaks, unseen>>

\* Contacts a list names wrongly by what has been scanned since it was read.
Overtaken(has) == {f \in Faces : (f \in has) # (coalescer.known[f] # 0)}

\* revision.fetch_add
NumberChanges(flush) ==
    /\ flush.step = "scanned"
    /\ number' = number + 1
    /\ flushes' = (flushes \ {flush})
                     \cup {[flush EXCEPT !.step = "numbered", !.rev = number + 1]}
    /\ UNCHANGED <<files, turn, unmarked, coalescer, stamped, bus, listings, linked, gallery,
                   breaks, unseen>>

\* stamp_event
StampChanges(flush) ==
    /\ flush.step = "numbered"
    /\ stamped' = stamped + 1
    /\ flushes' = (flushes \ {flush})
                     \cup {[flush EXCEPT !.step = "stamped", !.seq = stamped + 1,
                                         !.wrong = Overtaken(flush.has)]}
    /\ UNCHANGED <<files, turn, unmarked, coalescer, number, bus, listings, linked, gallery,
                   breaks, unseen>>

\* events.send: without a connection nobody hears it.
SendChanges(flush) ==
    /\ flush.step = "stamped"
    /\ flushes' = flushes \ {flush}
    /\ bus' = IF linked THEN Append(bus, flush) ELSE bus
    /\ unseen' = unseen \cup (IF linked THEN {} ELSE flush.changed)
    /\ UNCHANGED <<files, turn, unmarked, coalescer, number, stamped, listings, linked, gallery,
                   breaks>>

\* Mutation: every snapshot becomes the baseline.
Rebased == [coalescer EXCEPT !.known = files, !.seeded = TRUE]

\* AvatarCoalescer::seed
Seeded == IF coalescer.seeded THEN coalescer ELSE Rebased

\* list_avatars; wrong: history, what the list names wrongly when it is stamped.
Asking == [step |-> "asked", has |-> {}, seq |-> 0, wrong |-> {}]

\* avatar_snapshot
ReadAvatars(l) ==
    /\ l.step = "asked"
    /\ coalescer' = Seeded
    /\ listings' = (listings \ {l}) \cup {[Asking EXCEPT !.step = "read", !.has = OnDisk]}
    /\ UNCHANGED <<files, turn, unmarked, number, flushes, stamped, bus, linked, gallery,
                   breaks, unseen>>

\* The response is stamped behind the handler; it waits in a queue of its own.
StampAvatars(l) ==
    /\ l.step = "read"
    /\ stamped' = stamped + 1
    /\ listings' = (listings \ {l}) \cup {[step |-> "answer", has |-> l.has, seq |-> stamped + 1,
                                     wrong |-> Overtaken(l.has)]}
    /\ UNCHANGED <<files, turn, unmarked, coalescer, number, flushes, bus, linked, gallery,
                   breaks, unseen>>

-----------------------------------------------------------------------------
(* The shell *)

\* A picture is loaded when its URL changes: it is there now and was not, or
\* its revision is another.
Loaded(has, rev) ==
    [f \in Faces |-> IF f \in has /\ (f \notin gallery.has \/ rev[f] # gallery.rev[f])
                     THEN files[f] ELSE gallery.loaded[f]]

\* acceptFrame and the avatars handler; an older frame is dropped whole.
Show(frame, changed, rev) ==
    \/ /\ frame.seq <= gallery.seq
       /\ unseen' = unseen \cup changed
       /\ UNCHANGED gallery
    \/ /\ frame.seq > gallery.seq
       /\ LET revs == [f \in Faces |-> IF f \in changed THEN rev ELSE gallery.rev[f]]
          IN  gallery' = [has |-> frame.has, rev |-> revs, seq |-> frame.seq,
                          loaded |-> Loaded(frame.has, revs)]
       /\ unseen' = ((unseen \cap frame.has \cap gallery.has) \ changed) \cup frame.wrong

TakeChanges ==
    /\ linked /\ bus # <<>>
    /\ bus' = Tail(bus)
    /\ Show(Head(bus), Head(bus).changed, Head(bus).rev)
    /\ UNCHANGED <<files, turn, unmarked, coalescer, number, flushes, stamped, listings,
                   linked, breaks>>

TakeList(l) ==
    /\ linked /\ l.step = "answer"
    /\ listings' = listings \ {l}
    /\ Show(l, {}, 0)
    /\ UNCHANGED <<files, turn, unmarked, coalescer, number, flushes, stamped, bus,
                   linked, breaks>>

MissedIn(frames) == UNION {frames[i].changed : i \in DOMAIN frames}

\* handleHello asks for the list, after a connection and after a lag.
LinkShell ==
    /\ ~linked
    /\ linked' = TRUE /\ listings' = {Asking}
    /\ UNCHANGED <<files, turn, unmarked, coalescer, number, flushes, stamped, bus, gallery,
                   breaks, unseen>>

\* The connection ends with its queues; what is shown stays.
UnlinkShell ==
    /\ linked /\ breaks < Breaks
    /\ linked' = FALSE /\ breaks' = breaks + 1
    /\ bus' = <<>> /\ listings' = {}
    /\ unseen' = unseen \cup MissedIn(bus)
    /\ UNCHANGED <<files, turn, unmarked, coalescer, number, flushes, stamped, gallery>>

\* The broadcast channel overran the connection: a hello instead of its events.
LagShell ==
    /\ linked /\ bus # <<>> /\ breaks < Breaks
    /\ breaks' = breaks + 1
    /\ bus' = <<>> /\ listings' = listings \cup {Asking}
    /\ unseen' = unseen \cup MissedIn(bus)
    /\ UNCHANGED <<files, turn, unmarked, coalescer, number, flushes, stamped, linked, gallery>>

-----------------------------------------------------------------------------
GalleryNext ==
    \/ \E f \in Faces : \E version \in {0, turn + 2} : ChangeFace(f, version)
    \/ \E f \in Faces : MarkDirty(f)
    \/ ScanChanges
    \/ \E flush \in flushes : NumberChanges(flush) \/ StampChanges(flush) \/ SendChanges(flush)
    \/ \E l \in listings : ReadAvatars(l) \/ StampAvatars(l) \/ TakeList(l)
    \/ TakeChanges \/ LinkShell \/ UnlinkShell \/ LagShell

GallerySpec == GalleryInit /\ [][GalleryNext]_galleryVars

\* Once nothing is under way, the shell shows the pictures on disk.  The
\* exceptions are contacts whose announcement was lost for good: a lag or a
\* disconnection took it, a frame with a later stamp, of a snapshot or of another
\* flush, came to the shell first, or the newest list was read before a change
\* and stamped behind its announcement.  A snapshot brings back who has a picture, but not that a
\* picture is another one (its changed_jids are empty).
GalleryIsCurrent ==
    linked /\ unmarked = {} /\ ~coalescer.due /\ flushes = {} /\ bus = <<>> /\ listings = {}
        => \A f \in Faces \ unseen :
              files[f] = IF f \in gallery.has THEN gallery.loaded[f] ELSE 0
=============================================================================
