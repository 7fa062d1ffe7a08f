----------------------------- MODULE AvatarFetch -----------------------------
(* The cached profile picture of one contact: the fetches that fill it         *)
(* (refresh_avatar, sync.rs; fetch_avatar, assets.rs), started by a request of *)
(* the shell or a synchronisation pass, or forced by a PictureUpdate event     *)
(* (events.rs).  A fetch asks for the current picture, downloads it and writes *)
(* it; several may run for one contact at a time, because only the requests    *)
(* of the shell are deduplicated (avatar_fetches, commands.rs).                *)
EXTENDS Naturals, Sequences

CONSTANTS
    Pictures,       \* pictures the contact may set
    NoPicture,      \* no picture
    Fetchers,       \* bound: fetches at a time
    Backlog         \* bound: picture events on their way

ASSUME PicturesAssumption == NoPicture \notin Pictures /\ Backlog \in Nat

VARIABLES
    picture,    \* the contact's picture on the server
    events,     \* PictureUpdate events on their way: the picture is there or not
    cached,     \* the picture in the avatar file, NoPicture without a file
    missing,    \* whether the missing-avatar marker exists
    fetches,    \* the running fetches
    requested,  \* the fetch of the shell's request, if it runs (avatar_fetches)
    crossed       \* history: a change was announced while a fetch held the
                \* answer to an earlier question

avatarVars == <<picture, events, cached, missing, fetches, requested, crossed>>

NoFetch == [step |-> "none", got |-> NoPicture]
NoFetcher == "nobody"
Running == {f \in Fetchers : fetches[f] # NoFetch}

AvatarInit ==
    /\ picture = NoPicture /\ events = <<>>
    /\ cached = NoPicture /\ missing = FALSE
    /\ fetches = [f \in Fetchers |-> NoFetch]
    /\ requested = NoFetcher
    /\ crossed = FALSE

-----------------------------------------------------------------------------
(* The contact changes or removes the picture; the server announces it. *)
ChangePicture(new) ==
    /\ new # picture /\ Len(events) < Backlog
    /\ picture' = new
    /\ events' = Append(events, new # NoPicture)
    /\ UNCHANGED <<cached, missing, fetches, requested, crossed>>

Begin(f, step) ==
    /\ fetches[f] = NoFetch
    /\ fetches' = [fetches EXCEPT ![f].step = step]

\* RequestAvatar of the shell: one at a time per contact, and only what is
\* neither cached nor known to be missing is fetched.
RequestAvatar(f) ==
    /\ requested = NoFetcher
    /\ cached = NoPicture /\ ~missing
    /\ Begin(f, "ask")
    /\ requested' = f
    /\ UNCHANGED <<picture, events, cached, missing, crossed>>

\* refresh_avatar(force = false) of sync_avatars.
SyncAvatar(f) ==
    /\ cached = NoPicture /\ ~missing
    /\ Begin(f, "ask")
    /\ UNCHANGED <<picture, events, cached, missing, requested, crossed>>

\* refresh_avatar(force = true) of ContactUpdated, ContactNumberChanged or
\* BusinessStatusUpdate.
ForceAvatar(f) ==
    /\ Begin(f, "drop")
    /\ UNCHANGED <<picture, events, cached, missing, requested, crossed>>

\* Whether a fetch holds an answer older than the change being announced.
Overtaken == \E g \in Running : fetches[g].step = "write" /\ fetches[g].got # picture

\* Mutation: the cached file stays until the new picture is there.
PictureUpdateKeepsFile(f) ==
    /\ events # <<>> /\ Head(events)
    /\ events' = Tail(events)
    /\ Begin(f, "ask")
    /\ crossed' = (crossed \/ Overtaken)
    /\ UNCHANGED <<picture, cached, missing, requested>>

\* PictureUpdate: drop what is cached and fetch anew.
PictureUpdate(f) ==
    /\ events # <<>> /\ Head(events)
    /\ events' = Tail(events)
    /\ cached' = NoPicture /\ missing' = FALSE
    /\ Begin(f, "drop")
    /\ crossed' = (crossed \/ Overtaken)
    /\ UNCHANGED <<picture, requested>>

\* PictureUpdate of a removal: drop what is cached and write the marker.
PictureRemoved ==
    /\ events # <<>> /\ ~Head(events)
    /\ events' = Tail(events)
    /\ cached' = NoPicture /\ missing' = TRUE
    /\ crossed' = (crossed \/ Overtaken)
    /\ UNCHANGED <<picture, fetches, requested>>

-----------------------------------------------------------------------------
(* refresh_avatar and fetch_avatar *)

\* A forced refresh drops the cached files, whoever wrote them.
DropAvatar(f) ==
    /\ fetches[f].step = "drop"
    /\ fetches' = [fetches EXCEPT ![f].step = "ask"]
    /\ cached' = NoPicture /\ missing' = FALSE
    /\ UNCHANGED <<picture, events, requested, crossed>>

AskPicture(f) ==
    /\ fetches[f].step = "ask"
    /\ fetches' = [fetches EXCEPT ![f] = [step |-> "write", got |-> picture]]
    /\ UNCHANGED <<picture, events, cached, missing, requested, crossed>>

End(f) ==
    /\ fetches' = [fetches EXCEPT ![f] = NoFetch]
    /\ requested' = IF requested = f THEN NoFetcher ELSE requested

\* The picture was downloaded and written, or there is none.
WriteAvatar(f) ==
    /\ fetches[f].step = "write"
    /\ cached' = fetches[f].got
    /\ missing' = (fetches[f].got = NoPicture)
    /\ End(f)
    /\ UNCHANGED <<picture, events, crossed>>

\* An error, the deadline of a request, or the end of the client generation.
FetchFails(f) ==
    /\ fetches[f] # NoFetch
    /\ End(f)
    /\ UNCHANGED <<picture, events, cached, missing, crossed>>

AvatarNext ==
    \/ \E new \in Pictures \cup {NoPicture} : ChangePicture(new)
    \/ \E f \in Fetchers :
          \/ RequestAvatar(f) \/ SyncAvatar(f) \/ ForceAvatar(f) \/ PictureUpdate(f)
          \/ DropAvatar(f) \/ AskPicture(f) \/ WriteAvatar(f) \/ FetchFails(f)
    \/ PictureRemoved

AvatarSpec == AvatarInit /\ [][AvatarNext]_avatarVars

-----------------------------------------------------------------------------
(* Properties *)

\* When no fetch runs and no change is on its way, the cache shows the current
\* picture, knows that there is none, or is empty and will be filled on the
\* next request; it is wrong only after a change was handled while a fetch
\* held an older answer (refresh_avatar gives no order to two fetches).
StaleAvatarIsExplained ==
    (Running = {} /\ events = <<>> /\ ~crossed)
        => (cached \in {NoPicture, picture} /\ (missing => picture = NoPicture))
=============================================================================
