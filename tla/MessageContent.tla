---------------------------- MODULE MessageContent ----------------------------
(* What a message's row shows (messages.rs, history.rs) when the same message  *)
(* comes live, live without its body, from history, or was an own poll stored  *)
(* as it was sent (commands.rs).  The first delivery makes the row; what comes *)
(* after completes its media and, but for one label, leaves the rest alone     *)
(* (database.rs).                                                              *)
EXTENDS Naturals, Sequences, FiniteSets, Functions

CONSTANTS
    PollLimit,      \* MAX_POLL_OPTIONS
    Deliveries      \* bound: deliveries, votes and ends of a share

ASSUME ContentAssumption == PollLimit \in Nat \ {0, 1} /\ Deliveries \in Nat

VARIABLES
    wire,       \* external: the message as its sender's phone has it
    over,       \* external: the share of a live location has ended
    row,        \* its row in messages: text, quote and media
    got,        \* history: the deliveries so far
    blank,      \* history: the row was made without a body
    reopened,   \* history: a live share was delivered again after its end
    ballots,    \* history: a vote was counted
    delivered   \* bound: deliveries so far

contentVars == <<wire, over, row, got, blank, reopened, ballots, delivered>>

-----------------------------------------------------------------------------
(* Polls *)

NoPoll == [options |-> <<>>, selectable |-> 0, answer |-> 0]
Unsaid == 99    \* no selectable_options_count
NoOption == ""

\* The names that are not empty, in their order.
Usable(names) ==
    LET kept == {i \in DOMAIN names : names[i] # NoOption}
    IN  [k \in 1..Cardinality(kept) |->
            names[CHOOSE i \in kept : Cardinality({j \in kept : j < i}) = k - 1]]
Place(options, name) ==
    LET at == {i \in DOMAIN options : options[i] = name}
    IN  IF at = {} THEN 0 ELSE CHOOSE i \in at : \A j \in at : i <= j

\* poll_media: zero and too many mean all, no count means one.
PollCard(poll) ==
    LET options == Usable(poll.names)
    IN  IF Len(options) < 2 THEN NoPoll
        ELSE [options |-> options,
              selectable |-> CASE poll.allowed = 0 -> Len(options)
                               [] poll.allowed = Unsaid -> 1
                               [] poll.allowed \notin {0, Unsaid} ->
                                      IF poll.allowed > Len(options) THEN Len(options)
                                      ELSE poll.allowed,
              answer |-> IF poll.right = NoOption THEN 0 ELSE Place(options, poll.right)]

\* validate_poll_request; right is the place of a quiz's answer, 0 for none.
Accepted(request) ==
    /\ Len(request.names) \in 2..PollLimit
    /\ \A i \in DOMAIN request.names : request.names[i] # NoOption
    /\ IsInjective(request.names)
    /\ IF request.right > 0 THEN request.right \in DOMAIN request.names
       ELSE request.allowed \in 1..Len(request.names)

\* The card CreatePoll stores for it.
OwnCard(request) ==
    [options |-> request.names, answer |-> request.right,
     selectable |-> IF request.right > 0 THEN 1 ELSE request.allowed]

\* external: how WhatsApp writes it; a free choice may be a zero.
OnTheWire(request) ==
    {[names |-> request.names, allowed |-> n,
      right |-> IF request.right > 0 THEN request.names[request.right] ELSE NoOption] :
        n \in {OwnCard(request).selectable}
              \cup (IF request.right = 0 /\ request.allowed = Len(request.names) THEN {0} ELSE {})}

-----------------------------------------------------------------------------
(* Messages *)

NoBallot == [names |-> <<>>, allowed |-> Unsaid, right |-> NoOption]
Wire(body) == [body |-> body, caption |-> FALSE, quote |-> "none", thumb |-> FALSE,
               minutes |-> 0, poll |-> NoBallot, depth |-> 0]

\* quote: of what contextInfo names, all or only a part is there; depth: the
\* wrappers around a reaction.
Captioned(b, c, q) == [Wire(b) EXCEPT !.caption = c, !.quote = q, !.thumb = (q = "whole")]
Shared(n, t) == [Wire("live") EXCEPT !.minutes = n, !.thumb = t]
Polled(poll) == [Wire("poll") EXCEPT !.poll = poll]
Reacting(d) == [Wire("reaction") EXCEPT !.depth = d]

Wires ==
    LET lists == [names : {<<"a", "b">>, <<"a", NoOption>>, <<"a", "b", "a">>},
                    allowed : {0, 1, 5, Unsaid}, right : {NoOption, "b", "c"}]
    IN  {Captioned(b, c, q) : b \in {"text", "image", "gif", "location"}, c \in BOOLEAN,
                          q \in {"none", "part", "whole"}}
        \cup {Shared(n, t) : n \in {0, 5}, t \in BOOLEAN}
        \cup {Polled(poll) : poll \in lists}
        \cup {Reacting(d) : d \in {0, 15, 16}}

Asked == {[names |-> o, allowed |-> n, right |-> r] :
             o \in UNION {[1..k -> {"a", "b", NoOption}] : k \in 0..3}, n \in 0..3, r \in 0..3}

\* find_reaction_message: never a row, except that one too deep is nothing at all.
IsReaction(w) == w.body = "reaction"

\* text_content, the caption, else media_text.
TextOf(w) ==
    CASE w.caption \/ w.body = "text" -> "its own"
      [] w.body = "image" /\ ~w.caption -> "[Image]"
      [] w.body = "gif" /\ ~w.caption -> "[GIF]"
      [] w.body = "location" /\ ~w.caption -> "[Location]"
      [] w.body = "live" -> "[Live location]"
      [] w.body = "poll" -> "[Poll] name"
      [] OTHER -> "none"

\* media_placeholder, by the type the envelope of a message without body gives.
Placeholder(w) ==
    CASE w.body = "image" -> "[Image]"
      [] w.body = "gif" -> "[Video]"
      [] w.body \in {"location", "live"} -> "[Location]"
      [] w.body = "poll" -> "[Poll]"
      [] OTHER -> "none"

NoMedia == [kind |-> "none", thumb |-> FALSE, live |-> FALSE, minutes |-> 0, card |-> NoPoll, votes |-> 0]

\* message_media; history knows the duration of a share.
MediaOf(w, minutes) ==
    CASE w.body = "poll" /\ PollCard(w.poll) # NoPoll ->
            [NoMedia EXCEPT !.kind = "poll", !.card = PollCard(w.poll)]
      [] w.body \in {"location", "live"} ->
            [NoMedia EXCEPT !.kind = "location", !.thumb = w.thumb, !.live = (w.body = "live"),
                            !.minutes = minutes]
      [] w.body \in {"image", "gif"} -> [NoMedia EXCEPT !.kind = w.body]
      [] OTHER -> NoMedia

\* message_quote
Quoted(w) == w.quote = "whole"

-----------------------------------------------------------------------------
(* Deliveries *)

NoContent == [text |-> "none", quote |-> FALSE, media |-> NoMedia]

\* receive_message, with the body or without, and history_message; the final
\* location of a share that is over has no preview of its own here.
Content(form) ==
    CASE form = "bare" -> [NoContent EXCEPT !.text = Placeholder(wire)]
      [] form = "live" -> [text |-> TextOf(wire), quote |-> Quoted(wire), media |-> MediaOf(wire, 0)]
      [] form = "history" ->
            [text |-> TextOf(wire), quote |-> Quoted(wire), media |-> MediaOf(wire, wire.minutes)]
      [] form = "final" ->
            [text |-> TextOf(wire), quote |-> Quoted(wire),
             media |-> [MediaOf(wire, wire.minutes) EXCEPT !.live = FALSE, !.thumb = FALSE]]

\* Mutation: the newer media replace what there was.
ReplacedMedia(old, new) == new

\* update_message_media_into: what a location's newer state leaves out stays, as
\* does the tally of a poll.
MergedMedia(old, new) ==
    IF new.kind = "none" THEN old
    ELSE IF new.kind = "location" /\ old.kind = "location"
    THEN [new EXCEPT !.thumb = old.thumb \/ new.thumb,
                     !.minutes = IF new.minutes = 0 THEN old.minutes ELSE new.minutes]
    ELSE [new EXCEPT !.votes = old.votes]

\* INSERT OR IGNORE; for a GIF the label is put right.
Absorbed(content) ==
    IF row = NoContent THEN content
    ELSE [row EXCEPT !.media = MergedMedia(row.media, content.media),
                     !.text = IF content.media.kind = "gif" /\ row.text = "[Video]"
                              THEN "[GIF]" ELSE row.text]

Comes == delivered < Deliveries /\ delivered' = delivered + 1

DeliverContent(form) ==
    /\ Comes /\ ~IsReaction(wire)
    /\ form \in {"history", "final"} => (form = "final") = over
    /\ Content(form).text # "none"
    /\ row' = Absorbed(Content(form))
    /\ got' = got \cup {form}
    /\ blank' = (blank \/ (form = "bare" /\ row = NoContent))
    /\ reopened' = (form # "final" /\ (reopened \/ (form = "live" /\ "final" \in got)))
    /\ UNCHANGED <<wire, over, ballots>>

\* A reaction within 16 wrappers goes to its message; deeper ones have no text.
DeliverReaction ==
    /\ Comes /\ IsReaction(wire)
    /\ IF wire.depth < 16 THEN got' = got \cup {"reaction"} ELSE UNCHANGED got
    /\ UNCHANGED <<wire, over, row, blank, reopened, ballots>>

\* external: the share ends, and history tells from now on where.
EndShare ==
    /\ Comes /\ wire.body = "live" /\ ~over
    /\ over' = TRUE
    /\ UNCHANGED <<wire, row, got, blank, reopened, ballots>>

\* apply_poll_vote and the tally of the card.
CountVote ==
    /\ Comes /\ row.media.kind = "poll" /\ ~ballots
    /\ row' = [row EXCEPT !.media.votes = 1]
    /\ ballots' = TRUE
    /\ UNCHANGED <<wire, over, got, blank, reopened>>

\* A message of someone else, or an own poll with the row CreatePoll stored.
ContentInit ==
    /\ over = FALSE /\ blank = FALSE /\ reopened = FALSE /\ ballots = FALSE /\ delivered = 0
    /\ \/ wire \in Wires /\ row = NoContent /\ got = {}
       \/ \E request \in {r \in Asked : Accepted(r)} : \E poll \in OnTheWire(request) :
             /\ wire = Polled(poll)
             /\ row = [text |-> "[Poll] name", quote |-> FALSE,
                       media |-> [NoMedia EXCEPT !.kind = "poll", !.card = OwnCard(request)]]
             /\ got = {"own"}

ContentNext ==
    \/ \E form \in {"bare", "live", "history", "final"} : DeliverContent(form)
    \/ DeliverReaction \/ EndShare \/ CountVote

ContentSpec == ContentInit /\ [][ContentNext]_contentVars

-----------------------------------------------------------------------------
\* In whatever order a message's deliveries come, and however often, its row
\* shows the same: a duration, a preview, the end of a share and a tally are not
\* lost again, a poll sent here is the poll that comes back, a choice names as
\* many options as there are, and the text is the message's own.  But the
\* text and the quote of a row made without the body stay those of the
\* placeholder, and a live message that comes again after the final snapshot
\* makes the share live again.
ContentConverges ==
    LET whole == got \ {"bare", "reaction"}
    IN  /\ IsReaction(wire) => row = NoContent
        /\ whole # {} /\ ~blank => row.text = TextOf(wire) /\ (row.quote <=> Quoted(wire))
        /\ blank => row.text = (IF wire.body = "gif" /\ whole # {} THEN "[GIF]" ELSE Placeholder(wire))
        /\ whole # {} =>
              row.media = [MediaOf(wire, IF got \cap {"history", "final"} # {}
                                         THEN wire.minutes ELSE 0)
                           EXCEPT !.live = (@ /\ ("final" \notin got \/ reopened)),
                                  !.thumb = (@ /\ got \cap {"live", "history"} # {}),
                                  !.votes = IF ballots THEN 1 ELSE 0]
        /\ row.media.kind = "poll" =>
              /\ row.media.card.selectable \in 1..Len(row.media.card.options)
              /\ row.media.card.answer \in 0..Len(row.media.card.options)
=============================================================================
