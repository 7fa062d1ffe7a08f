------------------------------ MODULE ChatHistory ------------------------------
(* The stored history of direct chats (database.rs): which messages a chat     *)
(* holds, which of them count as unread, what other devices have read, deleted *)
(* or cleared, and how a contact's two addresses become one chat.  Every       *)
(* database method is one transaction; those that read a chat first and apply  *)
(* the result under a second lock are two steps.                               *)
EXTENDS Naturals, FiniteSets

CONSTANTS
    Jids,           \* addresses a chat is stored under
    NoJid,          \* no address
    Ids,            \* messages
    Mine,           \* the messages of this account
    Time,           \* Message.timestamp
    HistoryLimit,   \* messages prune_chat_history keeps (1000)
    NamedCap,       \* READ_BOUNDARY_IDS_CAP (256)
    PhoneUnread,    \* bound: the unread count a history conversation brings
    LastTime,       \* bound: seconds
    Operations      \* bound: operations of a behaviour

\* A keyed boundary ends a second before its messages, and seconds are positive.
ASSUME MessagesAssumption ==
    /\ NoJid \notin Jids /\ IsFiniteSet(Ids) /\ Mine \subseteq Ids
    /\ LastTime \in Nat /\ Time \in [Ids -> 2..LastTime]
ASSUME LimitsAssumption ==
    /\ HistoryLimit \in Nat /\ NamedCap \in Nat
    /\ PhoneUnread \in Nat /\ Operations \in Nat

VARIABLES
    chats,      \* the rows of chats, messages, message_tombstones, chat_settings
    pending,    \* read operations between their two locks
    done,       \* bound: operations begun so far
    settled,    \* history: messages a read has covered
    removed,    \* history: messages a deletion has covered
    miscounted  \* history: chats a merge of two unread histories left uncounted

ghosts == <<settled, removed, miscounted>>
vars == <<chats, pending, done, settled, removed, miscounted>>

Times == 0..LastTime
EventTimes == 2..LastTime
Actors == {"command", "event"}

\* listed and unread: the chats row; rows and fresh: the messages and those
\* stored with read = 0; set: whether chat_settings has a row; named:
\* read_boundary_ids; explicit: explicit_unread; stamp: read_state_updated_at.
Chat == [listed : BOOLEAN, unread : Nat, rows : SUBSET Ids, fresh : SUBSET Ids,
         tombs : SUBSET Ids, set : BOOLEAN, deleted : BOOLEAN, cleared : Times,
         boundary : Times, named : SUBSET Ids, explicit : BOOLEAN, stamp : Times]
Blank == [listed |-> FALSE, unread |-> 0, rows |-> {}, fresh |-> {}, tombs |-> {},
          set |-> FALSE, deleted |-> FALSE, cleared |-> 0, boundary |-> 0,
          named |-> {}, explicit |-> FALSE, stamp |-> 0]

\* A read operation: the boundary it computed under its first lock.
Pending == [step : {"idle", "apply", "stamp"}, jid : Jids \cup {NoJid}, time : Times,
            ids : SUBSET Ids, stamp : Times]
Idle == [step |-> "idle", jid |-> NoJid, time |-> 0,
         ids |-> {}, stamp |-> 0]

AtMost(t) == {i \in Ids : Time[i] <= t}
Newest(S) == IF S = {} THEN 0
             ELSE CHOOSE t \in Times : /\ \E i \in S : Time[i] = t
                                       /\ \A i \in S : Time[i] <= t

Init ==
    /\ chats = [j \in Jids |-> Blank]
    /\ pending = [a \in Actors |-> Idle]
    /\ done = 0
    /\ settled = [j \in Jids |-> {}] /\ removed = [j \in Jids |-> {}]
    /\ miscounted = {}

\* An operation is begun.
Step == done < Operations /\ done' = done + 1

-----------------------------------------------------------------------------
(* Storing messages *)

\* Mutation: the cleared window is not looked at.
AdmitsCleared(c, i) == i \notin c.tombs

\* insert_message_into drops a tombstoned message and one of a cleared window.
Admits(c, i) == i \notin c.tombs /\ Time[i] > c.cleared

\* covered_by_self_read
Covers(c, i) == Time[i] <= c.boundary \/ i \in c.named

\* prune_chat_history keeps the newest; of one second, any.
Prunings(S) ==
    {K \in SUBSET S :
        /\ IF Cardinality(S) <= HistoryLimit THEN K = S
           ELSE Cardinality(K) = HistoryLimit
        /\ \A k \in K, d \in S \ K : Time[k] >= Time[d]}

Pruned(c, K) == [c EXCEPT !.rows = K, !.fresh = c.fresh \cap K]

\* insert_message_into of a live message (INSERT OR IGNORE).
Inserted(c, i, unread) ==
    IF ~Admits(c, i) THEN c
    ELSE LET new == i \notin c.rows /\ unread /\ ~Covers(c, i)
         IN  [c EXCEPT !.listed = TRUE, !.set = TRUE, !.deleted = FALSE,
                       !.rows = c.rows \cup {i},
                       !.fresh = IF new THEN c.fresh \cup {i} ELSE c.fresh,
                       !.unread = IF new THEN c.unread + 1 ELSE c.unread]

\* A live message, in a focused chat or not.
Deliver(j, i, focused) ==
    /\ Step
    /\ LET c == Inserted(chats[j], i, i \notin Mine /\ ~focused)
       IN  \E K \in Prunings(c.rows) : chats' = [chats EXCEPT ![j] = Pruned(c, K)]
    /\ UNCHANGED <<pending, ghosts>>

\* insert_history_conversation: the conversation, unless it is deleted, and its
\* messages, all read.
Replayed(c, n, S) ==
    LET kept == {i \in S : Admits(c, i)}
    IN  [c EXCEPT !.listed = c.listed \/ ~c.deleted \/ kept # {},
                  !.unread = IF c.listed \/ c.deleted THEN c.unread ELSE n,
                  !.rows = c.rows \cup kept]

ReplayHistory(j, n, S) ==
    /\ Step
    /\ LET c == Replayed(chats[j], n, S)
       IN  \E K \in Prunings(c.rows) : chats' = [chats EXCEPT ![j] = Pruned(c, K)]
    /\ UNCHANGED <<pending, ghosts>>

-----------------------------------------------------------------------------
(* Reading *)

Begin(a, j, t, I, at) ==
    /\ pending[a].step = "idle"
    /\ Step
    /\ pending' = [pending EXCEPT ![a] = [step |-> "apply", jid |-> j, time |-> t,
                                          ids |-> I, stamp |-> at]]
    /\ UNCHANGED <<chats, ghosts>>

\* mark_read: the newest stored second, read before the lock is released.
MarkRead(j) == Begin("command", j, Newest(chats[j].rows), {}, 0)

\* apply_self_read_receipt: of the messages it names, the newest that is stored.
\* A receipt is later than what it reads.
SelfReadReceipt(j, I, at) ==
    LET held == I \cap chats[j].rows
    IN  /\ I # {} /\ at >= Newest(I)
        /\ Begin("event", j, IF held = {} THEN at ELSE Newest(held), I, 0)

\* apply_synced_read_state of a read event: t is its boundary, 0 for none.
ReadEvent(j, t, I, at) ==
    LET held == I \cap chats[j].rows
        whole == IF I = {} THEN chats[j].rows ELSE held
    IN  /\ at >= chats[j].stamp
        /\ at >= Newest(I) /\ at >= t /\ (t = 0 \/ t >= Newest(I))
        /\ Begin("event", j,
                 IF t # 0 THEN t ELSE IF whole = {} THEN at ELSE Newest(whole), I, at)

\* apply_synced_read_state of an unread event.
UnreadEvent(j, at) ==
    /\ pending["event"].step = "idle" /\ at >= chats[j].stamp
    /\ Step
    /\ chats' = [chats EXCEPT ![j].set = TRUE, ![j].explicit = TRUE]
    /\ pending' = [pending EXCEPT !["event"] =
                        [Idle EXCEPT !.step = "stamp", !.jid = j, !.stamp = at]]
    /\ UNCHANGED ghosts

\* The list is cut to the newest NamedCap; which are the newest is abstracted.
Kept(S) == {K \in SUBSET S : IF Cardinality(S) <= NamedCap THEN K = S
                             ELSE Cardinality(K) = NamedCap}

\* The candidate boundary, unkeyed or keyed.
Candidate(t, I) == IF I = {} \/ t = 0 THEN t ELSE t - 1
Boundary(c, t, I) ==
    IF Candidate(t, I) > c.boundary THEN Candidate(t, I) ELSE c.boundary

\* Mutation: the IDs of the event replace those of earlier events.
NamedReplaced(c, t, I) == {i \in I : i \notin c.rows \/ Time[i] > Boundary(c, t, I)}

\* The named messages the new boundary does not cover as a whole second.
Named(c, t, I) ==
    {i \in c.named \cup I : i \notin c.rows \/ Time[i] > Boundary(c, t, I)}

\* apply_read_boundary, the list cut to K.
ReadThrough(c, t, I, K) ==
    LET fresh == c.fresh \ (AtMost(Boundary(c, t, I)) \cup I)
    IN  [c EXCEPT !.set = TRUE, !.explicit = FALSE,
                  !.boundary = Boundary(c, t, I), !.named = K,
                  !.fresh = fresh,
                  !.unread = IF c.listed THEN Cardinality(fresh) ELSE c.unread]

AppliedTime(a) == pending[a].time

ApplyBoundary(a) ==
    /\ pending[a].step = "apply"
    /\ LET p == pending[a]
           c == chats[p.jid]
           t == AppliedTime(a)
           names == Named(c, t, p.ids)
       IN  \E K \in Kept(names) :
             /\ chats' = [chats EXCEPT ![p.jid] = ReadThrough(c, t, p.ids, K)]
             /\ settled' = [settled EXCEPT ![p.jid] =
                    (@ \cup AtMost(Boundary(c, t, p.ids)) \cup p.ids) \ (names \ K)]
             /\ miscounted' = miscounted \ {p.jid}
    /\ pending' = [pending EXCEPT ![a] = IF @.stamp = 0 THEN Idle ELSE [@ EXCEPT !.step = "stamp"]]
    /\ UNCHANGED <<done, removed>>

\* The end of apply_synced_read_state.
StampReadState ==
    /\ pending["event"].step = "stamp"
    /\ LET j == pending["event"].jid
       IN  chats' = [chats EXCEPT ![j].stamp =
                        IF chats[j].set THEN pending["event"].stamp ELSE @]
    /\ pending' = [pending EXCEPT !["event"] = Idle]
    /\ UNCHANGED <<done, ghosts>>

\* reconcile_unread_after_full_sync, once the app state is complete.
ReconcileUnread ==
    /\ Step
    /\ chats' = [j \in Jids |->
            IF chats[j].listed
            THEN [chats[j] EXCEPT !.unread = Cardinality(chats[j].fresh)]
            ELSE chats[j]]
    /\ miscounted' = {}
    /\ UNCHANGED <<pending, settled, removed>>

-----------------------------------------------------------------------------
(* Deleting: app-state events, applied one at a time with the read events *)

DeletesChat(j, t) ==
    /\ pending["event"].step = "idle"
    /\ t >= chats[j].cleared
    /\ Step
    /\ removed' = [removed EXCEPT ![j] = @ \cup AtMost(t)]
    /\ miscounted' = miscounted \ {j}
    /\ UNCHANGED <<pending, settled>>

\* delete_messages_through and, of a chat that stays, refresh_chat_tail.
Cleared(c, t) ==
    LET fresh == c.fresh \ AtMost(t)
    IN  [c EXCEPT !.rows = c.rows \ AtMost(t), !.fresh = fresh,
                  !.set = TRUE, !.cleared = t,
                  !.unread = IF c.listed THEN Cardinality(fresh) ELSE c.unread]

\* delete_chat: the chat goes unless it holds newer messages.  A chat without
\* settings is marked deleted even then.
DeleteChat(j, t) ==
    /\ DeletesChat(j, t)
    /\ LET c == Cleared(chats[j], t)
       IN  chats' = [chats EXCEPT ![j] =
             IF c.rows # {} THEN [c EXCEPT !.deleted = ~chats[j].set]
             ELSE [c EXCEPT !.listed = FALSE, !.unread = 0, !.deleted = TRUE]]

\* clear_chat: the chat stays, read.
ClearChat(j, t) ==
    /\ DeletesChat(j, t)
    /\ chats' = [chats EXCEPT ![j] = [Cleared(chats[j], t) EXCEPT !.explicit = FALSE]]

\* delete_message: the row goes and its tombstone stays; unread is not counted again.
DeleteMessage(j, i) ==
    /\ pending["event"].step = "idle"
    /\ Step
    /\ chats' = [chats EXCEPT ![j].rows = @ \ {i}, ![j].fresh = @ \ {i},
                              ![j].tombs = @ \cup {i}]
    /\ removed' = [removed EXCEPT ![j] = @ \cup {i}]
    /\ UNCHANGED <<pending, settled, miscounted>>

-----------------------------------------------------------------------------
(* One contact, two addresses *)

Later(s, t) == IF s > t THEN s ELSE t

\* Mutation: the merged chat keeps the counter of the newer address.
MergedKeepingUnread(a, b) == b.unread

MergedUnread(a, b) == Later(a.unread, b.unread)

\* migrate_contact_jid: the chat of the old address, merged into the new one's.
Merged(a, b) ==
    [listed |-> a.listed \/ b.listed,
     unread |-> MergedUnread(a, b),
     rows |-> a.rows \cup b.rows,
     fresh |-> {i \in a.fresh \cup b.fresh :
                    /\ i \in a.rows => i \in a.fresh
                    /\ i \in b.rows => i \in b.fresh},
     tombs |-> a.tombs \cup b.tombs,
     set |-> a.set \/ b.set,
     deleted |-> a.deleted \/ b.deleted,
     cleared |-> Later(a.cleared, b.cleared),
     boundary |-> Later(a.boundary, b.boundary),
     named |-> IF a.boundary > b.boundary THEN a.named ELSE b.named,
     explicit |-> a.explicit \/ b.explicit,
     stamp |-> b.stamp]

\* What is promised of a merged chat: an address that was never used takes over
\* the promises of the other; of two histories, only what both promised.
Promises(a, b, new) == IF new = Blank THEN a ELSE a \cap b

Migrate(o, n) ==
    /\ o # n /\ chats[o] # Blank
    /\ Step
    /\ LET c == Merged(chats[o], chats[n])
       IN  \E K \in Prunings(c.rows) :
             chats' = [chats EXCEPT ![o] = Blank, ![n] = Pruned(c, K)]
    /\ settled' = [settled EXCEPT ![o] = {},
                                  ![n] = Promises(settled[o], settled[n], chats[n])]
    /\ removed' = [removed EXCEPT ![o] = {},
                                  ![n] = Promises(removed[o], removed[n], chats[n])]
    /\ miscounted' = IF \/ o \in miscounted \/ n \in miscounted
                        \/ chats[o].fresh # {} /\ chats[n].fresh # {}
                     THEN (miscounted \cup {n}) \ {o} ELSE miscounted
    /\ UNCHANGED pending

\* The daemon stops between two transactions.
Crash ==
    /\ \E a \in Actors : pending[a].step # "idle"
    /\ pending' = [a \in Actors |-> Idle]
    /\ UNCHANGED <<chats, done, ghosts>>

Next ==
    \/ \E j \in Jids, i \in Ids, focused \in BOOLEAN : Deliver(j, i, focused)
    \/ \E j \in Jids, n \in 0..PhoneUnread, S \in SUBSET Ids : ReplayHistory(j, n, S)
    \/ \E j \in Jids : MarkRead(j)
    \/ \E j \in Jids, I \in SUBSET (Ids \ Mine), at \in EventTimes : SelfReadReceipt(j, I, at)
    \/ \E j \in Jids, t \in {0} \cup EventTimes, I \in SUBSET (Ids \ Mine), at \in EventTimes : ReadEvent(j, t, I, at)
    \/ \E j \in Jids, at \in EventTimes : UnreadEvent(j, at)
    \/ \E a \in Actors : ApplyBoundary(a)
    \/ StampReadState
    \/ ReconcileUnread
    \/ \E j \in Jids, t \in EventTimes : DeleteChat(j, t) \/ ClearChat(j, t)
    \/ \E j \in Jids, i \in Ids : DeleteMessage(j, i)
    \/ \E o \in Jids, n \in Jids : Migrate(o, n)
    \/ Crash

Spec == Init /\ [][Next]_vars

-----------------------------------------------------------------------------
(* Properties *)

\* Every variable holds a value of its column's type, and an unread row is a row.
TypeOK ==
    /\ chats \in [Jids -> Chat]
    /\ \A j \in Jids : chats[j].fresh \subseteq chats[j].rows \ Mine
    /\ pending \in [Actors -> Pending]
    /\ done \in 0..Operations
    /\ settled \in [Jids -> SUBSET Ids] /\ removed \in [Jids -> SUBSET Ids]
    /\ miscounted \subseteq Jids

\* The badge covers the unread messages: chats.unread is kept by hand beside
\* messages.read, and whatever is inserted, replayed, read, deleted, pruned or
\* renamed, in any order, it never names fewer than the rows stored unread.
\* Only a merge of two unread histories may leave it short, until it is counted
\* again: migrate_contact_jid keeps the larger counter of a united history.
BadgeCoversUnread ==
    \A j \in Jids \ miscounted : Cardinality(chats[j].fresh) <= chats[j].unread

\* A message read on any device stays read: whether it was stored before the
\* read, arrives after it, is pruned and delivered again or replayed, and after
\* a rename of its chat.  READ_BOUNDARY_IDS_CAP evicts names of messages that
\* are not covered otherwise; those are not promised.
ReadStaysRead == \A j \in Jids : chats[j].fresh \cap settled[j] = {}

\* A message deleted or cleared on any device never comes back, live or from
\* history, also after a rename of its chat.
RemovedStaysRemoved == \A j \in Jids : chats[j].rows \cap removed[j] = {}

\* What a person has done with a message on any device, reading or removing it,
\* no later delivery, replay, prune or merge undoes.
WhatWasDoneStays == ReadStaysRead /\ RemovedStaysRemoved
=============================================================================
