----------------------------- MODULE Stores_proofs -----------------------------
(* Theorems about what the daemon stores: the schema ladder, the names of a    *)
(* contact and of a group, the registers beside a message and the unread state *)
(* of a conversation, each for every value of its constants.                   *)
EXTENDS ChatHistory, ChatRegisters, ContactNames, SchemaLadder,
        FiniteSetTheorems, TLAPS

-----------------------------------------------------------------------------
(* The schema ladder (database.rs) *)

\* What the rungs a version stands for have done, rung by rung.
Rungs(d) ==
    /\ d.version >= 1 => {"receipt_times", "contact_source", "reader_times"} \subseteq d.columns
    /\ d.version >= 2 => ("aggregate" \in d.data => "reader" \in d.data)
    /\ d.version >= 3 => "media" \in d.columns
    /\ d.version >= 4 => d.key = "three"
    /\ d.version >= 5 => {"name_source", "chat_flags"} \subseteq d.columns
    /\ d.version >= 6 => "jid_name" \notin d.data
    /\ d.version >= 7 => "bubble" \notin d.data
    /\ d.version >= 8 => "mentions" \in d.columns
    /\ d.version >= 9 => {"quote", "queued_quote"} \subseteq d.columns

LEMMA AddsAre ==
    /\ Adds[1] = {"receipt_times", "contact_source", "reader_times"}
    /\ Adds[3] = {"media"}
    /\ Adds[5] = {"name_source", "chat_flags"}
    /\ Adds[8] = {"mentions"}
    /\ Adds[9] = {"quote", "queued_quote"}
    /\ \A k \in {2, 4, 6, 7} : Adds[k] = {}
    /\ \A k \in 1 .. 9 : Adds[k] \subseteq Columns
<1>1. \A k \in 1 .. 9 : Adds[k] =
         Only(k = 1, {"receipt_times", "contact_source", "reader_times"})
         \cup Only(k = 3, {"media"})
         \cup Only(k = 5, {"name_source", "chat_flags"})
         \cup Only(k = 8, {"mentions"})
         \cup Only(k = 9, {"quote", "queued_quote"})
  BY DEF Adds, Latest
<1>2. /\ Adds[1] = {"receipt_times", "contact_source", "reader_times"}
      /\ Adds[3] = {"media"} /\ Adds[5] = {"name_source", "chat_flags"}
  BY <1>1 DEF Only
<1>3. /\ Adds[8] = {"mentions"} /\ Adds[9] = {"quote", "queued_quote"}
      /\ \A k \in {2, 4, 6, 7} : Adds[k] = {}
  BY <1>1 DEF Only
<1>4. \A k \in 1 .. 9 : k \in {1, 3, 5, 8, 9} \/ k \in {2, 4, 6, 7}
  OBVIOUS
<1>5. \A k \in 1 .. 9 : Adds[k] \subseteq Columns
  BY <1>2, <1>3, <1>4 DEF Columns, Bootstrapped
<1> QED BY <1>2, <1>3, <1>5

LEMMA RungsHold ==
    ASSUME NEW d \in Stored, Rungs(d), NEW k \in 1 .. d.version
    PROVE  Holds(k, d)
<1>1. d.version \in 0 .. 9
  BY DEF Stored, Latest
<1>2. k \in 1 .. 9
  BY <1>1
<1>3. Adds[k] \subseteq d.columns
  <2>1. CASE k \in {1, 3, 5}
    BY <1>1, <2>1, AddsAre DEF Rungs
  <2>2. CASE k \in {8, 9}
    BY <1>1, <2>2, AddsAre DEF Rungs
  <2>3. CASE k \in {2, 4, 6, 7}
    BY <2>3, AddsAre
  <2> QED BY <1>2, <2>1, <2>2, <2>3
<1> QED BY <1>1, <1>2, <1>3 DEF Holds, Rungs

\* Database e is d one version on.
Follows(d, e) ==
    /\ e \in Stored /\ e.version = d.version + 1 /\ Rungs(e) /\ e.key # "no_table"
    /\ "quote" \in e.data => e.key = "three"
    /\ "sending" \notin d.data => "sending" \notin e.data
    /\ d.data \cap {"aggregate", "reader", "quote"} \subseteq e.data

\* What is done of the rung the transaction is at.
Climbing == {"ladder", "applied", "recorded"}

LadderInv ==
    /\ LadderTypeOK
    /\ Rungs(disk)
    /\ disk.key = "no_table" => stage = "off" /\ disk.version = 0
    /\ stage \in Climbing => step = disk.version + 1
    /\ stage \in {"applied", "recorded"} =>
          /\ step <= Latest
          /\ stage = "applied" => work = Climbed(step, disk)
          /\ stage = "recorded" => Follows(disk, work)
    /\ stage \in {"tally", "running"} => disk.version = Latest
    /\ stage \in Climbing \cup {"tally"} => "sending" \notin disk.data
    /\ "quote" \in disk.data => disk.key = "three"
    /\ had \cap {"aggregate", "reader", "quote"} \subseteq disk.data

(* A rung makes a database of the next version of one of this version. *)
LEMMA RungClimbed ==
    ASSUME NEW d \in Stored, Rungs(d), d.version < Latest, d.key # "no_table",
           NEW c, c = Climbed(d.version + 1, d),
           NEW e, e = [c EXCEPT !.version = d.version + 1],
           "quote" \in d.data => d.key = "three"
    PROVE  c \in Stored /\ Follows(d, e)
<1> DEFINE k == d.version + 1
<1>1. k \in 1 .. 9 /\ d.version \in 0 .. 8 /\ d.version \in Nat
  BY DEF Stored, Latest
<1>2. CASE k = 4
  <2>1. c = Rebuilt(d)
    BY <1>2 DEF Climbed
  <2>2. CASE d.key # "two"
    <3>1. d.key = "three" /\ Rebuilt(d) = d
      BY <2>2 DEF Rebuilt, Stored
    <3>2. /\ c \in Stored /\ e \in Stored /\ e.version = k /\ e.key = d.key
          /\ e.data = d.data /\ e.columns = d.columns
      BY <1>1, <2>1, <3>1 DEF Stored, Latest
    <3>3. Rungs(e)
      BY <1>1, <1>2, <3>1, <3>2 DEF Rungs
    <3> QED BY <3>1, <3>2, <3>3 DEF Follows
  <2>3. CASE d.key = "two"
    <3>1. Rebuilt(d) = [d EXCEPT !.key = "three",
                         !.columns = (d.columns \ MessageColumns) \cup {"receipt_times", "media"},
                         !.data = d.data \ {"quote"}]
      BY <2>3 DEF Rebuilt
    <3>2. {"receipt_times", "media"} \subseteq Columns
      BY DEF Columns, Bootstrapped
    <3>3. /\ c \in Stored /\ e \in Stored /\ e.version = k /\ e.key = "three"
          /\ e.data = d.data \ {"quote"}
          /\ e.columns = (d.columns \ MessageColumns) \cup {"receipt_times", "media"}
      <4> DEFINE C == (d.columns \ MessageColumns) \cup {"receipt_times", "media"}
                 D == d.data \ {"quote"}
      <4>1. C \in SUBSET Columns /\ D \in SUBSET Data
        BY <3>2 DEF Stored
      <4>2. c = [d EXCEPT !.key = "three", !.columns = C, !.data = D]
        BY <2>1, <3>1
      <4>3. c.key = "three"
        BY <4>2 DEF Stored
      <4>4. e = [c EXCEPT !.version = k] /\ k \in 0 .. Latest
        BY <1>1 DEF Latest
      <4> HIDE DEF C, D, k
      <4>5. c \in Stored /\ c.data = D /\ c.columns = C
        BY <4>1, <4>2 DEF Stored
      <4>6. /\ e \in Stored /\ e.version = k /\ e.key = c.key /\ e.data = c.data
            /\ e.columns = c.columns
        BY <4>4, <4>5 DEF Stored
      <4> QED BY <4>3, <4>5, <4>6 DEF C, D
    <3>4. Rungs(e)
      BY <1>1, <1>2, <3>3 DEF Rungs, MessageColumns
    <3> QED BY <2>3, <3>3, <3>4 DEF Follows
  <2> QED BY <2>2, <2>3
<1>3. CASE k # 4
  <2> DEFINE more == Only(k = 2 /\ "aggregate" \in d.data, {"reader"})
             less == Only(k = 6, {"jid_name"}) \cup Only(k = 7, {"bubble"})
  <2>1. c = [d EXCEPT !.columns = d.columns \cup Adds[k],
                      !.data = (d.data \cup more) \ less]
    BY <1>3 DEF Climbed
  <2>2. more \subseteq Data
    BY DEF Data, Only
  <2>3. /\ k = 2 /\ "aggregate" \in d.data => "reader" \in more
        /\ k # 2 => more = {}
        /\ more \subseteq {"reader"}
    BY DEF Only
  <2>4. /\ k = 6 => less = {"jid_name"}
        /\ k = 7 => less = {"bubble"}
        /\ less \subseteq {"jid_name", "bubble"}
    BY DEF Only
  <2> HIDE DEF more, less
  <2>5. Adds[k] \subseteq Columns
    BY <1>1, AddsAre
  <2>6. /\ c \in Stored /\ e \in Stored /\ e.version = k /\ e.key = d.key
        /\ e.data = (d.data \cup more) \ less /\ e.columns = d.columns \cup Adds[k]
    <3> DEFINE C == d.columns \cup Adds[k]
               D == (d.data \cup more) \ less
    <3>1. C \in SUBSET Columns /\ D \in SUBSET Data
      BY <2>2, <2>5 DEF Stored
    <3>2. c = [d EXCEPT !.columns = C, !.data = D]
      BY <2>1
    <3>3. c.key = d.key
      BY <3>2 DEF Stored
    <3>4. e = [c EXCEPT !.version = k] /\ k \in 0 .. Latest
      BY <1>1 DEF Latest
    <3> HIDE DEF C, D, k
    <3>5. c \in Stored /\ c.data = D /\ c.columns = C
      BY <3>1, <3>2 DEF Stored
    <3>6. /\ e \in Stored /\ e.version = k /\ e.key = c.key /\ e.data = c.data
          /\ e.columns = c.columns
      BY <3>4, <3>5 DEF Stored
    <3> QED BY <3>3, <3>5, <3>6 DEF C, D
  <2>7. /\ d.data \cap {"aggregate", "reader", "quote", "sending"} \subseteq e.data
        /\ e.data \subseteq d.data \cup {"reader"}
        /\ "aggregate" \in e.data => "aggregate" \in d.data
    BY <2>3, <2>4, <2>6
  <2>8. Rungs(e)
    <3>1. \A x : x \in d.columns => x \in e.columns
      BY <2>6
    <3>2. /\ k >= 1 => {"receipt_times", "contact_source", "reader_times"} \subseteq e.columns
          /\ k >= 3 => "media" \in e.columns
          /\ k >= 5 => {"name_source", "chat_flags"} \subseteq e.columns
          /\ k >= 8 => "mentions" \in e.columns
          /\ k >= 9 => {"quote", "queued_quote"} \subseteq e.columns
      <4>1. k = 1 \/ {"receipt_times", "contact_source", "reader_times"} \subseteq d.columns
        BY <1>1 DEF Rungs
      <4>2. k <= 3 \/ "media" \in d.columns
        BY <1>1 DEF Rungs
      <4>3. k <= 5 \/ {"name_source", "chat_flags"} \subseteq d.columns
        BY <1>1 DEF Rungs
      <4>4. k <= 8 \/ "mentions" \in d.columns
        BY <1>1 DEF Rungs
      <4> QED BY <1>1, <2>6, <3>1, <4>1, <4>2, <4>3, <4>4, AddsAre
    <3>3. k >= 2 => ("aggregate" \in e.data => "reader" \in e.data)
      BY <1>1, <2>3, <2>4, <2>6, <2>7 DEF Rungs
    <3>4. k >= 4 => e.key = "three"
      BY <1>1, <1>3, <2>6 DEF Rungs
    <3>5. /\ k >= 6 => "jid_name" \notin e.data
          /\ k >= 7 => "bubble" \notin e.data
      <4>1. /\ k > 6 => "jid_name" \notin d.data
            /\ k > 7 => "bubble" \notin d.data
        BY <1>1 DEF Rungs
      <4> QED BY <1>1, <2>4, <2>6, <2>7, <4>1
    <3> QED BY <2>6, <3>2, <3>3, <3>4, <3>5 DEF Rungs
  <2> QED BY <2>6, <2>7, <2>8 DEF Follows
<1> QED BY <1>2, <1>3

LEMMA LadderInit1 == LadderInit => LadderInv
<1> SUFFICES ASSUME LadderInit PROVE LadderInv
  OBVIOUS
<1>1. disk \in Stored /\ (Fresh(disk) \/ Legacy(disk) \/ Laddered(disk))
  BY DEF LadderInit
<1>2. LadderTypeOK
  BY <1>1, LadderAssumption DEF LadderInit, LadderTypeOK, Stages, Stored, Latest
<1>3. CASE disk.version = 0
  <2>1. Rungs(disk)
    BY <1>3 DEF Rungs
  <2>2. "quote" \in disk.data => disk.key = "three"
    BY <1>1 DEF Fresh, Legacy, Laddered
  <2> QED BY <1>2, <1>3, <2>1, <2>2 DEF LadderInv, LadderInit, Climbing
<1>4. CASE disk.version # 0
  <2>1. Laddered(disk) /\ disk.version \in 1 .. 9
    BY <1>1, <1>4 DEF Fresh, Legacy, Stored, Latest
  <2>2. disk.columns = Bootstrapped \cup UNION {Adds[k] : k \in 1 .. disk.version}
    BY <2>1 DEF Laddered
  <2>3. /\ disk.version >= 8 => "mentions" \in disk.columns
        /\ disk.version >= 9 => {"quote", "queued_quote"} \subseteq disk.columns
    BY <2>1, <2>2, AddsAre
  <2>4. Bootstrapped \subseteq disk.columns
    BY <2>2
  <2>5. Rungs(disk)
    BY <2>1, <2>3, <2>4 DEF Rungs, Bootstrapped, Laddered
  <2> QED BY <1>2, <2>1, <2>5 DEF LadderInv, LadderInit, Laddered, Climbing
<1> QED BY <1>3, <1>4

LEMMA LadderInvKept == LadderInv /\ [LadderNext]_ladderVars => LadderInv'
<1> SUFFICES ASSUME LadderInv, [LadderNext]_ladderVars PROVE LadderInv'
  OBVIOUS
<1>0. /\ disk \in Stored /\ work \in Stored /\ stage \in Stages /\ step \in 0 .. 10
      /\ starts \in 0 .. MaxStarts /\ had \subseteq Data /\ MaxStarts \in Nat
      /\ disk.version \in 0 .. 9 /\ Latest = 9
  BY LadderAssumption DEF LadderInv, LadderTypeOK, Latest, Stored
<1>1. CASE UNCHANGED ladderVars
  BY <1>1 DEF ladderVars, LadderInv, LadderTypeOK
<1>2. CASE Bootstrap
  <2>1. /\ disk' \in Made(disk) /\ stage = "off" /\ stage' = "made" /\ work' = disk'
        /\ step' = step /\ had' = had /\ starts' = starts + 1 /\ starts < MaxStarts
    BY <1>2 DEF Bootstrap
  <2>2. CASE disk.key = "no_table"
    <3>1. disk' = [disk EXCEPT !.columns = Bootstrapped, !.key = "three"]
      BY <2>1, <2>2 DEF Made
    <3>2. /\ disk' \in Stored /\ disk'.version = 0 /\ disk'.key = "three" /\ disk'.data = disk.data
      BY <1>0, <2>2, <3>1 DEF Stored, LadderInv, Columns
    <3>3. Rungs(disk)'
      BY <3>2 DEF Rungs
    <3> QED BY <1>0, <2>1, <3>2, <3>3 DEF LadderInv, LadderTypeOK, Climbing, Stages
  <2>3. CASE disk.key # "no_table"
    <3>1. PICK made \in SUBSET {"contact_source", "reader_times", "chat_flags"} :
             disk' = [disk EXCEPT !.columns = disk.columns \cup made]
      BY <2>1, <2>3 DEF Made
    <3>2. made \subseteq Columns
      BY DEF Columns, Bootstrapped
    <3>3. /\ disk' \in Stored /\ disk'.version = disk.version /\ disk'.key = disk.key
          /\ disk'.data = disk.data /\ disk.columns \subseteq disk'.columns
      BY <1>0, <3>1, <3>2 DEF Stored
    <3>4. Rungs(disk)'
      BY <3>3 DEF Rungs, LadderInv
    <3> QED BY <1>0, <2>1, <2>3, <3>3, <3>4 DEF LadderInv, LadderTypeOK, Climbing, Stages
  <2> QED BY <2>2, <2>3
<1>3. CASE RecoverSends
  <2>1. /\ disk' = [disk EXCEPT !.data = disk.data \ {"sending"}] /\ stage = "made"
        /\ work' = disk' /\ stage' = "ladder" /\ step' = disk.version + 1
        /\ starts' = starts /\ had' = had
    BY <1>3 DEF RecoverSends
  <2>2. /\ disk' \in Stored /\ disk'.version = disk.version /\ disk'.key = disk.key
        /\ disk'.data = disk.data \ {"sending"} /\ disk'.columns = disk.columns
    BY <1>0, <2>1 DEF Stored
  <2>3. Rungs(disk)'
    BY <2>2 DEF Rungs, LadderInv
  <2> QED BY <1>0, <2>1, <2>2, <2>3 DEF LadderInv, LadderTypeOK, Climbing, Stages
<1>4. CASE Apply
  <2>1. /\ stage = "ladder" /\ step <= Latest /\ work' = Climbed(step, disk)
        /\ stage' = "applied" /\ UNCHANGED <<disk, step, starts, had>>
    BY <1>4 DEF Apply
  <2>2. step = disk.version + 1 /\ disk.key # "no_table" /\ disk.version < Latest
    BY <1>0, <2>1 DEF LadderInv, Climbing
  <2>3. Climbed(step, disk) \in Stored
    BY <1>0, <2>2, RungClimbed DEF LadderInv
  <2>4. Rungs(disk)'
    BY <2>1 DEF Rungs, LadderInv
  <2> QED BY <1>0, <2>1, <2>2, <2>3, <2>4 DEF LadderInv, LadderTypeOK, Climbing, Stages
<1>5. CASE Record
  <2>1. /\ stage = "applied" /\ work' = [work EXCEPT !.version = step]
        /\ stage' = "recorded" /\ UNCHANGED <<disk, step, starts, had>>
    BY <1>5 DEF Record
  <2>2. /\ step = disk.version + 1 /\ disk.key # "no_table" /\ disk.version < Latest
        /\ work = Climbed(step, disk)
    BY <1>0, <2>1 DEF LadderInv, Climbing
  <2>3. Follows(disk, work')
    BY <1>0, <2>1, <2>2, RungClimbed DEF LadderInv
  <2>4. Rungs(disk)'
    BY <2>1 DEF Rungs, LadderInv
  <2> QED BY <1>0, <2>1, <2>2, <2>3, <2>4 DEF LadderInv, LadderTypeOK, Climbing, Stages, Follows
<1>6. CASE Commit
  <2>1. /\ stage = "recorded" /\ disk' = work /\ stage' = "ladder" /\ step' = step + 1
        /\ UNCHANGED <<work, starts, had>>
    BY <1>6 DEF Commit
  <2>2. /\ step = disk.version + 1 /\ Follows(disk, disk') /\ "sending" \notin disk.data
        /\ step <= Latest
    BY <1>0, <2>1 DEF LadderInv, Climbing
  <2>3. Rungs(disk)'
    BY <2>2 DEF Follows, Rungs
  <2> QED BY <1>0, <2>1, <2>2, <2>3 DEF LadderInv, LadderTypeOK, Climbing, Stages, Follows
<1>7. CASE LadderEnds
  <2>1. /\ stage = "ladder" /\ step > Latest /\ stage' = "tally"
        /\ UNCHANGED <<disk, work, step, starts, had>>
    BY <1>7 DEF LadderEnds
  <2>2. disk.version = Latest
    BY <1>0, <2>1 DEF LadderInv, Climbing
  <2>3. Rungs(disk)'
    BY <2>1 DEF Rungs, LadderInv
  <2> QED BY <1>0, <2>1, <2>2, <2>3 DEF LadderInv, LadderTypeOK, Climbing, Stages
<1>8. CASE RepairCards
  <2>1. /\ disk' = [disk EXCEPT !.data = disk.data \ {"stale_card"}] /\ stage = "tally"
        /\ work' = disk' /\ stage' = "running" /\ step' = step /\ starts' = starts /\ had' = had
    BY <1>8 DEF RepairCards
  <2>2. /\ disk' \in Stored /\ disk'.version = disk.version /\ disk'.key = disk.key
        /\ disk'.data = disk.data \ {"stale_card"} /\ disk'.columns = disk.columns
    BY <1>0, <2>1 DEF Stored
  <2>3. Rungs(disk)'
    BY <2>2 DEF Rungs, LadderInv
  <2> QED BY <1>0, <2>1, <2>2, <2>3 DEF LadderInv, LadderTypeOK, Climbing, Stages
<1>9. CASE Live
  <2>1. PICK made \in SUBSET {"reader", "quote", "sending", "stale_card"} :
           disk' = [disk EXCEPT !.data = disk.data \cup made] /\ had' = had \cup made
    BY <1>9 DEF Live
  <2>2. stage = "running" /\ work' = disk' /\ UNCHANGED <<stage, step, starts>>
    BY <1>9 DEF Live
  <2>3. made \subseteq Data
    BY DEF Data
  <2>4. /\ disk' \in Stored /\ disk'.version = disk.version /\ disk'.key = disk.key
        /\ disk'.data = disk.data \cup made /\ disk'.columns = disk.columns
    BY <1>0, <2>1, <2>3 DEF Stored
  <2>5. Rungs(disk)'
    BY <2>4 DEF Rungs, LadderInv
  <2>6. disk.key = "three"
    BY <1>0, <2>2 DEF LadderInv, Rungs
  <2> QED BY <1>0, <2>1, <2>2, <2>3, <2>4, <2>5, <2>6 DEF LadderInv, LadderTypeOK, Climbing, Stages
<1>10. CASE Stop
  <2>1. /\ work' = disk /\ stage' = "off" /\ step' = 0 /\ UNCHANGED <<disk, starts, had>>
    BY <1>10 DEF Stop
  <2>2. Rungs(disk)'
    BY <2>1 DEF Rungs, LadderInv
  <2> QED BY <1>0, <2>1, <2>2 DEF LadderInv, LadderTypeOK, Climbing, Stages
<1> QED
  BY <1>1, <1>2, <1>3, <1>4, <1>5, <1>6, <1>7, <1>8, <1>9, <1>10 DEF LadderNext

LEMMA LadderInvHolds == LadderSpec => []LadderInv
  BY LadderInit1, LadderInvKept, PTL DEF LadderSpec

(* The version and the transaction's view are databases, whatever is cut off. *)
THEOREM LadderTypeCorrect == LadderSpec => []LadderTypeOK
<1>1. LadderInv => LadderTypeOK
  BY DEF LadderInv
<1> QED BY <1>1, LadderInvHolds, PTL

(* For every number of starts: the version never runs ahead of the steps it   *)
(* stands for, no step lacks a column, and no receipt or quote is lost         *)
(* (Database::open, run_migration).                                            *)
THEOREM UpgradeWhole == LadderSpec => []UpgradeIsWhole
<1>1. LadderInv => UpgradeIsWhole
  <2> SUFFICES ASSUME LadderInv PROVE UpgradeIsWhole
    OBVIOUS
  <2>0. disk \in Stored /\ disk.version \in 0 .. 9 /\ Latest = 9 /\ step \in 0 .. 10 /\ Rungs(disk)
    BY DEF LadderInv, LadderTypeOK, Stored, Latest
  <2>1. \A k \in 1 .. disk.version : Holds(k, disk)
    BY <2>0, RungsHold
  <2>2. stage = "ladder" /\ step <= Latest => Needs(step, disk) \subseteq disk.columns
    <3> SUFFICES ASSUME stage = "ladder", step <= Latest
                 PROVE  Needs(step, disk) \subseteq disk.columns
      OBVIOUS
    <3>1. step = disk.version + 1
      BY DEF LadderInv, Climbing
    <3> QED BY <2>0, <3>1 DEF Rungs, Needs, Only
  <2>3. /\ "quote" \in had => "quote" \in disk.data
        /\ {"aggregate", "reader"} \cap had # {} /\ disk.version = Latest => "reader" \in disk.data
    BY <2>0 DEF LadderInv, Rungs
  <2>4. stage = "tally" => disk.version = Latest /\ "sending" \notin disk.data
    BY DEF LadderInv
  <2> QED BY <2>1, <2>2, <2>3, <2>4 DEF UpgradeIsWhole
<1> QED BY <1>1, LadderInvHolds, PTL

-----------------------------------------------------------------------------
(* The registers beside a message (database.rs) *)

Opinions == Values \cup {NoValue}
Notes == [value : Opinions \cup (SUBSET Values) \cup (2 .. 4), time : Stamps]

RegisterTypes ==
    /\ message \in [Addresses -> [stored : BOOLEAN, tomb : BOOLEAN]]
    /\ reaction \in [Addresses -> [value : Opinions, time : Nat, tomb : Nat]]
    /\ vote \in [Addresses -> [ballot : SUBSET Values, time : Nat, tally : SUBSET Values]]
    /\ receipt \in [Addresses -> [level : Nat \ {0}, delivered : Nat, read : Nat,
                                  readerDelivered : Nat, readerRead : Nat]]
    /\ setting \in [Addresses -> [value : Opinions, time : Nat]]
    /\ joined \in BOOLEAN /\ blurred \subseteq Kinds
    /\ received \in [Kinds -> [Addresses -> SUBSET Notes]]

\* Reaction r is what the reactions and removals R leave: a row as late as any
\* and later than every removal, or a tombstone as late as any.
ReactionSound(r, R) ==
    /\ r.time = 0 => /\ r.value = NoValue
                     /\ \A e \in R : e.time <= r.tomb
                     /\ r.tomb > 0 => \E e \in R : e.value = NoValue /\ e.time = r.tomb
    /\ r.time > 0 => /\ r.tomb < r.time /\ r.value # NoValue
                     /\ \E e \in R : e.value = r.value /\ e.time = r.time
                     /\ \A e \in R : /\ e.time <= r.time
                                     /\ e.value = NoValue => e.time < r.time

\* No time of register r is later than what R brought.
ReactionRecent(r, R) ==
    /\ r.time = 0 \/ \E e \in R : r.time <= e.time
    /\ r.tomb = 0 \/ \E e \in R : r.tomb <= e.time
    /\ r.time = 0 => r.value = NoValue

Reactions ==
    \A a \in Addresses :
        /\ ReactionRecent(reaction[a], received["reaction"][a])
        /\ ~message[a].tomb /\ "reaction" \notin blurred
              => ReactionSound(reaction[a], received["reaction"][a])

VoteSound(v, R) ==
    /\ v.time = 0 => v.ballot = {} /\ v.tally = {} /\ R = {}
    /\ v.time > 0 => \E e \in R : e.value = v.ballot /\ e.time = v.time
    /\ \A e \in R : e.time <= v.time

Votes ==
    \A a \in Addresses :
        /\ VoteSound(vote[a], received["vote"][a])
        /\ ~message[a].stored => received["vote"][a] = {}
        /\ message[a].stored /\ "vote" \notin blurred => vote[a].tally = vote[a].ballot

SettingSound(s, R) ==
    /\ R = {} => s.value = NoValue /\ s.time = 0
    /\ R # {} => \E e \in R : e.value = s.value /\ e.time = s.time
    /\ \A e \in R : e.time <= s.time

SettingRecent(s, R) == s.time = 0 \/ \E e \in R : s.time <= e.time

Settings ==
    \A a \in Addresses :
        /\ SettingRecent(setting[a], received["setting"][a])
        /\ "setting" \notin blurred => SettingSound(setting[a], received["setting"][a])

\* x is the earliest time of S, 0 when there is none.
IsFirst(S, x) ==
    /\ S = {} => x = 0
    /\ S # {} => \E e \in S : e.time = x
    /\ \A e \in S : x <= e.time

Deliveries(R) == {e \in R : e.value = 2}
Reads(R) == {e \in R : e.value >= 3}

LevelSound(r, R) ==
    /\ \A e \in R : e.value \in 2 .. 4 /\ e.value <= r.level
    /\ r.level > 1 => \E e \in R : e.value = r.level

TimesSound(r, R) ==
    /\ IsFirst(Deliveries(R), r.delivered) /\ IsFirst(Deliveries(R), r.readerDelivered)
    /\ IsFirst(Reads(R), r.read) /\ IsFirst(Reads(R), r.readerRead)

Receipts ==
    \A a \in Addresses :
        /\ LevelSound(receipt[a], received["receipt"][a])
        /\ "receipt" \notin blurred => TimesSound(receipt[a], received["receipt"][a])

\* What a merge leaves of the alias: nothing; and only a merge blurs.
AliasIsGone ==
    /\ ~joined => blurred = {}
    /\ joined => /\ message[Old] = NoMessage /\ reaction[Old] = Unreacted
                 /\ vote[Old] = Unvoted /\ receipt[Old] = Sent /\ setting[Old] = Unset
                 /\ \A k \in Kinds : received[k][Old] = {}

(* What one event makes of its register. *)
LEMMA ReactionEvent ==
    ASSUME NEW r \in [value : Opinions, time : Nat, tomb : Nat], NEW R \in SUBSET Notes,
           NEW v \in Opinions, NEW t \in Stamps, ReactionRecent(r, R),
           NEW s, s = IF v = NoValue THEN Withdrawn(r, t) ELSE Reacted(r, v, t),
           NEW S, S = R \cup {[value |-> v, time |-> t]}
    PROVE  /\ s \in [value : Opinions, time : Nat, tomb : Nat]
           /\ ReactionRecent(s, S)
           /\ ReactionSound(r, R) \/ (\A e \in R : e.time < t) => ReactionSound(s, S)
<1> DEFINE n == [value |-> v, time |-> t]
<1>1. /\ n.value = v /\ n.time = t /\ n \in S /\ R \subseteq S /\ \A e \in S : e \in R \/ e = n
      /\ t \in Nat /\ t > 0
  BY DEF Stamps
<1>2. \A e \in R : e.time \in Nat /\ e.time > 0
  BY DEF Notes, Stamps
<1> HIDE DEF n
<1>3. CASE v = NoValue /\ r.time <= t
  <2>1. s.value = NoValue /\ s.time = 0 /\ s.tomb = LaterOf(r.tomb, t)
    BY <1>3 DEF Withdrawn
  <2>2. s \in [value : Opinions, time : Nat, tomb : Nat]
    BY <1>1, <1>3 DEF Withdrawn, LaterOf, Opinions
  <2>3. ReactionRecent(s, S)
    BY <1>1, <1>2, <2>1 DEF ReactionRecent, LaterOf
  <2>4. ASSUME ReactionSound(r, R) PROVE ReactionSound(s, S)
    BY <1>1, <1>2, <1>3, <2>1, <2>4 DEF ReactionSound, LaterOf
  <2>5. ASSUME \A e \in R : e.time < t PROVE ReactionSound(s, S)
    <3>1. r.tomb <= t
      BY <1>1, <1>2, <2>5 DEF ReactionRecent
    <3> QED BY <1>1, <1>2, <1>3, <2>1, <2>5, <3>1 DEF ReactionSound, LaterOf
  <2> QED BY <2>2, <2>3, <2>4, <2>5
<1>4. CASE v = NoValue /\ r.time > t
  <2>1. s.value = r.value /\ s.time = r.time /\ s.tomb = LaterOf(r.tomb, t)
    BY <1>1, <1>4 DEF Withdrawn
  <2>2. s \in [value : Opinions, time : Nat, tomb : Nat]
    BY <1>1, <1>4 DEF Withdrawn, LaterOf, Opinions
  <2>3. ReactionRecent(s, S)
    BY <1>1, <1>2, <2>1 DEF ReactionRecent, LaterOf
  <2>4. ASSUME ReactionSound(r, R) PROVE ReactionSound(s, S)
    BY <1>1, <1>2, <1>4, <2>1, <2>4 DEF ReactionSound, LaterOf
  <2>5. ~\A e \in R : e.time < t
    BY <1>1, <1>2, <1>4 DEF ReactionRecent
  <2> QED BY <2>2, <2>3, <2>4, <2>5
<1>5. CASE v # NoValue /\ r.tomb >= t
  <2>1. s = r
    BY <1>5 DEF Reacted
  <2>3. ReactionRecent(s, S)
    BY <1>1, <2>1 DEF ReactionRecent
  <2>4. ASSUME ReactionSound(r, R) PROVE ReactionSound(s, S)
    BY <1>1, <1>2, <1>5, <2>1, <2>4 DEF ReactionSound
  <2>5. ~\A e \in R : e.time < t
    BY <1>1, <1>2, <1>5 DEF ReactionRecent
  <2> QED BY <2>1, <2>3, <2>4, <2>5
<1>6. CASE v # NoValue /\ r.tomb < t /\ t < r.time
  <2>1. s = [r EXCEPT !.tomb = 0]
    BY <1>1, <1>6 DEF Reacted
  <2>2. /\ s.value = r.value /\ s.time = r.time /\ s.tomb = 0
        /\ s \in [value : Opinions, time : Nat, tomb : Nat]
    BY <2>1
  <2>3. ReactionRecent(s, S)
    BY <1>1, <2>2 DEF ReactionRecent
  <2>4. ASSUME ReactionSound(r, R) PROVE ReactionSound(s, S)
    BY <1>1, <1>2, <1>6, <2>2, <2>4 DEF ReactionSound
  <2>5. ~\A e \in R : e.time < t
    BY <1>1, <1>2, <1>6 DEF ReactionRecent
  <2> QED BY <2>2, <2>3, <2>4, <2>5
<1>7. CASE v # NoValue /\ r.tomb < t /\ t >= r.time
  <2>1. s = [value |-> v, time |-> t, tomb |-> 0]
    BY <1>1, <1>7 DEF Reacted
  <2>2. /\ s.value = v /\ s.time = t /\ s.tomb = 0
        /\ s \in [value : Opinions, time : Nat, tomb : Nat]
    BY <1>1, <2>1
  <2>3. ReactionRecent(s, S)
    BY <1>1, <2>2 DEF ReactionRecent
  <2>4. ASSUME ReactionSound(r, R) \/ \A e \in R : e.time < t PROVE ReactionSound(s, S)
    <3>1. \A e \in R : e.time <= t /\ (e.value = NoValue => e.time < t)
      BY <1>1, <1>2, <1>7, <2>4 DEF ReactionSound
    <3> QED BY <1>1, <1>2, <1>7, <2>2, <3>1 DEF ReactionSound
  <2> QED BY <2>2, <2>3, <2>4
<1>8. r.time \in Nat /\ r.tomb \in Nat
  OBVIOUS
<1> QED BY <1>1, <1>3, <1>4, <1>5, <1>6, <1>7, <1>8

LEMMA VoteEvent ==
    ASSUME NEW v \in [ballot : SUBSET Values, time : Nat, tally : SUBSET Values],
           NEW R \in SUBSET Notes, NEW B \in SUBSET Values, NEW t \in Stamps,
           VoteSound(v, R)
    PROVE  /\ Voted(v, B, t) \in [ballot : SUBSET Values, time : Nat, tally : SUBSET Values]
           /\ VoteSound(Voted(v, B, t), R \cup {[value |-> B, time |-> t]})
           /\ Voted(v, B, t).tally = Voted(v, B, t).ballot
<1> DEFINE w == Voted(v, B, t)
           S == R \cup {[value |-> B, time |-> t]}
           n == [value |-> B, time |-> t]
           x == IF t >= v.time THEN [v EXCEPT !.ballot = B, !.time = t] ELSE v
<1>1. /\ n.value = B /\ n.time = t /\ n \in S /\ R \subseteq S /\ \A e \in S : e \in R \/ e = n
      /\ t \in Nat /\ t > 0
  BY DEF Stamps
<1>2. \A e \in R : e.time \in Nat /\ e.time > 0
  BY DEF Notes, Stamps
<1>3. /\ x \in [ballot : SUBSET Values, time : Nat, tally : SUBSET Values]
      /\ t >= v.time => x.ballot = B /\ x.time = t
      /\ t < v.time => x = v
  <2>1. CASE t >= v.time
    <3>1. x = [ballot |-> B, time |-> t, tally |-> v.tally]
      BY <2>1
    <3> HIDE DEF x
    <3> QED BY <1>1, <2>1, <3>1
  <2>2. CASE t < v.time
    BY <1>1, <2>2
  <2> QED BY <1>1, <2>1, <2>2
<1>4. w = [x EXCEPT !.tally = x.ballot]
  BY DEF Voted, Tallied
<1>8. S = R \cup {n}
  OBVIOUS
<1> SUFFICES /\ w \in [ballot : SUBSET Values, time : Nat, tally : SUBSET Values]
             /\ VoteSound(w, S) /\ w.tally = w.ballot
  OBVIOUS
<1> HIDE DEF n, x, w, S
<1>5. /\ w \in [ballot : SUBSET Values, time : Nat, tally : SUBSET Values]
      /\ w.ballot = x.ballot /\ w.time = x.time /\ w.tally = x.ballot
  BY <1>3, <1>4
<1>6. CASE t >= v.time
  <2>1. w.time = t /\ w.ballot = B
    BY <1>3, <1>5, <1>6
  <2>2. \A e \in S : e.time <= t
    BY <1>1, <1>2, <1>6 DEF VoteSound
  <2> QED BY <1>1, <1>5, <2>1, <2>2 DEF VoteSound
<1>7. CASE t < v.time
  <2>1. w.time = v.time /\ w.ballot = v.ballot
    BY <1>3, <1>5, <1>7
  <2>2. \A e \in S : e.time <= v.time
    BY <1>1, <1>2, <1>7 DEF VoteSound
  <2>3. \E e \in S : e.value = v.ballot /\ e.time = v.time
    BY <1>1, <1>7 DEF VoteSound
  <2> QED BY <1>1, <1>5, <1>7, <2>1, <2>2, <2>3 DEF VoteSound
<1> QED BY <1>1, <1>6, <1>7

LEMMA SettingEvent ==
    ASSUME NEW s \in [value : Opinions, time : Nat], NEW R \in SUBSET Notes,
           NEW v \in Opinions, NEW t \in Stamps, SettingRecent(s, R),
           NEW u, u = IF t >= s.time THEN [value |-> v, time |-> t] ELSE s,
           NEW S, S = R \cup {[value |-> v, time |-> t]}
    PROVE  /\ u \in [value : Opinions, time : Nat]
           /\ SettingRecent(u, S)
           /\ SettingSound(s, R) \/ (\A e \in R : e.time < t) => SettingSound(u, S)
<1> DEFINE n == [value |-> v, time |-> t]
<1>1. /\ n.value = v /\ n.time = t /\ n \in S /\ R \subseteq S /\ \A e \in S : e \in R \/ e = n
      /\ t \in Nat /\ t > 0 /\ n \in [value : Opinions, time : Nat]
  BY DEF Stamps
<1>2. \A e \in R : e.time \in Nat /\ e.time > 0
  BY DEF Notes, Stamps
<1>3. u = IF t >= s.time THEN n ELSE s
  OBVIOUS
<1> HIDE DEF n
<1>4. u \in [value : Opinions, time : Nat]
  BY <1>1, <1>3
<1>5. SettingRecent(u, S)
  BY <1>1, <1>3 DEF SettingRecent
<1>6. ASSUME SettingSound(s, R) PROVE SettingSound(u, S)
  BY <1>1, <1>2, <1>3, <1>6 DEF SettingSound
<1>7. ASSUME \A e \in R : e.time < t PROVE SettingSound(u, S)
  <2>1. s.time <= t
    BY <1>1, <1>2, <1>7 DEF SettingRecent
  <2> QED BY <1>1, <1>2, <1>3, <1>7, <2>1 DEF SettingSound
<1> QED BY <1>4, <1>5, <1>6, <1>7

\* The earliest time, when one is added.
LEMMA FirstAdded ==
    ASSUME NEW S \in SUBSET Notes, NEW x \in Nat, NEW e \in Notes, IsFirst(S, x)
    PROVE  EarlierOf(x, e.time) \in Nat /\ IsFirst(S \cup {e}, EarlierOf(x, e.time))
<1>1. \A f \in S \cup {e} : f.time \in Nat /\ f.time > 0
  BY DEF Notes, Stamps
<1>2. CASE S = {}
  <2>1. EarlierOf(x, e.time) = e.time
    BY <1>2 DEF IsFirst, EarlierOf
  <2> QED BY <1>1, <1>2, <2>1 DEF IsFirst
<1>3. CASE S # {}
  <2>1. x > 0 /\ \E f \in S : f.time = x
    BY <1>1, <1>3 DEF IsFirst
  <2>2. EarlierOf(x, e.time) = IF x < e.time THEN x ELSE e.time
    BY <1>1, <2>1 DEF EarlierOf
  <2> QED BY <1>1, <2>1, <2>2 DEF IsFirst
<1> QED BY <1>2, <1>3

\* What update_receipts writes, column by column.
LEMMA ReceiptColumns ==
    ASSUME NEW r \in [level : Nat \ {0}, delivered : Nat, read : Nat,
                      readerDelivered : Nat, readerRead : Nat], NEW n, NEW t,
           NEW q, q = Receipted(r, n, t)
    PROVE  q = [level |-> LaterOf(r.level, n),
                delivered |-> IF n = 2 THEN EarlierOf(r.delivered, t) ELSE r.delivered,
                read |-> IF n >= 3 THEN EarlierOf(r.read, t) ELSE r.read,
                readerDelivered |-> IF n = 2 THEN EarlierOf(r.readerDelivered, t)
                                    ELSE r.readerDelivered,
                readerRead |-> IF n >= 3 THEN EarlierOf(r.readerRead, t) ELSE r.readerRead]
  BY DEF Receipted

LEMMA ReceiptEvent ==
    ASSUME NEW r \in [level : Nat \ {0}, delivered : Nat, read : Nat,
                      readerDelivered : Nat, readerRead : Nat],
           NEW R \in SUBSET Notes, NEW n \in 2 .. 4, NEW t \in Stamps,
           LevelSound(r, R)
    PROVE  /\ Receipted(r, n, t) \in [level : Nat \ {0}, delivered : Nat, read : Nat,
                                      readerDelivered : Nat, readerRead : Nat]
           /\ LevelSound(Receipted(r, n, t), R \cup {[value |-> n, time |-> t]})
           /\ TimesSound(r, R) =>
                 TimesSound(Receipted(r, n, t), R \cup {[value |-> n, time |-> t]})
<1> DEFINE q == Receipted(r, n, t)
           S == R \cup {[value |-> n, time |-> t]}
           e == [value |-> n, time |-> t]
<1>0. n \in Opinions \cup (SUBSET Values) \cup (2 .. 4)
  OBVIOUS
<1>1. /\ e \in Notes /\ e.value = n /\ e.time = t /\ t \in Nat
  BY <1>0 DEF Notes, Stamps
<1>2. q = [level |-> LaterOf(r.level, n),
           delivered |-> IF n = 2 THEN EarlierOf(r.delivered, t) ELSE r.delivered,
           read |-> IF n >= 3 THEN EarlierOf(r.read, t) ELSE r.read,
           readerDelivered |-> IF n = 2 THEN EarlierOf(r.readerDelivered, t) ELSE r.readerDelivered,
           readerRead |-> IF n >= 3 THEN EarlierOf(r.readerRead, t) ELSE r.readerRead]
  BY ReceiptColumns
<1>3. S = R \cup {e}
  OBVIOUS
<1> SUFFICES /\ q \in [level : Nat \ {0}, delivered : Nat, read : Nat,
                        readerDelivered : Nat, readerRead : Nat]
             /\ LevelSound(q, S)
             /\ TimesSound(r, R) => TimesSound(q, S)
  OBVIOUS
<1> HIDE DEF e, q, S
<1>4. \A x \in Nat : EarlierOf(x, t) \in Nat
  BY <1>1 DEF EarlierOf
<1>5. LaterOf(r.level, n) \in Nat \ {0}
  BY DEF LaterOf
<1>6. q \in [level : Nat \ {0}, delivered : Nat, read : Nat,
             readerDelivered : Nat, readerRead : Nat]
  BY <1>2, <1>4, <1>5
<1>7. LevelSound(q, S)
  <2>1. q.level = LaterOf(r.level, n)
    BY <1>2
  <2>2. \A f \in S : f.value \in 2 .. 4 /\ f.value <= q.level
    BY <1>1, <1>3, <2>1 DEF LevelSound, LaterOf
  <2>3. \E f \in S : f.value = q.level
    <3>1. CASE r.level > n
      BY <1>1, <1>3, <2>1, <3>1 DEF LevelSound, LaterOf
    <3>2. CASE r.level <= n
      BY <1>1, <1>3, <2>1, <3>2 DEF LaterOf
    <3> QED BY <3>1, <3>2
  <2> QED BY <2>2, <2>3 DEF LevelSound
<1>8. ASSUME TimesSound(r, R) PROVE TimesSound(q, S)
  <2>1. /\ Deliveries(R) \in SUBSET Notes /\ Reads(R) \in SUBSET Notes
    BY DEF Deliveries, Reads
  <2>2. CASE n = 2
    <3>1. Deliveries(S) = Deliveries(R) \cup {e} /\ Reads(S) = Reads(R)
      BY <1>1, <1>3, <2>2 DEF Deliveries, Reads
    <3>2. /\ q.delivered = EarlierOf(r.delivered, t) /\ q.read = r.read
          /\ q.readerDelivered = EarlierOf(r.readerDelivered, t) /\ q.readerRead = r.readerRead
      BY <1>2, <2>2
    <3> QED BY ZenonT(90), <1>1, <1>8, <2>1, <3>1, <3>2, FirstAdded DEF TimesSound
  <2>3. CASE n >= 3
    <3>1. Deliveries(S) = Deliveries(R) /\ Reads(S) = Reads(R) \cup {e}
      BY <1>1, <1>3, <2>3 DEF Deliveries, Reads
    <3>2. /\ q.read = EarlierOf(r.read, t) /\ q.delivered = r.delivered
          /\ q.readerRead = EarlierOf(r.readerRead, t) /\ q.readerDelivered = r.readerDelivered
      BY <1>2, <2>3
    <3> QED BY ZenonT(90), <1>1, <1>8, <2>1, <3>1, <3>2, FirstAdded DEF TimesSound
  <2> QED BY <2>2, <2>3
<1> QED BY <1>6, <1>7, <1>8

\* The registers nothing was ever written to.
LEMMA InitialRegisters ==
    /\ NoMessage \in [stored : BOOLEAN, tomb : BOOLEAN]
    /\ Unreacted \in [value : Opinions, time : Nat, tomb : Nat]
    /\ Unvoted \in [ballot : SUBSET Values, time : Nat, tally : SUBSET Values]
    /\ Sent \in [level : Nat \ {0}, delivered : Nat, read : Nat,
                 readerDelivered : Nat, readerRead : Nat]
    /\ Unset \in [value : Opinions, time : Nat]
    /\ ReactionSound(Unreacted, {}) /\ ReactionRecent(Unreacted, {})
    /\ VoteSound(Unvoted, {}) /\ Unvoted.tally = Unvoted.ballot
    /\ SettingSound(Unset, {}) /\ SettingRecent(Unset, {})
    /\ LevelSound(Sent, {}) /\ TimesSound(Sent, {})
<1>1. /\ NoMessage \in [stored : BOOLEAN, tomb : BOOLEAN]
      /\ Unreacted \in [value : Opinions, time : Nat, tomb : Nat]
      /\ Unvoted \in [ballot : SUBSET Values, time : Nat, tally : SUBSET Values]
      /\ Sent \in [level : Nat \ {0}, delivered : Nat, read : Nat,
                   readerDelivered : Nat, readerRead : Nat]
      /\ Unset \in [value : Opinions, time : Nat]
  BY DEF NoMessage, Unreacted, Unvoted, Sent, Unset, Opinions
<1>2. ReactionSound(Unreacted, {}) /\ ReactionRecent(Unreacted, {})
  BY DEF Unreacted, ReactionSound, ReactionRecent
<1>3. VoteSound(Unvoted, {}) /\ Unvoted.tally = Unvoted.ballot
  BY DEF Unvoted, VoteSound
<1>4. SettingSound(Unset, {}) /\ SettingRecent(Unset, {})
  BY DEF Unset, SettingSound, SettingRecent
<1>5. LevelSound(Sent, {}) /\ TimesSound(Sent, {})
  BY DEF Sent, LevelSound, TimesSound, IsFirst, Deliveries, Reads
<1> QED BY <1>1, <1>2, <1>3, <1>4, <1>5

\* An event is kept where it arrived.
LEMMA Recorded ==
    ASSUME RegisterTypes, NEW k \in Kinds, NEW a \in Addresses, NEW e \in Notes,
           received' = [received EXCEPT ![k][a] = @ \cup {e}]
    PROVE  /\ received' \in [Kinds -> [Addresses -> SUBSET Notes]]
           /\ received'[k][a] = received[k][a] \cup {e}
           /\ \A b \in Addresses \ {a} : received'[k][b] = received[k][b]
           /\ \A j \in Kinds \ {k} : received'[j] = received[j]
  BY DEF RegisterTypes

LEMMA KindNames ==
    /\ "reaction" \in Kinds /\ "vote" \in Kinds /\ "receipt" \in Kinds /\ "setting" \in Kinds
    /\ Old \in Addresses /\ New \in Addresses /\ Old # New
    /\ \A a \in Addresses : a = Old \/ a = New
  BY RegistersAssumption DEF Kinds, Addresses

LEMMA ReactionsStay ==
    ASSUME Reactions, UNCHANGED reaction, received'["reaction"] = received["reaction"],
           \A a \in Addresses : message[a].tomb => message'[a].tomb,
           "reaction" \in blurred => "reaction" \in blurred'
    PROVE  Reactions'
  BY DEF Reactions

LEMMA VotesStay ==
    ASSUME Votes, UNCHANGED vote, received'["vote"] = received["vote"],
           \A a \in Addresses : message'[a].stored = message[a].stored,
           "vote" \in blurred => "vote" \in blurred'
    PROVE  Votes'
  BY DEF Votes

LEMMA SettingsStay ==
    ASSUME Settings, UNCHANGED setting, received'["setting"] = received["setting"],
           "setting" \in blurred => "setting" \in blurred'
    PROVE  Settings'
  BY DEF Settings

LEMMA ReceiptsStay ==
    ASSUME Receipts, UNCHANGED receipt, received'["receipt"] = received["receipt"],
           "receipt" \in blurred => "receipt" \in blurred'
    PROVE  Receipts'
  BY DEF Receipts

RegistersInv ==
    RegisterTypes /\ AliasIsGone /\ Reactions /\ Votes /\ Settings /\ Receipts

LEMMA RegistersInit1 == RegistersInit => RegistersInv
<1> SUFFICES ASSUME RegistersInit PROVE RegistersInv
  OBVIOUS
<1>1. \A k \in Kinds, a \in Addresses : received[k][a] = {}
  BY DEF RegistersInit
<1>2. RegisterTypes
  BY InitialRegisters DEF RegistersInit, RegisterTypes
<1>3. AliasIsGone
  BY DEF RegistersInit, AliasIsGone
<1>4. Reactions /\ Settings /\ Receipts
  BY <1>1, KindNames, InitialRegisters DEF RegistersInit, Reactions, Settings, Receipts
<1>5. Votes
  BY <1>1, KindNames, InitialRegisters DEF RegistersInit, Votes
<1> QED BY <1>2, <1>3, <1>4, <1>5 DEF RegistersInv

\* Where a merge left a register undecided, the other address has nothing.
LEMMA TheOtherIsGone ==
    ASSUME RegistersInv, NEW a \in Addresses, NEW b \in Addresses \ {a}, joined => a = New
    PROVE  blurred = {} \/ (joined /\ b = Old)
  BY KindNames DEF RegistersInv, AliasIsGone

LEMMA ReactKept ==
    ASSUME RegistersInv, NEW a \in Addresses, NEW v \in Opinions, NEW t \in Stamps, React(a, v, t)
    PROVE  RegistersInv'
<1> USE KindNames
<1> DEFINE e == [value |-> v, time |-> t]
           s == IF v = NoValue THEN Withdrawn(reaction[a], t) ELSE Reacted(reaction[a], v, t)
<1>0. e \in Notes /\ e.time = t
  BY DEF Notes
<1>1. /\ joined => a = New
      /\ reaction' = [reaction EXCEPT ![a] = s]
      /\ received' = [received EXCEPT !["reaction"][a] = @ \cup {e}]
      /\ blurred' = IF \A f \in received["reaction"][a] : f.time < t
                    THEN blurred \ {"reaction"} ELSE blurred
      /\ UNCHANGED <<message, vote, receipt, setting, joined>>
  BY <1>0 DEF React, Arrives, Receives
<1>2. /\ received' \in [Kinds -> [Addresses -> SUBSET Notes]]
      /\ received'["reaction"][a] = received["reaction"][a] \cup {e}
      /\ \A b \in Addresses \ {a} : received'["reaction"][b] = received["reaction"][b]
      /\ \A j \in Kinds \ {"reaction"} : received'[j] = received[j]
  BY <1>0, <1>1, Recorded DEF RegistersInv
<1>3. /\ reaction[a] \in [value : Opinions, time : Nat, tomb : Nat]
      /\ received["reaction"][a] \in SUBSET Notes
      /\ ReactionRecent(reaction[a], received["reaction"][a])
  BY DEF RegistersInv, RegisterTypes, Reactions
<1>4. /\ s \in [value : Opinions, time : Nat, tomb : Nat]
      /\ ReactionRecent(s, received'["reaction"][a])
      /\ ReactionSound(reaction[a], received["reaction"][a])
         \/ (\A f \in received["reaction"][a] : f.time < t)
           => ReactionSound(s, received'["reaction"][a])
  <2>1. s = IF v = NoValue THEN Withdrawn(reaction[a], t) ELSE Reacted(reaction[a], v, t)
    OBVIOUS
  <2>2. received'["reaction"][a] = received["reaction"][a] \cup {[value |-> v, time |-> t]}
    BY <1>2
  <2> HIDE DEF s, e
  <2> QED BY SMTT(60), <1>3, <2>1, <2>2, ReactionEvent
<1> HIDE DEF e, s
<1>5. /\ reaction'[a] = s /\ \A b \in Addresses \ {a} : reaction'[b] = reaction[b]
  BY <1>1 DEF RegistersInv, RegisterTypes
<1>6. RegisterTypes'
  BY <1>1, <1>2, <1>4 DEF RegistersInv, RegisterTypes
<1>7. AliasIsGone'
  BY <1>1, <1>2, <1>5 DEF RegistersInv, AliasIsGone
<1>8. Reactions'
  <2>1. ASSUME ~message[a].tomb, "reaction" \notin blurred'
        PROVE  ReactionSound(s, received'["reaction"][a])
    BY <1>1, <1>4, <2>1 DEF RegistersInv, Reactions
  <2>2. ASSUME NEW b \in Addresses \ {a}, ~message[b].tomb, "reaction" \notin blurred'
        PROVE  ReactionSound(reaction[b], received["reaction"][b])
    <3>1. CASE "reaction" \notin blurred
      BY <2>2, <3>1 DEF RegistersInv, Reactions
    <3>2. CASE "reaction" \in blurred
      <4>1. joined /\ b = Old
        BY <1>1, <3>2, TheOtherIsGone
      <4>2. reaction[b] = Unreacted /\ received["reaction"][b] = {}
        BY <4>1 DEF RegistersInv, AliasIsGone
      <4> QED BY <4>2, InitialRegisters
    <3> QED BY <3>1, <3>2
  <2> QED BY ZenonT(90), <1>1, <1>2, <1>4, <1>5, <2>1, <2>2 DEF RegistersInv, Reactions
<1>9. Votes' /\ Settings' /\ Receipts'
  BY <1>1, <1>2, VotesStay, SettingsStay, ReceiptsStay DEF RegistersInv
<1> QED BY <1>6, <1>7, <1>8, <1>9 DEF RegistersInv

LEMMA SetKept ==
    ASSUME RegistersInv, NEW a \in Addresses, NEW v \in Values, NEW t \in Stamps, Set(a, v, t)
    PROVE  RegistersInv'
<1> USE KindNames
<1> DEFINE e == [value |-> v, time |-> t]
           s == IF t >= setting[a].time THEN e ELSE setting[a]
<1>0. e \in Notes /\ e.time = t /\ v \in Opinions
  BY DEF Notes, Opinions
<1>1. /\ joined => a = New
      /\ setting' = [setting EXCEPT ![a] = s]
      /\ received' = [received EXCEPT !["setting"][a] = @ \cup {e}]
      /\ blurred' = IF \A f \in received["setting"][a] : f.time < t
                    THEN blurred \ {"setting"} ELSE blurred
      /\ UNCHANGED <<message, vote, receipt, reaction, joined>>
  BY <1>0 DEF Set, Arrives, Receives
<1>2. /\ received' \in [Kinds -> [Addresses -> SUBSET Notes]]
      /\ received'["setting"][a] = received["setting"][a] \cup {e}
      /\ \A b \in Addresses \ {a} : received'["setting"][b] = received["setting"][b]
      /\ \A j \in Kinds \ {"setting"} : received'[j] = received[j]
  BY <1>0, <1>1, Recorded DEF RegistersInv
<1>3. /\ setting[a] \in [value : Opinions, time : Nat]
      /\ received["setting"][a] \in SUBSET Notes
      /\ SettingRecent(setting[a], received["setting"][a])
  BY DEF RegistersInv, RegisterTypes, Settings
<1>4. /\ s \in [value : Opinions, time : Nat]
      /\ SettingRecent(s, received'["setting"][a])
      /\ SettingSound(setting[a], received["setting"][a])
         \/ (\A f \in received["setting"][a] : f.time < t)
           => SettingSound(s, received'["setting"][a])
  <2>1. s = IF t >= setting[a].time THEN [value |-> v, time |-> t] ELSE setting[a]
    OBVIOUS
  <2>2. received'["setting"][a] = received["setting"][a] \cup {[value |-> v, time |-> t]}
    BY <1>2
  <2> HIDE DEF s, e
  <2> QED BY SMTT(60), <1>0, <1>3, <2>1, <2>2, SettingEvent
<1> HIDE DEF e, s
<1>5. /\ setting'[a] = s /\ \A b \in Addresses \ {a} : setting'[b] = setting[b]
  BY <1>1 DEF RegistersInv, RegisterTypes
<1>6. RegisterTypes'
  BY <1>1, <1>2, <1>4 DEF RegistersInv, RegisterTypes
<1>7. AliasIsGone'
  BY <1>1, <1>2, <1>5 DEF RegistersInv, AliasIsGone
<1>8. Settings'
  <2>1. ASSUME "setting" \notin blurred'
        PROVE  SettingSound(s, received'["setting"][a])
    BY <1>1, <1>4, <2>1 DEF RegistersInv, Settings
  <2>2. ASSUME NEW b \in Addresses \ {a}, "setting" \notin blurred'
        PROVE  SettingSound(setting[b], received["setting"][b])
    <3>1. CASE "setting" \notin blurred
      BY <2>2, <3>1 DEF RegistersInv, Settings
    <3>2. CASE "setting" \in blurred
      <4>1. joined /\ b = Old
        BY <1>1, <3>2, TheOtherIsGone
      <4>2. setting[b] = Unset /\ received["setting"][b] = {}
        BY <4>1 DEF RegistersInv, AliasIsGone
      <4> QED BY <4>2, InitialRegisters
    <3> QED BY <3>1, <3>2
  <2> QED BY ZenonT(90), <1>1, <1>2, <1>4, <1>5, <2>1, <2>2 DEF RegistersInv, Settings
<1>9. Votes' /\ Reactions' /\ Receipts'
  BY <1>1, <1>2, VotesStay, ReactionsStay, ReceiptsStay DEF RegistersInv
<1> QED BY <1>6, <1>7, <1>8, <1>9 DEF RegistersInv

LEMMA VoteKept ==
    ASSUME RegistersInv, NEW a \in Addresses, NEW B \in Ballots, NEW t \in Stamps, Vote(a, B, t)
    PROVE  RegistersInv'
<1> USE KindNames
<1> DEFINE e == [value |-> B, time |-> t]
           s == Voted(vote[a], B, t)
<1>0. e \in Notes /\ e.time = t /\ B \in SUBSET Values
  BY DEF Notes, Ballots
<1>1. /\ joined => a = New
      /\ message[a].stored
      /\ vote' = [vote EXCEPT ![a] = s]
      /\ received' = [received EXCEPT !["vote"][a] = @ \cup {e}]
      /\ blurred' = blurred \ {"vote"}
      /\ UNCHANGED <<message, setting, receipt, reaction, joined>>
  BY DEF Vote, Arrives
<1>2. /\ received' \in [Kinds -> [Addresses -> SUBSET Notes]]
      /\ received'["vote"][a] = received["vote"][a] \cup {e}
      /\ \A b \in Addresses \ {a} : received'["vote"][b] = received["vote"][b]
      /\ \A j \in Kinds \ {"vote"} : received'[j] = received[j]
  BY <1>0, <1>1, Recorded DEF RegistersInv
<1>3. /\ vote[a] \in [ballot : SUBSET Values, time : Nat, tally : SUBSET Values]
      /\ received["vote"][a] \in SUBSET Notes
      /\ VoteSound(vote[a], received["vote"][a])
  BY DEF RegistersInv, RegisterTypes, Votes
<1>4. /\ s \in [ballot : SUBSET Values, time : Nat, tally : SUBSET Values]
      /\ VoteSound(s, received'["vote"][a]) /\ s.tally = s.ballot
  <2>1. s = Voted(vote[a], B, t)
    OBVIOUS
  <2>2. received'["vote"][a] = received["vote"][a] \cup {[value |-> B, time |-> t]}
    BY <1>2
  <2>3. LET w == Voted(vote[a], B, t)
        IN  /\ w \in [ballot : SUBSET Values, time : Nat, tally : SUBSET Values]
            /\ VoteSound(w, received["vote"][a] \cup {[value |-> B, time |-> t]})
            /\ w.tally = w.ballot
    BY <1>0, <1>3, VoteEvent
  <2> HIDE DEF s, e
  <2> QED BY <2>1, <2>2, <2>3
<1> HIDE DEF e, s
<1>5. /\ vote'[a] = s /\ \A b \in Addresses \ {a} : vote'[b] = vote[b]
  BY <1>1 DEF RegistersInv, RegisterTypes
<1>6. RegisterTypes'
  BY <1>1, <1>2, <1>4 DEF RegistersInv, RegisterTypes
<1>7. AliasIsGone'
  BY <1>1, <1>2, <1>5 DEF RegistersInv, AliasIsGone
<1>8. Votes'
  <2>1. ASSUME NEW b \in Addresses \ {a}, message[b].stored
        PROVE  vote[b].tally = vote[b].ballot
    <3>1. CASE "vote" \notin blurred
      BY <2>1, <3>1 DEF RegistersInv, Votes
    <3>2. CASE "vote" \in blurred
      <4>1. joined /\ b = Old
        BY <1>1, <3>2, TheOtherIsGone
      <4> QED BY <4>1, InitialRegisters DEF RegistersInv, AliasIsGone
    <3> QED BY <3>1, <3>2
  <2> QED BY ZenonT(90), <1>1, <1>2, <1>4, <1>5, <2>1 DEF RegistersInv, Votes
<1>9. Settings' /\ Reactions' /\ Receipts'
  BY <1>1, <1>2, SettingsStay, ReactionsStay, ReceiptsStay DEF RegistersInv
<1> QED BY <1>6, <1>7, <1>8, <1>9 DEF RegistersInv

LEMMA ReceiptKept ==
    ASSUME RegistersInv, NEW a \in Addresses, NEW n \in 2 .. 4, NEW t \in Stamps, Receipt(a, n, t)
    PROVE  RegistersInv'
<1> USE KindNames
<1> DEFINE e == [value |-> n, time |-> t]
           s == Receipted(receipt[a], n, t)
<1>a. n \in Opinions \cup (SUBSET Values) \cup (2 .. 4)
  OBVIOUS
<1>0. e \in Notes /\ e.time = t
  BY <1>a DEF Notes
<1>1. /\ joined => a = New
      /\ receipt' = [receipt EXCEPT ![a] = s]
      /\ received' = [received EXCEPT !["receipt"][a] = @ \cup {e}]
      /\ UNCHANGED <<message, setting, vote, reaction, joined, blurred>>
  BY DEF Receipt, Arrives
<1>2. /\ received' \in [Kinds -> [Addresses -> SUBSET Notes]]
      /\ received'["receipt"][a] = received["receipt"][a] \cup {e}
      /\ \A b \in Addresses \ {a} : received'["receipt"][b] = received["receipt"][b]
      /\ \A j \in Kinds \ {"receipt"} : received'[j] = received[j]
  BY <1>0, <1>1, Recorded DEF RegistersInv
<1>3. /\ receipt[a] \in [level : Nat \ {0}, delivered : Nat, read : Nat,
                         readerDelivered : Nat, readerRead : Nat]
      /\ received["receipt"][a] \in SUBSET Notes
      /\ LevelSound(receipt[a], received["receipt"][a])
  BY DEF RegistersInv, RegisterTypes, Receipts
<1>4. /\ s \in [level : Nat \ {0}, delivered : Nat, read : Nat,
                readerDelivered : Nat, readerRead : Nat]
      /\ LevelSound(s, received'["receipt"][a])
      /\ TimesSound(receipt[a], received["receipt"][a]) => TimesSound(s, received'["receipt"][a])
  <2>1. s = Receipted(receipt[a], n, t)
    OBVIOUS
  <2>2. received'["receipt"][a] = received["receipt"][a] \cup {[value |-> n, time |-> t]}
    BY <1>2
  <2>3. /\ Receipted(receipt[a], n, t) \in [level : Nat \ {0}, delivered : Nat, read : Nat,
                                             readerDelivered : Nat, readerRead : Nat]
        /\ LevelSound(Receipted(receipt[a], n, t),
                      received["receipt"][a] \cup {[value |-> n, time |-> t]})
        /\ TimesSound(receipt[a], received["receipt"][a]) =>
              TimesSound(Receipted(receipt[a], n, t),
                         received["receipt"][a] \cup {[value |-> n, time |-> t]})
    BY <1>3, ReceiptEvent
  <2> HIDE DEF s, e
  <2> QED BY <2>1, <2>2, <2>3
<1> HIDE DEF e, s
<1>5. /\ receipt'[a] = s /\ \A b \in Addresses \ {a} : receipt'[b] = receipt[b]
  BY <1>1 DEF RegistersInv, RegisterTypes
<1>6. RegisterTypes'
  BY <1>1, <1>2, <1>4 DEF RegistersInv, RegisterTypes
<1>7. AliasIsGone'
  BY <1>1, <1>2, <1>5 DEF RegistersInv, AliasIsGone
<1>8. Receipts'
  BY ZenonT(90), <1>1, <1>2, <1>4, <1>5 DEF RegistersInv, Receipts
<1>9. Settings' /\ Reactions' /\ Votes'
  BY <1>1, <1>2, SettingsStay, ReactionsStay, VotesStay DEF RegistersInv
<1> QED BY <1>6, <1>7, <1>8, <1>9 DEF RegistersInv

\* reconcile_poll_tallies.
LEMMA TalliedSound ==
    ASSUME NEW v \in [ballot : SUBSET Values, time : Nat, tally : SUBSET Values], NEW R,
           VoteSound(v, R)
    PROVE  /\ Tallied(v) \in [ballot : SUBSET Values, time : Nat, tally : SUBSET Values]
           /\ VoteSound(Tallied(v), R) /\ Tallied(v).tally = Tallied(v).ballot
<1>1. PICK w : w = Tallied(v)
  OBVIOUS
<1>2. w = [v EXCEPT !.tally = v.ballot]
  BY <1>1 DEF Tallied
<1>3. /\ w \in [ballot : SUBSET Values, time : Nat, tally : SUBSET Values]
      /\ w.ballot = v.ballot /\ w.time = v.time /\ w.tally = v.ballot
  BY <1>2
<1>4. VoteSound(w, R)
  BY <1>3 DEF VoteSound
<1> QED BY <1>1, <1>3, <1>4

\* While address a lives, the card of the other shows its votes.
LEMMA OthersAreTallied ==
    ASSUME RegistersInv, NEW a \in Addresses, NEW b \in Addresses \ {a}, joined => a = New,
           message[b].stored
    PROVE  vote[b].tally = vote[b].ballot
<1>1. CASE "vote" \notin blurred
  BY <1>1 DEF RegistersInv, Votes
<1>2. CASE "vote" \in blurred
  <2>1. joined /\ b = Old
    BY <1>2, TheOtherIsGone
  <2> QED BY <2>1, InitialRegisters DEF RegistersInv, AliasIsGone
<1> QED BY <1>1, <1>2

LEMMA RecordsGo ==
    ASSUME RegisterTypes, NEW a \in Addresses,
           received' = [received EXCEPT !["vote"][a] = {}, !["receipt"][a] = {}]
    PROVE  /\ received' \in [Kinds -> [Addresses -> SUBSET Notes]]
           /\ received'["vote"][a] = {} /\ received'["receipt"][a] = {}
           /\ \A b \in Addresses \ {a}, k \in Kinds : received'[k][b] = received[k][b]
           /\ received'["reaction"] = received["reaction"]
           /\ received'["setting"] = received["setting"]
  BY DEF RegisterTypes, Kinds

\* The message of address a changes, and its vote; the reactions and settings stay.
LEMMA StoreKept ==
    ASSUME RegistersInv, NEW a \in Addresses, Store(a)
    PROVE  RegistersInv'
<1> USE KindNames
<1>1. /\ joined => a = New
      /\ message' = [message EXCEPT ![a].stored = TRUE]
      /\ vote' = [vote EXCEPT ![a] = Tallied(vote[a])]
      /\ blurred' = blurred \ {"vote"}
      /\ message[a].stored \/ ~message[a].tomb
      /\ UNCHANGED <<reaction, receipt, setting, joined, received>>
  BY DEF Store, Arrives
<1>2. /\ message[a] \in [stored : BOOLEAN, tomb : BOOLEAN]
      /\ vote[a] \in [ballot : SUBSET Values, time : Nat, tally : SUBSET Values]
      /\ VoteSound(vote[a], received["vote"][a])
  BY DEF RegistersInv, RegisterTypes, Votes
<1>3. /\ message' \in [Addresses -> [stored : BOOLEAN, tomb : BOOLEAN]]
      /\ message'[a].stored /\ \A b \in Addresses : message'[b].tomb = message[b].tomb
      /\ \A b \in Addresses \ {a} : message'[b] = message[b]
  BY <1>1, <1>2 DEF RegistersInv, RegisterTypes
<1>4. vote'[a] = Tallied(vote[a]) /\ \A b \in Addresses \ {a} : vote'[b] = vote[b]
  BY <1>1 DEF RegistersInv, RegisterTypes
<1>5. /\ vote'[a] \in [ballot : SUBSET Values, time : Nat, tally : SUBSET Values]
      /\ VoteSound(vote'[a], received["vote"][a]) /\ vote'[a].tally = vote'[a].ballot
  BY <1>2, <1>4, TalliedSound
<1>6. RegisterTypes'
  BY <1>1, <1>3, <1>4, <1>5 DEF RegistersInv, RegisterTypes
<1>7. AliasIsGone'
  BY <1>1, <1>3, <1>4 DEF RegistersInv, AliasIsGone
<1>8. Votes'
  <2>1. ASSUME NEW b \in Addresses \ {a}, message[b].stored
        PROVE  vote[b].tally = vote[b].ballot
    BY <1>1, <2>1, OthersAreTallied
  <2> QED BY <1>1, <1>3, <1>4, <1>5, <2>1 DEF RegistersInv, Votes
<1>9. Settings' /\ Reactions' /\ Receipts'
  BY <1>1, <1>3, SettingsStay, ReactionsStay, ReceiptsStay DEF RegistersInv
<1> QED BY <1>6, <1>7, <1>8, <1>9 DEF RegistersInv

\* prune_chat_history and delete_message: the votes and receipts of a go.
LEMMA GoesKept ==
    ASSUME RegistersInv, NEW a \in Addresses, joined => a = New, Goes(a),
           message' \in [Addresses -> [stored : BOOLEAN, tomb : BOOLEAN]],
           ~message'[a].stored, \A b \in Addresses \ {a} : message'[b] = message[b],
           reaction' \in [Addresses -> [value : Opinions, time : Nat, tomb : Nat]],
           \A b \in Addresses \ {a} : reaction'[b] = reaction[b],
           ReactionRecent(reaction'[a], received["reaction"][a]),
           \/ UNCHANGED reaction /\ message'[a].tomb = message[a].tomb
           \/ message'[a].tomb
    PROVE  RegistersInv'
<1> USE KindNames
<1>1. /\ vote' = [vote EXCEPT ![a] = Unvoted]
      /\ receipt' = [receipt EXCEPT ![a] = Sent]
      /\ received' = [received EXCEPT !["vote"][a] = {}, !["receipt"][a] = {}]
      /\ blurred' = blurred \ {"vote", "receipt"}
      /\ UNCHANGED <<setting, joined>>
  BY DEF Goes
<1>2. /\ received' \in [Kinds -> [Addresses -> SUBSET Notes]]
      /\ received'["vote"][a] = {} /\ received'["receipt"][a] = {}
      /\ \A b \in Addresses \ {a}, k \in Kinds : received'[k][b] = received[k][b]
      /\ received'["reaction"] = received["reaction"]
      /\ received'["setting"] = received["setting"]
  BY <1>1, RecordsGo DEF RegistersInv
<1>3. /\ vote'[a] = Unvoted /\ receipt'[a] = Sent
      /\ \A b \in Addresses \ {a} : vote'[b] = vote[b] /\ receipt'[b] = receipt[b]
  BY <1>1 DEF RegistersInv, RegisterTypes
<1>4. RegisterTypes'
  BY <1>1, <1>2, InitialRegisters DEF RegistersInv, RegisterTypes
<1>5. AliasIsGone'
  <2>1. CASE joined
    <3>1. a = New /\ Old \in Addresses \ {a}
      BY <2>1
    <3> QED BY ZenonT(90), <1>1, <1>2, <1>3, <2>1, <3>1 DEF RegistersInv, AliasIsGone
  <2>2. CASE ~joined
    BY <1>1, <2>2 DEF RegistersInv, AliasIsGone
  <2> QED BY <2>1, <2>2
<1>6. Reactions'
  <2>1. \A b \in Addresses : ReactionRecent(reaction'[b], received'["reaction"][b])
    BY <1>2 DEF RegistersInv, Reactions
  <2>2. ASSUME NEW b \in Addresses, ~message'[b].tomb, "reaction" \notin blurred'
        PROVE  ReactionSound(reaction'[b], received'["reaction"][b])
    <3>1. ~message[b].tomb /\ reaction'[b] = reaction[b] /\ "reaction" \notin blurred
      BY <1>1, <2>2
    <3> QED BY <1>2, <3>1 DEF RegistersInv, Reactions
  <2> QED BY <2>1, <2>2 DEF Reactions
<1>7. Votes'
  <2>1. ASSUME NEW b \in Addresses \ {a}, message[b].stored
        PROVE  vote[b].tally = vote[b].ballot
    BY <1>1, <2>1, OthersAreTallied
  <2>2. \A b \in Addresses \ {a} :
           VoteSound(vote[b], received["vote"][b])
           /\ (~message[b].stored => received["vote"][b] = {})
    BY DEF RegistersInv, Votes
  <2>3. /\ VoteSound(vote'[a], received'["vote"][a]) /\ received'["vote"][a] = {}
        /\ vote'[a].tally = vote'[a].ballot
    BY <1>2, <1>3, InitialRegisters
  <2>4. ASSUME NEW b \in Addresses \ {a}
        PROVE  /\ VoteSound(vote'[b], received'["vote"][b])
               /\ ~message'[b].stored => received'["vote"][b] = {}
               /\ message'[b].stored => vote'[b].tally = vote'[b].ballot
    BY ZenonT(90), <1>2, <1>3, <2>1, <2>2
  <2> QED BY <2>3, <2>4 DEF Votes
<1>8. Receipts'
  <2>1. ASSUME NEW b \in Addresses \ {a}
        PROVE  TimesSound(receipt[b], received["receipt"][b])
    <3>1. CASE "receipt" \notin blurred
      BY <2>1, <3>1 DEF RegistersInv, Receipts
    <3>2. CASE "receipt" \in blurred
      <4>1. joined /\ b = Old
        BY <1>1, <2>1, <3>2, TheOtherIsGone
      <4> QED BY <4>1, InitialRegisters DEF RegistersInv, AliasIsGone
    <3> QED BY <3>1, <3>2
  <2>2. \A b \in Addresses \ {a} : LevelSound(receipt[b], received["receipt"][b])
    BY DEF RegistersInv, Receipts
  <2> QED BY ZenonT(90), <1>2, <1>3, <2>1, <2>2, InitialRegisters DEF Receipts
<1>9. Settings'
  BY <1>1, <1>2, SettingsStay DEF RegistersInv
<1> QED BY <1>4, <1>5, <1>6, <1>7, <1>8, <1>9 DEF RegistersInv

LEMMA PruneKept ==
    ASSUME RegistersInv, NEW a \in Addresses, Prune(a)
    PROVE  RegistersInv'
<1>1. /\ joined => a = New
      /\ message' = [message EXCEPT ![a].stored = FALSE]
      /\ Goes(a) /\ UNCHANGED reaction
  BY DEF Prune, Arrives
<1>2. message[a] \in [stored : BOOLEAN, tomb : BOOLEAN]
  BY DEF RegistersInv, RegisterTypes
<1>3. /\ message' \in [Addresses -> [stored : BOOLEAN, tomb : BOOLEAN]]
      /\ ~message'[a].stored /\ message'[a].tomb = message[a].tomb
      /\ \A b \in Addresses \ {a} : message'[b] = message[b]
  BY <1>1, <1>2 DEF RegistersInv, RegisterTypes
<1>4. /\ reaction' \in [Addresses -> [value : Opinions, time : Nat, tomb : Nat]]
      /\ ReactionRecent(reaction'[a], received["reaction"][a])
  BY <1>1 DEF RegistersInv, RegisterTypes, Reactions
<1> QED BY <1>1, <1>3, <1>4, GoesKept

LEMMA DeleteKept ==
    ASSUME RegistersInv, NEW a \in Addresses, Delete(a)
    PROVE  RegistersInv'
<1>1. /\ joined => a = New
      /\ message' = [message EXCEPT ![a] = [stored |-> FALSE, tomb |-> TRUE]]
      /\ Goes(a) /\ reaction' = [reaction EXCEPT ![a].value = NoValue, ![a].time = 0]
  BY DEF Delete, Arrives
<1>2. /\ message' \in [Addresses -> [stored : BOOLEAN, tomb : BOOLEAN]]
      /\ ~message'[a].stored /\ message'[a].tomb
      /\ \A b \in Addresses \ {a} : message'[b] = message[b]
  BY <1>1 DEF RegistersInv, RegisterTypes
<1>3. /\ reaction[a] \in [value : Opinions, time : Nat, tomb : Nat]
      /\ ReactionRecent(reaction[a], received["reaction"][a])
  BY DEF RegistersInv, RegisterTypes, Reactions
<1>4. /\ reaction' \in [Addresses -> [value : Opinions, time : Nat, tomb : Nat]]
      /\ reaction'[a].value = NoValue /\ reaction'[a].time = 0
      /\ reaction'[a].tomb = reaction[a].tomb
      /\ \A b \in Addresses \ {a} : reaction'[b] = reaction[b]
  BY <1>1, <1>3 DEF RegistersInv, RegisterTypes, Opinions
<1>5. ReactionRecent(reaction'[a], received["reaction"][a])
  BY <1>3, <1>4 DEF ReactionRecent
<1> QED BY <1>1, <1>2, <1>4, <1>5, GoesKept

LEMMA RestartKept ==
    ASSUME RegistersInv, Restart
    PROVE  RegistersInv'
<1> USE KindNames
<1>1. /\ vote' = [a \in Addresses |-> IF vote[a].time > 0 THEN Tallied(vote[a]) ELSE vote[a]]
      /\ blurred' = blurred \ {"vote"}
      /\ UNCHANGED <<message, reaction, receipt, setting, joined, received>>
  BY DEF Restart
<1>2. \A a \in Addresses :
         /\ vote[a] \in [ballot : SUBSET Values, time : Nat, tally : SUBSET Values]
         /\ VoteSound(vote[a], received["vote"][a])
  BY DEF RegistersInv, RegisterTypes, Votes
<1>3. ASSUME NEW a \in Addresses
      PROVE  /\ vote'[a] \in [ballot : SUBSET Values, time : Nat, tally : SUBSET Values]
             /\ VoteSound(vote'[a], received["vote"][a]) /\ vote'[a].tally = vote'[a].ballot
  <2>1. CASE vote[a].time > 0
    BY <1>1, <1>2, <2>1, TalliedSound
  <2>2. CASE ~(vote[a].time > 0)
    <3>1. vote'[a] = vote[a] /\ vote[a].time = 0
      BY <1>1, <1>2, <2>2
    <3>2. vote[a].tally = {} /\ vote[a].ballot = {}
      BY <1>2, <3>1 DEF VoteSound
    <3> QED BY <1>2, <3>1, <3>2
  <2> QED BY <2>1, <2>2
<1>4. RegisterTypes'
  BY <1>1, <1>3 DEF RegistersInv, RegisterTypes
<1>5. AliasIsGone'
  <2>1. vote[Old] = Unvoted => vote'[Old] = Unvoted
    BY <1>1 DEF Unvoted
  <2> QED BY <1>1, <2>1 DEF RegistersInv, AliasIsGone
<1>6. Votes'
  BY <1>1, <1>3 DEF RegistersInv, Votes
<1>7. Settings' /\ Reactions' /\ Receipts'
  BY <1>1, SettingsStay, ReactionsStay, ReceiptsStay DEF RegistersInv
<1> QED BY <1>4, <1>5, <1>6, <1>7 DEF RegistersInv

\* migrate_contact_jid, register by register: what the merge makes of two rows
\* that were sound, where it leaves nothing undecided.
LEMMA ReactionMerged ==
    ASSUME NEW o \in [value : Opinions, time : Nat, tomb : Nat],
           NEW n \in [value : Opinions, time : Nat, tomb : Nat],
           NEW R \in SUBSET Notes, NEW S \in SUBSET Notes,
           ReactionRecent(o, R), ReactionRecent(n, S),
           NEW m, m = MergedReaction(o, n)
    PROVE  /\ m \in [value : Opinions, time : Nat, tomb : Nat]
           /\ ReactionRecent(m, R \cup S)
           /\ ReactionSound(o, R) /\ ReactionSound(n, S) /\ o.tomb = 0 /\ (R = {} \/ S = {})
                 => ReactionSound(m, R \cup S)
<1>1. CASE n.time > 0
  <2>1. m = n
    BY <1>1 DEF MergedReaction
  <2>2. ReactionRecent(m, R \cup S)
    BY <2>1 DEF ReactionRecent
  <2>3. ReactionSound(n, S) /\ (R = {} \/ S = {}) => R \cup S = S
    BY <1>1 DEF ReactionSound
  <2> QED BY <2>1, <2>2, <2>3
<1>2. CASE n.time = 0
  <2>1. m = [o EXCEPT !.tomb = n.tomb]
    BY <1>2 DEF MergedReaction
  <2>2. /\ m \in [value : Opinions, time : Nat, tomb : Nat]
        /\ m.value = o.value /\ m.time = o.time /\ m.tomb = n.tomb
    BY <2>1
  <2>3. ReactionRecent(m, R \cup S)
    BY <2>2 DEF ReactionRecent
  <2>4. ASSUME ReactionSound(o, R), ReactionSound(n, S), o.tomb = 0, R = {}
        PROVE  ReactionSound(m, R \cup S)
    <3>1. R \cup S = S /\ o.time = 0
      BY <2>4 DEF ReactionSound
    <3> QED BY <1>2, <2>2, <2>4, <3>1 DEF ReactionSound
  <2>5. ASSUME ReactionSound(o, R), ReactionSound(n, S), o.tomb = 0, S = {}
        PROVE  ReactionSound(m, R \cup S)
    <3>1. R \cup S = R /\ n.tomb = 0
      BY <1>2, <2>5 DEF ReactionSound
    <3> QED BY <1>2, <2>2, <2>5, <3>1 DEF ReactionSound
  <2> QED BY <2>2, <2>3, <2>4, <2>5
<1> QED BY <1>1, <1>2

VoteRows == [ballot : SUBSET Values, time : Nat, tally : SUBSET Values]

LEMMA VoteMerged ==
    ASSUME NEW o \in VoteRows, NEW n \in VoteRows, NEW x \in VoteRows, NEW m \in VoteRows,
           NEW R \in SUBSET Notes, NEW S \in SUBSET Notes, NEW y \in SUBSET Values,
           VoteSound(o, R), VoteSound(n, S), y = n.tally \/ y = o.tally,
           o.time > 0 /\ o.time >= n.time => x = o,
           ~(o.time > 0 /\ o.time >= n.time) => x = n,
           m.ballot = x.ballot, m.time = x.time, m.tally = y
    PROVE  VoteSound(m, R \cup S)
<1>1. \A e \in R \cup S : e.time \in Nat
  BY DEF Notes, Stamps
<1>0. /\ o.time \in Nat /\ n.time \in Nat /\ o.tally \in SUBSET Values
  BY DEF VoteRows
<1>2. x = IF o.time > 0 /\ o.time >= n.time THEN o ELSE n
  OBVIOUS
<1>4. m.ballot = x.ballot /\ m.time = x.time /\ m.tally = y
  OBVIOUS
<1>5. CASE o.time > 0 /\ o.time >= n.time
  <2>1. x = o /\ R # {}
    BY <1>2, <1>5 DEF VoteSound
  <2> QED BY <1>0, <1>1, <1>4, <1>5, <2>1 DEF VoteSound
<1>6. CASE o.time > 0 /\ o.time < n.time
  <2>1. x = n /\ R # {}
    BY <1>0, <1>2, <1>6 DEF VoteSound
  <2> QED BY <1>0, <1>1, <1>4, <1>6, <2>1 DEF VoteSound
<1>7. CASE o.time = 0
  <2>1. x = n /\ R = {} /\ o.tally = {}
    BY <1>2, <1>7 DEF VoteSound
  <2> QED BY <1>0, <1>1, <1>4, <1>7, <2>1 DEF VoteSound
<1> QED BY <1>0, <1>5, <1>6, <1>7

LEMMA ReceiptMerged ==
    ASSUME NEW o \in [level : Nat \ {0}, delivered : Nat, read : Nat,
                      readerDelivered : Nat, readerRead : Nat],
           NEW n \in [level : Nat \ {0}, delivered : Nat, read : Nat,
                      readerDelivered : Nat, readerRead : Nat],
           NEW R \in SUBSET Notes, NEW S \in SUBSET Notes,
           LevelSound(o, R), LevelSound(n, S), NEW m, m = MergedReceipt(o, n)
    PROVE  /\ m \in [level : Nat \ {0}, delivered : Nat, read : Nat,
                     readerDelivered : Nat, readerRead : Nat]
           /\ LevelSound(m, R \cup S)
           /\ R = {} /\ TimesSound(o, R) /\ TimesSound(n, S) => TimesSound(m, R \cup S)
<1>1. /\ m.level = LaterOf(o.level, n.level)
      /\ m.delivered = IF n.delivered > 0 THEN n.delivered ELSE o.delivered
      /\ m.read = IF n.read > 0 THEN n.read ELSE o.read
      /\ m.readerDelivered = n.readerDelivered
      /\ m.readerRead = LaterOf(o.readerRead, n.readerRead)
  BY DEF MergedReceipt
<1>2. m \in [level : Nat \ {0}, delivered : Nat, read : Nat,
             readerDelivered : Nat, readerRead : Nat]
  BY DEF MergedReceipt, LaterOf
<1>3. LevelSound(m, R \cup S)
  BY <1>1 DEF LevelSound, LaterOf
<1>4. ASSUME R = {}, TimesSound(o, R), TimesSound(n, S) PROVE TimesSound(m, R \cup S)
  <2>1. R \cup S = S /\ Deliveries(R) = {} /\ Reads(R) = {}
    BY <1>4 DEF Deliveries, Reads
  <2>2. o.delivered = 0 /\ o.read = 0 /\ o.readerRead = 0
    BY <1>4, <2>1 DEF TimesSound, IsFirst
  <2>3. /\ m.delivered = n.delivered /\ m.read = n.read
        /\ m.readerDelivered = n.readerDelivered /\ m.readerRead = n.readerRead
    BY <1>1, <2>2 DEF LaterOf
  <2> QED BY <1>4, <2>1, <2>3 DEF TimesSound
<1> QED BY <1>2, <1>3, <1>4

LEMMA SettingMerged ==
    ASSUME NEW o \in [value : Opinions, time : Nat], NEW n \in [value : Opinions, time : Nat],
           NEW R \in SUBSET Notes, NEW S \in SUBSET Notes, SettingRecent(n, S),
           NEW m, m = MergedSetting(o, n)
    PROVE  /\ m \in [value : Opinions, time : Nat]
           /\ SettingRecent(m, R \cup S)
           /\ R = {} /\ SettingSound(o, R) /\ SettingSound(n, S) => SettingSound(m, R \cup S)
<1>1. CASE o.value = NoValue
  <2>1. m = n
    BY <1>1 DEF MergedSetting
  <2>2. R = {} => R \cup S = S
    OBVIOUS
  <2> QED BY <2>1, <2>2 DEF SettingRecent
<1>2. CASE o.value # NoValue
  <2>1. m = [n EXCEPT !.value = o.value]
    BY <1>2 DEF MergedSetting
  <2>2. m \in [value : Opinions, time : Nat] /\ m.time = n.time
    BY <2>1
  <2>3. ~(R = {} /\ SettingSound(o, R))
    BY <1>2 DEF SettingSound
  <2> QED BY <2>2, <2>3 DEF SettingRecent
<1> QED BY <1>1, <1>2

LEMMA JoinKept ==
    ASSUME RegistersInv, Join
    PROVE  RegistersInv'
<1> USE KindNames
<1>1. /\ ~joined /\ joined' = TRUE /\ blurred = {} /\ blurred' = Undecided
      /\ message' = [message EXCEPT ![Old] = NoMessage,
            ![New] = [f \in {"stored", "tomb"} |-> message[Old][f] \/ message[New][f]]]
      /\ reaction' = [reaction EXCEPT ![Old] = Unreacted,
                                      ![New] = MergedReaction(reaction[Old], reaction[New])]
      /\ vote' = [vote EXCEPT ![Old] = Unvoted,
                        ![New] = MergedVote(vote[Old], vote[New], message[New].stored)]
      /\ receipt' = [receipt EXCEPT ![Old] = Sent,
                                    ![New] = MergedReceipt(receipt[Old], receipt[New])]
      /\ setting' = [setting EXCEPT ![Old] = Unset,
                                    ![New] = MergedSetting(setting[Old], setting[New])]
      /\ received' = [k \in Kinds |-> [a \in Addresses |->
            IF a = Old THEN {} ELSE received[k][Old] \cup received[k][New]]]
  BY DEF Join, RegistersInv, AliasIsGone
<1>2. \A a \in Addresses :
         /\ message[a] \in [stored : BOOLEAN, tomb : BOOLEAN]
         /\ reaction[a] \in [value : Opinions, time : Nat, tomb : Nat]
         /\ vote[a] \in [ballot : SUBSET Values, time : Nat, tally : SUBSET Values]
         /\ receipt[a] \in [level : Nat \ {0}, delivered : Nat, read : Nat,
                            readerDelivered : Nat, readerRead : Nat]
         /\ setting[a] \in [value : Opinions, time : Nat]
         /\ \A k \in Kinds : received[k][a] \in SUBSET Notes
  BY DEF RegistersInv, RegisterTypes
<1>3. \A a \in Addresses :
         /\ ReactionRecent(reaction[a], received["reaction"][a])
         /\ ~message[a].tomb => ReactionSound(reaction[a], received["reaction"][a])
         /\ VoteSound(vote[a], received["vote"][a])
         /\ SettingRecent(setting[a], received["setting"][a])
         /\ SettingSound(setting[a], received["setting"][a])
         /\ LevelSound(receipt[a], received["receipt"][a])
         /\ TimesSound(receipt[a], received["receipt"][a])
  BY <1>1 DEF RegistersInv, Reactions, Votes, Settings, Receipts
<1>4. \A k \in Kinds : /\ received'[k][Old] = {}
                       /\ received'[k][New] = received[k][Old] \cup received[k][New]
  BY <1>1
<1>5. /\ message'[Old] = NoMessage /\ reaction'[Old] = Unreacted /\ vote'[Old] = Unvoted
      /\ receipt'[Old] = Sent /\ setting'[Old] = Unset
      /\ reaction'[New] = MergedReaction(reaction[Old], reaction[New])
      /\ vote'[New] = MergedVote(vote[Old], vote[New], message[New].stored)
      /\ receipt'[New] = MergedReceipt(receipt[Old], receipt[New])
      /\ setting'[New] = MergedSetting(setting[Old], setting[New])
  BY <1>1 DEF RegistersInv, RegisterTypes
<1>6. /\ message'[New] \in [stored : BOOLEAN, tomb : BOOLEAN]
      /\ message'[New].stored = (message[Old].stored \/ message[New].stored)
      /\ message'[New].tomb = (message[Old].tomb \/ message[New].tomb)
  BY <1>1, <1>2 DEF RegistersInv, RegisterTypes
<1>7. /\ "reaction" \notin blurred' =>
              /\ reaction[Old].tomb = 0
              /\ received["reaction"][Old] = {} \/ received["reaction"][New] = {}
      /\ \A k \in {"vote", "receipt", "setting"} : k \notin blurred' => received[k][Old] = {}
  <2>1. "reaction" \notin blurred' =>
           ~(reaction[Old].tomb > 0) /\ ~(\A a \in Addresses : received["reaction"][a] # {})
    BY <1>1 DEF Undecided
  <2>2. \A k \in {"vote", "receipt", "setting"} : k \notin blurred' => received[k][Old] = {}
    BY <1>1 DEF Undecided
  <2>3. reaction[Old].tomb \in Nat
    BY <1>2
  <2> QED BY <2>1, <2>2, <2>3
<1>8. AliasIsGone'
  BY <1>1, <1>4, <1>5 DEF AliasIsGone
<1>9. /\ reaction'[New] \in [value : Opinions, time : Nat, tomb : Nat]
      /\ Reactions'
  <2>1. /\ reaction'[New] \in [value : Opinions, time : Nat, tomb : Nat]
        /\ ReactionRecent(reaction'[New], received'["reaction"][New])
        /\ /\ ReactionSound(reaction[Old], received["reaction"][Old])
           /\ ReactionSound(reaction[New], received["reaction"][New])
           /\ "reaction" \notin blurred'
           => ReactionSound(reaction'[New], received'["reaction"][New])
    <3>1. /\ received["reaction"][Old] \in SUBSET Notes /\ received["reaction"][New] \in SUBSET Notes
          /\ reaction[Old] \in [value : Opinions, time : Nat, tomb : Nat]
          /\ reaction[New] \in [value : Opinions, time : Nat, tomb : Nat]
          /\ ReactionRecent(reaction[Old], received["reaction"][Old])
          /\ ReactionRecent(reaction[New], received["reaction"][New])
      BY <1>2, <1>3
    <3>2. received'["reaction"][New] = received["reaction"][Old] \cup received["reaction"][New]
      BY <1>4
    <3>3. PICK m : m = MergedReaction(reaction[Old], reaction[New])
      OBVIOUS
    <3>4. /\ m \in [value : Opinions, time : Nat, tomb : Nat]
          /\ ReactionRecent(m, received["reaction"][Old] \cup received["reaction"][New])
          /\ /\ ReactionSound(reaction[Old], received["reaction"][Old])
             /\ ReactionSound(reaction[New], received["reaction"][New])
             /\ reaction[Old].tomb = 0
             /\ received["reaction"][Old] = {} \/ received["reaction"][New] = {}
             => ReactionSound(m, received["reaction"][Old] \cup received["reaction"][New])
      BY <3>1, <3>3, ReactionMerged
    <3>5. "reaction" \notin blurred' =>
              /\ reaction[Old].tomb = 0
              /\ received["reaction"][Old] = {} \/ received["reaction"][New] = {}
      BY <1>7
    <3>6. /\ reaction'[New] = m
          /\ received'["reaction"][New] = received["reaction"][Old] \cup received["reaction"][New]
      BY <1>5, <3>2, <3>3
    <3> QED BY <3>4, <3>5, <3>6
  <2>2. ~message'[New].tomb => ~message[Old].tomb /\ ~message[New].tomb
    BY <1>6
  <2>3. ReactionRecent(reaction'[Old], received'["reaction"][Old])
        /\ ReactionSound(reaction'[Old], received'["reaction"][Old])
    BY <1>4, <1>5, InitialRegisters
  <2> QED BY <1>3, <2>1, <2>2, <2>3 DEF Reactions
<1>10. /\ vote'[New] \in [ballot : SUBSET Values, time : Nat, tally : SUBSET Values]
       /\ Votes'
  <2>1. /\ vote'[New] \in [ballot : SUBSET Values, time : Nat, tally : SUBSET Values]
        /\ VoteSound(vote'[New], received'["vote"][New])
        /\ received["vote"][Old] = {} =>
              /\ vote'[New].ballot = vote[New].ballot
              /\ vote'[New].tally = IF message[New].stored THEN vote[New].tally ELSE {}
    <3>1. /\ received["vote"][Old] \in SUBSET Notes /\ received["vote"][New] \in SUBSET Notes
          /\ vote[Old] \in VoteRows
          /\ vote[New] \in VoteRows
          /\ VoteSound(vote[Old], received["vote"][Old])
          /\ VoteSound(vote[New], received["vote"][New])
          /\ message[New].stored \in BOOLEAN
      BY <1>2, <1>3 DEF VoteRows
    <3>2. received'["vote"][New] = received["vote"][Old] \cup received["vote"][New]
      BY <1>4
    <3>3. PICK y : y = IF message[New].stored THEN vote[New].tally ELSE vote[Old].tally
      OBVIOUS
    <3>5. PICK m : m = MergedVote(vote[Old], vote[New], message[New].stored)
      OBVIOUS
    <3>7. PICK x : x = IF vote[Old].time > 0 /\ vote[Old].time >= vote[New].time
                       THEN vote[Old] ELSE vote[New]
      OBVIOUS
    <3>6. /\ y \in SUBSET Values /\ (y = vote[New].tally \/ y = vote[Old].tally)
          /\ m = [x EXCEPT !.tally = y] /\ x \in VoteRows
      BY <3>1, <3>3, <3>5, <3>7 DEF MergedVote, VoteRows
    <3>8. m \in VoteRows /\ m.ballot = x.ballot /\ m.time = x.time /\ m.tally = y
      BY <3>6 DEF VoteRows
    <3>4. VoteSound(m, received["vote"][Old] \cup received["vote"][New])
      BY ZenonT(90), <3>1, <3>6, <3>7, <3>8, VoteMerged
    <3>9. received["vote"][Old] = {} => m.ballot = vote[New].ballot /\ vote[Old].tally = {}
      BY <3>1, <3>7, <3>8 DEF VoteSound, VoteRows
    <3> QED BY <1>5, <3>2, <3>3, <3>4, <3>5, <3>8, <3>9 DEF VoteRows
  <2>2. ~message'[New].stored => received'["vote"][New] = {}
    BY <1>4, <1>6 DEF RegistersInv, Votes
  <2>3. ASSUME message'[New].stored, "vote" \notin blurred'
        PROVE  vote'[New].tally = vote'[New].ballot
    <3>1. CASE message[New].stored
      BY <1>1, <1>7, <2>1, <2>3, <3>1 DEF RegistersInv, Votes
    <3>2. CASE ~message[New].stored
      <4>1. received["vote"][New] = {}
        BY <3>2 DEF RegistersInv, Votes
      <4>2. vote[New].ballot = {}
        BY <1>2, <1>3, <4>1 DEF VoteSound
      <4> QED BY <1>7, <2>1, <2>3, <3>2, <4>2
    <3> QED BY <3>1, <3>2
  <2>4. /\ VoteSound(vote'[Old], received'["vote"][Old]) /\ received'["vote"][Old] = {}
        /\ vote'[Old].tally = vote'[Old].ballot
    BY <1>4, <1>5, InitialRegisters
  <2> QED BY <2>1, <2>2, <2>3, <2>4 DEF Votes
<1>11. /\ receipt'[New] \in [level : Nat \ {0}, delivered : Nat, read : Nat,
                             readerDelivered : Nat, readerRead : Nat]
       /\ Receipts'
  <2>1. /\ receipt'[New] \in [level : Nat \ {0}, delivered : Nat, read : Nat,
                              readerDelivered : Nat, readerRead : Nat]
        /\ LevelSound(receipt'[New], received'["receipt"][New])
        /\ "receipt" \notin blurred' => TimesSound(receipt'[New], received'["receipt"][New])
    <3>1. /\ received["receipt"][Old] \in SUBSET Notes /\ received["receipt"][New] \in SUBSET Notes
          /\ receipt[Old] \in [level : Nat \ {0}, delivered : Nat, read : Nat,
                              readerDelivered : Nat, readerRead : Nat]
          /\ receipt[New] \in [level : Nat \ {0}, delivered : Nat, read : Nat,
                              readerDelivered : Nat, readerRead : Nat]
          /\ LevelSound(receipt[Old], received["receipt"][Old])
          /\ LevelSound(receipt[New], received["receipt"][New])
      BY <1>2, <1>3
    <3>2. /\ TimesSound(receipt[Old], received["receipt"][Old])
          /\ TimesSound(receipt[New], received["receipt"][New])
      BY <1>3
    <3>3. received'["receipt"][New] = received["receipt"][Old] \cup received["receipt"][New]
      BY <1>4
    <3>4. "receipt" \notin blurred' => received["receipt"][Old] = {}
      BY <1>7
    <3>5. PICK m : m = MergedReceipt(receipt[Old], receipt[New])
      OBVIOUS
    <3>6. /\ m \in [level : Nat \ {0}, delivered : Nat, read : Nat,
                    readerDelivered : Nat, readerRead : Nat]
          /\ LevelSound(m, received["receipt"][Old] \cup received["receipt"][New])
          /\ received["receipt"][Old] = {}
                => TimesSound(m, received["receipt"][Old] \cup received["receipt"][New])
      BY <3>1, <3>2, <3>5, ReceiptMerged
    <3> QED BY <1>5, <3>3, <3>4, <3>5, <3>6
  <2>2. /\ LevelSound(receipt'[Old], received'["receipt"][Old])
        /\ TimesSound(receipt'[Old], received'["receipt"][Old])
    BY <1>4, <1>5, InitialRegisters
  <2> QED BY <2>1, <2>2 DEF Receipts
<1>12. /\ setting'[New] \in [value : Opinions, time : Nat]
       /\ Settings'
  <2>1. /\ setting'[New] \in [value : Opinions, time : Nat]
        /\ SettingRecent(setting'[New], received'["setting"][New])
        /\ "setting" \notin blurred' => SettingSound(setting'[New], received'["setting"][New])
    <3>1. /\ received["setting"][Old] \in SUBSET Notes /\ received["setting"][New] \in SUBSET Notes
          /\ setting[Old] \in [value : Opinions, time : Nat]
          /\ setting[New] \in [value : Opinions, time : Nat]
          /\ SettingRecent(setting[New], received["setting"][New])
      BY <1>2, <1>3
    <3>2. /\ SettingSound(setting[Old], received["setting"][Old])
          /\ SettingSound(setting[New], received["setting"][New])
      BY <1>3
    <3>3. received'["setting"][New] = received["setting"][Old] \cup received["setting"][New]
      BY <1>4
    <3>4. "setting" \notin blurred' => received["setting"][Old] = {}
      BY <1>7
    <3>5. PICK m : m = MergedSetting(setting[Old], setting[New])
      OBVIOUS
    <3>6. /\ m \in [value : Opinions, time : Nat]
          /\ SettingRecent(m, received["setting"][Old] \cup received["setting"][New])
          /\ received["setting"][Old] = {}
                => SettingSound(m, received["setting"][Old] \cup received["setting"][New])
      BY <3>1, <3>2, <3>5, SettingMerged
    <3> QED BY <1>5, <3>3, <3>4, <3>5, <3>6
  <2>2. /\ SettingRecent(setting'[Old], received'["setting"][Old])
        /\ SettingSound(setting'[Old], received'["setting"][Old])
    BY <1>4, <1>5, InitialRegisters
  <2> QED BY <2>1, <2>2 DEF Settings
<1>13. RegisterTypes'
  <2>1. blurred' \subseteq Kinds
    BY <1>1 DEF Undecided, Kinds
  <2>2. /\ message' \in [Addresses -> [stored : BOOLEAN, tomb : BOOLEAN]]
        /\ reaction' \in [Addresses -> [value : Opinions, time : Nat, tomb : Nat]]
        /\ vote' \in [Addresses -> [ballot : SUBSET Values, time : Nat, tally : SUBSET Values]]
    BY <1>1, <1>5, <1>6, <1>9, <1>10, InitialRegisters DEF RegistersInv, RegisterTypes
  <2>3. /\ receipt' \in [Addresses -> [level : Nat \ {0}, delivered : Nat, read : Nat,
                                       readerDelivered : Nat, readerRead : Nat]]
        /\ setting' \in [Addresses -> [value : Opinions, time : Nat]]
    BY <1>1, <1>5, <1>11, <1>12, InitialRegisters DEF RegistersInv, RegisterTypes
  <2>4. received' \in [Kinds -> [Addresses -> SUBSET Notes]]
    BY <1>1, <1>2
  <2> QED BY <1>1, <2>1, <2>2, <2>3, <2>4 DEF RegisterTypes
<1> QED BY <1>8, <1>9, <1>10, <1>11, <1>12, <1>13 DEF RegistersInv

LEMMA RegistersInvKept == RegistersInv /\ [RegistersNext]_registerVars => RegistersInv'
<1> SUFFICES ASSUME RegistersInv, [RegistersNext]_registerVars PROVE RegistersInv'
  OBVIOUS
<1>1. CASE UNCHANGED registerVars
  BY <1>1 DEF registerVars, registers, RegistersInv, RegisterTypes, AliasIsGone, Reactions,
              Votes, Settings, Receipts
<1>2. CASE ReactionNext
  BY <1>2, ReactKept DEF ReactionNext, Opinions
<1>3. CASE VoteNext
  BY <1>3, VoteKept DEF VoteNext
<1>4. CASE ReceiptNext
  BY <1>4, ReceiptKept DEF ReceiptNext
<1>5. CASE SettingNext
  BY <1>5, SetKept DEF SettingNext
<1>6. CASE MessageNext
  BY <1>6, StoreKept, PruneKept, DeleteKept, JoinKept, RestartKept DEF MessageNext
<1> QED BY <1>1, <1>2, <1>3, <1>4, <1>5, <1>6 DEF RegistersNext

LEMMA RegistersInvHolds == RegistersSpec => []RegistersInv
  BY RegistersInit1, RegistersInvKept, PTL DEF RegistersSpec

(* The registers and the history kept beside them are what their names say. *)
THEOREM RegistersTypeCorrect == RegistersSpec => []RegisterTypes
<1>1. RegistersInv => RegisterTypes
  BY DEF RegistersInv
<1> QED BY <1>1, RegistersInvHolds, PTL

\* A register that is sound says what the order of the times says.
LEMMA SoundReactionIsFinal ==
    ASSUME NEW r \in [value : Opinions, time : Nat, tomb : Nat], NEW R \in SUBSET Notes,
           ReactionSound(r, R)
    PROVE  r.value \in FinalReactions(R)
<1> DEFINE removals == {e \in R : e.value = NoValue}
           S == {e \in R \ removals : \A f \in removals : f.time < e.time}
<1>1. \A e \in R : e.time \in Nat /\ e.time > 0
  BY DEF Notes, Stamps
<1>2. CASE r.time = 0
  <2>1. ASSUME NEW e \in S PROVE FALSE
    <3>1. e.time <= r.tomb /\ r.tomb > 0
      BY <1>1, <1>2 DEF ReactionSound
    <3>2. PICK f \in R : f.value = NoValue /\ f.time = r.tomb
      BY <1>2, <3>1 DEF ReactionSound
    <3>3. f \in removals
      BY <3>2
    <3> QED BY <1>1, <3>1, <3>2, <3>3
  <2>2. S = {}
    BY <2>1
  <2> QED BY <1>2, <2>2 DEF FinalReactions, Winners, ReactionSound
<1>3. CASE r.time > 0
  <2>1. PICK e \in R : e.value = r.value /\ e.time = r.time
    BY <1>3 DEF ReactionSound
  <2>2. e \in S
    BY <1>3, <2>1 DEF ReactionSound
  <2>3. e \in LatestOf(S)
    BY <1>3, <2>1, <2>2 DEF ReactionSound, LatestOf
  <2> QED BY <2>1, <2>2, <2>3 DEF FinalReactions, Winners
<1> QED BY <1>2, <1>3

LEMMA SoundVoteWins ==
    ASSUME NEW v \in [ballot : SUBSET Values, time : Nat, tally : SUBSET Values],
           NEW R \in SUBSET Notes, VoteSound(v, R)
    PROVE  v.ballot \in Winners(R, {})
<1>1. CASE v.time = 0
  BY <1>1 DEF VoteSound, Winners
<1>2. CASE v.time > 0
  <2>1. PICK e \in R : e.value = v.ballot /\ e.time = v.time
    BY <1>2 DEF VoteSound
  <2>2. e \in LatestOf(R)
    BY <2>1 DEF VoteSound, LatestOf
  <2> QED BY <2>1, <2>2 DEF Winners
<1> QED BY <1>1, <1>2

LEMMA SoundSettingWins ==
    ASSUME NEW s \in [value : Opinions, time : Nat], NEW R \in SUBSET Notes, SettingSound(s, R)
    PROVE  s.value \in Winners(R, NoValue)
<1>1. CASE R = {}
  BY <1>1 DEF SettingSound, Winners
<1>2. CASE R # {}
  <2>1. PICK e \in R : e.value = s.value /\ e.time = s.time
    BY <1>2 DEF SettingSound
  <2>2. e \in LatestOf(R)
    BY <2>1 DEF SettingSound, LatestOf
  <2> QED BY <1>2, <2>1, <2>2 DEF Winners
<1> QED BY <1>1, <1>2

LEMMA FirstIsFirstTime ==
    ASSUME NEW S \in SUBSET Notes, NEW x \in Nat, IsFirst(S, x)
    PROVE  x = FirstTime(S)
<1>1. CASE S = {}
  BY <1>1 DEF IsFirst, FirstTime
<1>2. CASE S # {}
  <2> DEFINE c == CHOOSE e \in S : \A f \in S : e.time <= f.time
  <2>1. \A e \in S : e.time \in Nat
    BY DEF Notes, Stamps
  <2>2. PICK e \in S : e.time = x
    BY <1>2 DEF IsFirst
  <2>3. \A f \in S : e.time <= f.time
    BY <2>2 DEF IsFirst
  <2>4. c \in S /\ \A f \in S : c.time <= f.time
    BY <2>2, <2>3
  <2>5. FirstTime(S) = c.time
    BY <1>2 DEF FirstTime
  <2> HIDE DEF c
  <2>6. c.time <= x /\ x <= c.time
    BY <2>2, <2>3, <2>4
  <2> QED BY <2>1, <2>4, <2>5, <2>6
<1> QED BY <1>1, <1>2

(* For every set of values and times and any number of events: reactions,     *)
(* votes, receipts and settings that arrive late, twice, out of order, under   *)
(* either address and around a merge, a deletion and a restart leave what the  *)
(* order of their times says, and a poll's card shows the votes that are       *)
(* stored (apply_reaction, apply_poll_vote, update_receipts,                   *)
(* update_chat_setting, migrate_contact_jid).                                  *)
THEOREM ValuesConverge == RegistersSpec => []StoredValuesConverge
<1>1. ASSUME RegistersInv PROVE StoredValuesConverge
  <2>1. ASSUME NEW a \in Addresses
        PROVE  /\ ~message[a].tomb /\ "reaction" \notin blurred
                     => reaction[a].value \in FinalReactions(received["reaction"][a])
               /\ vote[a].ballot \in Winners(received["vote"][a], {})
               /\ "setting" \notin blurred
                     => setting[a].value \in Winners(received["setting"][a], NoValue)
    <3>1. /\ reaction[a] \in [value : Opinions, time : Nat, tomb : Nat]
          /\ vote[a] \in [ballot : SUBSET Values, time : Nat, tally : SUBSET Values]
          /\ setting[a] \in [value : Opinions, time : Nat]
          /\ \A k \in Kinds : received[k][a] \in SUBSET Notes
      BY <1>1 DEF RegistersInv, RegisterTypes
    <3>2. /\ ~message[a].tomb /\ "reaction" \notin blurred
                => ReactionSound(reaction[a], received["reaction"][a])
          /\ VoteSound(vote[a], received["vote"][a])
          /\ "setting" \notin blurred => SettingSound(setting[a], received["setting"][a])
      BY <1>1 DEF RegistersInv, Reactions, Votes, Settings
    <3> QED BY <3>1, <3>2, KindNames, SoundReactionIsFinal, SoundVoteWins, SoundSettingWins
  <2>2. ASSUME NEW a \in Addresses
        PROVE  LET R == received["receipt"][a]
                   r == receipt[a]
               IN  /\ \A e \in R : e.value <= r.level
                   /\ r.level > 1 => \E e \in R : e.value = r.level
                   /\ "receipt" \notin blurred =>
                        /\ {r.delivered, r.readerDelivered} = {FirstTime({e \in R : e.value = 2})}
                        /\ {r.read, r.readerRead} = {FirstTime({e \in R : e.value >= 3})}
    <3>1. /\ receipt[a].delivered \in Nat /\ receipt[a].readerDelivered \in Nat
          /\ receipt[a].read \in Nat /\ receipt[a].readerRead \in Nat
          /\ received["receipt"][a] \in SUBSET Notes
      BY <1>1, KindNames DEF RegistersInv, RegisterTypes
    <3>2. /\ LevelSound(receipt[a], received["receipt"][a])
          /\ "receipt" \notin blurred => TimesSound(receipt[a], received["receipt"][a])
      BY <1>1 DEF RegistersInv, Receipts
    <3>3. /\ Deliveries(received["receipt"][a]) \in SUBSET Notes
          /\ Reads(received["receipt"][a]) \in SUBSET Notes
      BY <3>1 DEF Deliveries, Reads
    <3>4. "receipt" \notin blurred =>
             /\ receipt[a].delivered = FirstTime(Deliveries(received["receipt"][a]))
             /\ receipt[a].readerDelivered = FirstTime(Deliveries(received["receipt"][a]))
             /\ receipt[a].read = FirstTime(Reads(received["receipt"][a]))
             /\ receipt[a].readerRead = FirstTime(Reads(received["receipt"][a]))
      BY <3>1, <3>2, <3>3, FirstIsFirstTime DEF TimesSound
    <3> QED BY <3>2, <3>4 DEF LevelSound, Deliveries, Reads
  <2>3. RegistersConverge
    BY <2>1, <2>2 DEF RegistersConverge
  <2>4. TallyMatchesVotes
    BY <1>1 DEF RegistersInv, Votes, TallyMatchesVotes
  <2> QED BY <2>3, <2>4 DEF StoredValuesConverge
<1> QED BY <1>1, RegistersInvHolds, PTL

-----------------------------------------------------------------------------
(* The stored history of a chat (database.rs) *)

\* Chat c keeps what was promised: D are the messages read, G those removed.
\* A name list implies a boundary: both come from apply_read_boundary.
KeepsPromises(c, D, G) ==
    /\ c \in Chat /\ c.fresh \subseteq c.rows \ Mine
    /\ c.fresh \cap D = {} /\ \A i \in D : Covers(c, i)
    /\ \A i \in G : i \notin c.rows /\ ~Admits(c, i)
    /\ ~c.listed => c.rows = {}
    /\ c.named # {} => c.boundary > 0

Counted(c) == Cardinality(c.fresh) <= c.unread

PendingSound(p) ==
    /\ p \in Pending
    /\ p.step # "idle" => p.jid \in Jids
    /\ p.step = "apply" /\ p.ids # {} => p.time > 1

HistoryInv ==
    /\ chats \in [Jids -> Chat] /\ pending \in [Actors -> Pending]
    /\ done \in 0 .. Operations /\ miscounted \subseteq Jids
    /\ settled \in [Jids -> SUBSET Ids] /\ removed \in [Jids -> SUBSET Ids]
    /\ \A j \in Jids : KeepsPromises(chats[j], settled[j], removed[j])
    /\ \A j \in Jids \ miscounted : Counted(chats[j])
    /\ \A a \in Actors : PendingSound(pending[a])

LEMMA ChatFields ==
    ASSUME NEW c \in Chat
    PROVE  /\ c.listed \in BOOLEAN /\ c.set \in BOOLEAN /\ c.deleted \in BOOLEAN
           /\ c.explicit \in BOOLEAN /\ c.unread \in Nat
           /\ c.rows \in SUBSET Ids /\ c.fresh \in SUBSET Ids /\ c.tombs \in SUBSET Ids
           /\ c.named \in SUBSET Ids
           /\ c.cleared \in Times /\ c.boundary \in Times /\ c.stamp \in Times
           /\ c.cleared \in Nat /\ c.boundary \in Nat
  BY MessagesAssumption DEF Chat, Times

LEMMA TimesOfMessages ==
    /\ \A i \in Ids : Time[i] \in Nat /\ Time[i] > 1 /\ Time[i] \in Times
    /\ \A t \in Times : t \in Nat
    /\ \A t \in EventTimes : t \in Times /\ t \in Nat /\ t > 1
  BY MessagesAssumption DEF Times, EventTimes

\* The counter of unread rows is a number, and 0 when there is none.
LEMMA UnreadIsCounted ==
    ASSUME NEW S \in SUBSET Ids
    PROVE  /\ IsFiniteSet(S) /\ Cardinality(S) \in Nat
           /\ S = {} => Cardinality(S) = 0
           /\ \A T \in SUBSET S : Cardinality(T) <= Cardinality(S)
           /\ \A i : Cardinality(S \cup {i}) <= Cardinality(S) + 1
<1>1. IsFiniteSet(S)
  BY MessagesAssumption, FS_Subset
<1>2. Cardinality(S) \in Nat
  BY <1>1, FS_CardinalityType
<1>3. S = {} => Cardinality(S) = 0
  BY FS_EmptySet
<1>4. \A T \in SUBSET S : Cardinality(T) <= Cardinality(S)
  BY <1>1, FS_Subset
<1>5. ASSUME NEW i PROVE Cardinality(S \cup {i}) <= Cardinality(S) + 1
  <2>1. Cardinality(S \cup {i}) = IF i \in S THEN Cardinality(S) ELSE Cardinality(S) + 1
    BY <1>1, FS_AddElement
  <2> QED BY <1>2, <2>1
<1> QED BY <1>1, <1>2, <1>3, <1>4, <1>5

\* The newest second of some messages is the second of one of them.
LEMMA NewestIsOne ==
    ASSUME NEW S \in SUBSET Ids
    PROVE  /\ Newest(S) \in Times
           /\ S # {} => Newest(S) > 1 /\ \E i \in S : Time[i] = Newest(S)
<1>0. LastTime \in Nat /\ \A i \in Ids : Time[i] \in 2 .. LastTime
  BY MessagesAssumption
<1>1. CASE S = {}
  BY <1>0, <1>1 DEF Newest, Times
<1>2. CASE S # {}
  <2> DEFINE gaps == {LastTime - Time[i] : i \in S}
             less == {p \in Nat \X Nat : p[1] < p[2]}
  <2>1. gaps \subseteq Nat /\ gaps # {}
    BY <1>0, <1>2
  <2>2. IsWellFoundedOn(less, Nat)
    BY NatLessThanWellFounded DEF OpToRel
  <2>3. PICK g \in gaps : \A h \in gaps : ~(<<h, g>> \in less)
    <3> HIDE DEF gaps, less
    <3> QED BY <2>1, <2>2, WFMin
  <2>4. ASSUME NEW h \in gaps PROVE g <= h
    <3>1. h \in Nat /\ g \in Nat /\ ~(<<h, g>> \in less)
      BY <2>1, <2>3
    <3> HIDE DEF gaps
    <3> QED BY <3>1
  <2>5. PICK k \in S : g = LastTime - Time[k]
    OBVIOUS
  <2>6. \A i \in S : Time[i] <= Time[k]
    <3> TAKE i \in S
    <3>1. g <= LastTime - Time[i]
      BY <2>4
    <3> QED BY <1>0, <2>5, <3>1
  <2> HIDE DEF gaps, less
  <2>7. \E t \in Times : (\E i \in S : Time[i] = t) /\ (\A i \in S : Time[i] <= t)
    BY <1>0, <2>5, <2>6 DEF Times
  <2>8. Newest(S) = CHOOSE t \in Times : /\ \E i \in S : Time[i] = t
                                         /\ \A i \in S : Time[i] <= t
    BY <1>2 DEF Newest
  <2>9. Newest(S) \in Times /\ \E i \in S : Time[i] = Newest(S)
    BY <2>7, <2>8
  <2> QED BY <1>0, <2>9
<1> QED BY <1>1, <1>2

(* What each operation makes of a chat. *)
LEMMA BlankKeeps == KeepsPromises(Blank, {}, {}) /\ Counted(Blank)
<1>1. Blank \in Chat
  BY MessagesAssumption DEF Blank, Chat, Times
<1>2. Counted(Blank)
  BY FS_EmptySet DEF Counted, Blank
<1> QED BY <1>1, <1>2 DEF KeepsPromises, Blank

LEMMA PrunedKeeps ==
    ASSUME NEW c, NEW D \in SUBSET Ids, NEW G \in SUBSET Ids, KeepsPromises(c, D, G),
           NEW K \in SUBSET c.rows, NEW e, e = Pruned(c, K)
    PROVE  KeepsPromises(e, D, G) /\ (Counted(c) => Counted(e))
<1>1. c \in Chat /\ K \in SUBSET Ids
  BY ChatFields DEF KeepsPromises
<1>2. e = [c EXCEPT !.rows = K, !.fresh = c.fresh \cap K]
  BY DEF Pruned
<1>3. e \in Chat
  BY ZenonT(90), <1>1, <1>2, ChatFields DEF Chat
<1>4. /\ e.rows = K /\ e.fresh = c.fresh \cap K /\ e.listed = c.listed /\ e.unread = c.unread
      /\ e.tombs = c.tombs /\ e.cleared = c.cleared /\ e.boundary = c.boundary
      /\ e.named = c.named
  BY <1>1, <1>2 DEF Chat
<1>5. KeepsPromises(e, D, G)
  BY <1>3, <1>4 DEF KeepsPromises, Covers, Admits
<1>6. Cardinality(e.fresh) <= Cardinality(c.fresh)
  BY <1>1, <1>4, ChatFields, UnreadIsCounted
<1>7. Cardinality(e.fresh) \in Nat /\ Cardinality(c.fresh) \in Nat /\ c.unread \in Nat
  BY <1>1, <1>3, ChatFields, UnreadIsCounted
<1>8. ASSUME Counted(c) PROVE Counted(e)
  BY <1>4, <1>6, <1>7, <1>8 DEF Counted
<1> QED BY <1>5, <1>8

LEMMA InsertedKeeps ==
    ASSUME NEW c, NEW D \in SUBSET Ids, NEW G \in SUBSET Ids, KeepsPromises(c, D, G),
           NEW i \in Ids, NEW unread \in BOOLEAN, unread => i \notin Mine,
           NEW e, e = Inserted(c, i, unread)
    PROVE  KeepsPromises(e, D, G) /\ (Counted(c) => Counted(e))
<1>1. c \in Chat
  BY DEF KeepsPromises
<1>0. /\ c.rows \cup {i} \in SUBSET Ids /\ c.fresh \cup {i} \in SUBSET Ids
      /\ c.fresh \in SUBSET Ids /\ c.unread \in Nat /\ c.unread + 1 \in Nat
  BY <1>1, ChatFields
<1>2. CASE ~Admits(c, i)
  <2>1. e = c
    BY <1>2 DEF Inserted
  <2> QED BY <2>1
<1>3. CASE Admits(c, i) /\ i \notin c.rows /\ unread /\ ~Covers(c, i)
  <2>1. e = [c EXCEPT !.listed = TRUE, !.set = TRUE, !.deleted = FALSE,
                      !.rows = c.rows \cup {i}, !.fresh = c.fresh \cup {i},
                      !.unread = c.unread + 1]
    BY <1>3 DEF Inserted
  <2>2. e \in Chat
    BY ZenonT(90), <1>0, <1>1, <2>1 DEF Chat
  <2>3. /\ e.rows = c.rows \cup {i} /\ e.fresh = c.fresh \cup {i} /\ e.listed
        /\ e.unread = c.unread + 1
        /\ e.tombs = c.tombs /\ e.cleared = c.cleared /\ e.boundary = c.boundary
        /\ e.named = c.named
    BY <1>1, <2>1 DEF Chat
  <2>4. KeepsPromises(e, D, G)
    BY <1>3, <2>2, <2>3 DEF KeepsPromises, Covers, Admits
  <2>5. Cardinality(e.fresh) <= Cardinality(c.fresh) + 1
    BY <1>1, <2>3, ChatFields, UnreadIsCounted
  <2>6. Cardinality(e.fresh) \in Nat /\ Cardinality(c.fresh) \in Nat /\ c.unread \in Nat
    BY <1>1, <2>2, ChatFields, UnreadIsCounted
  <2>7. ASSUME Counted(c) PROVE Counted(e)
    BY <2>3, <2>5, <2>6, <2>7 DEF Counted
  <2> QED BY <2>4, <2>7
<1>4. CASE Admits(c, i) /\ ~(i \notin c.rows /\ unread /\ ~Covers(c, i))
  <2>1. e = [c EXCEPT !.listed = TRUE, !.set = TRUE, !.deleted = FALSE,
                      !.rows = c.rows \cup {i}, !.fresh = c.fresh, !.unread = c.unread]
    BY <1>4 DEF Inserted
  <2>2. e \in Chat
    BY ZenonT(90), <1>0, <1>1, <2>1 DEF Chat
  <2>3. /\ e.rows = c.rows \cup {i} /\ e.fresh = c.fresh /\ e.listed /\ e.unread = c.unread
        /\ e.tombs = c.tombs /\ e.cleared = c.cleared /\ e.boundary = c.boundary
        /\ e.named = c.named
    BY <1>1, <2>1 DEF Chat
  <2>4. KeepsPromises(e, D, G)
    BY <1>4, <2>2, <2>3 DEF KeepsPromises, Covers, Admits
  <2> QED BY <2>3, <2>4 DEF Counted
<1> QED BY <1>2, <1>3, <1>4

LEMMA ReplayedKeeps ==
    ASSUME NEW c, NEW D \in SUBSET Ids, NEW G \in SUBSET Ids, KeepsPromises(c, D, G),
           NEW n \in Nat, NEW S \in SUBSET Ids, NEW e, e = Replayed(c, n, S)
    PROVE  KeepsPromises(e, D, G) /\ (Counted(c) => Counted(e))
<1>1. c \in Chat
  BY DEF KeepsPromises
<1> DEFINE kept == {i \in S : Admits(c, i)}
           held == c.listed \/ ~c.deleted \/ kept # {}
<1>2. e = [c EXCEPT !.listed = held,
                    !.unread = IF c.listed \/ c.deleted THEN c.unread ELSE n,
                    !.rows = c.rows \cup kept]
  BY DEF Replayed
<1>3. kept \in SUBSET Ids /\ held \in BOOLEAN
  BY <1>1, ChatFields
<1>4. \A i \in kept : Admits(c, i)
  OBVIOUS
<1>5. ~held => ~c.listed /\ kept = {}
  OBVIOUS
<1> HIDE DEF kept, held
<1>6. e \in Chat
  BY ZenonT(90), <1>1, <1>2, <1>3, ChatFields DEF Chat
<1>7. /\ e.rows = c.rows \cup kept /\ e.fresh = c.fresh /\ e.listed = held
      /\ e.unread = (IF c.listed \/ c.deleted THEN c.unread ELSE n)
      /\ e.tombs = c.tombs /\ e.cleared = c.cleared /\ e.boundary = c.boundary
      /\ e.named = c.named
  BY <1>1, <1>2 DEF Chat
<1>8. KeepsPromises(e, D, G)
  <2>1. /\ e.fresh \subseteq e.rows \ Mine /\ e.fresh \cap D = {} /\ \A i \in D : Covers(e, i)
        /\ e.named # {} => e.boundary > 0
    BY <1>7 DEF KeepsPromises, Covers
  <2>2. \A i \in G : i \notin e.rows /\ ~Admits(e, i)
    BY <1>4, <1>7 DEF KeepsPromises, Admits
  <2>3. ~e.listed => e.rows = {}
    BY <1>5, <1>7 DEF KeepsPromises
  <2> QED BY <1>6, <2>1, <2>2, <2>3 DEF KeepsPromises
<1>9. ASSUME Counted(c) PROVE Counted(e)
  <2>1. CASE c.listed
    BY <1>7, <1>9, <2>1 DEF Counted
  <2>2. CASE ~c.listed
    <3>1. c.fresh = {}
      BY <2>2 DEF KeepsPromises
    <3>2. Cardinality(e.fresh) = 0 /\ e.unread \in Nat
      BY <1>6, <1>7, <3>1, ChatFields, FS_EmptySet
    <3> QED BY <3>2 DEF Counted
  <2> QED BY <2>1, <2>2
<1> QED BY <1>8, <1>9

\* apply_read_boundary: what was read before stays covered, by the boundary or by
\* name, and so is what is read now, but for the names the cap evicts.
LEMMA ReadKeeps ==
    ASSUME NEW c, NEW D \in SUBSET Ids, NEW G \in SUBSET Ids, KeepsPromises(c, D, G),
           NEW t \in Times, NEW I \in SUBSET Ids, I # {} => t > 1,
           NEW K \in SUBSET Named(c, t, I), NEW e, e = ReadThrough(c, t, I, K)
    PROVE  /\ KeepsPromises(e, (D \cup AtMost(Boundary(c, t, I)) \cup I) \ (Named(c, t, I) \ K), G)
           /\ Counted(e)
<1> DEFINE b == Boundary(c, t, I)
           N == Named(c, t, I)
           F == (D \cup AtMost(b) \cup I) \ (N \ K)
           fresh == c.fresh \ (AtMost(b) \cup I)
           unread == IF c.listed THEN Cardinality(fresh) ELSE c.unread
<1>1. c \in Chat
  BY DEF KeepsPromises
<1>2. /\ b \in Times /\ b \in Nat /\ c.boundary \in Nat /\ c.boundary <= b
      /\ I # {} => b > 0
  <2>1. t \in Nat /\ c.boundary \in Nat /\ c.boundary \in Times
    BY <1>1, ChatFields, TimesOfMessages
  <2>2. Candidate(t, I) \in Times /\ Candidate(t, I) \in Nat /\ (I # {} => Candidate(t, I) > 0)
    BY <2>1, MessagesAssumption DEF Candidate, Times
  <2> QED BY <2>1, <2>2 DEF Boundary
<1>3. N \subseteq Ids /\ K \in SUBSET Ids /\ fresh \in SUBSET Ids
  BY <1>1, ChatFields DEF Named
<1>4. e = [c EXCEPT !.set = TRUE, !.explicit = FALSE, !.boundary = b, !.named = K,
                    !.fresh = fresh, !.unread = unread]
  BY DEF ReadThrough
<1>5. \A i \in N : i \in c.named \cup I /\ (i \notin c.rows \/ Time[i] > b)
  BY DEF Named
<1>6. \A i \in c.named \cup I : i \in Ids => i \in N \/ Time[i] <= b
  <2> TAKE i \in c.named \cup I
  <2>1. i \in Ids => Time[i] \in Nat
    BY TimesOfMessages
  <2> QED BY <1>2, <2>1 DEF Named
<1>7. AtMost(b) = {i \in Ids : Time[i] <= b}
  BY DEF AtMost
<1> HIDE DEF b, N
<1>8. Cardinality(fresh) \in Nat /\ unread \in Nat
  BY <1>1, <1>3, ChatFields, UnreadIsCounted
<1>9. c.listed => unread = Cardinality(fresh)
  OBVIOUS
<1>10. ~c.listed => fresh = {}
  BY DEF KeepsPromises
<1>11. \A i \in fresh : i \in c.fresh /\ i \notin AtMost(b) /\ i \notin I
  OBVIOUS
<1> HIDE DEF fresh, unread
<1>12. e \in Chat
  BY ZenonT(90), <1>1, <1>2, <1>3, <1>4, <1>8, ChatFields DEF Chat
<1>13. /\ e.rows = c.rows /\ e.fresh = fresh /\ e.listed = c.listed /\ e.unread = unread
       /\ e.tombs = c.tombs /\ e.cleared = c.cleared /\ e.boundary = b /\ e.named = K
  BY <1>1, <1>4 DEF Chat
<1>14. e.fresh \subseteq e.rows \ Mine /\ e.fresh \cap F = {}
  BY <1>11, <1>13 DEF KeepsPromises
<1>15. ASSUME NEW i \in F PROVE Covers(e, i)
  <2>1. i \in Ids /\ Time[i] \in Nat
    BY <1>3, <1>7, TimesOfMessages
  <2>2. CASE i \in AtMost(b)
    BY <1>7, <1>13, <2>2 DEF Covers
  <2>3. CASE i \in I
    BY <1>6, <1>13, <2>1, <2>3 DEF Covers
  <2>4. CASE i \in D
    <3>1. Time[i] <= c.boundary \/ i \in c.named
      BY <2>4 DEF KeepsPromises, Covers
    <3>2. CASE Time[i] <= c.boundary
      BY <1>2, <1>13, <2>1, <3>2 DEF Covers
    <3>3. CASE i \in c.named
      BY <1>6, <1>13, <2>1, <3>3 DEF Covers
    <3> QED BY <3>1, <3>2, <3>3
  <2> QED BY <2>2, <2>3, <2>4
<1>16. \A i \in G : i \notin e.rows /\ ~Admits(e, i)
  BY <1>13 DEF KeepsPromises, Admits
<1>17. ~e.listed => e.rows = {}
  BY <1>13 DEF KeepsPromises
<1>18. e.named # {} => e.boundary > 0
  <2>1. CASE I # {}
    BY <1>2, <1>13, <2>1
  <2>2. CASE I = {} /\ K # {}
    <3>1. c.boundary > 0
      BY <1>5, <2>2 DEF KeepsPromises, N
    <3> QED BY <1>2, <1>13, <3>1
  <2> QED BY <1>13, <2>1, <2>2
<1>19. KeepsPromises(e, F, G)
  BY <1>12, <1>14, <1>15, <1>16, <1>17, <1>18 DEF KeepsPromises
<1>20. Counted(e)
  <2>1. CASE c.listed
    BY <1>8, <1>9, <1>13, <2>1 DEF Counted
  <2>2. CASE ~c.listed
    BY <1>8, <1>10, <1>13, <2>2, FS_EmptySet DEF Counted
  <2> QED BY <2>1, <2>2
<1>21. F = (D \cup AtMost(Boundary(c, t, I)) \cup I) \ (Named(c, t, I) \ K)
  BY DEF b, N
<1> HIDE DEF F
<1> QED BY <1>19, <1>20, <1>21

\* delete_messages_through: the window that is cleared only grows.
LEMMA ClearedKeeps ==
    ASSUME NEW c, NEW D \in SUBSET Ids, NEW G \in SUBSET Ids, KeepsPromises(c, D, G),
           NEW t \in Times, t >= c.cleared, NEW e, e = Cleared(c, t)
    PROVE  /\ KeepsPromises(e, D, G \cup AtMost(t)) /\ Counted(e)
           /\ e.listed = c.listed /\ e.rows \subseteq c.rows
<1> DEFINE fresh == c.fresh \ AtMost(t)
           unread == IF c.listed THEN Cardinality(fresh) ELSE c.unread
<1>1. c \in Chat /\ t \in Nat
  BY TimesOfMessages DEF KeepsPromises
<1>2. AtMost(t) = {i \in Ids : Time[i] <= t}
  BY DEF AtMost
<1>3. fresh \in SUBSET Ids /\ c.rows \ AtMost(t) \in SUBSET Ids
  BY <1>1, ChatFields
<1>4. e = [c EXCEPT !.rows = c.rows \ AtMost(t), !.fresh = fresh,
                    !.set = TRUE, !.cleared = t, !.unread = unread]
  BY DEF Cleared
<1>5. Cardinality(fresh) \in Nat /\ unread \in Nat
  BY <1>1, <1>3, ChatFields, UnreadIsCounted
<1>6. (c.listed => unread = Cardinality(fresh)) /\ (~c.listed => fresh = {})
  BY DEF KeepsPromises
<1>7. \A i \in fresh : i \in c.fresh /\ i \notin AtMost(t)
  OBVIOUS
<1> HIDE DEF fresh, unread
<1>8. e \in Chat
  BY ZenonT(90), <1>1, <1>3, <1>4, <1>5, ChatFields DEF Chat
<1>9. /\ e.rows = c.rows \ AtMost(t) /\ e.fresh = fresh /\ e.listed = c.listed
      /\ e.unread = unread /\ e.tombs = c.tombs /\ e.cleared = t
      /\ e.boundary = c.boundary /\ e.named = c.named
  BY <1>1, <1>4 DEF Chat
<1>10. /\ e.fresh \subseteq e.rows \ Mine /\ e.fresh \cap D = {} /\ \A i \in D : Covers(e, i)
       /\ e.named # {} => e.boundary > 0
       /\ ~e.listed => e.rows = {}
  BY <1>7, <1>9 DEF KeepsPromises, Covers
<1>11. ASSUME NEW i \in G \cup AtMost(t) PROVE i \notin e.rows /\ ~Admits(e, i)
  <2>1. CASE i \in AtMost(t)
    <3>1. Time[i] <= t /\ Time[i] \in Nat
      BY <1>2, <2>1, TimesOfMessages
    <3> QED BY <1>1, <1>9, <2>1, <3>1 DEF Admits
  <2>2. CASE i \in G
    <3>1. i \notin c.rows /\ (i \in c.tombs \/ ~(Time[i] > c.cleared))
      BY <2>2 DEF KeepsPromises, Admits
    <3>2. Time[i] \in Nat /\ c.cleared \in Nat
      BY <1>1, <2>2, ChatFields, TimesOfMessages
    <3> QED BY <1>1, <1>9, <3>1, <3>2 DEF Admits
  <2> QED BY <2>1, <2>2
<1>12. Counted(e)
  <2>1. CASE c.listed
    BY <1>5, <1>6, <1>9, <2>1 DEF Counted
  <2>2. CASE ~c.listed
    BY <1>5, <1>6, <1>9, <2>2, FS_EmptySet DEF Counted
  <2> QED BY <2>1, <2>2
<1> QED BY <1>8, <1>9, <1>10, <1>11, <1>12 DEF KeepsPromises

\* migrate_contact_jid: of two histories, what both promised; of an address never
\* used, what the other did.
LEMMA MergedKeeps ==
    ASSUME NEW a, NEW b, NEW D \in SUBSET Ids, NEW G \in SUBSET Ids,
           NEW E \in SUBSET Ids, NEW H \in SUBSET Ids,
           KeepsPromises(a, D, G), KeepsPromises(b, E, H), NEW e, e = Merged(a, b)
    PROVE  /\ KeepsPromises(e, Promises(D, E, b), Promises(G, H, b))
           /\ Counted(a) /\ Counted(b) /\ (a.fresh = {} \/ b.fresh = {}) => Counted(e)
<1>1. a \in Chat /\ b \in Chat
  BY DEF KeepsPromises
<1> DEFINE fresh == {i \in a.fresh \cup b.fresh : (i \in a.rows => i \in a.fresh)
                                                  /\ (i \in b.rows => i \in b.fresh)}
           named == IF a.boundary > b.boundary THEN a.named ELSE b.named
<1>2. /\ e.rows = a.rows \cup b.rows /\ e.fresh = fresh
      /\ e.listed = (a.listed \/ b.listed) /\ e.unread = Later(a.unread, b.unread)
      /\ e.tombs = a.tombs \cup b.tombs /\ e.cleared = Later(a.cleared, b.cleared)
      /\ e.boundary = Later(a.boundary, b.boundary) /\ e.named = named
  BY DEF Merged, MergedUnread
<1>3. fresh \in SUBSET Ids /\ named \in SUBSET Ids
  BY <1>1, ChatFields
<1>4. /\ Later(a.cleared, b.cleared) \in Times /\ Later(a.boundary, b.boundary) \in Times
      /\ Later(a.unread, b.unread) \in Nat
  BY <1>1, ChatFields DEF Later
<1>5. \A i \in fresh : /\ i \in a.fresh \/ i \in b.fresh
                       /\ i \in a.rows => i \in a.fresh
                       /\ i \in b.rows => i \in b.fresh
  OBVIOUS
<1>6. e \in Chat
  <2>1. /\ a.rows \cup b.rows \in SUBSET Ids /\ a.tombs \cup b.tombs \in SUBSET Ids
        /\ (a.listed \/ b.listed) \in BOOLEAN /\ (a.set \/ b.set) \in BOOLEAN
        /\ (a.deleted \/ b.deleted) \in BOOLEAN /\ (a.explicit \/ b.explicit) \in BOOLEAN
        /\ b.stamp \in Times
    BY <1>1, ChatFields
  <2>2. e = [listed |-> a.listed \/ b.listed, unread |-> Later(a.unread, b.unread),
             rows |-> a.rows \cup b.rows, fresh |-> fresh, tombs |-> a.tombs \cup b.tombs,
             set |-> a.set \/ b.set, deleted |-> a.deleted \/ b.deleted,
             cleared |-> Later(a.cleared, b.cleared),
             boundary |-> Later(a.boundary, b.boundary), named |-> named,
             explicit |-> a.explicit \/ b.explicit, stamp |-> b.stamp]
    BY DEF Merged, MergedUnread
  <2> HIDE DEF fresh, named
  <2> QED BY <1>3, <1>4, <2>1, <2>2 DEF Chat
<1>7. e.fresh \subseteq e.rows \ Mine
  BY <1>2, <1>5 DEF KeepsPromises
<1> HIDE DEF fresh
<1>8. ~e.listed => e.rows = {}
  BY <1>2 DEF KeepsPromises
<1>9. e.named # {} => e.boundary > 0
  BY <1>1, <1>2, ChatFields DEF KeepsPromises, Later
<1>10. ASSUME NEW i \in G, i \in H \/ i \notin b.rows
       PROVE  i \notin e.rows /\ ~Admits(e, i)
  <2>1. i \notin a.rows /\ (i \in a.tombs \/ ~(Time[i] > a.cleared))
    BY DEF KeepsPromises, Admits
  <2>2. i \notin b.rows
    BY <1>10 DEF KeepsPromises
  <2>3. Time[i] \in Nat /\ a.cleared \in Nat /\ b.cleared \in Nat
    BY <1>1, ChatFields, TimesOfMessages
  <2> QED BY <1>2, <2>1, <2>2, <2>3 DEF Admits, Later
<1>11. ASSUME Counted(a), Counted(b), a.fresh = {} \/ b.fresh = {}
       PROVE  Counted(e)
  <2>1. e.fresh \subseteq a.fresh \/ e.fresh \subseteq b.fresh
    BY <1>2, <1>5, <1>11
  <2>2. Cardinality(e.fresh) <= Cardinality(a.fresh) \/ Cardinality(e.fresh) <= Cardinality(b.fresh)
    BY <1>1, <2>1, ChatFields, UnreadIsCounted
  <2>3. /\ Cardinality(e.fresh) \in Nat /\ Cardinality(a.fresh) \in Nat
        /\ Cardinality(b.fresh) \in Nat /\ a.unread \in Nat /\ b.unread \in Nat
    BY <1>1, <1>6, ChatFields, UnreadIsCounted
  <2> QED BY <1>2, <1>11, <2>2, <2>3 DEF Counted, Later
<1>12. CASE b = Blank
  <2>1. b.rows = {} /\ b.fresh = {} /\ b.named = {} /\ b.boundary = 0
    BY <1>12 DEF Blank
  <2>2. Promises(D, E, b) = D /\ Promises(G, H, b) = G
    BY <1>12 DEF Promises
  <2>3. e.fresh \cap D = {}
    BY <1>2, <1>5, <2>1 DEF KeepsPromises
  <2>4. ASSUME NEW i \in D PROVE Covers(e, i)
    <3>1. a.boundary \in Nat /\ Time[i] \in Nat
      BY <1>1, ChatFields, TimesOfMessages
    <3>2. e.boundary = a.boundary
      BY <1>2, <2>1, <3>1 DEF Later
    <3>3. Time[i] <= a.boundary \/ i \in a.named
      BY DEF KeepsPromises, Covers
    <3>4. i \in a.named => i \in e.named
      BY <1>2, <2>1, <3>1 DEF KeepsPromises
    <3> QED BY <3>2, <3>3, <3>4 DEF Covers
  <2>5. KeepsPromises(e, D, G)
    BY <1>6, <1>7, <1>8, <1>9, <1>10, <2>1, <2>3, <2>4 DEF KeepsPromises
  <2> QED BY <1>11, <2>2, <2>5
<1>13. CASE b # Blank
  <2>1. Promises(D, E, b) = D \cap E /\ Promises(G, H, b) = G \cap H
    BY <1>13 DEF Promises
  <2>2. e.fresh \cap (D \cap E) = {}
    BY <1>2, <1>5 DEF KeepsPromises
  <2>3. ASSUME NEW i \in D \cap E PROVE Covers(e, i)
    <3>1. a.boundary \in Nat /\ b.boundary \in Nat /\ Time[i] \in Nat
      BY <1>1, ChatFields, TimesOfMessages
    <3>2. /\ Time[i] <= a.boundary \/ i \in a.named
          /\ Time[i] <= b.boundary \/ i \in b.named
      BY DEF KeepsPromises, Covers
    <3> QED BY <1>2, <3>1, <3>2 DEF Covers, Later
  <2>4. KeepsPromises(e, D \cap E, G \cap H)
    BY <1>6, <1>7, <1>8, <1>9, <1>10, <2>2, <2>3 DEF KeepsPromises
  <2> QED BY <1>11, <2>1, <2>4
<1> QED BY <1>12, <1>13, <1>11

\* Of an action that changes one chat, and neither the reads under way nor what
\* was promised beyond D and G.
LEMMA OneChatKept ==
    ASSUME HistoryInv, NEW j \in Jids, NEW e, NEW D \in SUBSET Ids, NEW G \in SUBSET Ids,
           KeepsPromises(e, D, G), j \in miscounted' \/ Counted(e),
           chats' = [chats EXCEPT ![j] = e],
           settled' = [settled EXCEPT ![j] = D], removed' = [removed EXCEPT ![j] = G],
           pending' \in [Actors -> Pending], \A a \in Actors : PendingSound(pending'[a]),
           done' \in 0 .. Operations, miscounted' \subseteq Jids, miscounted \subseteq miscounted' \cup {j}
    PROVE  HistoryInv'
<1>1. /\ chats'[j] = e /\ settled'[j] = D /\ removed'[j] = G
      /\ \A k \in Jids \ {j} :
            chats'[k] = chats[k] /\ settled'[k] = settled[k] /\ removed'[k] = removed[k]
  BY DEF HistoryInv
<1>2. e \in Chat
  BY DEF KeepsPromises
<1>3. /\ chats' \in [Jids -> Chat] /\ settled' \in [Jids -> SUBSET Ids]
      /\ removed' \in [Jids -> SUBSET Ids]
  BY <1>2 DEF HistoryInv
<1>4. \A k \in Jids : KeepsPromises(chats'[k], settled'[k], removed'[k])
  BY <1>1 DEF HistoryInv
<1>5. \A k \in Jids \ miscounted' : Counted(chats'[k])
  BY <1>1 DEF HistoryInv
<1> QED BY <1>3, <1>4, <1>5 DEF HistoryInv

LEMMA StepCounts == ASSUME HistoryInv, Step PROVE done' \in 0 .. Operations
  BY LimitsAssumption DEF HistoryInv, Step

LEMMA SameGhosts ==
    ASSUME HistoryInv, NEW j \in Jids, UNCHANGED <<settled, removed>>
    PROVE  /\ settled' = [settled EXCEPT ![j] = settled[j]]
           /\ removed' = [removed EXCEPT ![j] = removed[j]]
  BY DEF HistoryInv

LEMMA DeliverKept ==
    ASSUME HistoryInv, NEW j \in Jids, NEW i \in Ids, NEW focused \in BOOLEAN,
           Deliver(j, i, focused)
    PROVE  HistoryInv'
<1>1. PICK unread \in BOOLEAN : unread = (i \notin Mine /\ ~focused)
  OBVIOUS
<1>2. PICK c : c = Inserted(chats[j], i, i \notin Mine /\ ~focused)
  OBVIOUS
<1>3. PICK K \in Prunings(c.rows) : chats' = [chats EXCEPT ![j] = Pruned(c, K)]
  BY <1>2 DEF Deliver
<1>4. KeepsPromises(chats[j], settled[j], removed[j]) /\ settled[j] \in SUBSET Ids
      /\ removed[j] \in SUBSET Ids
  BY DEF HistoryInv
<1>5. KeepsPromises(c, settled[j], removed[j]) /\ (Counted(chats[j]) => Counted(c))
  <2>1. c = Inserted(chats[j], i, unread) /\ (unread => i \notin Mine)
    BY <1>1, <1>2
  <2> QED BY <1>4, <2>1, InsertedKeeps
<1>6. PICK e : e = Pruned(c, K)
  OBVIOUS
<1>7. KeepsPromises(e, settled[j], removed[j]) /\ (Counted(c) => Counted(e))
  <2>1. K \in SUBSET c.rows
    BY DEF Prunings
  <2> QED BY <1>4, <1>5, <1>6, <2>1, PrunedKeeps
<1>8. UNCHANGED <<pending, settled, removed, miscounted>> /\ done' \in 0 .. Operations
  BY StepCounts DEF Deliver, ghosts
<1>9. j \in miscounted' \/ Counted(e)
  BY <1>5, <1>7, <1>8 DEF HistoryInv
<1> QED BY <1>3, <1>4, <1>6, <1>7, <1>8, <1>9, SameGhosts, OneChatKept DEF HistoryInv

LEMMA ReplayHistoryKept ==
    ASSUME HistoryInv, NEW j \in Jids, NEW n \in 0 .. PhoneUnread, NEW S \in SUBSET Ids,
           ReplayHistory(j, n, S)
    PROVE  HistoryInv'
<1>1. n \in Nat
  BY LimitsAssumption
<1>2. PICK c : c = Replayed(chats[j], n, S)
  OBVIOUS
<1>3. PICK K \in Prunings(c.rows) : chats' = [chats EXCEPT ![j] = Pruned(c, K)]
  BY <1>2 DEF ReplayHistory
<1>4. KeepsPromises(chats[j], settled[j], removed[j]) /\ settled[j] \in SUBSET Ids
      /\ removed[j] \in SUBSET Ids
  BY DEF HistoryInv
<1>5. KeepsPromises(c, settled[j], removed[j]) /\ (Counted(chats[j]) => Counted(c))
  BY <1>1, <1>2, <1>4, ReplayedKeeps
<1>6. PICK e : e = Pruned(c, K)
  OBVIOUS
<1>7. KeepsPromises(e, settled[j], removed[j]) /\ (Counted(c) => Counted(e))
  <2>1. K \in SUBSET c.rows
    BY DEF Prunings
  <2> QED BY <1>4, <1>5, <1>6, <2>1, PrunedKeeps
<1>8. UNCHANGED <<pending, settled, removed, miscounted>> /\ done' \in 0 .. Operations
  BY StepCounts DEF ReplayHistory, ghosts
<1>9. j \in miscounted' \/ Counted(e)
  BY <1>5, <1>7, <1>8 DEF HistoryInv
<1> QED BY <1>3, <1>4, <1>6, <1>7, <1>8, <1>9, SameGhosts, OneChatKept DEF HistoryInv

\* A read that is begun holds the second and the names it will apply.
LEMMA BeginKept ==
    ASSUME HistoryInv, NEW a \in Actors, NEW j \in Jids, NEW t \in Times, NEW I \in SUBSET Ids,
           NEW at \in Times, I # {} => t > 1, Begin(a, j, t, I, at)
    PROVE  HistoryInv'
<1> DEFINE p == [step |-> "apply", jid |-> j, time |-> t, ids |-> I, stamp |-> at]
<1>1. /\ pending' = [pending EXCEPT ![a] = p] /\ done' \in 0 .. Operations
      /\ UNCHANGED <<chats, settled, removed, miscounted>>
  BY StepCounts DEF Begin, ghosts
<1>2. p \in Pending /\ PendingSound(p)
  BY DEF Pending, PendingSound
<1> HIDE DEF p
<1>3. pending' \in [Actors -> Pending] /\ \A b \in Actors : PendingSound(pending'[b])
  BY <1>1, <1>2 DEF HistoryInv
<1> QED BY <1>1, <1>3 DEF HistoryInv

LEMMA MarkReadKept == ASSUME HistoryInv, NEW j \in Jids, MarkRead(j) PROVE HistoryInv'
<1>1. chats[j] \in Chat
  BY DEF HistoryInv
<1>2. /\ Newest(chats[j].rows) \in Times /\ 0 \in Times /\ "command" \in Actors
  BY <1>1, ChatFields, NewestIsOne, MessagesAssumption DEF Times, Actors
<1> QED BY <1>2, BeginKept DEF MarkRead

LEMMA ReadsKept ==
    ASSUME HistoryInv, NEW j \in Jids, NEW I \in SUBSET (Ids \ Mine), NEW at \in EventTimes,
           NEW t \in {0} \cup EventTimes,
           SelfReadReceipt(j, I, at) \/ ReadEvent(j, t, I, at)
    PROVE  HistoryInv'
<1>1. chats[j] \in Chat
  BY DEF HistoryInv
<1>2. chats[j].rows \in SUBSET Ids /\ at \in Times /\ at > 1 /\ 0 \in Times
  BY <1>1, ChatFields, TimesOfMessages, MessagesAssumption DEF Times
<1>3. "event" \in Actors
  BY DEF Actors
<1>4. CASE SelfReadReceipt(j, I, at)
  <2> DEFINE held == I \cap chats[j].rows
             u == IF held = {} THEN at ELSE Newest(held)
  <2>1. u \in Times /\ u > 1
    <3>1. held \in SUBSET Ids
      BY <1>2
    <3> HIDE DEF held
    <3> QED BY <1>2, <3>1, NewestIsOne
  <2>2. Begin("event", j, u, I, 0)
    BY <1>4 DEF SelfReadReceipt
  <2> HIDE DEF u
  <2> QED BY <1>2, <1>3, <2>1, <2>2, BeginKept
<1>5. CASE ReadEvent(j, t, I, at)
  <2> DEFINE held == I \cap chats[j].rows
             whole == IF I = {} THEN chats[j].rows ELSE held
             u == IF t # 0 THEN t ELSE IF whole = {} THEN at ELSE Newest(whole)
  <2>1. u \in Times /\ u > 1
    <3>1. whole \in SUBSET Ids
      BY <1>2
    <3>2. t # 0 => t \in Times /\ t > 1
      BY TimesOfMessages
    <3> HIDE DEF whole
    <3> QED BY <1>2, <3>1, <3>2, NewestIsOne
  <2>2. Begin("event", j, u, I, at)
    BY <1>5 DEF ReadEvent
  <2> HIDE DEF u
  <2> QED BY <1>2, <1>3, <2>1, <2>2, BeginKept
<1> QED BY <1>4, <1>5

\* Of a chat whose rows, window and boundary are as they were.
LEMMA SameRowsKeep ==
    ASSUME NEW c, NEW D, NEW G, KeepsPromises(c, D, G), NEW e \in Chat,
           e.rows = c.rows, e.fresh = c.fresh, e.listed = c.listed, e.tombs = c.tombs,
           e.cleared = c.cleared, e.boundary = c.boundary, e.named = c.named
    PROVE  KeepsPromises(e, D, G)
  BY DEF KeepsPromises, Covers, Admits

LEMMA UnreadEventKept ==
    ASSUME HistoryInv, NEW j \in Jids, NEW at \in EventTimes, UnreadEvent(j, at)
    PROVE  HistoryInv'
<1>1. chats[j] \in Chat /\ "event" \in Actors /\ at \in Times /\ NoJid \notin Jids /\ 0 \in Times
  BY TimesOfMessages, MessagesAssumption DEF HistoryInv, Actors, Times
<1>2. PICK e : e = [chats[j] EXCEPT !.set = TRUE, !.explicit = TRUE]
  OBVIOUS
<1>3. /\ e \in Chat /\ e.rows = chats[j].rows /\ e.fresh = chats[j].fresh
      /\ e.listed = chats[j].listed /\ e.tombs = chats[j].tombs
      /\ e.cleared = chats[j].cleared /\ e.boundary = chats[j].boundary
      /\ e.named = chats[j].named /\ e.unread = chats[j].unread
  BY <1>1, <1>2 DEF Chat
<1>4. chats' = [chats EXCEPT ![j] = e]
  BY <1>2 DEF UnreadEvent, HistoryInv
<1>5. KeepsPromises(e, settled[j], removed[j]) /\ (Counted(chats[j]) => Counted(e))
  BY <1>3, SameRowsKeep DEF HistoryInv, Counted
<1>6. PICK p, q : p = Idle /\ q = [p EXCEPT !.step = "stamp", !.jid = j, !.stamp = at]
  OBVIOUS
<1>7. /\ pending' = [pending EXCEPT !["event"] = q]
      /\ UNCHANGED <<settled, removed, miscounted>> /\ done' \in 0 .. Operations
  BY <1>6, StepCounts DEF UnreadEvent, ghosts
<1>8. q \in Pending /\ q.step = "stamp" /\ q.jid = j
  <2>1. p \in Pending
    BY <1>1, <1>6 DEF Idle, Pending
  <2> QED BY <1>1, <1>6, <2>1 DEF Pending
<1>9. pending' \in [Actors -> Pending] /\ \A a \in Actors : PendingSound(pending'[a])
  <2>1. PendingSound(q)
    BY <1>8 DEF PendingSound
  <2> QED BY <1>1, <1>7, <1>8, <2>1 DEF HistoryInv
<1>10. settled[j] \in SUBSET Ids /\ removed[j] \in SUBSET Ids
  BY DEF HistoryInv
<1> QED BY <1>4, <1>5, <1>7, <1>10, <1>9, SameGhosts, OneChatKept DEF HistoryInv

LEMMA ApplyBoundaryKept ==
    ASSUME HistoryInv, NEW a \in Actors, ApplyBoundary(a)
    PROVE  HistoryInv'
<1>1. PICK p : p = pending[a]
  OBVIOUS
<1>2. /\ p \in Pending /\ p.step = "apply" /\ p.jid \in Jids /\ p.time \in Times
      /\ p.ids \in SUBSET Ids /\ p.stamp \in Times /\ (p.ids # {} => p.time > 1)
  BY <1>1 DEF HistoryInv, PendingSound, Pending, ApplyBoundary
<1>3. PICK j \in Jids : j = p.jid
  BY <1>2
<1>4. PICK c : c = chats[j]
  OBVIOUS
<1>5. PICK K \in Kept(Named(c, p.time, p.ids)) :
        /\ chats' = [chats EXCEPT ![j] = ReadThrough(c, p.time, p.ids, K)]
        /\ settled' = [settled EXCEPT ![j] =
               (settled[j] \cup AtMost(Boundary(c, p.time, p.ids)) \cup p.ids)
                   \ (Named(c, p.time, p.ids) \ K)]
        /\ miscounted' = miscounted \ {j}
  BY <1>1, <1>3, <1>4 DEF ApplyBoundary, AppliedTime
<1>6. PICK e : e = ReadThrough(c, p.time, p.ids, K)
  OBVIOUS
<1>7. PICK D : D = (settled[j] \cup AtMost(Boundary(c, p.time, p.ids)) \cup p.ids)
                       \ (Named(c, p.time, p.ids) \ K)
  OBVIOUS
<1>8. /\ KeepsPromises(c, settled[j], removed[j]) /\ settled[j] \in SUBSET Ids
      /\ removed[j] \in SUBSET Ids
  BY <1>4 DEF HistoryInv
<1>9. KeepsPromises(e, D, removed[j]) /\ Counted(e)
  <2>1. K \in SUBSET Named(c, p.time, p.ids)
    BY DEF Kept
  <2>2. PICK t \in Times, I \in SUBSET Ids : t = p.time /\ I = p.ids /\ (I # {} => t > 1)
    BY <1>2
  <2>3. /\ K \in SUBSET Named(c, t, I) /\ e = ReadThrough(c, t, I, K)
        /\ D = (settled[j] \cup AtMost(Boundary(c, t, I)) \cup I) \ (Named(c, t, I) \ K)
    BY <1>6, <1>7, <2>1, <2>2
  <2>4. /\ KeepsPromises(e, (settled[j] \cup AtMost(Boundary(c, t, I)) \cup I)
                              \ (Named(c, t, I) \ K), removed[j])
        /\ Counted(e)
    BY <1>8, <2>2, <2>3, ReadKeeps
  <2> QED BY <2>3, <2>4
<1>10. D \in SUBSET Ids
  BY <1>2, <1>7, <1>8 DEF AtMost
<1>11. pending' \in [Actors -> Pending] /\ \A b \in Actors : PendingSound(pending'[b])
  <2>1. PICK q : q = IF p.stamp = 0 THEN Idle ELSE [p EXCEPT !.step = "stamp"]
    OBVIOUS
  <2>2. pending' = [pending EXCEPT ![a] = q]
    BY <1>1, <2>1 DEF ApplyBoundary
  <2>3. q \in Pending /\ PendingSound(q)
    <3>1. CASE p.stamp = 0
      BY <2>1, <3>1, MessagesAssumption DEF Idle, Pending, PendingSound, Times
    <3>2. CASE p.stamp # 0
      <4>1. q = [p EXCEPT !.step = "stamp"]
        BY <2>1, <3>2
      <4> QED BY <1>2, <4>1 DEF Pending, PendingSound
    <3> QED BY <3>1, <3>2
  <2> QED BY <2>2, <2>3 DEF HistoryInv
<1>12. UNCHANGED <<done, removed>> /\ removed' = [removed EXCEPT ![j] = removed[j]]
  BY DEF ApplyBoundary, HistoryInv
<1> QED BY ZenonT(90), <1>5, <1>6, <1>7, <1>8, <1>9, <1>10, <1>11, <1>12, OneChatKept DEF HistoryInv

LEMMA StampKept == ASSUME HistoryInv, StampReadState PROVE HistoryInv'
<1>1. PICK j : j = pending["event"].jid
  OBVIOUS
<1>2. "event" \in Actors /\ 0 \in Times
  BY MessagesAssumption DEF Actors, Times
<1>3. j \in Jids /\ pending["event"].stamp \in Times
  BY <1>1, <1>2 DEF StampReadState, HistoryInv, PendingSound, Pending
<1>4. PICK s : s = IF chats[j].set THEN pending["event"].stamp ELSE chats[j].stamp
  OBVIOUS
<1>5. PICK e : e = [chats[j] EXCEPT !.stamp = s]
  OBVIOUS
<1>6. chats[j] \in Chat /\ s \in Times
  BY <1>3, <1>4, ChatFields DEF HistoryInv
<1>7. /\ e \in Chat /\ e.rows = chats[j].rows /\ e.fresh = chats[j].fresh
      /\ e.listed = chats[j].listed /\ e.tombs = chats[j].tombs
      /\ e.cleared = chats[j].cleared /\ e.boundary = chats[j].boundary
      /\ e.named = chats[j].named /\ e.unread = chats[j].unread
  BY <1>5, <1>6 DEF Chat
<1>8. chats' = [chats EXCEPT ![j] = e]
  BY <1>1, <1>3, <1>4, <1>5 DEF StampReadState, HistoryInv
<1>9. KeepsPromises(e, settled[j], removed[j]) /\ (Counted(chats[j]) => Counted(e))
  BY <1>3, <1>7, SameRowsKeep DEF HistoryInv, Counted
<1>10. /\ pending' = [pending EXCEPT !["event"] = Idle]
       /\ UNCHANGED <<done, settled, removed, miscounted>>
  BY DEF StampReadState, ghosts
<1>11. pending' \in [Actors -> Pending] /\ \A a \in Actors : PendingSound(pending'[a])
  <2>1. Idle \in Pending /\ PendingSound(Idle)
    BY <1>2 DEF Idle, Pending, PendingSound
  <2> QED BY <1>10, <2>1 DEF HistoryInv
<1>12. settled[j] \in SUBSET Ids /\ removed[j] \in SUBSET Ids
  BY <1>3 DEF HistoryInv
<1> QED BY <1>3, <1>8, <1>9, <1>10, <1>11, <1>12, SameGhosts, OneChatKept DEF HistoryInv

LEMMA ReconcileKept == ASSUME HistoryInv, ReconcileUnread PROVE HistoryInv'
<1>1. /\ chats' = [j \in Jids |->
              IF chats[j].listed
              THEN [chats[j] EXCEPT !.unread = Cardinality(chats[j].fresh)] ELSE chats[j]]
      /\ miscounted' = {} /\ UNCHANGED <<pending, settled, removed>> /\ done' \in 0 .. Operations
  BY StepCounts DEF ReconcileUnread
<1>2. ASSUME NEW j \in Jids
      PROVE  KeepsPromises(chats'[j], settled[j], removed[j]) /\ Counted(chats'[j])
  <2>1. chats[j] \in Chat /\ KeepsPromises(chats[j], settled[j], removed[j])
    BY DEF HistoryInv
  <2>2. Cardinality(chats[j].fresh) \in Nat
    BY <2>1, ChatFields, UnreadIsCounted
  <2>3. CASE chats[j].listed
    <3>1. PICK e : e = [chats[j] EXCEPT !.unread = Cardinality(chats[j].fresh)]
      OBVIOUS
    <3>2. /\ e \in Chat /\ e.rows = chats[j].rows /\ e.fresh = chats[j].fresh
          /\ e.listed = chats[j].listed /\ e.tombs = chats[j].tombs
          /\ e.cleared = chats[j].cleared /\ e.boundary = chats[j].boundary
          /\ e.named = chats[j].named /\ e.unread = Cardinality(e.fresh)
      BY <2>1, <2>2, <3>1 DEF Chat
    <3>3. chats'[j] = e
      BY <1>1, <2>3, <3>1
    <3>4. KeepsPromises(e, settled[j], removed[j])
      BY <2>1, <3>2, SameRowsKeep
    <3>5. Counted(e)
      BY <2>2, <3>2 DEF Counted
    <3> QED BY <3>3, <3>4, <3>5
  <2>4. CASE ~chats[j].listed
    <3>1. chats'[j] = chats[j] /\ chats[j].fresh = {} /\ chats[j].unread \in Nat
      BY <1>1, <2>1, <2>4, ChatFields DEF KeepsPromises
    <3>2. Counted(chats[j])
      BY <3>1, FS_EmptySet DEF Counted
    <3> QED BY <2>1, <3>1, <3>2
  <2> QED BY <2>3, <2>4
<1>3. \A j \in Jids : chats'[j] \in Chat
  BY <1>2 DEF KeepsPromises
<1>4. chats' \in [Jids -> Chat]
  BY <1>1, <1>3
<1> QED BY <1>1, <1>2, <1>4 DEF HistoryInv

LEMMA DeletesKept ==
    ASSUME HistoryInv, NEW j \in Jids, NEW t \in EventTimes, DeleteChat(j, t) \/ ClearChat(j, t)
    PROVE  HistoryInv'
<1>1. /\ t \in Times /\ t >= chats[j].cleared
      /\ removed' = [removed EXCEPT ![j] = removed[j] \cup AtMost(t)]
      /\ miscounted' = miscounted \ {j} /\ UNCHANGED <<pending, settled>>
      /\ done' \in 0 .. Operations
  BY TimesOfMessages, StepCounts DEF DeleteChat, ClearChat, DeletesChat, HistoryInv
<1>2. PICK c : c = Cleared(chats[j], t)
  OBVIOUS
<1>3. /\ KeepsPromises(chats[j], settled[j], removed[j]) /\ settled[j] \in SUBSET Ids
      /\ removed[j] \in SUBSET Ids /\ chats[j] \in Chat
  BY DEF HistoryInv
<1>4. PICK G : G = removed[j] \cup AtMost(t)
  OBVIOUS
<1>5. G \in SUBSET Ids
  BY <1>3, <1>4 DEF AtMost
<1>6. KeepsPromises(c, settled[j], G) /\ Counted(c) /\ c \in Chat
  <2>1. KeepsPromises(c, settled[j], removed[j] \cup AtMost(t)) /\ Counted(c)
    BY <1>1, <1>2, <1>3, ClearedKeeps
  <2> QED BY <1>4, <2>1 DEF KeepsPromises
<1>7. ASSUME NEW e, chats' = [chats EXCEPT ![j] = e], KeepsPromises(e, settled[j], G), Counted(e)
      PROVE  HistoryInv'
  <2>1. /\ settled' = [settled EXCEPT ![j] = settled[j]] /\ removed' = [removed EXCEPT ![j] = G]
    BY <1>1, <1>4 DEF HistoryInv
  <2> QED BY <1>1, <1>3, <1>5, <1>7, <2>1, OneChatKept DEF HistoryInv
<1>8. CASE DeleteChat(j, t) /\ c.rows # {}
  <2>1. PICK e : e = [c EXCEPT !.deleted = ~chats[j].set]
    OBVIOUS
  <2>2. (~chats[j].set) \in BOOLEAN
    OBVIOUS
  <2>3. /\ e \in Chat /\ e.rows = c.rows /\ e.fresh = c.fresh /\ e.listed = c.listed
        /\ e.tombs = c.tombs /\ e.cleared = c.cleared /\ e.boundary = c.boundary
        /\ e.named = c.named /\ e.unread = c.unread
    BY <1>6, <2>1, <2>2 DEF Chat
  <2>4. KeepsPromises(e, settled[j], G) /\ Counted(e)
    BY <1>6, <2>3, SameRowsKeep DEF Counted
  <2>5. chats' = [chats EXCEPT ![j] = e]
    BY <1>2, <1>8, <2>1 DEF DeleteChat
  <2> QED BY <1>7, <2>4, <2>5
<1>9. CASE DeleteChat(j, t) /\ c.rows = {}
  <2>1. PICK e : e = [c EXCEPT !.listed = FALSE, !.unread = 0, !.deleted = TRUE]
    OBVIOUS
  <2>2. /\ e \in Chat /\ e.rows = {} /\ e.fresh = c.fresh /\ ~e.listed
        /\ e.tombs = c.tombs /\ e.cleared = c.cleared /\ e.boundary = c.boundary
        /\ e.named = c.named /\ e.unread = 0
    BY <1>6, <1>9, <2>1 DEF Chat
  <2>3. c.fresh = {}
    BY <1>6, <1>9 DEF KeepsPromises
  <2>4. KeepsPromises(e, settled[j], G)
    BY <1>6, <1>9, <2>2, <2>3 DEF KeepsPromises, Covers, Admits
  <2>5. Counted(e)
    BY <2>2, <2>3, FS_EmptySet DEF Counted
  <2>6. chats' = [chats EXCEPT ![j] = e]
    BY <1>2, <1>9, <2>1 DEF DeleteChat
  <2> QED BY <1>7, <2>4, <2>5, <2>6
<1>10. CASE ClearChat(j, t)
  <2>1. PICK e : e = [c EXCEPT !.explicit = FALSE]
    OBVIOUS
  <2>2. /\ e \in Chat /\ e.rows = c.rows /\ e.fresh = c.fresh /\ e.listed = c.listed
        /\ e.tombs = c.tombs /\ e.cleared = c.cleared /\ e.boundary = c.boundary
        /\ e.named = c.named /\ e.unread = c.unread
    BY <1>6, <2>1 DEF Chat
  <2>3. KeepsPromises(e, settled[j], G) /\ Counted(e)
    BY <1>6, <2>2, SameRowsKeep DEF Counted
  <2>4. chats' = [chats EXCEPT ![j] = e]
    BY <1>2, <1>10, <2>1 DEF ClearChat
  <2> QED BY <1>7, <2>3, <2>4
<1> QED BY <1>8, <1>9, <1>10

LEMMA DeleteMessageKept ==
    ASSUME HistoryInv, NEW j \in Jids, NEW i \in Ids, DeleteMessage(j, i)
    PROVE  HistoryInv'
<1>1. PICK c : c = chats[j]
  OBVIOUS
<1>2. /\ KeepsPromises(c, settled[j], removed[j]) /\ settled[j] \in SUBSET Ids
      /\ removed[j] \in SUBSET Ids /\ c \in Chat /\ chats \in [Jids -> Chat]
  BY <1>1 DEF HistoryInv
<1>3. PICK e : e = [c EXCEPT !.rows = c.rows \ {i}, !.fresh = c.fresh \ {i},
                             !.tombs = c.tombs \cup {i}]
  OBVIOUS
<1>4. chats' = [chats EXCEPT ![j] = e]
  BY <1>1, <1>2, <1>3 DEF DeleteMessage
<1>5. /\ e \in Chat /\ e.rows = c.rows \ {i} /\ e.fresh = c.fresh \ {i} /\ e.listed = c.listed
      /\ e.tombs = c.tombs \cup {i} /\ e.cleared = c.cleared /\ e.boundary = c.boundary
      /\ e.named = c.named /\ e.unread = c.unread
  <2>1. /\ c.rows \ {i} \in SUBSET Ids /\ c.fresh \ {i} \in SUBSET Ids
        /\ c.tombs \cup {i} \in SUBSET Ids
    BY <1>2, ChatFields
  <2> QED BY <1>2, <1>3, <2>1 DEF Chat
<1>6. PICK G : G = removed[j] \cup {i}
  OBVIOUS
<1>7. KeepsPromises(e, settled[j], G)
  BY <1>2, <1>5, <1>6 DEF KeepsPromises, Covers, Admits
<1>8. Counted(c) => Counted(e)
  <2>1. Cardinality(e.fresh) <= Cardinality(c.fresh)
    BY <1>2, <1>5, ChatFields, UnreadIsCounted
  <2>2. Cardinality(e.fresh) \in Nat /\ Cardinality(c.fresh) \in Nat /\ c.unread \in Nat
    BY <1>2, <1>5, ChatFields, UnreadIsCounted
  <2> QED BY <1>5, <2>1, <2>2 DEF Counted
<1>9. /\ removed' = [removed EXCEPT ![j] = G] /\ settled' = [settled EXCEPT ![j] = settled[j]]
      /\ UNCHANGED <<pending, miscounted>> /\ done' \in 0 .. Operations /\ G \in SUBSET Ids
  BY <1>2, <1>6, StepCounts DEF DeleteMessage, HistoryInv
<1>10. j \in miscounted' \/ Counted(e)
  BY <1>1, <1>8, <1>9 DEF HistoryInv
<1> QED BY <1>2, <1>4, <1>7, <1>9, <1>10, OneChatKept DEF HistoryInv

LEMMA MigrateKept ==
    ASSUME HistoryInv, NEW o \in Jids, NEW n \in Jids, Migrate(o, n)
    PROVE  HistoryInv'
<1>1. PICK c : c = Merged(chats[o], chats[n])
  OBVIOUS
<1>2. PICK K \in Prunings(c.rows) : chats' = [chats EXCEPT ![o] = Blank, ![n] = Pruned(c, K)]
  BY <1>1 DEF Migrate
<1>3. PICK e : e = Pruned(c, K)
  OBVIOUS
<1>4. PICK D : D = Promises(settled[o], settled[n], chats[n])
  OBVIOUS
<1>5. PICK G : G = Promises(removed[o], removed[n], chats[n])
  OBVIOUS
<1>6. /\ o # n /\ done' \in 0 .. Operations /\ UNCHANGED pending
      /\ settled' = [settled EXCEPT ![o] = {}, ![n] = D]
      /\ removed' = [removed EXCEPT ![o] = {}, ![n] = G]
      /\ miscounted' = IF \/ o \in miscounted \/ n \in miscounted
                          \/ chats[o].fresh # {} /\ chats[n].fresh # {}
                       THEN (miscounted \cup {n}) \ {o} ELSE miscounted
  BY <1>4, <1>5, StepCounts DEF Migrate
<1>7. /\ KeepsPromises(chats[o], settled[o], removed[o])
      /\ KeepsPromises(chats[n], settled[n], removed[n])
      /\ settled[o] \in SUBSET Ids /\ settled[n] \in SUBSET Ids
      /\ removed[o] \in SUBSET Ids /\ removed[n] \in SUBSET Ids
  BY DEF HistoryInv
<1>8. D \in SUBSET Ids /\ G \in SUBSET Ids
  BY <1>4, <1>5, <1>7 DEF Promises
<1>9. /\ KeepsPromises(c, D, G)
      /\ /\ Counted(chats[o]) /\ Counted(chats[n])
         /\ chats[o].fresh = {} \/ chats[n].fresh = {}
         => Counted(c)
  BY <1>1, <1>4, <1>5, <1>7, MergedKeeps
<1>10. KeepsPromises(e, D, G) /\ (Counted(c) => Counted(e))
  <2>1. K \in SUBSET c.rows
    BY DEF Prunings
  <2> QED BY <1>3, <1>8, <1>9, <2>1, PrunedKeeps
<1>11. /\ chats'[o] = Blank /\ chats'[n] = e
       /\ settled'[o] = {} /\ settled'[n] = D /\ removed'[o] = {} /\ removed'[n] = G
       /\ \A k \in Jids \ {o, n} :
             chats'[k] = chats[k] /\ settled'[k] = settled[k] /\ removed'[k] = removed[k]
  BY <1>2, <1>3, <1>6 DEF HistoryInv
<1>12. \A k \in Jids : KeepsPromises(chats'[k], settled'[k], removed'[k])
  BY <1>10, <1>11, BlankKeeps DEF HistoryInv
<1>13. ASSUME NEW k \in Jids \ miscounted' PROVE Counted(chats'[k])
  <2>1. CASE k = o
    BY <1>11, <2>1, BlankKeeps
  <2>2. CASE k = n
    <3>1. /\ o \notin miscounted /\ n \notin miscounted
          /\ chats[o].fresh = {} \/ chats[n].fresh = {}
      BY <1>6, <2>2
    <3>2. Counted(chats[o]) /\ Counted(chats[n])
      BY <3>1 DEF HistoryInv
    <3> QED BY <1>9, <1>10, <1>11, <2>2, <3>1, <3>2
  <2>3. CASE k \in Jids \ {o, n}
    <3>1. k \notin miscounted
      BY <1>6, <2>3
    <3> QED BY <1>11, <2>3, <3>1 DEF HistoryInv
  <2> QED BY <2>1, <2>2, <2>3
<1>14. /\ chats' \in [Jids -> Chat] /\ settled' \in [Jids -> SUBSET Ids]
       /\ removed' \in [Jids -> SUBSET Ids] /\ miscounted' \subseteq Jids
  <2>1. e \in Chat /\ Blank \in Chat
    BY <1>10, BlankKeeps DEF KeepsPromises
  <2> QED BY <1>2, <1>3, <1>6, <1>8, <2>1 DEF HistoryInv
<1> QED BY <1>6, <1>12, <1>13, <1>14 DEF HistoryInv

LEMMA CrashKept == ASSUME HistoryInv, Crash PROVE HistoryInv'
<1>1. Idle \in Pending /\ PendingSound(Idle)
  BY MessagesAssumption DEF Idle, Pending, PendingSound, Times
<1>2. pending' = [a \in Actors |-> Idle] /\ UNCHANGED <<chats, done, settled, removed, miscounted>>
  BY DEF Crash, ghosts
<1>3. pending' \in [Actors -> Pending] /\ \A a \in Actors : PendingSound(pending'[a])
  BY <1>1, <1>2
<1> QED BY <1>2, <1>3 DEF HistoryInv

LEMMA HistoryInit1 == Init => HistoryInv
<1> SUFFICES ASSUME Init PROVE HistoryInv
  OBVIOUS
<1>1. Idle \in Pending /\ PendingSound(Idle)
  BY MessagesAssumption DEF Idle, Pending, PendingSound, Times
<1>2. Blank \in Chat
  BY BlankKeeps DEF KeepsPromises
<1> QED BY <1>1, <1>2, BlankKeeps, LimitsAssumption DEF Init, HistoryInv

LEMMA HistoryInvKept == HistoryInv /\ [Next]_vars => HistoryInv'
<1> SUFFICES ASSUME HistoryInv, [Next]_vars PROVE HistoryInv'
  OBVIOUS
<1>1. CASE UNCHANGED vars
  BY <1>1 DEF vars, HistoryInv
<1>2. CASE Next
  <2>1. 0 \in {0} \cup EventTimes /\ {} \in SUBSET (Ids \ Mine)
    OBVIOUS
  <2> QED BY <1>2, <2>1, MarkReadKept, DeliverKept, ReplayHistoryKept, ReadsKept, UnreadEventKept,
             ApplyBoundaryKept, StampKept, ReconcileKept, DeletesKept, DeleteMessageKept,
             MigrateKept, CrashKept DEF Next
<1> QED BY <1>1, <1>2

LEMMA HistoryInvHolds == Spec => []HistoryInv
  BY HistoryInit1, HistoryInvKept, PTL DEF Spec

(* Rows, counters, boundaries and the reads under way are what their columns   *)
(* hold, and an unread row is a stored row of somebody else's.                 *)
THEOREM HistoryTypeCorrect == Spec => []TypeOK
<1>1. HistoryInv => TypeOK
  BY DEF HistoryInv, TypeOK, KeepsPromises
<1> QED BY <1>1, HistoryInvHolds, PTL

(* For every set of chats and messages and any number of operations: the badge *)
(* kept by hand never names fewer messages than are stored unread, unless a    *)
(* merge of two unread histories left it so (insert_message_into,              *)
(* apply_read_boundary, migrate_contact_jid).                                  *)
THEOREM BadgeCovers == Spec => []BadgeCoversUnread
<1>1. HistoryInv => BadgeCoversUnread
  BY DEF HistoryInv, BadgeCoversUnread, Counted
<1> QED BY <1>1, HistoryInvHolds, PTL

(* For every set of chats and messages and any number of operations: a message *)
(* read or removed on any device stays read or removed, whatever is delivered, *)
(* replayed, pruned or merged later (covered_by_self_read, message_tombstones, *)
(* cleared_through_timestamp).                                                 *)
THEOREM DoneStays == Spec => []WhatWasDoneStays
<1>1. HistoryInv => WhatWasDoneStays
  BY DEF HistoryInv, KeepsPromises, WhatWasDoneStays, ReadStaysRead, RemovedStaysRemoved
<1> QED BY <1>1, HistoryInvHolds, PTL

-----------------------------------------------------------------------------
(* Contact and subject names (database.rs, messages.rs, events.rs) *)

NameCards == [name : Shown, source : 0 .. 4]
TitleCards == [held : BOOLEAN, name : Shown, source : 0 .. 4]
NameRows ==
    [contact : [Parties -> NameCards], chat : [Parties -> TitleCards],
     senders : [Parties -> SUBSET Shown], book : [Parties -> SUBSET Names],
     late : SUBSET Parties]

\* What the address book put on a row stays the name of all that hangs on it.
BookShown(T, a) ==
    /\ T.contact[a].source = FromBook
    /\ T.contact[a].name \in T.book[a]
    /\ T.senders[a] \subseteq {T.contact[a].name}
    /\ T.chat[a].held /\ a \notin T.late =>
          /\ T.chat[a].name = T.contact[a].name
          /\ T.chat[a].source > Unnamed

BookKept(T, a) ==
    /\ T.contact[a].source = FromBook => T.book[a] # {}
    /\ T.book[a] # {} => BookShown(T, a)

NamesSound(T) == T \in NameRows /\ \A a \in Parties : BookKept(T, a)

LEMMA SourceOrder ==
    /\ Unnamed = 0 /\ FromHistory = 1 /\ FromMessage = 2
    /\ FromMetadata = 3 /\ FromBook = 4
    /\ {Unnamed, FromHistory, FromMessage, FromMetadata, FromBook} \subseteq 0 .. 4
    /\ FromBook # Unnamed /\ FromBook > Unnamed
BY DEF Unnamed, FromHistory, FromMessage, FromMetadata, FromBook

LEMMA GivenSound ==
    ASSUME NEW T, NEW a \in Parties, NEW n \in Names, NEW s \in {FromMessage, FromBook},
           NamesSound(T), T.contact[a].source <= s
    PROVE  NamesSound(Given(T, a, n, s))
<1> PICK m : m = Given(T, a, n, s)
  OBVIOUS
<1>t. T \in NameRows
  BY DEF NamesSound
<1>s. s \in 0 .. 4 /\ n \in Shown
  BY SourceOrder DEF Shown
<1>c. T.chat[a] \in TitleCards /\ Titled(T.chat[a], n, s) \in TitleCards
  <2> PICK c : c = T.chat[a]
    OBVIOUS
  <2>1. c \in TitleCards
    BY <1>t DEF NameRows
  <2>2. [c EXCEPT !.name = n, !.source = s] \in TitleCards
    BY <2>1, <1>s DEF TitleCards
  <2> QED
    BY <2>1, <2>2 DEF Titled
<1>1. /\ m.contact = [T.contact EXCEPT ![a] = [name |-> n, source |-> s]]
      /\ m.chat = [T.chat EXCEPT ![a] = Titled(T.chat[a], n, s)]
      /\ m.senders = [T.senders EXCEPT ![a] = Relabelled(T.senders[a], n)]
      /\ m.book = [T.book EXCEPT ![a] = IF s = FromBook THEN {n} ELSE T.book[a]]
      /\ m.late = IF s = FromBook THEN T.late \ {a} ELSE T.late
  BY <1>t DEF Given, NameRows
<1>2. m \in NameRows
  <2>1. [T.contact EXCEPT ![a] = [name |-> n, source |-> s]] \in [Parties -> NameCards]
    BY <1>t, <1>s DEF NameRows, NameCards
  <2>2. [T.chat EXCEPT ![a] = Titled(T.chat[a], n, s)] \in [Parties -> TitleCards]
    BY <1>t, <1>c DEF NameRows
  <2>3. [T.senders EXCEPT ![a] = Relabelled(T.senders[a], n)] \in [Parties -> SUBSET Shown]
    BY <1>t, <1>s DEF NameRows, Relabelled
  <2>4. [T.book EXCEPT ![a] = IF s = FromBook THEN {n} ELSE T.book[a]]
           \in [Parties -> SUBSET Names]
    BY <1>t DEF NameRows
  <2>5. m.late \in SUBSET Parties
    BY <1>1, <1>t DEF NameRows
  <2> QED
    BY ZenonT(90), <1>t, <2>1, <2>2, <2>3, <2>4, <1>s DEF Given, NameRows
<1>3. ASSUME NEW b \in Parties PROVE BookKept(m, b)
  <2>k. BookKept(T, b)
    BY DEF NamesSound
  <2>1. CASE b # a
    BY <2>k, <2>1, <1>1, <1>t DEF BookKept, BookShown, NameRows
  <2>2. CASE b = a /\ s = FromMessage
    <3>1. T.contact[a] \in NameCards /\ T.contact[a].source # FromBook
      BY <2>2, <1>t, SourceOrder DEF NameRows, NameCards
    <3>2. T.book[a] = {}
      BY <3>1, <2>k, <2>2 DEF BookKept, BookShown
    <3>3. m.contact[a].source = FromMessage /\ m.book[a] = {}
      BY <1>1, <1>t, <2>2, <3>2, SourceOrder DEF NameRows
    <3> QED
      BY <3>3, <2>2, SourceOrder DEF BookKept
  <2>3. CASE b = a /\ s = FromBook
    <3>1. m.contact[a] = [name |-> n, source |-> FromBook] /\ m.book[a] = {n}
      BY <1>1, <1>t, <2>3 DEF NameRows
    <3>2. m.senders[a] \subseteq {n}
      BY <1>1, <1>t DEF NameRows, Relabelled
    <3>3. m.chat[a].held => m.chat[a].name = n /\ m.chat[a].source > Unnamed
      <4> PICK c : c = T.chat[a]
        OBVIOUS
      <4>1. c \in TitleCards /\ m.chat[a] = Titled(c, n, s)
        BY <1>1, <1>t DEF NameRows
      <4>2. c.source <= s
        BY <4>1, <2>3, SourceOrder DEF TitleCards
      <4>3. Titled(c, n, s) = IF c.held THEN [c EXCEPT !.name = n, !.source = s] ELSE c
        BY <4>2 DEF Titled
      <4> QED
        BY <4>1, <4>3, <2>3, SourceOrder DEF TitleCards
    <3> QED
      BY <3>1, <3>2, <3>3, <2>3 DEF BookKept, BookShown
  <2> QED
    BY <2>1, <2>2, <2>3
<1> QED
  BY <1>2, <1>3 DEF NamesSound

LEMMA LearnedSound ==
    ASSUME NEW T, NEW a \in Parties, NEW n \in Shown, NEW s \in {FromMessage, FromBook},
           NamesSound(T)
    PROVE  NamesSound(Learned(T, a, n, s))
<1>1. CASE n = NoName \/ T.contact[a].source > s
  BY <1>1 DEF Learned
<1>2. CASE ~(n = NoName \/ T.contact[a].source > s)
  <2>1. n \in Names
    BY <1>2 DEF Shown
  <2>2. T.contact[a].source <= s
    BY <1>2, SourceOrder DEF NamesSound, NameRows, NameCards
  <2>3. NamesSound(Given(T, a, n, s))
    BY <2>1, <2>2, GivenSound
  <2> QED
    BY <1>2, <2>3 DEF Learned
<1> QED
  BY <1>1, <1>2

LEMMA LearnedBySound ==
    ASSUME NEW T, NEW S, NEW n \in Shown, NEW s \in {FromMessage, FromBook},
           NamesSound(T)
    PROVE  NamesSound(LearnedBy(T, S, n, s))
<1>p. Alias \in Parties /\ Phone \in Parties
  BY DEF Parties
<1> DEFINE first == IF Alias \in S THEN Learned(T, Alias, n, s) ELSE T
<1>1. NamesSound(first)
  BY LearnedSound, <1>p
<1> HIDE DEF first
<1>2. NamesSound(Learned(first, Phone, n, s))
  BY LearnedSound, <1>p, <1>1
<1> QED
  BY <1>1, <1>2 DEF LearnedBy, first

LEMMA OpenedSound ==
    ASSUME NEW T, NEW a \in Parties, NEW n \in Shown, NEW s \in {FromHistory, FromMessage},
           NamesSound(T)
    PROVE  /\ NamesSound(Opened(T, a, n, s))
           /\ Opened(T, a, n, s).contact = T.contact
<1> PICK m : m = Opened(T, a, n, s)
  OBVIOUS
<1>t. T \in NameRows
  BY DEF NamesSound
<1>1. CASE T.chat[a].held
  BY <1>1 DEF Opened
<1>2. CASE ~T.chat[a].held
  <2> PICK c : c = [held |-> TRUE, name |-> n, source |-> IF n = NoName THEN Unnamed ELSE s]
    OBVIOUS
  <2> PICK L : L = IF T.contact[a].source = FromBook /\ T.contact[a].name # n
                   THEN T.late \cup {a} ELSE T.late
    OBVIOUS
  <2>1. m = [T EXCEPT !.chat[a] = c, !.late = L]
    BY <1>2 DEF Opened
  <2>2. c \in TitleCards /\ L \in SUBSET Parties
    <3>1. (IF n = NoName THEN Unnamed ELSE s) \in 0 .. 4
      BY SourceOrder
    <3>2. T.late \in SUBSET Parties
      BY <1>t DEF NameRows
    <3> QED
      BY <3>1, <3>2 DEF TitleCards
  <2>3. m \in NameRows
    <3>1. [T.chat EXCEPT ![a] = c] \in [Parties -> TitleCards]
      BY <1>t, <2>2 DEF NameRows
    <3> QED
      BY <1>t, <2>1, <2>2, <3>1 DEF NameRows
  <2>4. /\ m.contact = T.contact /\ m.senders = T.senders /\ m.book = T.book
        /\ m.chat = [T.chat EXCEPT ![a] = c] /\ m.late = L
    BY <1>t, <2>1 DEF NameRows
  <2>5. ASSUME NEW b \in Parties PROVE BookKept(m, b)
    <3>k. BookKept(T, b)
      BY DEF NamesSound
    <3>1. CASE b # a
      <4>1. m.chat[b] = T.chat[b]
        BY <2>4, <3>1, <1>t DEF NameRows
      <4>2. b \in L <=> b \in T.late
        BY <3>1
      <4> QED
        BY <4>1, <4>2, <2>4, <3>k DEF BookKept, BookShown
    <3>2. CASE b = a
      <4>1. m.chat[a] = c
        BY <2>4, <1>t DEF NameRows
      <4>2. ASSUME T.book[a] # {}, a \notin L
            PROVE  c.name = T.contact[a].name /\ c.source > Unnamed
        <5>1. T.contact[a].source = FromBook /\ T.contact[a].name \in T.book[a]
          BY <4>2, <3>k, <3>2 DEF BookKept, BookShown
        <5>2. n = T.contact[a].name
          BY <4>2, <5>1
        <5>3. n # NoName
          BY <5>1, <5>2, <1>t, NamesAssumption DEF NameRows
        <5> QED
          BY <5>2, <5>3, SourceOrder
      <4> QED
        BY <4>1, <4>2, <2>4, <3>k, <3>2 DEF BookKept, BookShown
    <3> QED
      BY <3>1, <3>2
  <2> QED
    BY <2>3, <2>4, <2>5 DEF NamesSound
<1> QED
  BY <1>1, <1>2

LEMMA FiledSound ==
    ASSUME NEW T, NEW a \in Parties, NEW sender \in Shown, NEW candidate \in Shown,
           NEW s \in {FromHistory, FromMessage}, NamesSound(T)
    PROVE  NamesSound(Filed(T, a, sender, candidate, s))
<1> PICK o : o = Opened(T, a, candidate, s)
  OBVIOUS
<1>o. NamesSound(o) /\ o.contact = T.contact
  BY OpenedSound
<1>t. o \in NameRows
  BY <1>o DEF NamesSound
<1> PICK x : x = IF T.contact[a].source = FromBook THEN T.contact[a].name ELSE sender
  OBVIOUS
<1>x. x \in Shown
  BY <1>o, <1>t DEF NameRows, NameCards
<1> PICK m : m = [o EXCEPT !.senders[a] = @ \cup {x}]
  OBVIOUS
<1>f. Filed(T, a, sender, candidate, s) = m
  BY DEF Filed
<1>1. m \in NameRows
  <2>1. o.senders[a] \cup {x} \in SUBSET Shown
    BY <1>t, <1>x DEF NameRows
  <2>2. [o.senders EXCEPT ![a] = @ \cup {x}] \in [Parties -> SUBSET Shown]
    BY <2>1, <1>t DEF NameRows
  <2> QED
    BY <2>2, <1>t DEF NameRows
<1>2. /\ m.contact = o.contact /\ m.chat = o.chat /\ m.book = o.book /\ m.late = o.late
      /\ m.senders = [o.senders EXCEPT ![a] = @ \cup {x}]
  BY <1>t DEF NameRows
<1>3. ASSUME NEW b \in Parties PROVE BookKept(m, b)
  <2>k. BookKept(o, b)
    BY <1>o DEF NamesSound
  <2>1. CASE b # a
    <3>1. m.senders[b] = o.senders[b]
      BY <2>1, <1>2, <1>t DEF NameRows
    <3> QED
      BY <3>1, <1>2, <2>k DEF BookKept, BookShown
  <2>2. CASE b = a
    <3>1. m.senders[a] = o.senders[a] \cup {x}
      BY <1>2, <1>t DEF NameRows
    <3>2. o.contact[a].source = FromBook => x = o.contact[a].name
      BY <1>o
    <3> QED
      BY <3>1, <3>2, <1>2, <2>k, <2>2 DEF BookKept, BookShown
  <2> QED
    BY <2>1, <2>2
<1> QED
  BY ZenonT(90), <1>f, <1>1, <1>3 DEF NamesSound

LEMMA ReplayedTitleSound ==
    ASSUME NEW T, NEW a \in Parties, NEW n \in Shown, NamesSound(T)
    PROVE  NamesSound(ReplayedTitle(T, a, n))
<1>t. T \in NameRows
  BY DEF NamesSound
<1>1. CASE ~T.chat[a].held
  BY <1>1, OpenedSound DEF ReplayedTitle
<1>2. CASE T.chat[a].held
  <2> PICK c : c = T.chat[a]
    OBVIOUS
  <2> PICK d : d = Renamed(c, n)
    OBVIOUS
  <2> PICK m : m = [T EXCEPT !.chat[a] = d]
    OBVIOUS
  <2>1. ReplayedTitle(T, a, n) = m
    BY <1>2, <1>t DEF ReplayedTitle, NameRows
  <2>2. c \in TitleCards
    BY <1>t DEF NameRows
  <2>3. d \in TitleCards /\ (c.source > Unnamed => d = c)
    <3>0. FromHistory \in 0 .. 4
      BY SourceOrder
    <3>1. [c EXCEPT !.name = n, !.source = FromHistory] \in TitleCards
      BY <2>2, <3>0 DEF TitleCards
    <3>2. c.source > Unnamed => c.source # Unnamed
      BY SourceOrder
    <3>3. c.source # Unnamed => d = c
      BY DEF Renamed
    <3> QED
      BY <2>2, <3>1, <3>2, <3>3 DEF Renamed
  <2>4. m \in NameRows
    <3>1. [T.chat EXCEPT ![a] = d] \in [Parties -> TitleCards]
      BY <1>t, <2>3 DEF NameRows
    <3> QED
      BY <3>1, <1>t DEF NameRows
  <2>5. /\ m.contact = T.contact /\ m.senders = T.senders /\ m.book = T.book
        /\ m.chat = [T.chat EXCEPT ![a] = d] /\ m.late = T.late
    BY <1>t DEF NameRows
  <2>6. ASSUME NEW b \in Parties PROVE BookKept(m, b)
    <3>k. BookKept(T, b)
      BY DEF NamesSound
    <3>1. CASE b # a
      <4>1. m.chat[b] = T.chat[b]
        BY <3>1, <2>5, <1>t DEF NameRows
      <4> QED
        BY <4>1, <2>5, <3>k DEF BookKept, BookShown
    <3>2. CASE b = a
      <4>1. m.chat[a] = d
        BY SMTT(60), <2>5, <1>t DEF NameRows
      <4> QED
        BY <4>1, <2>3, <2>5, <3>k, <3>2, <1>2 DEF BookKept, BookShown
    <3> QED
      BY <3>1, <3>2
  <2> QED
    BY <2>1, <2>4, <2>6 DEF NamesSound
<1> QED
  BY <1>1, <1>2

LEMMA MigratedSound ==
    ASSUME NEW T, NamesSound(T)
    PROVE  NamesSound(Migrated(T))
<1>t. T \in NameRows
  BY DEF NamesSound
<1>p. Alias \in Parties /\ Phone \in Parties /\ Alias # Phone
  BY NamesAssumption DEF Parties
<1> PICK o : o = T.contact[Alias]
  OBVIOUS
<1> PICK n : n = T.contact[Phone]
  OBVIOUS
<1> PICK c : c = IF o.source >= n.source THEN o ELSE n
  OBVIOUS
<1> PICK h : h = IF ~T.chat[Phone].held \/ T.chat[Alias].source > T.chat[Phone].source
                 THEN [T.chat[Alias] EXCEPT !.held = @ \/ T.chat[Phone].held] ELSE T.chat[Phone]
  OBVIOUS
<1> PICK S : S = T.senders[Alias] \cup T.senders[Phone]
  OBVIOUS
<1> PICK g : g = IF c = NoContact \/ ~h.held THEN h
                 ELSE [h EXCEPT !.name = c.name, !.source = c.source]
  OBVIOUS
<1> PICK w : w = IF c = NoContact THEN S ELSE Relabelled(S, c.name)
  OBVIOUS
<1> PICK B : B = T.book[Alias] \cup T.book[Phone]
  OBVIOUS
<1> PICK m : m = [contact |-> Both(NoContact, c), chat |-> Both(NoChat, g),
                  senders |-> Both({}, w), book |-> Both({}, B), late |-> {}]
  OBVIOUS
<1>1. Migrated(T) = IF o = NoContact /\ ~T.chat[Alias].held /\ T.senders[Alias] = {}
                    THEN T ELSE m
  BY DEF Migrated
<1>2. o \in NameCards /\ n \in NameCards /\ c \in NameCards
  BY <1>t, <1>p DEF NameRows
<1>3. h \in TitleCards
  <2> PICK x : x = T.chat[Alias]
    OBVIOUS
  <2> PICK y : y = T.chat[Phone]
    OBVIOUS
  <2>1. x \in TitleCards /\ y \in TitleCards
    BY <1>t, <1>p DEF NameRows
  <2>2. (x.held \/ y.held) \in BOOLEAN
    OBVIOUS
  <2>3. [x EXCEPT !.held = @ \/ y.held] \in TitleCards
    BY SMTT(60), <2>1, <2>2 DEF TitleCards
  <2> QED
    BY <2>1, <2>3
<1>4. g \in TitleCards
  BY ZenonT(90), <1>2, <1>3 DEF TitleCards, NameCards
<1>5. S \subseteq Shown /\ w \subseteq Shown /\ B \subseteq Names
  BY <1>t, <1>p, <1>2 DEF NameRows, NameCards, Relabelled
<1>6. NoContact \in NameCards /\ NoChat \in TitleCards
  BY SMTT(60), SourceOrder DEF NoContact, NoChat, NameCards, TitleCards, Shown
<1>7. m \in NameRows
  BY <1>2, <1>4, <1>5, <1>6 DEF NameRows, Both
<1>8. /\ m.contact[Alias] = NoContact /\ m.contact[Phone] = c
      /\ m.chat[Phone] = g /\ m.senders[Phone] = w
      /\ m.book[Alias] = {} /\ m.book[Phone] = B /\ m.late = {}
  BY <1>p DEF Both
<1>9. BookKept(m, Alias)
  <2>1. m.contact[Alias].source # FromBook
    BY <1>8, SourceOrder DEF NoContact
  <2> QED
    BY <2>1, <1>8 DEF BookKept
<1>k. BookKept(T, Alias) /\ BookKept(T, Phone)
  BY <1>p DEF NamesSound
<1>10. c.source = FromBook => B # {}
  BY SMTT(60), <1>k DEF BookKept
<1>11. B # {} => c.source = FromBook /\ c.name \in B
  <2>1. HAVE B # {}
  <2>2. CASE o.source = FromBook
    <3>1. o.source >= n.source
      BY <2>2, <1>2, SourceOrder DEF NameCards
    <3>2. T.book[Alias] # {}
      BY <2>2, <1>k DEF BookKept
    <3> QED
      BY <3>1, <3>2, <2>2, <1>k DEF BookKept, BookShown
  <2>3. CASE o.source # FromBook
    <3>1. T.book[Alias] = {} /\ T.book[Phone] # {}
      BY SMTT(60), <2>1, <2>3, <1>k DEF BookKept, BookShown
    <3>2. n.source = FromBook /\ n.name \in T.book[Phone]
      BY <3>1, <1>k DEF BookKept, BookShown
    <3>3. ~(o.source >= n.source)
      BY SMTT(60), <3>2, <2>3, <1>2, SourceOrder DEF NameCards
    <3> QED
      BY SMTT(60), <3>2, <3>3
  <2> QED
    BY <2>2, <2>3
<1>12. B # {} => c # NoContact
  BY SMTT(60), <1>11, SourceOrder DEF NoContact
<1>13. B # {} => w \subseteq {c.name}
  BY SMTT(60), <1>12 DEF Relabelled
<1>14. B # {} /\ g.held => g.name = c.name /\ g.source > Unnamed
  <2>1. HAVE B # {} /\ g.held
  <2>2. c # NoContact /\ c.source = FromBook
    BY <2>1, <1>11, <1>12
  <2>3. h.held
    BY SMTT(60), <2>1, <2>2
  <2>4. g = [h EXCEPT !.name = c.name, !.source = c.source]
    BY SMTT(60), <2>2, <2>3
  <2> QED
    <3>1. g.name = c.name /\ g.source = c.source
      BY <2>4, <1>3 DEF TitleCards
    <3> QED
      BY SMTT(60), <3>1, <2>2, SourceOrder
<1>15. BookKept(m, Phone)
  BY ZenonT(90), <1>8, <1>10, <1>11, <1>13, <1>14 DEF BookKept, BookShown
<1>16. NamesSound(m)
  BY ZenonT(60), <1>7, <1>9, <1>15 DEF NamesSound, Parties
<1> QED
  BY <1>1, <1>16

LEMMA CanonicalSound ==
    ASSUME NEW T, NamesSound(T)
    PROVE  NamesSound(Canonical(T))
BY MigratedSound DEF Canonical

LEMMA AtParty ==
    \A a \in Parties : At(a) \in Parties
BY DEF At, Parties

\* What the tasks of the contact carry between two steps.
NameTasks ==
    /\ reducer.at \in Parties
    /\ reducer.candidate \in Shown /\ reducer.sender \in Shown

\* The group: no task that read the present subject can lose it.
GroupKept ==
    /\ group \in TitleCards
    /\ subject \in Names /\ fetched \in [Readers -> Shown]
    /\ ~group.held => group.source = Unnamed
    /\ fetched["event"] # NoName /\ ~notified => fetched["event"] = subject
    /\ ~crossed => \A r \in InFlight : fetched[r] = subject
    /\ ~crossed /\ group.source > Unnamed /\ ~notified /\ fetched["event"] = NoName
          => group.name = subject

NamesInv == NamesSound(names) /\ NameTasks /\ GroupKept

LEMMA ContactSteps ==
    ASSUME NamesSound(names), NameTasks, NamesNext
    PROVE  NamesSound(names)' /\ NameTasks'
<1>t. names \in NameRows
  BY DEF NamesSound
<1>n. NoName \in Shown /\ Names \subseteq Shown
  BY DEF Shown
<1>p. Alias \in Parties /\ Phone \in Parties
  BY DEF Parties
<1>c. NamesSound(Canonical(names))
  BY CanonicalSound
<1>1. ASSUME NEW a \in Parties, NEW n \in Shown, Receive(a, n)
      PROVE  NamesSound(names)' /\ NameTasks'
  <2> PICK T : T = Learned(Canonical(names), At(a), n, FromMessage)
    OBVIOUS
  <2>1. At(a) \in Parties
    BY AtParty
  <2>2. NamesSound(T)
    BY <2>1, <1>c, LearnedSound
  <2>3. T \in NameRows
    BY <2>2 DEF NamesSound
  <2>4. /\ names' = T
        /\ reducer' = [step |-> "insert", at |-> At(a),
                       sender |-> IF T.contact[At(a)] = NoContact THEN n
                                  ELSE T.contact[At(a)].name,
                       candidate |-> IF n # NoName THEN n ELSE T.chat[At(a)].name]
    BY <1>1 DEF Receive
  <2>5. T.contact[At(a)].name \in Shown /\ T.chat[At(a)].name \in Shown
    BY <2>1, <2>3 DEF NameRows, NameCards, TitleCards
  <2>6. NameTasks'
    BY <2>1, <2>4, <2>5 DEF NameTasks
  <2> QED
    BY <2>2, <2>4, <2>6 DEF NamesSound
<1>2. ASSUME NEW a \in Parties, NEW n \in Shown, ReplayPushName(a, n)
      PROVE  NamesSound(names)' /\ NameTasks'
  BY <1>2, LearnedSound DEF ReplayPushName, NameTasks
<1>3. ASSUME NEW a \in Parties, NEW n \in Names, Business(a, n)
      PROVE  NamesSound(names)' /\ NameTasks'
  <2>1. NamesSound(Learned(Canonical(names), At(a), n, FromMessage))
    BY AtParty, <1>c, <1>n, LearnedSound
  <2> QED
    BY <2>1, <1>3 DEF Business, NameTasks
<1>4. ASSUME NEW S, NEW n \in Shown, BookUpdate(S, n)
      PROVE  NamesSound(names)' /\ NameTasks'
  <2>1. NamesSound(Canonical(LearnedBy(names, S, n, FromBook)))
    BY LearnedBySound, CanonicalSound
  <2> QED
    BY <2>1, <1>4 DEF BookUpdate, NameTasks
<1>5. ASSUME NEW S, NEW n \in Shown, MissingNamed(S, n)
      PROVE  NamesSound(names)' /\ NameTasks'
  BY <1>5, LearnedBySound DEF MissingNamed, NameTasks
<1>6. ASSUME NEW a \in Parties, NEW c \in Shown, NEW n \in Shown, Ingest(a, c, n)
      PROVE  NamesSound(names)' /\ NameTasks'
  <2> PICK at : at = IF replay = "resolved" THEN Phone ELSE a
    OBVIOUS
  <2> PICK title : title = IF c # NoName THEN c ELSE names.contact[at].name
    OBVIOUS
  <2> PICK sender : sender = IF n # NoName THEN n ELSE title
    OBVIOUS
  <2>1. at \in Parties
    BY <1>p
  <2>2. title \in Shown /\ sender \in Shown
    BY <2>1, <1>t DEF NameRows, NameCards
  <2>3. NamesSound(ReplayedTitle(names, at, title))
    BY <2>1, <2>2, ReplayedTitleSound
  <2>4. NamesSound(Learned(ReplayedTitle(names, at, title), at, sender, FromMessage))
    BY <2>1, <2>2, <2>3, LearnedSound
  <2>5. NamesSound(Filed(Learned(ReplayedTitle(names, at, title), at, sender, FromMessage),
                         at, sender, title, FromHistory))
    BY SMTT(60), <2>1, <2>2, <2>4, FiledSound
  <2> QED
    BY <2>5, <1>6 DEF Ingest, NameTasks
<1>7. ASSUME NEW a \in Parties, SendFirst(a)
      PROVE  NamesSound(names)' /\ NameTasks'
  <2> PICK T : T = Canonical(names)
    OBVIOUS
  <2> PICK named : named = IF T.chat[At(a)].name # NoName THEN T.chat[At(a)].name
                           ELSE T.contact[At(a)].name
    OBVIOUS
  <2>1. T \in NameRows
    BY <1>c DEF NamesSound
  <2>2. named \in Shown
    BY <2>1, AtParty DEF NameRows, NameCards, TitleCards
  <2>3. NamesSound(Opened(T, At(a), named, FromMessage))
    BY <2>2, <1>c, AtParty, OpenedSound
  <2> QED
    BY <2>3, <1>7 DEF SendFirst, NameTasks
<1>8. ASSUME NEW a \in Parties, DeleteNamed(a)
      PROVE  NamesSound(names)' /\ NameTasks'
  <2> PICK m : m = [names EXCEPT !.chat[a] = NoChat, !.senders[a] = {}, !.late = @ \ {a}]
    OBVIOUS
  <2>1. /\ m.contact = names.contact /\ m.book = names.book
        /\ m.chat = [names.chat EXCEPT ![a] = NoChat]
        /\ m.senders = [names.senders EXCEPT ![a] = {}]
        /\ m.late = names.late \ {a}
    BY <1>t DEF NameRows
  <2>2. m \in NameRows
    <3>1. NoChat \in TitleCards
      BY <1>n, SourceOrder DEF NoChat, TitleCards
    <3>2. [names.chat EXCEPT ![a] = NoChat] \in [Parties -> TitleCards]
      BY <3>1, <1>t DEF NameRows
    <3>3. [names.senders EXCEPT ![a] = {}] \in [Parties -> SUBSET Shown]
      BY <1>t DEF NameRows
    <3> QED
      BY <3>2, <3>3, <1>t DEF NameRows
  <2>3. ASSUME NEW b \in Parties PROVE BookKept(m, b)
    <3>k. BookKept(names, b)
      BY DEF NamesSound
    <3>1. CASE b # a
      <4>1. m.chat[b] = names.chat[b] /\ m.senders[b] = names.senders[b]
        BY <3>1, <2>1, <1>t DEF NameRows
      <4>2. b \in m.late <=> b \in names.late
        BY <3>1, <2>1
      <4> QED
        BY <4>1, <4>2, <2>1, <3>k DEF BookKept, BookShown
    <3>2. CASE b = a
      <4>1. ~m.chat[b].held /\ m.senders[b] = {}
        BY <3>2, <2>1, <1>t DEF NameRows, NoChat
      <4> QED
        BY <4>1, <2>1, <3>k DEF BookKept, BookShown
    <3> QED
      BY <3>1, <3>2
  <2> QED
    BY <2>2, <2>3, <1>8 DEF DeleteNamed, NamesSound, NameTasks
<1>9. ASSUME Insert PROVE NamesSound(names)' /\ NameTasks'
  <2>1. NamesSound(Filed(names, reducer.at, reducer.sender, reducer.candidate, FromMessage))
    BY FiledSound DEF NameTasks
  <2>2. NameTasks'
    BY <1>9, <1>n, <1>p DEF Insert, NameTasks, Rest
  <2> QED
    BY <1>9, <2>1, <2>2 DEF Insert
<1>10. CASE MissingSelected \/ LearnMapping
  BY <1>10 DEF MissingSelected, LearnMapping, NameTasks
<1>11. CASE Scan \/ Canonicalise
  BY <1>11, <1>c DEF Scan, Canonicalise, NameTasks
<1> QED
  BY <1>1, <1>2, <1>3, <1>4, <1>5, <1>6, <1>7, <1>8, <1>9, <1>10, <1>11 DEF NamesNext

LEMMA GroupNamedSound ==
    ASSUME NEW c \in TitleCards, NEW n \in Shown
    PROVE  /\ GroupNamed(c, n) \in TitleCards
           /\ GroupNamed(c, n).held = c.held
           /\ c.held => GroupNamed(c, n).name = n
           /\ ~c.held => GroupNamed(c, n) = c
<1>0. FromMetadata \in 0 .. 4
  BY SourceOrder
<1>1. [c EXCEPT !.name = n, !.source = FromMetadata] \in TitleCards
  BY <1>0 DEF TitleCards
<1> QED
  BY <1>1 DEF GroupNamed, TitleCards

LEMMA GroupSteps ==
    ASSUME GroupKept, SubjectNext
    PROVE  GroupKept'
<1>n. NoName \in Shown /\ Names \subseteq Shown /\ NoName \notin Names
  BY NamesAssumption DEF Shown
<1>r. "event" \in Readers /\ "sync" \in Readers /\ "reducer" \in Readers
  BY DEF Readers
<1> USE DEF GroupKept
<1>1. ASSUME NEW n \in Names, ChangeSubject(n) PROVE GroupKept'
  BY <1>1, <1>r DEF ChangeSubject, InFlight
<1>2. ASSUME NEW n \in Names, ReplayGroup(n) PROVE GroupKept'
  <2>1. /\ subject' = subject /\ notified' = notified /\ fetched' = fetched
        /\ crossed' = (crossed \/ n # subject)
        /\ group' = IF group.held THEN Renamed(group, n)
                    ELSE [held |-> TRUE, name |-> n, source |-> FromHistory]
    BY <1>2 DEF ReplayGroup
  <2>0. FromHistory \in 0 .. 4 /\ n \in Shown
    BY <1>n, SourceOrder
  <2>2. [group EXCEPT !.name = n, !.source = FromHistory] \in TitleCards
    BY <2>0 DEF TitleCards
  <2>3. [held |-> TRUE, name |-> n, source |-> FromHistory] \in TitleCards
    BY <1>n, SourceOrder DEF TitleCards
  <2>4. group' \in TitleCards /\ group'.held
    BY <2>1, <2>2, <2>3 DEF Renamed, TitleCards
  <2>5. group' = group \/ group'.name = n
    BY <2>1 DEF Renamed, TitleCards
  <2> QED
    BY <2>1, <2>4, <2>5 DEF InFlight
<1>3. ASSUME NEW r \in Readers, ReadSubject(r) PROVE GroupKept'
  <2>1. /\ r \in {"event", "sync"} /\ fetched[r] = NoName
        /\ fetched' = [fetched EXCEPT ![r] = subject]
        /\ group' = group /\ subject' = subject /\ crossed' = crossed
        /\ r = "event" => notified /\ ~notified'
        /\ r = "sync" => notified' = notified
    BY <1>3 DEF ReadSubject
  <2>2. fetched' \in [Readers -> Shown]
    BY <2>1, <1>n
  <2>3. \A q \in Readers : fetched'[q] = IF q = r THEN subject ELSE fetched[q]
    BY <2>1
  <2>4. subject # NoName
    BY <1>n
  <2> QED
    BY <2>1, <2>2, <2>3, <2>4, <1>r DEF InFlight
<1>4. CASE EventReadFails
  BY <1>4, <1>r DEF EventReadFails, InFlight
<1>5. ASSUME NEW r \in Readers, WriteSubject(r) PROVE GroupKept'
  <2>1. /\ r \in {"event", "sync"} /\ fetched[r] # NoName
        /\ group' = GroupNamed(group, fetched[r])
        /\ fetched' = [fetched EXCEPT ![r] = NoName]
        /\ crossed' = (crossed /\ ~(InFlight = {"event"} /\ ~notified))
        /\ subject' = subject /\ notified' = notified
    BY <1>5 DEF WriteSubject
  <2>2. fetched' \in [Readers -> Shown] /\ fetched[r] \in Shown
    BY <2>1, <1>n
  <2>3. \A q \in Readers : fetched'[q] = IF q = r THEN NoName ELSE fetched[q]
    BY <2>1
  <2>4. /\ group' \in TitleCards /\ group'.held = group.held
        /\ group.held => group'.name = fetched[r]
        /\ ~group.held => group' = group
    BY <2>1, <2>2, GroupNamedSound
  <2>5. ~group'.held => group'.source = Unnamed
    BY <2>4
  <2>6. fetched'["event"] # NoName /\ ~notified' => fetched'["event"] = subject'
    BY <2>1, <2>3, <1>r
  <2>7. ~crossed' => \A q \in InFlight' : fetched'[q] = subject'
    <3>1. CASE ~crossed
      BY <3>1, <2>1, <2>3 DEF InFlight
    <3>2. CASE InFlight = {"event"}
      <4>1. InFlight' = {}
        BY <3>2, <2>1, <2>3 DEF InFlight
      <4> QED
        BY <4>1
    <3> QED
      BY <3>1, <3>2, <2>1
  <2>8. ~crossed' /\ group'.source > Unnamed /\ ~notified' /\ fetched'["event"] = NoName
           => group'.name = subject'
    <3>1. HAVE ~crossed' /\ group'.source > Unnamed /\ ~notified' /\ fetched'["event"] = NoName
    <3>2. group.held
      BY <3>1, <2>4, SourceOrder
    <3>3. fetched[r] = subject
      <4>1. CASE ~crossed
        BY <4>1, <2>1 DEF InFlight
      <4>2. CASE crossed
        BY <4>2, <3>1, <2>1 DEF InFlight
      <4> QED
        BY <4>1, <4>2
    <3> QED
      BY <3>2, <3>3, <2>1, <2>4
  <2> QED
    BY <2>2, <2>4, <2>5, <2>6, <2>7, <2>8, <2>1
<1>6. ASSUME NEW answered \in BOOLEAN, GroupMessage(answered) PROVE GroupKept'
  <2> PICK read : read = IF group.source > Unnamed THEN group.name
                         ELSE IF answered THEN subject ELSE NoName
    OBVIOUS
  <2>1. /\ fetched["reducer"] = NoName /\ subject' = subject /\ notified' = notified
        /\ crossed' = (crossed \/ (group.source > Unnamed
                                   /\ (notified \/ fetched["event"] # NoName)))
    BY <1>6 DEF GroupMessage
  <2>2. read \in Shown
    BY <1>n DEF TitleCards
  <2>3. CASE read # NoName
    <3>1. fetched' = [fetched EXCEPT !["reducer"] = read] /\ group' = group
      BY <1>6, <2>3 DEF GroupMessage
    <3>2. fetched' \in [Readers -> Shown]
      BY <3>1, <2>2
    <3>3. \A q \in Readers : fetched'[q] = IF q = "reducer" THEN read ELSE fetched[q]
      BY <3>1
    <3>4. ~crossed' => read = subject
      <4>1. CASE group.source > Unnamed
        BY <4>1, <2>1
      <4>2. CASE ~(group.source > Unnamed)
        BY <4>2, <2>3
      <4> QED
        BY <4>1, <4>2
    <3>5. "event" # "reducer"
      OBVIOUS
    <3>6. ~crossed' => \A q \in InFlight' : fetched'[q] = subject'
      BY <3>3, <3>4, <2>1 DEF InFlight
    <3> QED
      BY <3>1, <3>2, <3>3, <3>5, <3>6, <2>1, <1>r
  <2>4. CASE read = NoName
    <3>1. group' = [group EXCEPT !.held = TRUE] /\ fetched' = fetched
      BY <1>6, <2>4 DEF GroupMessage
    <3>2. /\ group' \in TitleCards /\ group'.held
          /\ group'.name = group.name /\ group'.source = group.source
      BY <3>1 DEF TitleCards
    <3> QED
      BY <3>1, <3>2, <2>1 DEF InFlight
  <2> QED
    BY <2>3, <2>4
<1>7. CASE GroupInsert
  <2> PICK n : n = fetched["reducer"]
    OBVIOUS
  <2> PICK c : c = [group EXCEPT !.held = TRUE]
    OBVIOUS
  <2>1. /\ n # NoName /\ group' = GroupNamed(c, n)
        /\ fetched' = [fetched EXCEPT !["reducer"] = NoName]
        /\ subject' = subject /\ notified' = notified /\ crossed' = crossed
    BY <1>7 DEF GroupInsert
  <2>2. fetched' \in [Readers -> Shown] /\ n \in Shown
    BY <2>1, <1>n, <1>r
  <2>3. \A q \in Readers : fetched'[q] = IF q = "reducer" THEN NoName ELSE fetched[q]
    BY <2>1
  <2>4. c \in TitleCards /\ c.held
    BY DEF TitleCards
  <2>5. group' \in TitleCards /\ group'.held /\ group'.name = n
    BY <2>1, <2>2, <2>4, GroupNamedSound
  <2>6. ~crossed => n = subject
    BY <2>1, <1>r DEF InFlight
  <2>7. ~crossed' => \A q \in InFlight' : fetched'[q] = subject'
    BY <2>1, <2>3 DEF InFlight
  <2>8. "event" # "reducer"
    OBVIOUS
  <2> QED
    BY <2>1, <2>2, <2>3, <2>5, <2>6, <2>7, <2>8, <1>r
<1> QED
  BY <1>1, <1>2, <1>3, <1>4, <1>5, <1>6, <1>7 DEF SubjectNext

\* Both halves of the name invariant, over every interleaving of the tasks.
LEMMA NamesInvariant == NamesSpec => []NamesInv
<1>1. NamesInit => NamesInv
  <2> SUFFICES ASSUME NamesInit PROVE NamesInv
    OBVIOUS
  <2>n. NoName \in Shown /\ Alias \in Parties /\ Phone \in Parties
    BY DEF Shown, Parties
  <2>1. NoContact \in NameCards /\ NoChat \in TitleCards
    BY <2>n, SourceOrder DEF NoContact, NoChat, NameCards, TitleCards
  <2>2. names \in NameRows
    BY <2>1 DEF NamesInit, NameRows, Both
  <2>3. \A a \in Parties : names.contact[a] = NoContact /\ names.book[a] = {}
    BY DEF NamesInit, Both
  <2>4. NamesSound(names)
    BY <2>2, <2>3, SourceOrder DEF NamesSound, BookKept, NoContact
  <2>5. NameTasks
    BY <2>n DEF NamesInit, NameTasks, Rest
  <2>6. subject \in Names
    BY NamesAssumption DEF NamesInit
  <2>7. GroupKept
    BY <2>1, <2>6, <2>n, SourceOrder DEF NamesInit, GroupKept, NoChat, InFlight, Readers
  <2> QED
    BY <2>4, <2>5, <2>7 DEF NamesInv
<1>2. NamesInv /\ [NamesNext \/ SubjectNext]_nameVars => NamesInv'
  <2> SUFFICES ASSUME NamesInv, [NamesNext \/ SubjectNext]_nameVars PROVE NamesInv'
    OBVIOUS
  <2>1. CASE NamesNext
    <3>1. UNCHANGED groupVars
      BY ZenonT(60), <2>1 DEF NamesNext, Receive, ReplayPushName, Business, BookUpdate, MissingNamed,
                  Ingest, SendFirst, DeleteNamed, Insert, MissingSelected, Scan,
                  LearnMapping, Canonicalise
    <3>2. GroupKept'
      BY <3>1 DEF NamesInv, GroupKept, groupVars, InFlight
    <3> QED
      BY SMTT(60), <2>1, <3>2, ContactSteps DEF NamesInv
  <2>2. CASE SubjectNext
    <3>1. UNCHANGED contactVars
      BY <2>2 DEF SubjectNext, ChangeSubject, ReplayGroup, ReadSubject, WriteSubject,
                  GroupMessage, EventReadFails, GroupInsert
    <3>2. NamesSound(names)' /\ NameTasks'
      BY <3>1 DEF NamesInv, NameTasks, contactVars
    <3> QED
      BY <2>2, <3>2, GroupSteps DEF NamesInv
  <2>3. CASE UNCHANGED nameVars
    BY <2>3 DEF NamesInv, NameTasks, GroupKept, nameVars, contactVars, groupVars, InFlight
  <2> QED
    BY <2>1, <2>2, <2>3
<1> QED
  BY <1>1, <1>2, PTL DEF NamesSpec

\* The name saved in the address book is shown on the contact, its chat and its
\* messages, and a group at rest shows its subject unless an older read of it was
\* written late, for any set of names and any number of events
\* (update_contact_name_into, migrate_contact_jid, update_group_name).
THEOREM NamesFollow == NamesSpec => []NamesFollowTheirSource
<1>1. NamesInv => NamesFollowTheirSource
  <2> SUFFICES ASSUME NamesInv PROVE NamesFollowTheirSource
    OBVIOUS
  <2>1. \A a \in Parties : names.book[a] # {} => BookShown(names, a)
    BY DEF NamesInv, NamesSound, BookKept
  <2>2. group.source = FromMetadata /\ InFlight = {} /\ ~notified
           => group.name = subject \/ crossed
    <3>1. HAVE group.source = FromMetadata /\ InFlight = {} /\ ~notified
    <3>2. fetched["event"] = NoName
      BY <3>1 DEF InFlight, Readers
    <3>3. group.source > Unnamed
      BY <3>1, SourceOrder
    <3> QED
      BY <3>1, <3>2, <3>3 DEF NamesInv, GroupKept
  <2> QED
    BY <2>1, <2>2 DEF NamesFollowTheirSource, BookShown
<1> QED
  BY <1>1, NamesInvariant, PTL

=============================================================================
