------------------------- MODULE Background_proofs --------------------------
(***************************************************************************)
(* The goroutines that run beside the requests: the readers of Kafka, for  *)
(* any number of topics, messages and stops, and the scan for illegal DHCP *)
(* servers, for any network, clients and number of scans.                  *)
(*                                                                         *)
(* The invariant of KafkaConsumers has three parts that do not need each   *)
(* other but for the types: where a reader is in its topic, what the nodes *)
(* know of the recorded rows, and which rows are recorded.  That of        *)
(* ServerScan says that what an exchange returns answers that exchange,    *)
(* however many readers and answers are left over from others.             *)
(***************************************************************************)
EXTENDS KafkaConsumers, ServerScan, TLAPS

Working == TableSteps \cup {"reserve", "alarm"}

Types ==
    /\ process \in {"down", "starting", "ready"}
    /\ topic \in [Readers -> Seq(LeaseMessages \cup PacketMessages)]
    /\ offset \in [Readers -> Nat]
    /\ position \in [Readers -> Nat]
    /\ stage \in [Readers -> {"idle", "fetched"} \cup Working]
    /\ tx \in [Readers -> {"none", "looked", "sent"}]
    /\ \A r \in Readers : tx[r] # "none" => r \in LeaseReaders /\ stage[r] \in TableSteps
    /\ process = "down" => \A r \in Readers : stage[r] = "idle"
    /\ reservation \in [LeaseReaders -> BOOLEAN]
    /\ handled \in [Readers -> Seq(Nat)]
    /\ disturbed \subseteq Readers

\* A reader commits what it has fetched before it handles it, and after a stop
\* resumes no earlier than that.
Place(r) ==
    /\ offset[r] <= position[r] /\ position[r] <= Len(topic[r])
    /\ stage[r] # "idle" => position[r] > 0
    /\ stage[r] \in Working => offset[r] = position[r]
    /\ stage[r] # "idle" => \A i \in DOMAIN handled[r] : handled[r][i] < position[r]
    /\ \A i \in DOMAIN handled[r] : handled[r][i] <= offset[r]

InPlace == \A r \in Readers : Place(r)

\* Nodes keep a row that is being sent: it is locked against who would delete it.
SentIsKnown ==
    /\ NodesKnowRows
    /\ \A l \in LeaseReaders : tx[l] = "sent" => RowFor(l) \in nodeKnows

\* How many messages a reader that nothing failed for is done with.
Handled(r) == IF stage[r] \in Working THEN offset[r] - 1 ELSE offset[r]

\* The address was requested last among the first n messages.
RequestedIn(r, n) ==
    \E i \in 1 .. n :
        /\ topic[r][i].request = "Request"
        /\ \A j \in 1 .. n : j > i => topic[r][j].request # "Decline"

Smooth(r) ==
    /\ stage[r] = "idle" => position[r] = offset[r]
    /\ stage[r] = "fetched" => position[r] = offset[r] + 1
    /\ handled[r] = [i \in 1 .. Handled(r) |-> i]
    /\ r \in LeaseReaders => (reservation[r] <=> RequestedIn(r, Handled(r)))

UndisturbedIsSmooth == \A r \in Readers \ disturbed : Smooth(r)

\* What is looked for by two readers, or looked for and recorded meanwhile, was
\* looked for together.
LookedTogether ==
    /\ \A r \in Readers : tx[r] # "none" =>
          /\ \A k \in known : KeyOf(k) = KeyOf(RowFor(r)) => KeyOf(k) \in raced
          /\ \A o \in Readers \ {r} :
                tx[o] # "none" /\ KeyOf(RowFor(o)) = KeyOf(RowFor(r))
                    => KeyOf(RowFor(r)) \in raced
    /\ RecordedOnce

-----------------------------------------------------------------------------
(***************************************************************************)
(* The types                                                               *)
(***************************************************************************)
LEMMA InitTypes == Init => Types
  <1> SUFFICES ASSUME Init PROVE Types
    OBVIOUS
  <1>1. \A r \in Readers : topic[r] = <<>> /\ handled[r] = <<>>
    BY DEF Init
  <1> QED
    BY <1>1 DEF Init, Types

LEMMA NextTypes == Types /\ [Next]_vars => Types'
  <1> SUFFICES ASSUME Types, [Next]_vars
               PROVE  Types'
    OBVIOUS
  <1> USE DEF Types, consumer, tables, history
  <1>1. ASSUME NEW r \in Readers, NEW m \in LeaseMessages \cup PacketMessages, Publish(r, m)
        PROVE  Types'
    <2>1. Append(topic[r], m) \in Seq(LeaseMessages \cup PacketMessages)
      OBVIOUS
    <2> QED
      BY <1>1, <2>1 DEF Publish
  <1>2. CASE Start
    BY <1>2 DEF Start, ResumeAt
  <1>3. CASE BecomeReady
    BY <1>3 DEF BecomeReady
  <1>4. ASSUME Stopped
        PROVE  Types'
    BY <1>4 DEF Stopped
  <1>5. ASSUME NEW r \in Readers, Fetch(r)
        PROVE  Types'
    BY <1>5 DEF Fetch, TableSteps
  <1>6. ASSUME NEW r \in Readers, CommitOffset(r)
        PROVE  Types'
    BY <1>6 DEF CommitOffset, FirstStep, Working, TableSteps
  <1>7. ASSUME NEW r \in Readers, CommitOffsetFails(r)
        PROVE  Types'
    BY <1>7 DEF CommitOffsetFails, TableSteps
  <1>8. ASSUME NEW r \in LeaseReaders, Look(r)
        PROVE  Types'
    BY <1>8 DEF Look, Continue, NextStep, Readers, Working, TableSteps
  <1>9. ASSUME NEW r \in LeaseReaders, Insert(r) \/ InsertRefused(r) \/ CommitRow(r)
        PROVE  Types'
    BY <1>9 DEF Insert, InsertRefused, CommitRow, Continue, NextStep, Readers, Working, TableSteps
  <1>10. ASSUME NEW r \in LeaseReaders, SendFails(r)
         PROVE  Types'
    BY <1>10 DEF SendFails, Continue, NextStep, Readers, Working, TableSteps
  <1>11. ASSUME NEW r \in Readers, Reserve(r) \/ Raise(r)
         PROVE  Types'
    <2>1. Append(handled[r], position[r]) \in Seq(Nat)
      OBVIOUS
    <2> QED
      BY <1>11, <2>1 DEF Reserve, Reserved, Raise, TableSteps
  <1>12. ASSUME NEW r \in Readers, ReserveFails(r) \/ RaiseFails(r)
         PROVE  Types'
    BY <1>12 DEF ReserveFails, RaiseFails, TableSteps
  <1>13. CASE UNCHANGED vars
    BY <1>13 DEF vars
  <1> QED
    BY <1>1, <1>2, <1>3, <1>4, <1>5, <1>6, <1>7, <1>8, <1>9, <1>10, <1>11, <1>12, <1>13
       DEF Next, Work, Stop, RaiseTooEarly, Readers

-----------------------------------------------------------------------------
(***************************************************************************)
(* Where readers are                                                       *)
(***************************************************************************)
LEMMA NextInPlace == Types /\ InPlace /\ [Next]_vars => InPlace'
  <1> SUFFICES ASSUME Types, InPlace, [Next]_vars, NEW q \in Readers
               PROVE  Place(q)'
    BY DEF InPlace
  <1>q. Place(q)
    BY DEF InPlace
  <1> USE <1>q DEF Types, Place, consumer, tables, history
  <1>1. ASSUME NEW r \in Readers, NEW m \in LeaseMessages \cup PacketMessages, Publish(r, m)
        PROVE  Place(q)'
    <2>1. /\ topic[q] \in Seq(LeaseMessages \cup PacketMessages)
          /\ Len(topic[q]) \in Nat
          /\ Len(Append(topic[q], m)) = Len(topic[q]) + 1
      OBVIOUS
    <2>2. Len(topic'[q]) >= Len(topic[q])
      BY <1>1, <2>1 DEF Publish
    <2> QED
      BY <1>1, <2>1, <2>2 DEF Publish
  <1>2. CASE Start
    BY <1>2 DEF Start, ResumeAt
  <1>3. CASE BecomeReady
    BY <1>3 DEF BecomeReady
  <1>4. ASSUME Stopped
        PROVE  Place(q)'
    BY <1>4 DEF Stopped, Working, TableSteps
  <1>5. ASSUME NEW r \in Readers, Fetch(r)
        PROVE  Place(q)'
    <2>1. position[q] \in Nat /\ offset[q] \in Nat /\ Len(topic[q]) \in Nat
      OBVIOUS
    <2>2. \A i \in DOMAIN handled[q] : handled[q][i] \in Nat
      OBVIOUS
    <2> QED
      BY <1>5, <2>1, <2>2 DEF Fetch, Working, TableSteps
  <1>6. ASSUME NEW r \in Readers, CommitOffset(r)
        PROVE  Place(q)'
    BY <1>6 DEF CommitOffset, FirstStep, Working, TableSteps
  <1>7. ASSUME NEW r \in Readers, CommitOffsetFails(r)
        PROVE  Place(q)'
    BY <1>7 DEF CommitOffsetFails, Working, TableSteps
  <1>8. ASSUME NEW r \in LeaseReaders,
               Look(r) \/ Insert(r) \/ InsertRefused(r) \/ CommitRow(r) \/ SendFails(r)
        PROVE  Place(q)'
    <2>1. stage[r] \in TableSteps /\ r \in Readers
      BY <1>8 DEF Look, Insert, InsertRefused, CommitRow, SendFails, Readers
    <2>2. stage' \in {stage, [stage EXCEPT ![r] = NextStep(@)]}
      BY <1>8 DEF Look, Insert, InsertRefused, CommitRow, SendFails, Continue
    <2>3. UNCHANGED <<topic, offset, position, handled>>
      BY <1>8 DEF Look, Insert, InsertRefused, CommitRow, SendFails, Continue
    <2> QED
      BY <2>1, <2>2, <2>3 DEF NextStep, Working, TableSteps
  <1>9. ASSUME NEW r \in Readers, Reserve(r) \/ Raise(r)
        PROVE  Place(q)'
    <2>1. handled[r] \in Seq(Nat) /\ position[r] \in Nat
      OBVIOUS
    <2>2. \A i \in DOMAIN Append(handled[r], position[r]) :
             \/ i \in DOMAIN handled[r] /\ Append(handled[r], position[r])[i] = handled[r][i]
             \/ Append(handled[r], position[r])[i] = position[r]
      BY <2>1
    <2> QED
      BY <1>9, <2>2 DEF Reserve, Raise, Working, TableSteps
  <1>10. ASSUME NEW r \in Readers, ReserveFails(r) \/ RaiseFails(r)
         PROVE  Place(q)'
    BY <1>10 DEF ReserveFails, RaiseFails, Working, TableSteps
  <1>11. CASE UNCHANGED vars
    BY <1>11 DEF vars
  <1> QED
    BY <1>1, <1>2, <1>3, <1>4, <1>5, <1>6, <1>7, <1>8, <1>9, <1>10, <1>11
       DEF Next, Work, Stop, RaiseTooEarly, Readers

LEMMA NextOnce == Types /\ InPlace /\ EachMessageOnce /\ [Next]_vars => EachMessageOnce'
  <1> SUFFICES ASSUME Types, InPlace, EachMessageOnce, [Next]_vars
               PROVE  EachMessageOnce'
    OBVIOUS
  <1>1. CASE handled' = handled
    BY <1>1 DEF EachMessageOnce
  <1>2. ASSUME NEW r \in Readers, Reserve(r) \/ Raise(r)
        PROVE  EachMessageOnce'
    <2> DEFINE s == handled[r]
               p == position[r]
    <2>1. /\ s \in Seq(Nat) /\ p \in Nat
          /\ \A i \in DOMAIN s : s[i] < p
          /\ \A i, j \in DOMAIN s : i < j => s[i] < s[j]
      BY <1>2 DEF Types, InPlace, Place, EachMessageOnce, Reserve, Raise
    <2>2. handled' = [handled EXCEPT ![r] = Append(s, p)]
      BY <1>2 DEF Reserve, Raise
    <2> HIDE DEF s, p
    <2>3. \A i, j \in DOMAIN Append(s, p) : i < j => Append(s, p)[i] < Append(s, p)[j]
      <3>1. DOMAIN Append(s, p) = 1 .. Len(s) + 1 /\ DOMAIN s = 1 .. Len(s) /\ Len(s) \in Nat
        BY <2>1
      <3>2. /\ \A i \in 1 .. Len(s) : Append(s, p)[i] = s[i]
            /\ Append(s, p)[Len(s) + 1] = p
        BY <2>1
      <3> QED
        BY <2>1, <3>1, <3>2
    <2>4. \A q \in Readers : handled'[q] = IF q = r THEN Append(s, p) ELSE handled[q]
      BY <2>2 DEF Types
    <2> QED
      BY <2>3, <2>4 DEF EachMessageOnce
  <1> QED
    BY <1>1, <1>2
       DEF Next, Work, Publish, Start, BecomeReady, Stop, Stopped, RaiseTooEarly, vars, Fetch,
           CommitOffset, CommitOffsetFails, ReserveFails, RaiseFails, Look, Insert,
           InsertRefused, SendFails, CommitRow, history, Readers

-----------------------------------------------------------------------------
(***************************************************************************)
(* Rows and nodes                                                          *)
(***************************************************************************)

\* What a reader looks for stays the same while it works on it.
LEMMA RowStays ==
    ASSUME Types, InPlace, [Next]_vars,
           NEW o \in Readers, tx[o] # "none", tx'[o] # "none"
    PROVE  RowFor(o)' = RowFor(o)
  <1> USE DEF Types, consumer, tables, history, TableSteps
  <1>1. position[o] \in 1 .. Len(topic[o]) /\ topic[o] \in Seq(LeaseMessages \cup PacketMessages)
    <2>1. stage[o] # "idle" /\ position[o] \in Nat /\ topic[o] \in Seq(LeaseMessages \cup PacketMessages)
      OBVIOUS
    <2>2. position[o] > 0 /\ position[o] <= Len(topic[o])
      BY <2>1 DEF InPlace, Place
    <2>3. Len(topic[o]) \in Nat
      BY <2>1
    <2> QED
      BY <2>1, <2>2, <2>3
  <1>2. stage[o] \in TableSteps
    OBVIOUS
  <1> SUFFICES stage'[o] = stage[o] /\ topic'[o][position'[o]] = topic[o][position[o]]
    BY DEF RowFor, Current
  <1>3. ASSUME NEW r \in Readers, NEW m \in LeaseMessages \cup PacketMessages, Publish(r, m)
        PROVE  stage'[o] = stage[o] /\ topic'[o][position'[o]] = topic[o][position[o]]
    BY <1>1, <1>3 DEF Publish
  <1>4. CASE Start \/ BecomeReady \/ Stopped
    BY <1>2, <1>4 DEF Start, BecomeReady, Stopped
  <1>5. ASSUME NEW r \in Readers,
               Fetch(r) \/ CommitOffset(r) \/ CommitOffsetFails(r) \/ Reserve(r)
                 \/ ReserveFails(r) \/ Raise(r) \/ RaiseFails(r)
        PROVE  stage'[o] = stage[o] /\ topic'[o][position'[o]] = topic[o][position[o]]
    BY <1>2, <1>5
       DEF Fetch, CommitOffset, CommitOffsetFails, Reserve, ReserveFails, Raise, RaiseFails
  <1>6. ASSUME NEW r \in LeaseReaders,
               Look(r) \/ Insert(r) \/ InsertRefused(r) \/ SendFails(r) \/ CommitRow(r)
        PROVE  stage'[o] = stage[o] /\ topic'[o][position'[o]] = topic[o][position[o]]
    BY <1>2, <1>6
       DEF Look, Insert, InsertRefused, SendFails, CommitRow, Continue, Readers
  <1>7. CASE UNCHANGED vars
    BY <1>7 DEF vars
  <1> QED
    BY <1>3, <1>4, <1>5, <1>6, <1>7 DEF Next, Work, Stop, RaiseTooEarly, Readers

\* Steps that leave the rows of the database and of the nodes alone.
Quiet ==
    /\ UNCHANGED <<known, nodeKnows, spoilt>>
    /\ \A o \in Readers : tx'[o] = "sent" <=> tx[o] = "sent"

LEMMA QuietSteps ==
    ASSUME Types,
           \/ \E r \in Readers, m \in LeaseMessages \cup PacketMessages : Publish(r, m)
           \/ Start \/ BecomeReady \/ UNCHANGED vars
           \/ \E r \in Readers : \/ Fetch(r) \/ CommitOffset(r) \/ CommitOffsetFails(r)
                                 \/ Reserve(r) \/ ReserveFails(r) \/ Raise(r) \/ RaiseFails(r)
           \/ \E r \in LeaseReaders : Look(r) \/ InsertRefused(r)
    PROVE  Quiet
  <1> USE DEF Types, consumer, tables, history, Quiet
  <1>1. CASE \/ \E r \in Readers, m \in LeaseMessages \cup PacketMessages : Publish(r, m)
             \/ Start \/ BecomeReady \/ UNCHANGED vars
             \/ \E r \in Readers : \/ Fetch(r) \/ CommitOffset(r) \/ CommitOffsetFails(r)
                                   \/ Reserve(r) \/ ReserveFails(r) \/ Raise(r) \/ RaiseFails(r)
    BY <1>1 DEF Publish, Start, BecomeReady, vars, Fetch, CommitOffset, CommitOffsetFails,
                Reserve, ReserveFails, Raise, RaiseFails
  <1>2. CASE \E r \in LeaseReaders : Look(r) \/ InsertRefused(r)
    BY <1>2 DEF Look, InsertRefused, Continue, Readers
  <1> QED
    BY <1>1, <1>2

LEMMA NextNodes == Types /\ InPlace /\ SentIsKnown /\ [Next]_vars => SentIsKnown'
  <1> SUFFICES ASSUME Types, InPlace, SentIsKnown, [Next]_vars
               PROVE  SentIsKnown'
    OBVIOUS
  <1>rows. \A o \in Readers : tx[o] = "sent" /\ tx'[o] = "sent" => RowFor(o)' = RowFor(o)
    BY RowStays
  <1>1. CASE Quiet
    BY <1>1, <1>rows DEF Quiet, SentIsKnown, NodesKnowRows, Readers
  <1>2. CASE Stopped
    <2>1. \A o \in Readers : tx'[o] = "none"
      BY <1>2 DEF Stopped
    <2>2. UNCHANGED <<known, nodeKnows>>
      BY <1>2 DEF Stopped, tables
    <2>3. spoilt' = spoilt \cup {RowFor(r) : r \in {l \in LeaseReaders : tx[l] = "sent"}}
      BY <1>2 DEF Stopped
    <2> QED
      BY <2>1, <2>2, <2>3 DEF SentIsKnown, NodesKnowRows, Readers
  <1>3. ASSUME NEW r \in LeaseReaders, Insert(r)
        PROVE  SentIsKnown'
    <2>1. r \in Readers /\ tx[r] = "looked" /\ tx' = [tx EXCEPT ![r] = "sent"]
      BY <1>3 DEF Insert, Readers
    <2>2. \A o \in Readers : tx'[o] = IF o = r THEN "sent" ELSE tx[o]
      BY <2>1 DEF Types
    <2>3. RowFor(r)' = RowFor(r)
      BY <2>1, <2>2, RowStays
    <2>4. UNCHANGED <<known, spoilt>> /\ nodeKnows' = nodeKnows \cup {RowFor(r)}
      BY <1>3 DEF Insert, history
    <2>5. \A o \in LeaseReaders :
             /\ tx[o] = "sent" => tx'[o] = "sent" /\ RowFor(o)' = RowFor(o)
             /\ tx'[o] = "sent" => RowFor(o)' \in nodeKnows'
      BY <1>rows, <2>1, <2>2, <2>3, <2>4 DEF SentIsKnown, Readers
    <2>6. tx'[r] = "sent"
      BY <2>1, <2>2
    <2> QED
      BY <2>3, <2>4, <2>5, <2>6 DEF SentIsKnown, NodesKnowRows
  <1>4. ASSUME NEW r \in LeaseReaders, SendFails(r)
        PROVE  SentIsKnown'
    <2>1. r \in Readers /\ tx[r] = "looked" /\ tx' = [tx EXCEPT ![r] = "none"]
      BY <1>4 DEF SendFails, Continue, Readers
    <2>2. \A o \in Readers : tx'[o] = IF o = r THEN "none" ELSE tx[o]
      BY <2>1 DEF Types
    <2>3. RowFor(r) \notin known /\ known' = known
      BY <1>4 DEF SendFails, AfterFailure
    <2>4. \/ nodeKnows' \in {nodeKnows, nodeKnows \ {RowFor(r)}} /\ spoilt' = spoilt
          \/ nodeKnows' = nodeKnows \cup {RowFor(r)} /\ spoilt' = spoilt \cup {RowFor(r)}
      BY <1>4 DEF SendFails
    <2>5. \A o \in LeaseReaders \ {r} : tx[o] = "sent" => RowFor(o) # RowFor(r)
      BY <1>4 DEF SendFails, Unlocked
    <2> QED
      BY <1>rows, <2>1, <2>2, <2>3, <2>4, <2>5 DEF SentIsKnown, NodesKnowRows, Readers
  <1>5. ASSUME NEW r \in LeaseReaders, CommitRow(r)
        PROVE  SentIsKnown'
    <2>1. r \in Readers /\ tx[r] = "sent" /\ tx' = [tx EXCEPT ![r] = "none"]
      BY <1>5 DEF CommitRow, Continue, Readers
    <2>2. \A o \in Readers : tx'[o] = IF o = r THEN "none" ELSE tx[o]
      BY <2>1 DEF Types
    <2>3. known' = known \cup {RowFor(r)} /\ UNCHANGED <<nodeKnows, spoilt>>
      BY <1>5 DEF CommitRow, history
    <2>4. ASSUME NEW o \in LeaseReaders, tx[o] = "sent"
          PROVE  RowFor(o) \in known'
                    \cup {RowFor(l)' : l \in {l \in LeaseReaders : tx'[l] = "sent"}}
      BY <1>rows, <2>2, <2>3, <2>4 DEF Readers
    <2>5. known' \subseteq nodeKnows'
      BY <2>1, <2>3 DEF SentIsKnown, NodesKnowRows, Readers
    <2>6. \A o \in LeaseReaders : tx'[o] = "sent" => RowFor(o)' \in nodeKnows'
      BY <1>rows, <2>2, <2>3 DEF SentIsKnown, Readers
    <2> QED
      BY <2>3, <2>4, <2>5, <2>6 DEF SentIsKnown, NodesKnowRows
  <1> QED
    BY <1>1, <1>2, <1>3, <1>4, <1>5, QuietSteps DEF Next, Work, Stop, RaiseTooEarly, Readers

-----------------------------------------------------------------------------
(***************************************************************************)
(* Rows that are looked for                                                *)
(***************************************************************************)
LEMMA NextTogether == Types /\ InPlace /\ LookedTogether /\ [Next]_vars => LookedTogether'
  <1> SUFFICES ASSUME Types, InPlace, LookedTogether, [Next]_vars
               PROVE  LookedTogether'
    OBVIOUS
  <1>rows. \A o \in Readers : tx[o] # "none" /\ tx'[o] # "none" => RowFor(o)' = RowFor(o)
    BY RowStays
  <1>keys. \A o \in Readers : tx[o] # "none" /\ tx'[o] # "none" => KeyOf(RowFor(o)') = KeyOf(RowFor(o))
    BY <1>rows
  \* No reader begins to look, and nothing is recorded.
  <1>1. ASSUME UNCHANGED <<known, raced>>,
               \A o \in Readers : tx'[o] # "none" => tx[o] # "none"
        PROVE  LookedTogether'
    BY <1>1, <1>keys DEF LookedTogether, RecordedOnce, KeyOf
  <1>2. ASSUME NEW r \in LeaseReaders, Look(r)
        PROVE  LookedTogether'
    <2>1. r \in Readers /\ known' = known /\ raced \subseteq raced' /\ tx[r] = "none"
      BY <1>2 DEF Look, tables, Readers
    <2>2. CASE tx' = [tx EXCEPT ![r] = "none"]
      <3>1. raced' = raced
        BY <1>2, <2>1, <2>2 DEF Look, Types
      <3> QED
        BY <1>1, <2>1, <2>2, <3>1 DEF Types
    <2>3. CASE tx' = [tx EXCEPT ![r] = "looked"]
      <3> DEFINE key == KeyOf(RowFor(r))
      <3>1. /\ UNCHANGED <<stage, topic, position>>
            /\ ~Exists(RowFor(r))
            /\ raced' = raced \cup {k \in {key} : \E o \in Readers \ {r} : LookingFor(o, k)}
        BY <1>2, <2>1, <2>3 DEF Look, Continue, Types
      <3>2. \A o \in Readers : RowFor(o)' = RowFor(o)
        BY <3>1 DEF RowFor, Current
      <3>3. \A o \in Readers : KeyOf(RowFor(o))' = KeyOf(RowFor(o))
        BY <3>2 DEF KeyOf
      <3>4. \A k \in known : KeyOf(k) # key
        BY <3>1 DEF Exists
      <3>5. \A o \in Readers \ {r} : tx[o] # "none" /\ KeyOf(RowFor(o)) = key => key \in raced'
        BY <3>1 DEF LookingFor, Types
      <3>6. \A o \in Readers \ {r} : tx'[o] = tx[o]
        BY <2>3 DEF Types
      <3> HIDE DEF key
      <3>7. \A k \in known' : \A o \in Readers :
               tx'[o] # "none" /\ KeyOf(k) = KeyOf(RowFor(o))' => KeyOf(k) \in raced'
        BY <2>1, <3>3, <3>4, <3>6 DEF LookedTogether, key
      <3>8. ASSUME NEW l \in Readers, NEW o \in Readers \ {l}, tx'[l] # "none", tx'[o] # "none",
                   KeyOf(RowFor(o))' = KeyOf(RowFor(l))'
            PROVE  KeyOf(RowFor(l))' \in raced'
        BY <2>1, <3>3, <3>5, <3>6, <3>8 DEF LookedTogether, key
      <3> QED
        BY <2>1, <3>7, <3>8 DEF LookedTogether, RecordedOnce, KeyOf
    <2> QED
      BY <1>2, <2>2, <2>3 DEF Look, Continue
  <1>3. ASSUME NEW r \in LeaseReaders, CommitRow(r)
        PROVE  LookedTogether'
    <2>1. /\ r \in Readers /\ tx[r] = "sent" /\ raced' = raced
          /\ tx' = [tx EXCEPT ![r] = "none"] /\ known' = known \cup {RowFor(r)}
      BY <1>3 DEF CommitRow, Continue, history, Readers
    <2>2. \A o \in Readers : tx'[o] = IF o = r THEN "none" ELSE tx[o]
      BY <2>1 DEF Types
    <2>3. \A o \in Readers : tx'[o] # "none" => RowFor(o)' = RowFor(o)
      BY <1>rows, <2>2
    <2>4. RecordedOnce'
      BY <2>1 DEF LookedTogether, RecordedOnce
    <2>5. ASSUME NEW o \in Readers, tx'[o] # "none", NEW k \in known', KeyOf(k) = KeyOf(RowFor(o))
          PROVE  KeyOf(k) \in raced
      BY <2>1, <2>2, <2>5 DEF LookedTogether
    <2> QED
      BY <2>1, <2>2, <2>3, <2>4, <2>5 DEF LookedTogether, KeyOf
  <1>4. ASSUME NEW r \in Readers,
               \/ \E m \in LeaseMessages \cup PacketMessages : Publish(r, m)
               \/ Fetch(r) \/ CommitOffset(r) \/ CommitOffsetFails(r)
               \/ Reserve(r) \/ ReserveFails(r) \/ Raise(r) \/ RaiseFails(r)
        PROVE  LookedTogether'
    BY <1>1, <1>4 DEF Publish, Fetch, CommitOffset, CommitOffsetFails, Reserve, ReserveFails,
                      Raise, RaiseFails, consumer, tables, history
  <1>5. CASE Start \/ BecomeReady \/ Stopped \/ UNCHANGED vars
    BY <1>1, <1>5 DEF Start, BecomeReady, Stopped, vars, consumer, tables, history
  <1>6. ASSUME NEW r \in LeaseReaders, Insert(r) \/ InsertRefused(r) \/ SendFails(r)
        PROVE  LookedTogether'
    <2>1. UNCHANGED <<known, raced>> /\ tx[r] = "looked" /\ r \in Readers
      BY <1>6 DEF Insert, InsertRefused, SendFails, AfterFailure, tables, history, Readers
    <2>2. tx' \in {[tx EXCEPT ![r] = "sent"], [tx EXCEPT ![r] = "none"]}
      BY <1>6 DEF Insert, InsertRefused, SendFails, Continue
    <2> QED
      BY <1>1, <2>1, <2>2 DEF Types
  <1> QED
    BY <1>2, <1>3, <1>4, <1>5, <1>6 DEF Next, Work, Stop, RaiseTooEarly, Readers

-----------------------------------------------------------------------------
(***************************************************************************)
(* Readers that nothing failed for                                         *)
(***************************************************************************)
LEMMA RequestedNext ==
    ASSUME NEW r, NEW n \in Nat
    PROVE  RequestedIn(r, n + 1) <=>
              \/ topic[r][n + 1].request = "Request"
              \/ topic[r][n + 1].request # "Decline" /\ RequestedIn(r, n)
  <1>1. 1 .. (n + 1) = (1 .. n) \cup {n + 1}
    OBVIOUS
  <1>2. \A j \in 1 .. n : j < n + 1 /\ ~(j > n + 1)
    OBVIOUS
  <1>3. ~(n + 1 > n + 1) /\ \A i \in 1 .. n : n + 1 > i
    OBVIOUS
  <1> QED
    BY <1>1, <1>2, <1>3 DEF RequestedIn

LEMMA CountOn ==
    ASSUME NEW n \in Nat
    PROVE  Append([i \in 1 .. n |-> i], n + 1) = [i \in 1 .. n + 1 |-> i]
  <1> DEFINE s == [i \in 1 .. n |-> i]
  <1>1. s \in Seq(Nat) /\ Len(s) = n
    OBVIOUS
  <1>2. DOMAIN Append(s, n + 1) = 1 .. n + 1
    BY <1>1
  <1>3. \A i \in 1 .. n + 1 : Append(s, n + 1)[i] = i
    BY <1>1
  <1>4. Append(s, n + 1) \in Seq(Nat)
    BY <1>1
  <1> HIDE DEF s
  <1>5. Append(s, n + 1) = [i \in 1 .. n + 1 |-> Append(s, n + 1)[i]]
    BY <1>2, <1>4
  <1> QED
    BY <1>3, <1>5 DEF s

LEMMA ReservedMeans ==
    ASSUME NEW r \in LeaseReaders, Types
    PROVE  [reservation EXCEPT ![r] = Reserved(r, @)][r]
              <=> \/ Current(r).request = "Request"
                  \/ Current(r).request # "Decline" /\ reservation[r]
  <1>1. reservation \in [LeaseReaders -> BOOLEAN]
    BY DEF Types
  <1>2. [reservation EXCEPT ![r] = Reserved(r, @)][r] = Reserved(r, reservation[r])
    BY <1>1
  <1>3. Reserved(r, reservation[r])
              <=> \/ Current(r).request = "Request"
                  \/ Current(r).request # "Decline" /\ reservation[r]
    BY <1>1 DEF Reserved
  <1> QED
    BY <1>2, <1>3

\* What a step that leaves a reader as it is leaves as it is.
LEMMA SmoothStays ==
    ASSUME Types, InPlace, NEW q \in Readers, Smooth(q),
           topic'[q] = topic[q], stage'[q] \in Working <=> stage[q] \in Working,
           offset'[q] = offset[q], handled'[q] = handled[q],
           q \in LeaseReaders => (reservation'[q] <=> reservation[q]),
           stage'[q] = "idle" => position'[q] = offset'[q],
           stage'[q] = "fetched" => position'[q] = offset'[q] + 1
    PROVE  Smooth(q)'
  <1>1. Handled(q)' = Handled(q)
    BY DEF Handled
  <1>2. \A n : RequestedIn(q, n)' <=> RequestedIn(q, n)
    BY DEF RequestedIn
  <1> QED
    BY <1>1, <1>2 DEF Smooth

LEMMA NextSmooth == Types /\ InPlace /\ UndisturbedIsSmooth /\ [Next]_vars => UndisturbedIsSmooth'
  <1> SUFFICES ASSUME Types, InPlace, UndisturbedIsSmooth, [Next]_vars,
                      NEW q \in Readers, q \notin disturbed'
               PROVE  Smooth(q)'
    BY DEF UndisturbedIsSmooth
  <1>d. q \notin disturbed
    BY DEF Next, Work, Publish, Start, BecomeReady, Stop, Stopped, RaiseTooEarly, vars, Fetch,
           CommitOffset, CommitOffsetFails, Reserve, ReserveFails, Raise, RaiseFails, Look,
           Insert, InsertRefused, SendFails, CommitRow, history
  <1>s. Smooth(q)
    BY <1>d DEF UndisturbedIsSmooth
  <1>p. /\ position[q] \in Nat /\ offset[q] \in Nat /\ Len(topic[q]) \in Nat
        /\ offset[q] <= Len(topic[q])
        /\ stage[q] \in Working => offset[q] = position[q] /\ position[q] > 0
    <2>1. topic[q] \in Seq(LeaseMessages \cup PacketMessages)
      BY DEF Types
    <2>2. position[q] \in Nat /\ offset[q] \in Nat /\ Len(topic[q]) \in Nat
      BY <2>1 DEF Types
    <2> QED
      BY <2>2 DEF InPlace, Place, Working, TableSteps
  <1>n. /\ Handled(q) \in Nat /\ Handled(q) <= Len(topic[q])
        /\ stage[q] \in Working => offset[q] = Handled(q) + 1
    BY <1>p DEF Handled
  <1> USE DEF consumer, tables, history, Types
  <1>1. ASSUME NEW r \in Readers, NEW m \in LeaseMessages \cup PacketMessages, Publish(r, m)
        PROVE  Smooth(q)'
    <2>1. CASE q # r
      BY <1>1, <1>s, <2>1, SmoothStays DEF Publish, Smooth
    <2>2. CASE q = r
      <3>1. /\ topic[q] \in Seq(LeaseMessages \cup PacketMessages)
            /\ topic'[q] = Append(topic[q], m)
            /\ Handled(q) \in Nat /\ Handled(q) <= Len(topic[q])
        BY <1>1, <1>n, <2>2 DEF Publish
      <3>2. \A i \in 1 .. Handled(q) : topic'[q][i] = topic[q][i]
        BY <3>1
      <3>3. RequestedIn(q, Handled(q))' <=> RequestedIn(q, Handled(q))
        <4>1. Handled(q)' = Handled(q)
          BY <1>1 DEF Handled, Publish
        <4> QED
          BY <3>2, <4>1 DEF RequestedIn
      <3>4. /\ UNCHANGED <<stage, position, offset, handled, reservation>>
            /\ Handled(q)' = Handled(q)
        BY <1>1 DEF Publish, Handled
      <3> QED
        BY <1>s, <3>3, <3>4 DEF Smooth
    <2> QED
      BY <2>1, <2>2
  <1>2. CASE Start \/ BecomeReady \/ UNCHANGED vars
    <2>1. CASE Start
      BY <1>s, <2>1, SmoothStays DEF Start, ResumeAt, Smooth
    <2>2. CASE BecomeReady \/ UNCHANGED vars
      BY <1>s, <2>2, SmoothStays DEF BecomeReady, vars, Smooth
    <2> QED
      BY <1>2, <2>1, <2>2
  <1>3. ASSUME Stopped
        PROVE  Smooth(q)'
    <2>1. stage[q] = "idle"
      BY <1>3 DEF Stopped
    <2> QED
      BY <1>3, <1>s, <2>1, SmoothStays DEF Stopped, Smooth
  <1>4. ASSUME NEW r \in Readers, Fetch(r)
        PROVE  Smooth(q)'
    BY <1>4, <1>s, SmoothStays DEF Fetch, Smooth, Working, TableSteps
  <1>5. ASSUME NEW r \in Readers, CommitOffset(r)
        PROVE  Smooth(q)'
    <2>1. CASE q # r
      BY <1>5, <1>s, <2>1, SmoothStays DEF CommitOffset, Smooth
    <2>2. CASE q = r
      <3>1. stage[q] = "fetched" /\ stage'[q] \in Working
        BY <1>5, <2>2 DEF CommitOffset, FirstStep, Working, TableSteps
      <3>2. offset'[q] = offset[q] + 1 /\ UNCHANGED <<topic, handled, reservation>>
        BY <1>5, <1>s, <2>2, <3>1 DEF CommitOffset, Smooth
      <3>3. Handled(q)' = Handled(q)
        BY <3>1, <3>2 DEF Handled, Working, TableSteps
      <3>4. RequestedIn(q, Handled(q))' <=> RequestedIn(q, Handled(q))
        BY <3>2, <3>3 DEF RequestedIn
      <3> QED
        BY <1>s, <3>1, <3>2, <3>3, <3>4 DEF Smooth, Working, TableSteps
    <2> QED
      BY <2>1, <2>2
  <1>6. ASSUME NEW r \in Readers, CommitOffsetFails(r) \/ ReserveFails(r) \/ RaiseFails(r)
        PROVE  Smooth(q)'
    <2>1. q # r
      BY <1>6 DEF CommitOffsetFails, ReserveFails, RaiseFails
    <2> QED
      BY <1>6, <1>s, <2>1, SmoothStays DEF CommitOffsetFails, ReserveFails, RaiseFails, Smooth
  <1>7. ASSUME NEW r \in LeaseReaders,
               Look(r) \/ Insert(r) \/ InsertRefused(r) \/ SendFails(r) \/ CommitRow(r)
        PROVE  Smooth(q)'
    <2>1. stage[r] \in TableSteps /\ r \in Readers
      BY <1>7 DEF Look, Insert, InsertRefused, SendFails, CommitRow, Readers
    <2>2. stage' \in {stage, [stage EXCEPT ![r] = NextStep(@)]}
      BY <1>7 DEF Look, Insert, InsertRefused, SendFails, CommitRow, Continue
    <2>3. UNCHANGED <<topic, offset, position, handled, reservation>>
      BY <1>7 DEF Look, Insert, InsertRefused, SendFails, CommitRow
    <2>4. /\ stage'[q] \in Working <=> stage[q] \in Working
          /\ stage'[q] \in {"idle", "fetched"} => stage'[q] = stage[q]
      BY <2>1, <2>2 DEF NextStep, Working, TableSteps
    <2> QED
      BY <1>s, <2>3, <2>4, SmoothStays DEF Smooth
  <1>8. ASSUME NEW r \in LeaseReaders, Reserve(r)
        PROVE  Smooth(q)'
    <2>1. CASE q # r
      BY <1>8, <1>s, <2>1, SmoothStays DEF Reserve, Smooth, Readers
    <2>2. CASE q = r
      <3> DEFINE n == Handled(q)
      <3>1. stage[q] = "reserve" /\ stage'[q] = "idle"
        BY <1>8, <2>2 DEF Reserve
      <3>2. /\ n \in Nat /\ offset[q] = n + 1 /\ position[q] = n + 1
            /\ UNCHANGED <<topic, offset, position>>
        BY <1>8, <1>n, <1>p, <3>1 DEF Reserve, Working
      <3>3. Handled(q)' = n + 1
        BY <3>1, <3>2 DEF Handled, Working, TableSteps
      <3>4. handled'[q] = [i \in 1 .. n + 1 |-> i]
        BY <1>8, <1>s, <2>2, <3>2, CountOn DEF Reserve, Smooth
      <3>5. reservation'[q]
              <=> \/ topic[q][n + 1].request = "Request"
                  \/ topic[q][n + 1].request # "Decline" /\ reservation[q]
        BY <1>8, <2>2, <3>2, ReservedMeans DEF Reserve, Current
      <3>6. RequestedIn(q, Handled(q))' <=> RequestedIn(q, n + 1)
        BY <3>2, <3>3 DEF RequestedIn
      <3>7. reservation[q] <=> RequestedIn(q, n)
        BY <1>s, <2>2 DEF Smooth
      <3>8. RequestedIn(q, n + 1)
              <=> \/ topic[q][n + 1].request = "Request"
                  \/ topic[q][n + 1].request # "Decline" /\ RequestedIn(q, n)
        BY <3>2, RequestedNext
      <3>9. reservation'[q] <=> RequestedIn(q, Handled(q))'
        BY <3>5, <3>6, <3>7, <3>8
      <3> QED
        BY <3>1, <3>2, <3>3, <3>4, <3>9 DEF Smooth
    <2> QED
      BY <2>1, <2>2
  <1>9. ASSUME NEW r \in PacketReaders, Raise(r)
        PROVE  Smooth(q)'
    <2>1. CASE q # r
      BY <1>9, <1>s, <2>1, SmoothStays DEF Raise, Smooth, Readers
    <2>2. CASE q = r
      <3> DEFINE n == Handled(q)
      <3>1. stage[q] = "alarm" /\ stage'[q] = "idle"
        BY <1>9, <2>2 DEF Raise
      <3>2. /\ n \in Nat /\ offset[q] = n + 1 /\ position[q] = n + 1
            /\ UNCHANGED <<offset, position>>
        BY <1>9, <1>n, <1>p, <3>1 DEF Raise, Working
      <3>3. Handled(q)' = n + 1
        BY <3>1, <3>2 DEF Handled, Working, TableSteps
      <3>4. handled'[q] = [i \in 1 .. n + 1 |-> i]
        BY <1>9, <1>s, <2>2, <3>2, CountOn DEF Raise, Smooth
      <3>5. q \notin LeaseReaders
        BY <2>2, ConsumersAssumption
      <3> QED
        BY <3>1, <3>2, <3>3, <3>4, <3>5 DEF Smooth
    <2> QED
      BY <2>1, <2>2
  <1> QED
    BY <1>1, <1>2, <1>3, <1>4, <1>5, <1>6, <1>7, <1>8, <1>9
       DEF Next, Work, Stop, RaiseTooEarly, Readers

-----------------------------------------------------------------------------
(***************************************************************************)
(* The theorems                                                            *)
(***************************************************************************)
IInv ==
    /\ Types
    /\ InPlace
    /\ EachMessageOnce
    /\ SentIsKnown
    /\ LookedTogether
    /\ UndisturbedIsSmooth

LEMMA InitIInv == Init => IInv
  <1> SUFFICES ASSUME Init PROVE IInv
    OBVIOUS
  <1>1. Types
    BY InitTypes
  <1>2. \A r \in Readers : /\ topic[r] = <<>> /\ handled[r] = <<>> /\ offset[r] = 0
                           /\ position[r] = 0 /\ stage[r] = "idle" /\ tx[r] = "none"
                           /\ Handled(r) = 0
    BY DEF Init, Handled, Working, TableSteps
  <1>3. InPlace /\ EachMessageOnce
    BY <1>2 DEF InPlace, Place, EachMessageOnce, Working, TableSteps
  <1>4. SentIsKnown /\ LookedTogether
    BY <1>2 DEF Init, SentIsKnown, NodesKnowRows, LookedTogether, RecordedOnce, Readers
  <1>5. \A r \in LeaseReaders : ~reservation[r]
    BY DEF Init
  <1>6. ASSUME NEW r \in Readers
        PROVE  Smooth(r)
    <2>1. ~RequestedIn(r, 0)
      BY DEF RequestedIn
    <2>2. handled[r] = [i \in 1 .. 0 |-> i]
      BY <1>2
    <2> QED
      BY <1>2, <1>5, <2>1, <2>2 DEF Smooth
  <1> QED
    BY <1>1, <1>3, <1>4, <1>6 DEF IInv, UndisturbedIsSmooth

LEMMA Invariant == Spec => []IInv
  <1>1. IInv /\ [Next]_vars => IInv'
    BY NextTypes, NextInPlace, NextOnce, NextNodes, NextTogether, NextSmooth DEF IInv
  <1> QED
    BY InitIInv, <1>1, PTL DEF Spec

\* A message is handled at most once, and those of a topic in their order,
\* whatever fails and however often the process is stopped.
THEOREM MessagesAreHandledOnce == Spec => []EachMessageOnce
  BY Invariant, PTL DEF IInv

\* Nodes are told of every recorded row, and of nothing but what is on its way
\* or what a failure has left with them.
THEOREM NodesAlwaysKnowRows == Spec => []NodesKnowRows
  <1>1. IInv => NodesKnowRows
    BY DEF IInv, SentIsKnown
  <1> QED
    BY Invariant, <1>1, PTL

\* A fingerprint or OUI is recorded once, unless two readers looked for it
\* together.
THEOREM RowsAreRecordedOnce == Spec => []RecordedOnce
  <1>1. IInv => RecordedOnce
    BY DEF IInv, LookedTogether
  <1> QED
    BY Invariant, <1>1, PTL

\* A topic read without a failure has had each message handled, and the
\* address is reserved as its last word says.
THEOREM UndisturbedTopicsAreHandled == Spec => []UndisturbedTopicIsHandled
  <1>1. IInv => UndisturbedTopicIsHandled
    <2> SUFFICES ASSUME IInv, NEW r \in Readers \ disturbed,
                        stage[r] = "idle", offset[r] = Len(topic[r])
                 PROVE  /\ handled[r] = [i \in 1 .. offset[r] |-> i]
                        /\ r \in LeaseReaders => (reservation[r] <=> RequestedLast(r))
      BY DEF UndisturbedTopicIsHandled
    <2>1. Smooth(r) /\ Handled(r) = offset[r]
      BY DEF IInv, UndisturbedIsSmooth, Handled, Working, TableSteps
    <2>2. topic[r] \in Seq(LeaseMessages \cup PacketMessages)
      BY DEF IInv, Types
    <2>3. DOMAIN topic[r] = 1 .. offset[r]
      BY <2>2
    <2>4. RequestedIn(r, offset[r]) <=> RequestedLast(r)
      BY <2>3 DEF RequestedIn, RequestedLast
    <2> QED
      BY <2>1, <2>4 DEF Smooth
  <1> QED
    BY Invariant, <1>1, PTL

-----------------------------------------------------------------------------
(***************************************************************************)
(* The scan: its invariant                                                 *)
(***************************************************************************)
Nodes46 == WardenIps \cup AgentIps

ScanTypes ==
    /\ step \in {"wait", "exchange", "nodes", "alarm"}
    /\ scan \in 0 .. MaxScans /\ (step # "wait" => scan > 0)
    /\ turn \in DOMAIN Clients
    /\ reader = [x \in Xids |-> reader[x]]
    /\ air \subseteq Answers
    /\ partial \in BOOLEAN

\* A server has answered this scan, or sent a relay message to it.
Heard(s) == s \in relayed \/ \E i \in DOMAIN Clients : <<s, <<scan, i>>>> \in air

\* The reader of the present exchange has been started for it, and has kept
\* only answers to it.
ReaderIsHonest ==
    step = "exchange" /\ Is4 /\ reader[Xid] # Ended =>
        /\ reader[Xid] = [f \in {"at", "open", "got", "list", "new"} |-> reader[Xid][f]]
        /\ \A s \in reader[Xid].list \cup reader[Xid].new : <<s, Xid>> \in air

AllAnswered == \A s \in servers \cup illegal \cup alarms : Heard(s)

\* What is found is the matter of one scan.
FoundInScan == step = "wait" => illegal = {}

IllegalAreForeign == ~partial => (illegal \cup alarms) \cap Nodes46 = {}

ScanIInv == ScanTypes /\ ReaderIsHonest /\ AllAnswered /\ FoundInScan /\ IllegalAreForeign

-----------------------------------------------------------------------------
LEMMA XidType ==
    ASSUME ScanTypes
    PROVE  /\ \A i \in DOMAIN Clients : step # "wait" => <<scan, i>> \in Xids
           /\ \A i \in DOMAIN Clients : scan < MaxScans => <<scan + 1, i>> \in Xids
           /\ 1 \in DOMAIN Clients
           /\ turn < Len(Clients) => turn + 1 \in DOMAIN Clients
           /\ step # "wait" => Latest(turn) = Xid
  <1> USE ScanAssumption DEF ScanTypes
  <1>1. DOMAIN Clients = 1 .. Len(Clients) /\ Len(Clients) \in Nat \ {0}
    OBVIOUS
  <1>2. \A i \in DOMAIN Clients : step # "wait" => <<scan, i>> \in Xids
    BY DEF Xids
  <1>3. step # "wait" => Latest(turn) = Xid
    <2>1. step # "wait" => <<scan, turn>> \in Sent
      BY <1>1, <1>2 DEF Sent
    <2> QED
      BY <2>1 DEF Latest, Xid
  <1> QED
    BY <1>1, <1>2, <1>3 DEF Xids

LEMMA ScanInitIInv == ScanInit => ScanIInv
  <1> SUFFICES ASSUME ScanInit PROVE ScanIInv
    OBVIOUS
  <1>1. 1 \in DOMAIN Clients /\ MaxScans \in Nat
    BY ScanAssumption
  <1>2. reader = [x \in Xids |-> reader[x]]
    BY DEF ScanInit
  <1>3. ScanTypes
    <2>1. scan \in 0 .. MaxScans /\ step = "wait" /\ turn = 1 /\ air = {} /\ partial = FALSE
      BY <1>1 DEF ScanInit
    <2> QED
      BY <1>1, <1>2, <2>1 DEF ScanTypes
  <1> QED
    BY <1>3 DEF ScanInit, ScanIInv, ReaderIsHonest, AllAnswered, FoundInScan, IllegalAreForeign

\* An exchange ends and another one begins, or none.
LEMMA ContinueKeeps ==
    ASSUME ScanTypes, step # "wait", NEW done, done = [x \in Xids |-> done[x]], NextClient(done)
    PROVE  /\ reader' = [x \in Xids |-> reader'[x]]
           /\ step' \in {"exchange", "alarm"} /\ turn' \in DOMAIN Clients
           /\ servers' = {}
           /\ step' = "exchange" /\ Clients[turn'] = 4 => reader'[<<scan, turn'>>] = Started
  <1>1. CASE turn < Len(Clients)
    <2>1. turn + 1 \in DOMAIN Clients /\ <<scan, turn + 1>> \in Xids
      BY <1>1, XidType
    <2> QED
      BY <1>1, <2>1 DEF NextClient
  <1>2. CASE ~(turn < Len(Clients))
    BY <1>2 DEF NextClient, ScanTypes
  <1> QED
    BY <1>1, <1>2

\* Steps that begin an exchange, or go on to the alarms.
LEMMA ContinueIInv ==
    ASSUME ScanIInv, step # "wait", NEW done, done = [x \in Xids |-> done[x]], NextClient(done),
           UNCHANGED <<scan, air, alarms, relayed>>,
           \A s \in illegal' : Heard(s),
           partial' \in BOOLEAN,
           ~partial' => (illegal' \cup alarms) \cap Nodes46 = {}
    PROVE  ScanIInv'
  <1>1. /\ reader' = [x \in Xids |-> reader'[x]]
        /\ step' \in {"exchange", "alarm"} /\ turn' \in DOMAIN Clients
        /\ servers' = {}
        /\ step' = "exchange" /\ Clients[turn'] = 4 => reader'[<<scan, turn'>>] = Started
    BY ContinueKeeps DEF ScanIInv
  <1>2. ScanTypes'
    BY <1>1 DEF ScanIInv, ScanTypes
  <1>3. ReaderIsHonest'
    BY <1>1 DEF ReaderIsHonest, Is4, Xid, Started
  <1>4. AllAnswered'
    BY <1>1 DEF ScanIInv, AllAnswered, Heard
  <1> QED
    BY <1>1, <1>2, <1>3, <1>4 DEF ScanIInv, FoundInScan, IllegalAreForeign

LEMMA StoppedType == ASSUME ScanTypes PROVE ReaderStopped = [x \in Xids |-> ReaderStopped[x]]
  BY DEF ScanTypes, ReaderStopped

\* What a reader does to itself: the present one keeps to its exchange.
LEMMA ReaderIInv ==
    ASSUME ScanIInv, NEW x \in Xids, NEW new, Reader(x, new),
           new # Ended /\ step = "exchange" /\ Is4 /\ x = Xid /\ reader[Xid] # Ended =>
               /\ new = [f \in {"at", "open", "got", "list", "new"} |-> new[f]]
               /\ \A s \in new.list \cup new.new : <<s, Xid>> \in air,
           reader[x] = Ended => new = Ended
    PROVE  ScanIInv'
  <1> USE DEF ScanIInv, scanHistory
  <1>1. /\ UNCHANGED <<step, scan, turn, servers, illegal, taken, air, alarms, scanHistory>>
        /\ reader' = [reader EXCEPT ![x] = new]
    BY DEF Reader
  <1>2. \A y \in Xids : reader'[y] = IF y = x THEN new ELSE reader[y]
    BY <1>1 DEF ScanTypes
  <1>3. step = "exchange" => Xid \in Xids
    BY XidType DEF Xid, ScanTypes
  <1>4. ReaderIsHonest'
    BY <1>1, <1>2, <1>3 DEF ReaderIsHonest, Is4, Xid
  <1> QED
    BY <1>1, <1>4 DEF ScanTypes, AllAnswered, Heard, FoundInScan, IllegalAreForeign

-----------------------------------------------------------------------------
LEMMA NextIInv == ScanIInv /\ [ScanNext]_scanVars => ScanIInv'
  <1> SUFFICES ASSUME ScanIInv, [ScanNext]_scanVars PROVE ScanIInv'
    OBVIOUS
  <1> USE DEF ScanIInv, scanHistory
  <1>1. CASE Tick
    <2>1. <<scan + 1, 1>> \in Xids /\ 1 \in DOMAIN Clients
      BY <1>1, XidType DEF Tick
    <2>2. /\ step' = "exchange" /\ scan' = scan + 1 /\ turn' = 1
          /\ servers' = {} /\ alarms' = {} /\ partial' = FALSE /\ UNCHANGED <<illegal, air>>
          /\ illegal = {} /\ scan < MaxScans
      BY <1>1 DEF Tick, Exchange, FoundInScan
    <2>3. /\ reader' = [y \in Xids |-> reader'[y]]
          /\ Clients[1] = 4 => reader'[<<scan + 1, 1>>] = Started
      BY <1>1, <2>1 DEF Tick, Exchange, ScanTypes
    <2>4. ScanTypes'
      <3>1. scan' \in 0 .. MaxScans /\ scan' > 0
        BY <2>2, ScanAssumption DEF ScanTypes
      <3> QED
        BY <2>1, <2>2, <2>3, <3>1 DEF ScanTypes
    <2>5. ReaderIsHonest'
      BY <2>2, <2>3 DEF ReaderIsHonest, Is4, Xid, Started
    <2> QED
      BY <2>2, <2>4, <2>5 DEF AllAnswered, FoundInScan, IllegalAreForeign
  <1>2. CASE ExchangeFails \/ ReaderFailed
    <2>1. NextClient(ReaderStopped) /\ step # "wait" /\ UNCHANGED <<scan, illegal, air, alarms, scanHistory>>
      BY <1>2 DEF ExchangeFails, ReaderFailed
    <2>2. ReaderStopped = [y \in Xids |-> ReaderStopped[y]]
      BY StoppedType
    <2> QED
      BY <2>1, <2>2, ContinueIInv DEF AllAnswered, IllegalAreForeign, ScanTypes
  <1>3. CASE Timeout4
    <2>1. /\ step = "exchange" /\ step' = "nodes" /\ reader' = ReaderStopped
          /\ UNCHANGED <<scan, turn, illegal, air, alarms, scanHistory>>
          /\ servers' \subseteq reader[Xid].list \cup reader[Xid].new
      BY <1>3 DEF Timeout4
    <2>2. \A s \in servers' : <<s, Xid>> \in air
      BY <1>3, <2>1 DEF Timeout4, ReaderIsHonest
    <2>3. \A s \in servers' : Heard(s)
      BY <2>2 DEF Heard, Xid, ScanTypes
    <2>4. ScanTypes'
      <3>1. reader' = [y \in Xids |-> reader'[y]]
        BY <2>1, StoppedType
      <3> QED
        BY <2>1, <3>1 DEF ScanTypes
    <2> QED
      BY <2>1, <2>3, <2>4
         DEF ReaderIsHonest, AllAnswered, Heard, FoundInScan, IllegalAreForeign
  <1>4. CASE Timeout6
    BY <1>4 DEF Timeout6, ScanTypes, ReaderIsHonest, AllAnswered, Heard, FoundInScan,
                IllegalAreForeign
  <1>5. CASE Restart
    BY <1>5 DEF Restart, ScanTypes, ReaderIsHonest, AllAnswered, Heard, FoundInScan,
                IllegalAreForeign
  <1>6. ASSUME NEW a \in air, Read6(a)
        PROVE  ScanIInv'
    <2>1. AnswersTo6(turn, a) => Heard(a[1])
      <3>1. AnswersTo6(turn, a) => a[2] = <<scan, turn>>
        BY <1>6, XidType DEF Read6, AnswersTo6, Xid
      <3>2. a = <<a[1], a[2]>> /\ turn \in DOMAIN Clients
        BY DEF ScanTypes, Answers
      <3> QED
        BY <3>1, <3>2 DEF Heard
    <2>2. /\ UNCHANGED <<step, scan, turn, illegal, reader, air, alarms, scanHistory>>
          /\ servers' = IF AnswersTo6(turn, a) THEN servers \cup {a[1]} ELSE servers
          /\ ~Is4
      BY <1>6 DEF Read6
    <2>3. \A s \in servers' : Heard(s)
      BY <2>1, <2>2 DEF AllAnswered
    <2> QED
      BY <2>2, <2>3
         DEF ScanTypes, ReaderIsHonest, Is4, AllAnswered, Heard, FoundInScan, IllegalAreForeign
  <1>7. ASSUME NEW s \in Servers, NEW x \in Xids, Answer(s, x)
        PROVE  ScanIInv'
    <2>1. /\ UNCHANGED <<step, scan, turn, servers, illegal, reader, alarms, scanHistory>>
          /\ air' = air \cup {<<s, x>>} /\ <<s, x>> \in Answers
      BY <1>7 DEF Answer, Answers
    <2> QED
      BY <2>1 DEF ScanTypes, ReaderIsHonest, Is4, Xid, AllAnswered, Heard, FoundInScan,
                  IllegalAreForeign
  <1>8. ASSUME NEW found \in SUBSET {WardenIps, AgentIps}, Nodes(found)
        PROVE  ScanIInv'
    <2>1. /\ NextClient(reader) /\ step # "wait" /\ UNCHANGED <<scan, air, alarms, relayed>>
          /\ illegal' \subseteq illegal \cup (servers \ UNION found)
          /\ partial' = (partial \/ found # {WardenIps, AgentIps})
      BY <1>8 DEF Nodes, NodeList
    <2>2. \A s \in illegal' : Heard(s)
      BY <2>1 DEF AllAnswered
    <2>3. ~partial' => (illegal' \cup alarms) \cap Nodes46 = {}
      <3>1. ASSUME ~partial'
            PROVE  UNION found = Nodes46 /\ ~partial
        <4>1. found = {WardenIps, AgentIps} /\ ~partial
          BY <2>1, <3>1
        <4> QED
          BY <4>1 DEF Nodes46
      <3> QED
        BY <2>1, <3>1 DEF IllegalAreForeign
    <2>4. partial' \in BOOLEAN /\ reader = [y \in Xids |-> reader[y]]
      BY <2>1 DEF ScanTypes
    <2> QED
      BY <2>1, <2>2, <2>3, <2>4, ContinueIInv
  <1>9. ASSUME NEW raised \in SUBSET illegal, Alarm(raised)
        PROVE  ScanIInv'
    BY <1>9 DEF Alarm, ScanTypes, ReaderIsHonest, AllAnswered, Heard, FoundInScan,
                IllegalAreForeign
  <1>10. ASSUME NEW x \in Xids, ReaderStep(x) \/ Error(x)
         PROVE  ScanIInv'
    <2> DEFINE r == reader[x]
    <2>1. PICK new :
             /\ Reader(x, new)
             /\ \/ new = Ended
                \/ /\ r.at \in {"check", "append", "recv"}
                   /\ \E at : \/ new = [r EXCEPT !.at = at]
                              \/ new = [r EXCEPT !.list = @ \cup r.new, !.new = {}, !.at = at]
      BY <1>10 DEF ReaderStep, Check, Append4, NothingToRead, SendError, Error
    <2>2. Ended.at = "end"
      BY DEF Ended
    <2>3. ASSUME new # Ended, step = "exchange", Is4, x = Xid, reader[Xid] # Ended
          PROVE  /\ new = [f \in {"at", "open", "got", "list", "new"} |-> new[f]]
                 /\ \A s \in new.list \cup new.new : <<s, Xid>> \in air
      <3>1. /\ r = [f \in {"at", "open", "got", "list", "new"} |-> r[f]]
            /\ \A s \in r.list \cup r.new : <<s, Xid>> \in air
        BY <2>3 DEF ReaderIsHonest
      <3> HIDE DEF r
      <3> QED
        BY <2>1, <2>3, <3>1
    <2> QED
      BY <2>1, <2>2, <2>3, ReaderIInv
  <1>11. ASSUME NEW x \in Xids, NEW a \in air, Receive(x, a)
         PROVE  ScanIInv'
    <2> DEFINE r == reader[x]
               new == [r EXCEPT !.got = @ \cup {a},
                           !.at = IF AnswersTo4(x[2], a) THEN "append" ELSE "check",
                           !.new = IF AnswersTo4(x[2], a) THEN {a[1]} ELSE {}]
    <2>1. Reader(x, new) /\ r # Ended
      BY <1>11 DEF Receive, Ended
    <2>2. ASSUME step = "exchange", Is4, x = Xid, reader[Xid] # Ended
          PROVE  /\ new = [f \in {"at", "open", "got", "list", "new"} |-> new[f]]
                 /\ \A s \in new.list \cup new.new : <<s, Xid>> \in air
      <3>1. /\ r = [f \in {"at", "open", "got", "list", "new"} |-> r[f]]
            /\ \A s \in r.list \cup r.new : <<s, Xid>> \in air
        BY <2>2 DEF ReaderIsHonest
      <3>2. AnswersTo4(x[2], a) => <<a[1], Xid>> \in air
        <4>1. x[2] = turn /\ Latest(turn) = Xid
          BY <2>2, XidType DEF Xid
        <4>2. a = <<a[1], a[2]>>
          BY DEF ScanTypes, Answers
        <4> QED
          BY <4>1, <4>2 DEF AnswersTo4
      <3> HIDE DEF r
      <3> QED
        BY <3>1, <3>2
    <2> HIDE DEF new
    <2> QED
      BY <2>1, <2>2, ReaderIInv
  <1>12. ASSUME NEW s \in Servers, ReadRelay6(s)
         PROVE  ScanIInv'
    BY <1>12 DEF ReadRelay6, ScanTypes, ReaderIsHonest, Is4, AllAnswered, Heard, FoundInScan,
                 IllegalAreForeign
  <1>13. CASE UNCHANGED scanVars
    BY <1>13 DEF scanVars, ScanTypes, ReaderIsHonest, Is4, Xid, AllAnswered, Heard, FoundInScan,
                 IllegalAreForeign
  <1> QED
    BY <1>1, <1>2, <1>3, <1>4, <1>5, <1>6, <1>7, <1>8, <1>9, <1>10, <1>11, <1>12, <1>13
       DEF ScanNext, Proceed, TornRead, Overrun

LEMMA ScanInvariant == ScanSpec => []ScanIInv
  BY ScanInitIInv, NextIInv, PTL DEF ScanSpec

\* However late servers answer, and whatever readers of earlier exchanges still
\* do, an alarm names a server that has answered the scan that raises it, or that
\* a Client6 has had a relay message from during it.
THEOREM AlarmsNameAnswers == ScanSpec => []AlarmedServerAnswered
  <1>1. ScanIInv => AlarmedServerAnswered
    BY DEF ScanIInv, AllAnswered, Heard, AlarmedServerAnswered
  <1> QED
    BY <1>1, ScanInvariant, PTL

\* A node of the system is never accused by a scan that could ask both sources
\* of nodes after each of its exchanges.
THEOREM NodesAreNotAccused == ScanSpec => []NodesRaiseNoAlarm
  <1>1. ScanIInv => NodesRaiseNoAlarm
    BY DEF ScanIInv, IllegalAreForeign, NodesRaiseNoAlarm, Nodes46
  <1> QED
    BY <1>1, ScanInvariant, PTL

=============================================================================
