--------------------------- MODULE KafkaConsumers ---------------------------
(***************************************************************************)
(* The goroutines that read what the DHCP nodes publish.  One reads each   *)
(* topic of leases, for the fingerprints and OUIs that nobody has recorded *)
(* and for automatic reservations; one reads each topic of suspicious      *)
(* packets and raises alarms.                                              *)
(*                                                                         *)
(* kafka.Reader.ReadMessage fetches a message and commits its offset, and  *)
(* only then returns it: a message that is not handled is not read again.  *)
(* Failures are logged and never retried.  The packets are read before     *)
(* RegisterTransport has set up the service that takes the alarms.         *)
(***************************************************************************)
EXTENDS Naturals, Sequences, FiniteSets

CONSTANTS
    LeaseReaders,   \* the goroutines that read leases, one for each topic
    PacketReaders,  \* the goroutines that read packets, one for each topic
    LeaseMessages,  \* [fingerprint, vendor, oui, request] or Garbled
    PacketMessages, \* [alarm] or Garbled
    MaxMessages,    \* bound: messages in all topics
    MaxStops        \* bound: times that the process is stopped from outside

Nothing == "Nothing"
Garbled == [garbled |-> TRUE]

Readers == LeaseReaders \cup PacketReaders

ASSUME ConsumersAssumption ==
    /\ LeaseReaders \cap PacketReaders = {}
    /\ MaxMessages \in Nat /\ MaxStops \in Nat

VARIABLES
    process,      \* down, starting, or ready: the alarm service is there
    topic,        \* what has been published
    offset,       \* how much of a topic is committed as read
    position,     \* how much of a topic this process has fetched
    stage,        \* what a reader does with the message it has
    tx,           \* how far its transaction is
    known,        \* committed rows: <<table, unique key, other columns>>
    nodeKnows,    \* the rows that nodes have been told
    reservation,  \* whether the leased address is reserved automatically
    handled,      \* history: the messages that were handled, in order
    disturbed,    \* history: readers that something failed for
    spoilt,       \* history: rows that nodes may have been left with
    raced,        \* history: keys that two readers looked for together
    stops         \* how often the process was stopped

consumer == <<position, stage, tx>>
tables == <<known, nodeKnows, reservation>>
history == <<handled, disturbed, spoilt, raced>>
vars == <<process, topic, offset, consumer, tables, history, stops>>

TableSteps == {"fingerprint", "oui"}

TypeOK ==
    /\ process \in {"down", "starting", "ready"}
    /\ \A r \in LeaseReaders : topic[r] \in Seq(LeaseMessages)
    /\ \A r \in PacketReaders : topic[r] \in Seq(PacketMessages)
    /\ \A r \in Readers :
          /\ offset[r] \in 0..Len(topic[r])
          /\ position[r] \in 0..Len(topic[r])
          /\ stage[r] \in {"idle", "fetched"} \cup
                IF r \in LeaseReaders THEN TableSteps \cup {"reserve"} ELSE {"alarm"}
          /\ tx[r] \in {"none", "looked", "sent"}
          /\ tx[r] # "none" => stage[r] \in TableSteps
          /\ process = "down" => stage[r] = "idle"
          /\ \A i \in DOMAIN handled[r] : handled[r][i] \in 1..offset[r]
    /\ \A row \in known \cup nodeKnows \cup spoilt : row[1] \in TableSteps
    /\ reservation \in [LeaseReaders -> BOOLEAN]
    /\ disturbed \subseteq Readers
    /\ stops \in 0..MaxStops

Init ==
    /\ process = "down"
    /\ topic = [r \in Readers |-> <<>>]
    /\ offset = [r \in Readers |-> 0]
    /\ position = [r \in Readers |-> 0]
    /\ stage = [r \in Readers |-> "idle"]
    /\ tx = [r \in Readers |-> "none"]
    /\ known = {} /\ nodeKnows = {}
    /\ reservation = [r \in LeaseReaders |-> FALSE]
    /\ handled = [r \in Readers |-> <<>>]
    /\ disturbed = {} /\ spoilt = {} /\ raced = {}
    /\ stops = 0

-----------------------------------------------------------------------------
(***************************************************************************)
(* Messages                                                                *)
(***************************************************************************)

\* The message that a reader works on.
Current(r) == topic[r][position[r]]

\* The row that a message asks for, or Nothing.
RowFor(r) ==
    IF stage[r] = "fingerprint"
    THEN IF Current(r).fingerprint = Nothing THEN Nothing
         ELSE <<"fingerprint", Current(r).fingerprint, Current(r).vendor>>
    ELSE IF Current(r).oui = Nothing THEN Nothing
         ELSE <<"oui", Current(r).oui, Nothing>>

KeyOf(row) == <<row[1], row[2]>>

Published == {x \in Readers \X (1..MaxMessages) : x[2] <= Len(topic[x[1]])}

Publish(r, m) ==
    /\ Cardinality(Published) < MaxMessages
    /\ topic' = [topic EXCEPT ![r] = Append(@, m)]
    /\ UNCHANGED <<process, offset, consumer, tables, history, stops>>

-----------------------------------------------------------------------------
(***************************************************************************)
(* The process                                                             *)
(***************************************************************************)

\* Mutant: without a group, a reader begins at the first message.
ResumeAtFirst(r) == 0

\* A reader of a group resumes at the committed offset.
ResumeAt(r) == offset[r]

\* main: the readers start before the alarm service.
Start ==
    /\ process = "down"
    /\ process' = "starting"
    /\ position' = [r \in Readers |-> ResumeAt(r)]
    /\ UNCHANGED <<topic, offset, stage, tx, tables, history, stops>>

BecomeReady ==
    /\ process = "starting"
    /\ process' = "ready"
    /\ UNCHANGED <<topic, offset, consumer, tables, history, stops>>

\* PostgreSQL rolls back what is open, nodes keep what they have been told.
Stopped ==
    /\ process' = "down"
    /\ stage' = [r \in Readers |-> "idle"]
    /\ tx' = [r \in Readers |-> "none"]
    /\ disturbed' = disturbed \cup {r \in Readers : stage[r] # "idle"}
    /\ spoilt' = spoilt \cup {RowFor(r) : r \in {l \in LeaseReaders : tx[l] = "sent"}}
    /\ UNCHANGED <<topic, offset, position, tables, handled, raced>>

Stop ==
    /\ process # "down"
    /\ stops < MaxStops
    /\ stops' = stops + 1
    /\ Stopped

-----------------------------------------------------------------------------
(***************************************************************************)
(* Reading                                                                 *)
(***************************************************************************)

\* A fetch that fails changes nothing: the loop continues.
Fetch(r) ==
    /\ process # "down"
    /\ stage[r] = "idle" /\ position[r] < Len(topic[r])
    /\ position' = [position EXCEPT ![r] = @ + 1]
    /\ stage' = [stage EXCEPT ![r] = "fetched"]
    /\ UNCHANGED <<process, topic, offset, tx, tables, history, stops>>

\* The first step of what a reader does with a message.
FirstStep(r) ==
    CASE Current(r) = Garbled -> "idle"
      [] r \in LeaseReaders   -> "fingerprint"
      [] OTHER                -> "alarm"

CommitOffset(r) ==
    /\ stage[r] = "fetched"
    /\ offset' = [offset EXCEPT ![r] = position[r]]
    /\ stage' = [stage EXCEPT ![r] = FirstStep(r)]
    /\ disturbed' = IF Current(r) = Garbled THEN disturbed \cup {r} ELSE disturbed
    /\ UNCHANGED <<process, topic, position, tx, tables, handled, spoilt, raced, stops>>

\* ReadMessage returns an error instead of the message, whether or not the
\* broker has the offset.
CommitOffsetFails(r) ==
    /\ stage[r] = "fetched"
    /\ offset' \in {offset, [offset EXCEPT ![r] = position[r]]}
    /\ stage' = [stage EXCEPT ![r] = "idle"]
    /\ disturbed' = disturbed \cup {r}
    /\ UNCHANGED <<process, topic, position, tx, tables, handled, spoilt, raced, stops>>

-----------------------------------------------------------------------------
(***************************************************************************)
(* Leases                                                                  *)
(***************************************************************************)
NextStep(s) == IF s = "fingerprint" THEN "oui" ELSE "reserve"

Continue(r) ==
    /\ stage' = [stage EXCEPT ![r] = NextStep(@)]
    /\ tx' = [tx EXCEPT ![r] = "none"]

\* Mutant: a fingerprint is looked for by all its columns.
ExistsInAllColumns(row) == row \in known

\* Only the fingerprint is looked for, of its four unique columns.
Exists(row) == \E k \in known : KeyOf(k) = KeyOf(row)

LookingFor(r, key) ==
    /\ r \in LeaseReaders /\ stage[r] \in TableSteps /\ tx[r] # "none"
    /\ KeyOf(RowFor(r)) = key

Look(r) ==
    /\ stage[r] \in TableSteps /\ tx[r] = "none"
    /\ IF RowFor(r) = Nothing \/ Exists(RowFor(r))
       THEN Continue(r) /\ UNCHANGED raced
       ELSE /\ tx' = [tx EXCEPT ![r] = "looked"]
            /\ LET key == KeyOf(RowFor(r))
               IN  raced' = raced \cup {k \in {key} : \E o \in Readers \ {r} : LookingFor(o, k)}
            /\ UNCHANGED stage
    /\ UNCHANGED <<process, topic, offset, position, tables, handled, disturbed, spoilt, stops>>

\* Mutant: readers that have looked for a row wait for each other.
UnlockedAlone(r) ==
    \A o \in LeaseReaders \ {r} : tx[o] # "none" => RowFor(o) # RowFor(r)

\* An insertion waits for the transaction that has inserted the same row.
Unlocked(r) ==
    \A o \in LeaseReaders \ {r} : tx[o] = "sent" => RowFor(o) # RowFor(r)

\* The row is inserted and all nodes are told.
Insert(r) ==
    /\ tx[r] = "looked" /\ Unlocked(r)
    /\ RowFor(r) \notin known
    /\ nodeKnows' = nodeKnows \cup {RowFor(r)}
    /\ tx' = [tx EXCEPT ![r] = "sent"]
    /\ UNCHANGED <<process, topic, offset, position, stage, known, reservation,
                   history, stops>>

\* The row is there by now.
InsertRefused(r) ==
    /\ tx[r] = "looked" /\ Unlocked(r)
    /\ RowFor(r) \in known
    /\ Continue(r)
    /\ UNCHANGED <<process, topic, offset, position, tables, history, stops>>

\* Mutant: a message that nodes do not take is no reason to roll back.
AfterFailureKept(r) == known \cup {RowFor(r)}

AfterFailure(r) == known

\* Some node cannot be told.  The others are told to delete the row, which
\* fails for some or not.
SendFails(r) ==
    /\ tx[r] = "looked" /\ Unlocked(r)
    /\ RowFor(r) \notin known
    /\ known' = AfterFailure(r)
    /\ Continue(r)
    /\ disturbed' = disturbed \cup {r}
    /\ \/ UNCHANGED <<nodeKnows, spoilt>>
       \/ nodeKnows' = nodeKnows \ {RowFor(r)} /\ UNCHANGED spoilt
       \/ /\ nodeKnows' = nodeKnows \cup {RowFor(r)}
          /\ spoilt' = spoilt \cup {RowFor(r)}
    /\ UNCHANGED <<process, topic, offset, position, reservation, handled, raced, stops>>

CommitRow(r) ==
    /\ tx[r] = "sent"
    /\ known' = known \cup {RowFor(r)}
    /\ Continue(r)
    /\ UNCHANGED <<process, topic, offset, position, nodeKnows, reservation, history, stops>>

\* Mutant: a declined address stays reserved.
ReservedForEver(r, before) == Current(r).request = "Request" \/ before

\* An address is reserved when it is requested and released when declined.
Reserved(r, before) ==
    CASE Current(r).request = "Request" -> TRUE
      [] Current(r).request = "Decline" -> FALSE
      [] OTHER                          -> before

Reserve(r) ==
    /\ stage[r] = "reserve"
    /\ reservation' = [reservation EXCEPT ![r] = Reserved(r, @)]
    /\ stage' = [stage EXCEPT ![r] = "idle"]
    /\ handled' = [handled EXCEPT ![r] = Append(@, position[r])]
    /\ UNCHANGED <<process, topic, offset, position, tx, known, nodeKnows,
                   disturbed, spoilt, raced, stops>>

\* The reservation is refused, or the database or a node fails.
ReserveFails(r) ==
    /\ stage[r] = "reserve"
    /\ stage' = [stage EXCEPT ![r] = "idle"]
    /\ disturbed' = disturbed \cup {r}
    /\ UNCHANGED <<process, topic, offset, position, tx, tables, handled, spoilt, raced, stops>>

-----------------------------------------------------------------------------
(***************************************************************************)
(* Packets                                                                 *)
(***************************************************************************)
Raise(r) ==
    /\ stage[r] = "alarm" /\ process = "ready"
    /\ stage' = [stage EXCEPT ![r] = "idle"]
    /\ handled' = [handled EXCEPT ![r] = Append(@, position[r])]
    /\ UNCHANGED <<process, topic, offset, position, tx, tables, disturbed,
                   spoilt, raced, stops>>

RaiseFails(r) ==
    /\ stage[r] = "alarm" /\ process = "ready"
    /\ stage' = [stage EXCEPT ![r] = "idle"]
    /\ disturbed' = disturbed \cup {r}
    /\ UNCHANGED <<process, topic, offset, position, tx, tables, handled, spoilt, raced, stops>>

\* GetAlarmService() is nil until RegisterTransport has run: the goroutine
\* panics and takes the process with it.
RaiseTooEarly(r) ==
    /\ stage[r] = "alarm" /\ process = "starting"
    /\ UNCHANGED stops
    /\ Stopped

-----------------------------------------------------------------------------
Work(r) ==
    \/ CommitOffset(r) \/ CommitOffsetFails(r)
    \/ r \in LeaseReaders /\
          (Look(r) \/ Insert(r) \/ InsertRefused(r) \/ SendFails(r) \/ CommitRow(r)
           \/ Reserve(r) \/ ReserveFails(r))
    \/ r \in PacketReaders /\ (Raise(r) \/ RaiseFails(r) \/ RaiseTooEarly(r))

Next ==
    \/ \E r \in LeaseReaders, m \in LeaseMessages : Publish(r, m)
    \/ \E r \in PacketReaders, m \in PacketMessages : Publish(r, m)
    \/ Start \/ BecomeReady \/ Stop
    \/ \E r \in Readers : Fetch(r) \/ Work(r)

\* Goroutines run, the process is started again, PostgreSQL and Kafka answer,
\* be it with an error, and a broker that has a message gives it eventually.
Fairness ==
    /\ WF_vars(Start) /\ WF_vars(BecomeReady)
    /\ \A r \in Readers : WF_vars(Fetch(r)) /\ WF_vars(Work(r))

Spec == Init /\ [][Next]_vars /\ Fairness

-----------------------------------------------------------------------------
(***************************************************************************)
(* Properties                                                              *)
(***************************************************************************)

\* Messages of a topic are handled in order and none is handled twice,
\* however often the process stops and whatever becomes of the offsets.
EachMessageOnce ==
    \A r \in Readers : \A i, j \in DOMAIN handled[r] :
        i < j => handled[r][i] < handled[r][j]

\* The last word of a topic about the leased address was a request for it.
RequestedLast(r) ==
    \E i \in DOMAIN topic[r] :
        /\ topic[r][i].request = "Request"
        /\ \A j \in DOMAIN topic[r] : j > i => topic[r][j].request # "Decline"

\* A topic that was read to its end with no failure, stop or garbled message
\* has had each message handled, and an address is reserved if and only if
\* the last word about it was a request.
UndisturbedTopicIsHandled ==
    \A r \in Readers \ disturbed :
        stage[r] = "idle" /\ offset[r] = Len(topic[r]) =>
            /\ handled[r] = [i \in 1..offset[r] |-> i]
            /\ r \in LeaseReaders => (reservation[r] <=> RequestedLast(r))

\* Nodes know each committed row, and nothing else but what is being sent or
\* what a failed rollback or a stop left them with.
NodesKnowRows ==
    /\ known \subseteq nodeKnows
    /\ nodeKnows \subseteq
          known \cup spoilt \cup {RowFor(r) : r \in {l \in LeaseReaders : tx[l] = "sent"}}

\* A fingerprint is recorded once, unless the readers of two topics looked for
\* it at the same time: the unique columns are more than what is looked for.
RecordedOnce ==
    \A j, k \in known : KeyOf(j) = KeyOf(k) => j = k \/ KeyOf(j) \in raced

\* Every message is read in the end, and its reader gets done with it: an
\* offset is committed before its message can end the process, so not even a
\* start-up that panics each time a packet is waiting goes on for ever, and
\* two readers do not wait for each other.
EveryMessageIsFinished ==
    \A r \in Readers : \A i \in 1..MaxMessages :
        Len(topic[r]) >= i ~> position[r] >= i /\ stage[r] = "idle"

=============================================================================
