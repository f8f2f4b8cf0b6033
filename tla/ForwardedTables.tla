-------------------------- MODULE ForwardedTables --------------------------
(***************************************************************************)
(* The tables that are forwarded row by row to every DHCP node: admission  *)
(* and rate limits, assets, OUIs, client classes, address codes and the    *)
(* rows of global switches.  The services share one shape and differ in    *)
(* how they decide; a behaviour is that of one of them, chosen in Init.    *)
(*                                                                         *)
(* A request reads (Begin), writes and so locks its rows (Write), sends a  *)
(* command (Send), and commits.  PostgreSQL runs it at READ COMMITTED: a   *)
(* write waits for the locks of others and then sees what they committed,  *)
(* but what was read before is not read again.  One node stands for any.   *)
(***************************************************************************)
EXTENDS Naturals, FiniteSets, ForwardedServices

CONSTANTS
    Keys,     \* the ids of rows: a MAC, a DUID, a name
    Values,   \* what a row says
    System,   \* the rows that come with the product
    Workers   \* goroutines that serve requests

NoRow == "NoRow"

ASSUME TablesAssumption == System \subseteq Keys /\ NoRow \notin Values

-----------------------------------------------------------------------------
CONSTANT Modelled  \* the services that behaviours are of

ASSUME ModelledAssumption == Modelled \subseteq Services

-----------------------------------------------------------------------------
VARIABLES
    service,     \* the service of this behaviour
    table,       \* the committed rows: a value or NoRow for each key
    node,        \* what the node has been told
    uses,        \* the keys that committed subnets name
    tx,          \* what each worker does, or Idle
    slipped,     \* history: keys of which a command failed or named another
    stale,       \* history: keys decided about on a row that had changed
    overlapped   \* history: keys a subnet and a deletion worked on together

vars == <<service, table, node, uses, tx, slipped, stale, overlapped>>

history == <<slipped, stale, overlapped>>

Idle == [phase |-> "idle"]

Rows == [Keys -> Values \cup {NoRow}]

Present(t) == {k \in Keys : t[k] # NoRow}

\* A request.  The key that an update sends is the one in its body, while the
\* row is that of its URL.
Requests ==
    [op: {"insert", "import", "observe"}, keys: SUBSET Keys \ {{}}, value: Values]
    \cup [op: {"update"}, keys: {{k} : k \in Keys}, value: Values, sent: Keys]
    \cup [op: {"delete"}, keys: SUBSET Keys \ {{}}]
    \cup [op: {"use"}, keys: {{k} : k \in Keys}]

Grows(s) == "insert" \in s.offers

\* A deletion is refused unless it affects all its rows.
DeleteRowsDecide(q) ==
    IF Cardinality(q.keys) > 1 THEN service.batches.rowsDecide ELSE service.deleteRowsDecide

\* The requests that a service serves.
Offers(s, q) ==
    /\ CASE q.op = "observe" -> s.observed
         [] q.op = "use"     -> s.used
         [] q.op = "delete" /\ Cardinality(q.keys) > 1 -> "batchDelete" \in s.offers
         [] OTHER            -> q.op \in s.offers
    /\ q.op \in {"insert", "observe"} => Cardinality(q.keys) = 1
    /\ q.op = "import" /\ s.byName => Cardinality(q.keys) = 1
    /\ q.op = "update" /\ (s.byName \/ ~Grows(s)) /\ ~s.partly => q.sent \in q.keys

\* A transaction of a worker: its request, the rows as it read them, those it
\* has locked, and whether it sends a command.
Transactions ==
    [phase : {"read", "written", "sent"}, request : Requests,
     old : UNION {[ks -> Values \cup {NoRow}] : ks \in SUBSET Keys},
     locked : SUBSET Keys, sends : BOOLEAN]

\* The types, and that no row is locked twice.
TypeOK ==
    /\ service \in Services
    /\ table \in Rows /\ node \in Rows
    /\ uses \subseteq Keys
    /\ tx \in [Workers -> Transactions \cup {Idle}]
    /\ \A w \in Workers : tx[w] # Idle =>
          /\ DOMAIN tx[w].old = tx[w].request.keys
          /\ tx[w].locked \subseteq tx[w].request.keys
    /\ \A v, w \in Workers : v # w /\ tx[v] # Idle /\ tx[w] # Idle =>
          tx[v].locked \cap tx[w].locked = {}
    /\ slipped \cup stale \cup overlapped \subseteq Keys

Init ==
    /\ service \in Modelled
    /\ \E v \in Values, one \in Keys :
          LET first == IF Grows(service)
                       THEN IF service.system THEN System ELSE {}
                       ELSE {one}
          IN  table = [k \in Keys |-> IF k \in first THEN v ELSE NoRow]
    /\ node = table
    /\ uses = {}
    /\ tx = [w \in Workers |-> Idle]
    /\ slipped = {} /\ stale = {} /\ overlapped = {}

-----------------------------------------------------------------------------
Working(op) == {w \in Workers : tx[w] # Idle /\ tx[w].request.op = op}

WorkedOn(op) == UNION {tx[w].request.keys : w \in Working(op)}

\* Mutant: nobody looks whether the row is used.
AcceptedUsed(q) ==
    /\ q.op = "update" /\ ~service.updateRowsDecide => q.keys \subseteq Present(table)
    /\ q.op = "delete" /\ ~DeleteRowsDecide(q) => q.keys \subseteq Present(table)
    /\ q.op \in {"update", "delete"} /\ service.system => q.keys \cap System = {}
    /\ q.op = "use" => q.keys \subseteq Present(table)
    /\ q.op \in {"import", "observe"} => q.keys \cap Present(table) = {}

\* What a request that reads first refuses on what it reads; a client class
\* or an address code that a subnet names is not deleted.
Accepted(q) ==
    /\ q.op = "update" /\ ~service.updateRowsDecide => q.keys \subseteq Present(table)
    /\ q.op = "delete" =>
          /\ ~DeleteRowsDecide(q) => q.keys \subseteq Present(table)
          /\ service.used => q.keys \cap uses = {}
    /\ q.op \in {"update", "delete"} /\ service.system => q.keys \cap System = {}
    /\ q.op = "use" => q.keys \subseteq Present(table)
    /\ q.op \in {"import", "observe"} => q.keys \cap Present(table) = {}

Begin(w, q) ==
    /\ tx[w] = Idle
    /\ Offers(service, q)
    /\ Accepted(q)
    /\ tx' = [tx EXCEPT ![w] = [phase |-> "read", request |-> q,
                                old |-> [k \in q.keys |-> table[k]],
                                locked |-> {}, sends |-> FALSE]]
    /\ overlapped' =
          overlapped \cup CASE q.op = "use"    -> q.keys \cap WorkedOn("delete")
                            [] q.op = "delete" -> q.keys \cap WorkedOn("use")
                            [] OTHER           -> {}
    /\ UNCHANGED <<service, table, node, uses, slipped, stale>>

Locked == UNION {tx[w].locked : w \in {v \in Workers : tx[v] # Idle}}

Writes == {"insert", "import", "observe", "update"}

\* The name of an address code, or of a fingerprint, is unique.
NameTaken(q) ==
    /\ service.byName /\ q.op \in Writes
    /\ \E k \in Keys \ q.keys : table[k] = q.value

\* Mutant: an update does not look at the number of affected rows.
RefusedUpdatesNever(q) ==
    \/ NameTaken(q)
    \/ q.op \in {"insert", "import", "observe"} /\ q.keys \cap Present(table) # {}
    \/ q.op = "delete" /\ DeleteRowsDecide(q) /\ ~(q.keys \subseteq Present(table))

\* The unique columns refuse a second row; a service looks at affected rows.
Refused(q) ==
    \/ NameTaken(q)
    \/ q.op \in {"insert", "import", "observe"} /\ q.keys \cap Present(table) # {}
    \/ q.op = "update" /\ service.updateRowsDecide /\ ~(q.keys \subseteq Present(table))
    \/ q.op = "delete" /\ DeleteRowsDecide(q) /\ ~(q.keys \subseteq Present(table))

\* Whether the change is sent: if it differs from the value that was read.
Sends(q, old) ==
    q.op = "update" => service.always \/ \E k \in q.keys : old[k] # q.value

Write(w) ==
    /\ tx[w] # Idle /\ tx[w].phase = "read" /\ tx[w].request.op # "use"
    /\ LET q == tx[w].request
           writes == IF q.op \in {"insert", "import", "observe"}
                     THEN q.keys ELSE q.keys \cap Present(table)
       IN  /\ writes \cap Locked = {}
           /\ service.byName /\ q.op \in Writes =>
                 \A v \in UNION {Working(op) : op \in Writes} :
                    tx[v].locked # {} => tx[v].request.value # q.value
           /\ IF Refused(q)
              THEN tx' = [tx EXCEPT ![w] = Idle] /\ UNCHANGED stale
              ELSE /\ tx' = [tx EXCEPT ![w].phase = "written", ![w].locked = writes,
                                       ![w].sends = Sends(q, tx[w].old)]
                   /\ stale' = stale \cup {k \in q.keys : tx[w].old[k] # table[k]}
    /\ UNCHANGED <<service, table, node, uses, slipped, overlapped>>

\* What an update tells the node: a fingerprint's may be another one than the
\* row's, which it does not change.
ToldByUpdate(q) ==
    IF service.partly /\ q.sent \notin q.keys
    THEN {[node EXCEPT ![x[1]] = x[2]] : x \in q.keys \X Values}
    ELSE {[node EXCEPT ![q.sent] = q.value]}

\* The keys that a command touches.
Named(q) == IF q.op = "update" /\ ~service.partly THEN q.keys \cup {q.sent} ELSE q.keys

\* The body of an update names another row than its URL.
Misnames(q) == q.op = "update" /\ q.sent \notin q.keys

\* What the node may have after a command.  What it makes of an update of a
\* row it does not have is not known.
Told(q, old) ==
    LET Knows(k) == /\ node[k] # NoRow
                    /\ service.byName /\ k \in q.keys => node[k] = old[k]
    IN  CASE q.op \in {"insert", "import", "observe"} ->
                {[k \in Keys |-> IF k \in q.keys THEN q.value ELSE node[k]]}
          [] q.op = "update" ->
                ToldByUpdate(q)
                \cup IF \A k \in Named(q) : Knows(k) THEN {} ELSE {node}
          [] q.op = "delete" ->
                {[k \in Keys |-> IF k \in q.keys /\ (service.byName => node[k] = old[k])
                                 THEN NoRow ELSE node[k]]}

Send(w) ==
    /\ tx[w] # Idle /\ tx[w].phase = "written"
    /\ IF tx[w].sends THEN node' \in Told(tx[w].request, tx[w].old) ELSE UNCHANGED node
    /\ tx' = [tx EXCEPT ![w].phase = "sent"]
    /\ slipped' = IF tx[w].sends /\ Misnames(tx[w].request)
                  THEN slipped \cup Named(tx[w].request) ELSE slipped
    /\ UNCHANGED <<service, table, uses, stale, overlapped>>

\* Mutant: a failed creation is not taken back from the nodes.
TakenBackNever(q, told) == told

\* The nodes are told to delete what they have been told to create.
TakenBack(q, told) == [k \in Keys |-> IF k \in q.keys THEN NoRow ELSE told[k]]

\* Kafka fails at some node.  It is this one or a later one; if this one has
\* been told, a rollback reaches it or not, and only a creation has one.
SendFails(w) ==
    /\ tx[w] # Idle /\ tx[w].phase = "written" /\ tx[w].sends
    /\ LET q == tx[w].request
       IN  \/ UNCHANGED <<node, slipped>>
           \/ /\ q.op \in {"insert", "import", "observe"}
              /\ \E told \in Told(q, tx[w].old) : node' = TakenBack(q, told)
              /\ UNCHANGED slipped
           \/ /\ node' \in Told(q, tx[w].old)
              /\ slipped' = slipped \cup Named(q)
    /\ tx' = [tx EXCEPT ![w] = Idle]
    /\ UNCHANGED <<service, table, uses, stale, overlapped>>

Committed(w) ==
    LET q == tx[w].request
    IN  [k \in Keys |-> IF k \notin tx[w].locked THEN table[k]
                        ELSE IF q.op = "delete" THEN NoRow ELSE q.value]

Commit(w) ==
    /\ tx[w] # Idle /\ tx[w].phase = "sent"
    /\ table' = Committed(w)
    /\ tx' = [tx EXCEPT ![w] = Idle]
    /\ UNCHANGED <<service, node, uses, history>>

\* Subnet4Service.Create validates the subnet, which looks for the classes it
\* names, before the transaction that inserts it.
CommitUse(w) ==
    /\ tx[w] # Idle /\ tx[w].phase = "read" /\ tx[w].request.op = "use"
    /\ uses' = uses \cup tx[w].request.keys
    /\ tx' = [tx EXCEPT ![w] = Idle]
    /\ UNCHANGED <<service, table, node, history>>

DropUse(k) ==
    /\ k \in uses
    /\ uses' = uses \ {k}
    /\ UNCHANGED <<service, table, node, tx, history>>

\* The process stops: PostgreSQL rolls back, the node keeps what it was told.
Crash ==
    /\ \E w \in Workers : tx[w] # Idle
    /\ tx' = [w \in Workers |-> Idle]
    /\ slipped' = slipped \cup UNION {Named(tx[w].request) :
                        w \in {v \in Workers : tx[v] # Idle /\ tx[v].phase = "sent"}}
    /\ UNCHANGED <<service, table, node, uses, stale, overlapped>>

Next ==
    \/ \E w \in Workers :
          \/ \E q \in Requests : Begin(w, q)
          \/ Write(w) \/ Send(w) \/ SendFails(w) \/ Commit(w) \/ CommitUse(w)
    \/ \E k \in Keys : DropUse(k)
    \/ Crash

Spec == Init /\ [][Next]_vars

-----------------------------------------------------------------------------
(***************************************************************************)
(* Properties                                                              *)
(***************************************************************************)

\* The keys that no command is on its way for.
Settled == Keys \ UNION {Named(tx[w].request) : w \in
                {v \in Workers : tx[v] # Idle /\ tx[v].phase \in {"written", "sent"}}}

\* The node has the row that is committed, for every key, unless a command
\* about it has failed or named another one, the process stopped after one, or
\* a request decided on a row that another one changed before it wrote.
NodeInStep == \A k \in Settled \ (slipped \cup stale) : node[k] = table[k]

\* A service that lets the affected rows decide and always sends does not need
\* the last exception: the row lock puts its commands in the order of its
\* commits, however requests overlap.
RowLocksOrderCommands ==
    service.updateRowsDecide /\ service.deleteRowsDecide /\ service.always =>
        \A k \in Settled \ slipped : node[k] = table[k]

\* A client class or an address code that a subnet names exists, unless the
\* subnet was being checked while the deletion ran: the two look at each other
\* without a lock and there is no foreign key.
UsedRowsExist == \A k \in uses \ overlapped : table[k] # NoRow

=============================================================================
