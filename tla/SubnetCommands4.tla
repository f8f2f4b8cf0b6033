--------------------------- MODULE SubnetCommands4 ---------------------------
(***************************************************************************)
(* How the rows of one subnet4 reach the DHCP nodes that serve it.  Each   *)
(* request writes its rows in a transaction, sends one Kafka command to    *)
(* every node, one node after the other, and commits last.  A send that    *)
(* fails rolls the rows back; the nodes that already have the command are  *)
(* to be told to undo it.                                                  *)
(*                                                                         *)
(* A row is a pool, a reserved pool or a reservation: their requests send  *)
(* in the same way.  A node's topic is read in order, so a node is shown    *)
(* as if it applied a command when it is sent.  The subnet's row lock is    *)
(* kept between two changes of nodes and left out between a change of nodes *)
(* and a row: the model allows more interleavings than PostgreSQL there.   *)
(* Two sentries or more, no virtual IP: IsSentryHA refuses a change of      *)
(* nodes otherwise.                                                        *)
(***************************************************************************)
EXTENDS Naturals, FiniteSets

CONSTANTS
    Sentries, Servers,  \* the addresses of the nodes, by role
    HostnameOf,         \* the hostname of each node: the name of its topic
    Rows,
    Workers

Nodes == Sentries \cup Servers

Subnet == "subnet"

\* A node may be named by its own address, and not by another's.
ASSUME CommandsAssumption ==
    /\ Sentries \cap Servers = {}
    /\ Servers # {}
    /\ DOMAIN HostnameOf = Nodes
    /\ \A m, n \in Nodes : HostnameOf[m] = n => m = n
    /\ Subnet \notin Rows

VARIABLES
    served,   \* the nodes column of the subnet's row: chosen sentries
    rows,     \* the committed rows of the subnet
    view,     \* what each node is configured with
    tx,       \* the request each worker is serving, or Idle
    suspect,  \* history: nodes left with a command of a request rolled back
    raced     \* history: a change of nodes has committed over another request

vars == <<served, rows, view, tx, suspect, raced>>

Idle == [op |-> "Idle"]

\* Nothing, or the subnet with some of its rows.
Views == {{}} \cup {{Subnet} \cup rs : rs \in SUBSET Rows}

RowRequests ==
    [op: {"RowCreate", "RowDelete"}, row: Rows, old: SUBSET Sentries,
     todo: SUBSET Nodes, sent: SUBSET Nodes]

NodeRequests ==
    [op: {"Read", "Drop", "Make"}, old: SUBSET Sentries, new: SUBSET Sentries,
     read: SUBSET Rows, dropped: SUBSET Nodes, todo: SUBSET Nodes, sent: SUBSET Nodes]

\* No node holds a row of the subnet without the subnet itself.
TypeOK ==
    /\ served \subseteq Sentries
    /\ rows \subseteq Rows
    /\ view \in [Nodes -> Views]
    /\ tx \in [Workers -> RowRequests \cup NodeRequests \cup {Idle}]
    /\ suspect \subseteq Nodes
    /\ raced \in BOOLEAN

\* Subnet4Service.Create with no nodes.
Init ==
    /\ served = {}
    /\ rows = {}
    /\ view = [n \in Nodes |-> {}]
    /\ tx = [w \in Workers |-> Idle]
    /\ suspect = {}
    /\ raced = FALSE

Active == {w \in Workers : tx[w] # Idle}

-----------------------------------------------------------------------------
(***************************************************************************)
(* The choice of nodes                                                     *)
(***************************************************************************)

\* GetDHCPNodesWithSentryNodes: the chosen sentries and every server.
WithServers(chosen) == IF chosen = {} THEN {} ELSE chosen \cup Servers

\* Mutant: the servers lose the subnet whenever a node does.
ToDeleteAlways(old, new) == WithServers(old \ new)

\* getChangedNodes.  The servers have the subnet as long as any node has it.
ToDelete(old, new) == IF new = {} THEN WithServers(old) ELSE old \ new

ToCreate(old, new) == IF old = {} THEN WithServers(new) ELSE new \ old

-----------------------------------------------------------------------------
(***************************************************************************)
(* What a node makes of a command (external).  Commands for rows of a      *)
(* subnet it does not have are refused.                                    *)
(***************************************************************************)
Apply(w, v) ==
    CASE tx[w].op = "RowCreate" -> IF Subnet \in v THEN v \cup {tx[w].row} ELSE v
      [] tx[w].op = "RowDelete" -> v \ {tx[w].row}
      [] tx[w].op = "Drop" -> {}
      [] tx[w].op = "Make" -> {Subnet} \cup tx[w].read

-----------------------------------------------------------------------------
(***************************************************************************)
(* Requests: the reads                                                     *)
(***************************************************************************)
RowCreate(w, r) ==
    /\ tx[w] = Idle
    /\ r \notin rows
    /\ \A v \in Active : tx[v].op \in {"RowCreate", "RowDelete"} => tx[v].row # r
    /\ tx' = [tx EXCEPT ![w] = [op |-> "RowCreate", row |-> r, old |-> served,
                                todo |-> WithServers(served), sent |-> {}]]
    /\ UNCHANGED <<served, rows, view, suspect, raced>>

\* Two requests for one row are ordered by its lock.
RowDelete(w, r) ==
    /\ tx[w] = Idle
    /\ r \in rows
    /\ \A v \in Active : tx[v].op \in {"RowCreate", "RowDelete"} => tx[v].row # r
    /\ tx' = [tx EXCEPT ![w] = [op |-> "RowDelete", row |-> r, old |-> served,
                                todo |-> WithServers(served), sent |-> {}]]
    /\ UNCHANGED <<served, rows, view, suspect, raced>>

\* UpdateNodes: the subnet's row is read without a lock.
UpdateNodes(w, new) ==
    /\ tx[w] = Idle
    /\ new # served
    /\ tx' = [tx EXCEPT ![w] = [op |-> "Read", old |-> served, new |-> new, read |-> {},
                                dropped |-> {}, todo |-> {}, sent |-> {}]]
    /\ UNCHANGED <<served, rows, view, suspect, raced>>

\* Its update waits for the lock of the row; the old nodes are dropped first.
UpdateNodesLock(w) ==
    /\ tx[w].op = "Read"
    /\ \A v \in Workers : tx[v].op \notin {"Drop", "Make"}
    /\ tx' = [tx EXCEPT ![w].op = "Drop", ![w].todo = ToDelete(tx[w].old, tx[w].new)]
    /\ UNCHANGED <<served, rows, view, suspect, raced>>

\* genCreateSubnets4AndPoolsRequestWithSubnet4, when there are new nodes.
UpdateNodesRead(w) ==
    /\ tx[w].op = "Drop"
    /\ tx[w].todo = {}
    /\ ToCreate(tx[w].old, tx[w].new) # {}
    /\ tx' = [tx EXCEPT ![w].op = "Make", ![w].read = rows, ![w].dropped = tx[w].sent,
                        ![w].todo = ToCreate(tx[w].old, tx[w].new), ![w].sent = {}]
    /\ UNCHANGED <<served, rows, view, suspect, raced>>

-----------------------------------------------------------------------------
(***************************************************************************)
(* SendDHCPCmdWithNodes: one node at a time                                *)
(***************************************************************************)
Send(w, n) ==
    /\ n \in tx[w].todo
    /\ view' = [view EXCEPT ![n] = Apply(w, @)]
    /\ tx' = [tx EXCEPT ![w].todo = @ \ {n}, ![w].sent = @ \cup {n}]
    \* A node that has lost the subnet has nothing left to be wrong about.
    /\ suspect' = IF tx[w].op = "Drop" THEN suspect \ {n} ELSE suspect
    /\ UNCHANGED <<served, rows, raced>>

\* The nodes a rollback can reach.  It names them by their hostname, and looks
\* them up by address.  A delete, and the first half of UpdateNodes, has none.
Undoable(w) ==
    IF tx[w].op \in {"RowCreate", "Make"} /\ tx[w].todo # {}
    THEN {n \in Nodes : \E m \in tx[w].sent : HostnameOf[m] = n}
    ELSE {}

\* The rollback of a create: the opposite command.
Undone(w, n) == IF tx[w].op = "Make" THEN {} ELSE view[n] \ {tx[w].row}

\* The nodes w has sent a command to.
Told(w) == tx[w].sent \cup IF tx[w].op = "Make" THEN tx[w].dropped ELSE {}

\* A node is unknown to the cache, Kafka refuses, the commit fails or the
\* process stops: the rows are as before.  The rollback reaches some of the
\* nodes, up to the first that is unknown or that Kafka refuses.
Fail(w, undone) ==
    /\ tx[w] # Idle
    /\ undone \subseteq Undoable(w)
    /\ view' = [n \in Nodes |-> IF n \in undone THEN Undone(w, n) ELSE view[n]]
    /\ suspect' = suspect \cup (Told(w) \ undone)
    /\ tx' = [tx EXCEPT ![w] = Idle]
    /\ UNCHANGED <<served, rows, raced>>

-----------------------------------------------------------------------------
(***************************************************************************)
(* Requests: the commits                                                   *)
(***************************************************************************)
Sent(w) == tx[w].op \notin {"Idle", "Read"} /\ tx[w].todo = {}

Commit(w) == tx' = [tx EXCEPT ![w] = Idle] /\ UNCHANGED view

RowCreateCommit(w) ==
    /\ Sent(w)
    /\ tx[w].op = "RowCreate"
    /\ rows' = rows \cup {tx[w].row}
    /\ Commit(w)
    /\ UNCHANGED <<served, suspect, raced>>

RowDeleteCommit(w) ==
    /\ Sent(w)
    /\ tx[w].op = "RowDelete"
    /\ rows' = rows \ {tx[w].row}
    /\ Commit(w)
    /\ UNCHANGED <<served, suspect, raced>>

UpdateNodesCommit(w) ==
    /\ Sent(w)
    /\ \/ tx[w].op = "Drop" /\ ToCreate(tx[w].old, tx[w].new) = {}
       \/ tx[w].op = "Make"
    /\ served' = tx[w].new
    /\ raced' = (raced \/ Active # {w} \/ (tx[w].op = "Make" /\ rows # tx[w].read))
    /\ Commit(w)
    /\ UNCHANGED <<rows, suspect>>

Next ==
    \E w \in Workers :
        \/ \E r \in Rows : RowCreate(w, r) \/ RowDelete(w, r)
        \/ \E new \in SUBSET Sentries : UpdateNodes(w, new)
        \/ UpdateNodesLock(w)
        \/ UpdateNodesRead(w)
        \/ tx[w] # Idle /\ \E n \in Nodes : Send(w, n)
        \/ \E undone \in SUBSET Nodes : Fail(w, undone)
        \/ RowCreateCommit(w)
        \/ RowDeleteCommit(w)
        \/ UpdateNodesCommit(w)

Spec == Init /\ [][Next]_vars

-----------------------------------------------------------------------------
(***************************************************************************)
(* Properties                                                              *)
(***************************************************************************)
Expected(n) == IF n \in WithServers(served) THEN {Subnet} \cup rows ELSE {}

Touched == UNION {Told(w) : w \in Active}

\* A node that serves the subnet has it with exactly the committed rows, and
\* any other node has nothing of it, unless a request under way has sent it a
\* command, a request was rolled back after sending it one without reaching it
\* again, or a change of nodes has committed over another request.  No other
\* interleaving or failure puts a node out of step with the database.
NodesInStep ==
    ~raced => \A n \in Nodes \ (suspect \cup Touched) : view[n] = Expected(n)

=============================================================================
