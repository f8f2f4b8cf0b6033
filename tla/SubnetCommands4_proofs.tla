----------------------- MODULE SubnetCommands4_proofs -----------------------
(***************************************************************************)
(* Why the nodes that serve a subnet are configured with its committed     *)
(* rows, for any nodes, rows and number of requests at a time.  What a node *)
(* has is the committed rows and what requests under way have told it; a   *)
(* request knows whom it has told.  So a commit makes what it has told the *)
(* truth, and a rollback that reaches them takes it back.                  *)
(*                                                                         *)
(* The second half is about what every node has of the address codes: the  *)
(* paths of the tree that the rows stand for grow, go and move with each   *)
(* row that a request writes, and the command of the request does the same *)
(* to the node's.                                                          *)
(***************************************************************************)
EXTENDS SubnetCommands4, AddressCodes, TLAPS

Changing == {w \in Workers : tx[w].op \in {"Drop", "Make"}}

RowOps == {"RowCreate", "RowDelete"}

\* A request knows what it has read, and what it has not sent yet.
Planned(j) ==
    /\ j.op \in RowOps => j.todo \cup j.sent = WithServers(j.old)
    /\ j.op = "Read" => j.todo = {} /\ j.sent = {} /\ j.dropped = {}
    /\ j.op = "Drop" => j.todo \cup j.sent = ToDelete(j.old, j.new) /\ j.dropped = {}
    /\ j.op = "Make" => /\ j.dropped = ToDelete(j.old, j.new)
                        /\ j.todo \cup j.sent = ToCreate(j.old, j.new)

RequestsArePlanned == \A w \in Workers : Planned(tx[w])

\* The row of a creation is not there, that of a deletion is.
RowsAreOwned ==
    \A w \in Workers :
        /\ tx[w].op = "RowCreate" => tx[w].row \notin rows
        /\ tx[w].op = "RowDelete" => tx[w].row \in rows

OneRequestPerRow ==
    \A v, w \in Workers :
        tx[v].op \in RowOps /\ tx[w].op \in RowOps /\ tx[v].row = tx[w].row => v = w

OneChange == \A v, w \in Changing : v = w

NodesAreCurrent == \A w \in Active : tx[w].old = served

Dropped(j) == IF j.op = "Drop" THEN j.sent ELSE IF j.op = "Make" THEN j.dropped ELSE {}

Made(j) == IF j.op = "Make" THEN j.sent ELSE {}

\* The rows that requests under way have told a node of, or to forget.
ToldOf(t, op, n) == {t[w].row : w \in {v \in Workers : t[v].op = op /\ n \in t[v].sent}}

Kept(t, rs, n) == (rs \cup ToldOf(t, "RowCreate", n)) \ ToldOf(t, "RowDelete", n)

\* v is what a node is configured with that no failed request has left behind,
\* when s serve the subnet, rs are its rows and t the requests.
AsTold(n, v, s, rs, t) ==
    /\ \A w \in Workers :
          /\ n \in Dropped(t[w]) => v = {}
          /\ n \in Made(t[w]) => v = {Subnet} \cup t[w].read
    /\ (\A w \in Workers : n \notin Dropped(t[w]) \cup Made(t[w])) =>
          v = IF n \in WithServers(s) THEN {Subnet} \cup Kept(t, rs, n) ELSE {}

ViewsAreAsTold == \A n \in Nodes \ suspect : AsTold(n, view[n], served, rows, tx)

IInv ==
    /\ TypeOK
    /\ RequestsArePlanned
    /\ RowsAreOwned
    /\ OneRequestPerRow
    /\ OneChange
    /\ ~raced => NodesAreCurrent /\ ViewsAreAsTold

-----------------------------------------------------------------------------
(***************************************************************************)
(* Types                                                                   *)
(***************************************************************************)
LEMMA RequestType ==
    ASSUME NEW j \in RowRequests \cup NodeRequests \cup {Idle}
    PROVE  /\ j = Idle \/ j.op \in {"RowCreate", "RowDelete", "Read", "Drop", "Make"}
           /\ j.op \in RowOps <=> j \in RowRequests
           /\ j.op \in {"Read", "Drop", "Make"} <=> j \in NodeRequests
           /\ j.op = "Idle" <=> j = Idle
           /\ j # Idle => j.old \subseteq Sentries /\ j.todo \subseteq Nodes /\ j.sent \subseteq Nodes
           /\ j.op \in RowOps => j.row \in Rows
           /\ j.op \in {"Read", "Drop", "Make"} =>
                 j.new \subseteq Sentries /\ j.read \subseteq Rows /\ j.dropped \subseteq Nodes
  BY DEF RowRequests, NodeRequests, Idle, RowOps

LEMMA NodesChosen ==
    ASSUME NEW old \in SUBSET Sentries, NEW new \in SUBSET Sentries
    PROVE  /\ WithServers(old) \subseteq Nodes
           /\ ToDelete(old, new) \subseteq WithServers(old)
           /\ ToCreate(old, new) \subseteq WithServers(new)
           /\ ToCreate(old, new) \cap WithServers(old) = {}
           /\ WithServers(new) = (WithServers(old) \ ToDelete(old, new)) \cup ToCreate(old, new)
           /\ ToDelete(old, new) \cap WithServers(new) = {}
  BY CommandsAssumption DEF WithServers, ToDelete, ToCreate, Nodes

LEMMA ViewType ==
    ASSUME NEW v
    PROVE  v \in Views <=> v = {} \/ (Subnet \in v /\ v \subseteq {Subnet} \cup Rows)
  <1>1. v \in Views => v = {} \/ (Subnet \in v /\ v \subseteq {Subnet} \cup Rows)
    BY DEF Views
  <1>2. ASSUME Subnet \in v, v \subseteq {Subnet} \cup Rows PROVE v \in Views
    <2>1. v = {Subnet} \cup (v \ {Subnet}) /\ v \ {Subnet} \in SUBSET Rows
      BY <1>2
    <2>2. QED
      BY <2>1 DEF Views
  <1>3. {} \in Views
    BY DEF Views
  <1>4. QED
    BY <1>1, <1>2, <1>3

LEMMA Applied ==
    ASSUME TypeOK, NEW w \in Workers, tx[w].op \notin {"Idle", "Read"}, NEW v \in Views
    PROVE  /\ Apply(w, v) \in Views
           /\ tx[w].op \in RowOps => v \ {tx[w].row} \in Views
  <1>1. tx[w] \in RowRequests \cup NodeRequests \cup {Idle}
    BY DEF TypeOK
  <1>2. Subnet \notin Rows
    BY CommandsAssumption
  <1>3. CASE tx[w].op = "RowCreate"
    BY <1>1, <1>2, <1>3, RequestType, ViewType DEF Apply, RowOps
  <1>4. CASE tx[w].op = "RowDelete"
    BY <1>1, <1>2, <1>4, RequestType, ViewType DEF Apply, RowOps
  <1>5. CASE tx[w].op = "Drop"
    BY <1>5, ViewType DEF Apply, RowOps
  <1>6. CASE tx[w].op = "Make"
    BY <1>1, <1>6, RequestType, ViewType DEF Apply, RowOps
  <1>7. QED
    BY <1>1, <1>3, <1>4, <1>5, <1>6, RequestType

-----------------------------------------------------------------------------
(***************************************************************************)
(* Each step                                                               *)
(***************************************************************************)

\* One worker goes from its request to j, which is what TypeOK asks of it.
Becomes(w, j) == tx' = [tx EXCEPT ![w] = j]

LEMMA Stepped ==
    ASSUME TypeOK, NEW w \in Workers, NEW j, Becomes(w, j)
    PROVE  /\ tx'[w] = j
           /\ \A v \in Workers : v # w => tx'[v] = tx[v]
           /\ j \in RowRequests \cup NodeRequests \cup {Idle} =>
                 tx' \in [Workers -> RowRequests \cup NodeRequests \cup {Idle}]
  BY DEF TypeOK, Becomes

\* A request that begins has told no node anything.
LEMMA BeginKeeps ==
    ASSUME IInv, NEW w \in Workers, tx[w] = Idle,
           NEW j \in RowRequests \cup NodeRequests, Becomes(w, j),
           UNCHANGED <<served, rows, view, suspect, raced>>,
           Planned(j), j.old = served, j.sent = {}, j.op \in RowOps \cup {"Read"},
           j.op = "RowCreate" => j.row \notin rows, j.op = "RowDelete" => j.row \in rows,
           j.op \in RowOps => \A v \in Active : tx[v].op \in RowOps => tx[v].row # j.row
    PROVE  IInv'
  <1> USE DEF IInv
  <1>0. /\ tx'[w] = j
        /\ \A v \in Workers : v # w => tx'[v] = tx[v]
    BY Stepped
  <1>1. TypeOK'
    BY Stepped DEF TypeOK
  <1>2. RequestsArePlanned'
    BY <1>0 DEF RequestsArePlanned
  <1>3. RowsAreOwned'
    BY <1>0 DEF RowsAreOwned
  <1>4. OneRequestPerRow'
    BY <1>0 DEF OneRequestPerRow, RowOps, Active, Idle
  <1>5. OneChange'
    BY <1>0 DEF OneChange, Changing, RowOps
  <1>6. NodesAreCurrent => NodesAreCurrent'
    BY <1>0 DEF NodesAreCurrent, Active
  <1>7. ASSUME NEW n \in Nodes, AsTold(n, view[n], served, rows, tx)
        PROVE  AsTold(n, view[n], served, rows, tx')
    <2>1. \A op \in RowOps : ToldOf(tx', op, n) = ToldOf(tx, op, n)
      <3>1. \A v \in Workers, op \in RowOps :
               tx'[v].op = op /\ n \in tx'[v].sent <=> tx[v].op = op /\ n \in tx[v].sent
        BY <1>0 DEF Idle, RowOps
      <3>2. \A v \in Workers : tx[v] # Idle => tx'[v] = tx[v]
        BY <1>0
      <3>3. QED
        BY <3>1, <3>2 DEF ToldOf, Idle, RowOps
    <2>2. \A v \in Workers :
             /\ Dropped(tx'[v]) = Dropped(tx[v])
             /\ Made(tx'[v]) = Made(tx[v])
             /\ n \in Made(tx[v]) => tx'[v] = tx[v]
      BY <1>0 DEF Dropped, Made, Idle, RowOps
    <2>3. QED
      BY <1>7, <2>1, <2>2 DEF AsTold, Kept, RowOps
  <1>8. QED
    BY <1>1, <1>2, <1>3, <1>4, <1>5, <1>6, <1>7 DEF ViewsAreAsTold

\* How what a node has been told changes when worker w does one thing.
LEMMA ToldSame ==
    ASSUME NEW t, NEW u, NEW w \in Workers, NEW n, NEW op,
           \A v \in Workers : v # w => u[v] = t[v],
           u[w].op = op /\ n \in u[w].sent <=> t[w].op = op /\ n \in t[w].sent,
           t[w].op = op /\ n \in t[w].sent => u[w].row = t[w].row
    PROVE  ToldOf(u, op, n) = ToldOf(t, op, n)
  <1>1. \A v \in Workers :
           u[v].op = op /\ n \in u[v].sent <=> t[v].op = op /\ n \in t[v].sent
    OBVIOUS
  <1>2. \A v \in Workers : t[v].op = op /\ n \in t[v].sent => u[v].row = t[v].row
    OBVIOUS
  <1>3. QED
    BY <1>1, <1>2 DEF ToldOf

LEMMA ToldMore ==
    ASSUME NEW t, NEW u, NEW w \in Workers, NEW n, NEW op,
           \A v \in Workers : v # w => u[v] = t[v],
           u[w].op = op /\ n \in u[w].sent, n \notin t[w].sent
    PROVE  ToldOf(u, op, n) = ToldOf(t, op, n) \cup {u[w].row}
  BY DEF ToldOf

LEMMA ToldLess ==
    ASSUME NEW t, NEW u, NEW w \in Workers, NEW n, NEW op,
           \A v \in Workers : v # w => u[v] = t[v],
           u[w].op # op, t[w].op = op /\ n \in t[w].sent,
           \A v \in Workers : v # w /\ t[v].op = op => t[v].row # t[w].row
    PROVE  ToldOf(u, op, n) = ToldOf(t, op, n) \ {t[w].row}
  BY DEF ToldOf

\* A change of nodes begins to write, or to tell the new nodes.
LEMMA ChangeKeeps ==
    ASSUME IInv, NEW w \in Workers, UpdateNodesLock(w) \/ UpdateNodesRead(w)
    PROVE  IInv'
  <1> USE DEF IInv
  <1> DEFINE j == tx[w]
             k == tx'[w]
  <1>1. /\ j \in NodeRequests /\ j.op \in {"Read", "Drop"}
        /\ j.old \subseteq Sentries /\ j.new \subseteq Sentries
        /\ j.sent \subseteq Nodes /\ rows \subseteq Rows
    BY RequestType DEF TypeOK, UpdateNodesLock, UpdateNodesRead
  <1>2. /\ ToDelete(j.old, j.new) \subseteq Nodes /\ ToCreate(j.old, j.new) \subseteq Nodes
    BY <1>1, NodesChosen
  <1>3. /\ k \in NodeRequests
        /\ Becomes(w, k)
        /\ k.op \in {"Drop", "Make"} /\ k.sent = {}
        /\ k.old = j.old /\ Dropped(k) = Dropped(j)
        /\ Planned(k)
        /\ UNCHANGED <<served, rows, view, suspect, raced>>
    <2>1. CASE UpdateNodesLock(w)
      <3>1. tx' = [tx EXCEPT ![w] = [j EXCEPT !.op = "Drop", !.todo = ToDelete(j.old, j.new)]]
        BY <2>1 DEF UpdateNodesLock
      <3>2. k = [j EXCEPT !.op = "Drop", !.todo = ToDelete(j.old, j.new)]
        BY <3>1 DEF TypeOK
      <3>3. k \in NodeRequests
        BY <1>1, <1>2, <3>2 DEF NodeRequests
      <3>4. Planned(j) /\ j.op = "Read"
        BY <2>1 DEF RequestsArePlanned, UpdateNodesLock
      <3>5. /\ k.op = "Drop" /\ k.sent = {} /\ k.dropped = {} /\ k.old = j.old /\ k.new = j.new
            /\ k.todo = ToDelete(j.old, j.new)
        BY <1>1, <3>2, <3>4 DEF NodeRequests, Planned
      <3>6. QED
        BY <2>1, <3>1, <3>2, <3>3, <3>4, <3>5
           DEF Becomes, Dropped, Planned, RowOps, UpdateNodesLock
    <2>2. CASE UpdateNodesRead(w)
      <3>1. tx' = [tx EXCEPT ![w] = [j EXCEPT !.op = "Make", !.read = rows, !.dropped = j.sent,
                                        !.todo = ToCreate(j.old, j.new), !.sent = {}]]
        BY <2>2 DEF UpdateNodesRead
      <3>2. k = [j EXCEPT !.op = "Make", !.read = rows, !.dropped = j.sent,
                              !.todo = ToCreate(j.old, j.new), !.sent = {}]
        BY <3>1 DEF TypeOK
      <3>3. k \in NodeRequests
        BY <1>1, <1>2, <3>2 DEF NodeRequests
      <3>4. Planned(j) /\ j.op = "Drop" /\ j.todo = {}
        BY <2>2 DEF RequestsArePlanned, UpdateNodesRead
      <3>5. /\ k.op = "Make" /\ k.sent = {} /\ k.dropped = j.sent /\ k.old = j.old
            /\ k.new = j.new /\ k.todo = ToCreate(j.old, j.new)
        BY <1>1, <3>2 DEF NodeRequests
      <3>6. j.sent = ToDelete(j.old, j.new)
        BY <3>4 DEF Planned, RowOps
      <3>7. QED
        BY <2>2, <3>1, <3>2, <3>3, <3>4, <3>5, <3>6
           DEF Becomes, Dropped, Planned, RowOps, UpdateNodesRead
    <2>3. QED
      BY <2>1, <2>2
  <1>4. \A v \in Workers : v # w => tx'[v] = tx[v]
    BY <1>3, Stepped
  <1>5. TypeOK'
    BY <1>3, Stepped DEF TypeOK
  <1>6. RequestsArePlanned'
    BY <1>3, <1>4 DEF RequestsArePlanned
  <1>7. RowsAreOwned' /\ OneRequestPerRow'
    BY <1>3, <1>4 DEF RowsAreOwned, OneRequestPerRow, RowOps
  <1>8. OneChange'
    <2>1. CASE UpdateNodesLock(w)
      BY <2>1, <1>4 DEF OneChange, Changing, UpdateNodesLock
    <2>2. CASE UpdateNodesRead(w)
      BY <2>2, <1>4 DEF OneChange, Changing, UpdateNodesRead
    <2>3. QED
      BY <2>1, <2>2
  <1>9. NodesAreCurrent => NodesAreCurrent'
    BY <1>1, <1>3, <1>4 DEF NodesAreCurrent, Active, Idle
  <1>10. ASSUME NEW n \in Nodes, AsTold(n, view[n], served, rows, tx)
         PROVE  AsTold(n, view[n], served, rows, tx')
    <2>1. \A op \in RowOps : ToldOf(tx', op, n) = ToldOf(tx, op, n)
      BY <1>1, <1>3, <1>4, ToldSame DEF RowOps
    <2>2. \A v \in Workers :
             /\ Dropped(tx'[v]) = Dropped(tx[v])
             /\ Made(tx'[v]) = Made(tx[v])
             /\ n \in Made(tx[v]) => tx'[v] = tx[v]
      BY <1>1, <1>3, <1>4 DEF Made
    <2>3. QED
      BY <1>10, <2>1, <2>2 DEF AsTold, Kept, RowOps
  <1>11. QED
    BY <1>3, <1>5, <1>6, <1>7, <1>8, <1>9, <1>10 DEF ViewsAreAsTold

\* One node is sent a command.
LEMMA SendKeeps ==
    ASSUME IInv, NEW w \in Workers, tx[w] # Idle, NEW n \in Nodes, Send(w, n)
    PROVE  IInv'
  <1> USE DEF IInv
  <1> DEFINE j == tx[w]
             k == tx'[w]
  <1>1. /\ j \in RowRequests \cup NodeRequests /\ j.op \in RowOps \cup {"Drop", "Make"}
        /\ j.old \subseteq Sentries /\ j.todo \subseteq Nodes /\ j.sent \subseteq Nodes
        /\ Planned(j) /\ n \in j.todo
        /\ j.op \in {"Drop", "Make"} => j.new \subseteq Sentries
    <2>1. j \in RowRequests \cup NodeRequests \cup {Idle} /\ Planned(j) /\ n \in j.todo
      BY DEF TypeOK, RequestsArePlanned, Send
    <2>2. j.op # "Read"
      BY <2>1 DEF Planned
    <2>3. QED
      BY <2>1, <2>2, RequestType DEF RowOps
  <1>2. /\ tx' = [tx EXCEPT ![w] = [j EXCEPT !.todo = j.todo \ {n}, !.sent = j.sent \cup {n}]]
        /\ view' = [view EXCEPT ![n] = Apply(w, view[n])]
        /\ suspect' = IF j.op = "Drop" THEN suspect \ {n} ELSE suspect
        /\ UNCHANGED <<served, rows, raced>>
    BY DEF Send
  <1>3. k = [j EXCEPT !.todo = j.todo \ {n}, !.sent = j.sent \cup {n}]
    BY <1>2 DEF TypeOK
  <1>4. /\ k \in RowRequests \cup NodeRequests
        /\ k.op = j.op /\ k.old = j.old
        /\ k.todo = j.todo \ {n} /\ k.sent = j.sent \cup {n}
        /\ j.op \in RowOps => k.row = j.row
        /\ j.op \in {"Drop", "Make"} => k.new = j.new /\ k.dropped = j.dropped /\ k.read = j.read
    <2>1. j.todo \ {n} \in SUBSET Nodes /\ j.sent \cup {n} \in SUBSET Nodes
      BY <1>1
    <2>2. CASE j \in RowRequests
      BY <2>1, <2>2, <1>1, <1>3 DEF RowRequests, RowOps
    <2>3. CASE j \in NodeRequests
      BY <2>1, <2>3, <1>1, <1>3 DEF NodeRequests, RowOps
    <2>4. QED
      BY <2>2, <2>3, <1>1
  <1>5. /\ Becomes(w, k)
        /\ \A v \in Workers : v # w => tx'[v] = tx[v]
        /\ \A v \in Workers : tx'[v].op = tx[v].op
    <2>1. Becomes(w, k)
      BY <1>2, <1>3 DEF Becomes
    <2>2. QED
      BY <2>1, <1>4, Stepped
  <1>6. TypeOK'
    <2>1. view' \in [Nodes -> Views]
      BY <1>1, <1>2, Applied DEF TypeOK, RowOps
    <2>2. QED
      BY <2>1, <1>2, <1>4, <1>5, Stepped DEF TypeOK
  <1>7. RequestsArePlanned'
    <2>1. Planned(k)
      BY <1>1, <1>4 DEF Planned, RowOps
    <2>2. QED
      BY <2>1, <1>5 DEF RequestsArePlanned
  <1>8. RowsAreOwned' /\ OneRequestPerRow' /\ OneChange'
    BY <1>1, <1>2, <1>4, <1>5 DEF RowsAreOwned, OneRequestPerRow, OneChange, Changing, RowOps
  <1>9. NodesAreCurrent => NodesAreCurrent'
    BY <1>1, <1>2, <1>4, <1>5 DEF NodesAreCurrent, Active, Idle
  <1>10. \A m \in Nodes, op \in RowOps : m # n => ToldOf(tx', op, m) = ToldOf(tx, op, m)
    BY <1>1, <1>4, <1>5, ToldSame DEF RowOps
  <1>11. \A v \in Workers : v # w =>
            Dropped(tx'[v]) = Dropped(tx[v]) /\ Made(tx'[v]) = Made(tx[v])
    BY <1>5
  <1>12. ASSUME NEW m \in Nodes, m # n, AsTold(m, view[m], served, rows, tx)
         PROVE  AsTold(m, view[m], served, rows, tx')
    <2>1. \A v \in Workers :
             /\ m \in Dropped(tx'[v]) <=> m \in Dropped(tx[v])
             /\ m \in Made(tx'[v]) <=> m \in Made(tx[v])
             /\ m \in Made(tx[v]) => tx'[v].read = tx[v].read
      BY <1>1, <1>4, <1>5, <1>12 DEF Dropped, Made
    <2>2. Kept(tx', rows, m) = Kept(tx, rows, m)
      BY <1>10, <1>12 DEF Kept, RowOps
    <2>3. QED
      BY <1>12, <2>1, <2>2 DEF AsTold
  <1>13. ASSUME n \notin suspect', ~raced, NodesAreCurrent, ViewsAreAsTold
         PROVE  AsTold(n, view'[n], served, rows, tx')
    <2>0. view'[n] = Apply(w, view[n])
      BY <1>2 DEF TypeOK
    <2>1. CASE j.op \in RowOps
      <3>1. AsTold(n, view[n], served, rows, tx)
        BY <2>1, <1>2, <1>13 DEF ViewsAreAsTold, RowOps
      <3>2. n \in WithServers(served)
        BY <2>1, <1>1, <1>13 DEF Planned, NodesAreCurrent, Active
      <3>3. \A v \in Workers : n \notin Made(tx[v])
        <4>1. SUFFICES ASSUME NEW v \in Workers, tx[v].op = "Make", n \in tx[v].sent
                       PROVE  FALSE
          BY DEF Made
        <4>2. tx[v].old = served /\ Planned(tx[v]) /\ tx[v].new \subseteq Sentries
          BY <4>1, <1>13, RequestType
             DEF NodesAreCurrent, Active, Idle, RequestsArePlanned, TypeOK
        <4>3. n \in ToCreate(served, tx[v].new)
          BY <4>1, <4>2 DEF Planned, RowOps
        <4>4. QED
          BY <3>2, <4>2, <4>3, NodesChosen DEF TypeOK
      <3>4. \A v \in Workers : /\ Dropped(tx'[v]) = Dropped(tx[v]) 
                               /\ Made(tx'[v]) = Made(tx[v])
        BY <2>1, <1>4, <1>11 DEF Dropped, Made, RowOps
      <3>5. ASSUME NEW v \in Workers, n \in Dropped(tx[v])
            PROVE  AsTold(n, view'[n], served, rows, tx')
        <4>1. view[n] = {}
          BY <3>1, <3>5 DEF AsTold
        <4>2. view'[n] = {}
          BY <4>1, <2>0, <2>1 DEF Apply, RowOps
        <4>3. QED
          BY <4>2, <3>3, <3>4, <3>5 DEF AsTold
      <3>6. ASSUME \A v \in Workers : n \notin Dropped(tx[v])
            PROVE  AsTold(n, view'[n], served, rows, tx')
        <4>1. view[n] = {Subnet} \cup Kept(tx, rows, n)
          BY <3>1, <3>2, <3>3, <3>6 DEF AsTold
        <4>2. view'[n] = {Subnet} \cup Kept(tx', rows, n)
          <5>1. j.row \in Rows /\ Subnet \notin Rows
            BY <1>1, <2>1, RequestType, CommandsAssumption DEF TypeOK
          <5>2. CASE j.op = "RowCreate"
            <6>1. view'[n] = view[n] \cup {j.row}
              BY <4>1, <5>2, <2>0 DEF Apply
            <6>2. ToldOf(tx', "RowDelete", n) = ToldOf(tx, "RowDelete", n)
              BY <5>2, <1>4, <1>5, ToldSame
            <6>3. ToldOf(tx', "RowCreate", n) = ToldOf(tx, "RowCreate", n) \cup {j.row}
              <7>1. CASE n \in j.sent
                <8>1. ToldOf(tx', "RowCreate", n) = ToldOf(tx, "RowCreate", n)
                  BY <7>1, <5>2, <1>4, <1>5, ToldSame DEF RowOps
                <8>2. j.row \in ToldOf(tx, "RowCreate", n)
                  BY <7>1, <5>2 DEF ToldOf
                <8>3. QED
                  BY <8>1, <8>2
              <7>2. CASE n \notin j.sent
                BY <7>2, <5>2, <1>4, <1>5, ToldMore DEF RowOps
              <7>3. QED
                BY <7>1, <7>2
            <6>4. j.row \notin ToldOf(tx, "RowDelete", n)
              BY <5>2 DEF ToldOf, RowsAreOwned
            <6>5. QED
              BY <4>1, <6>1, <6>2, <6>3, <6>4 DEF Kept
          <5>3. CASE j.op = "RowDelete"
            <6>1. view'[n] = view[n] \ {j.row}
              BY <5>3, <2>0 DEF Apply
            <6>2. ToldOf(tx', "RowCreate", n) = ToldOf(tx, "RowCreate", n)
              BY <5>3, <1>4, <1>5, ToldSame
            <6>3. ToldOf(tx', "RowDelete", n) = ToldOf(tx, "RowDelete", n) \cup {j.row}
              <7>1. CASE n \in j.sent
                <8>1. ToldOf(tx', "RowDelete", n) = ToldOf(tx, "RowDelete", n)
                  BY <7>1, <5>3, <1>4, <1>5, ToldSame DEF RowOps
                <8>2. j.row \in ToldOf(tx, "RowDelete", n)
                  BY <7>1, <5>3 DEF ToldOf
                <8>3. QED
                  BY <8>1, <8>2
              <7>2. CASE n \notin j.sent
                BY <7>2, <5>3, <1>4, <1>5, ToldMore DEF RowOps
              <7>3. QED
                BY <7>1, <7>2
            <6>4. QED
              BY <4>1, <5>1, <6>1, <6>2, <6>3 DEF Kept
          <5>4. QED
            BY <2>1, <5>2, <5>3 DEF RowOps
        <4>3. QED
          BY <4>2, <3>2, <3>3, <3>4, <3>6 DEF AsTold
      <3>7. QED
        BY <3>5, <3>6
    <2>2. CASE j.op = "Drop"
      <3>1. view'[n] = {} /\ n \in Dropped(tx'[w])
        BY <2>0, <2>2, <1>4 DEF Apply, Dropped
      <3>2. \A v \in Workers : Made(tx'[v]) = {}
        BY <2>2, <1>5 DEF OneChange, Changing, Made
      <3>3. QED
        BY <3>1, <3>2 DEF AsTold
    <2>3. CASE j.op = "Make"
      <3>1. view'[n] = {Subnet} \cup j.read /\ n \in Made(tx'[w])
        BY <2>0, <2>3, <1>4 DEF Apply, Made
      <3>2. \A v \in Workers : v # w => Made(tx'[v]) = {} /\ Dropped(tx'[v]) = {}
        BY <2>3, <1>5 DEF OneChange, Changing, Made, Dropped
      <3>3. n \notin Dropped(tx'[w])
        <4>1. n \in ToCreate(j.old, j.new) /\ j.dropped = ToDelete(j.old, j.new)
          BY <2>3, <1>1 DEF Planned, RowOps
        <4>2. QED
          BY <4>1, <2>3, <1>1, <1>4, NodesChosen DEF Dropped
      <3>4. QED
        BY <3>1, <3>2, <3>3, <2>3, <1>4 DEF AsTold
    <2>4. QED
      BY <2>1, <2>2, <2>3, <1>1
  <1>14. ASSUME ~raced, NodesAreCurrent, ViewsAreAsTold PROVE ViewsAreAsTold'
    <2>1. SUFFICES ASSUME NEW m \in Nodes \ suspect'
                   PROVE  AsTold(m, view'[m], served, rows, tx')
      BY <1>2 DEF ViewsAreAsTold
    <2>2. CASE m = n
      BY <2>1, <2>2, <1>13, <1>14
    <2>3. CASE m # n
      <3>1. m \in Nodes \ suspect /\ view'[m] = view[m]
        BY <2>1, <2>3, <1>2 DEF TypeOK
      <3>2. QED
        BY <2>3, <3>1, <1>12, <1>14 DEF ViewsAreAsTold
    <2>4. QED
      BY <2>2, <2>3
  <1>15. QED
    BY <1>2, <1>6, <1>7, <1>8, <1>9, <1>14

\* A request ends: what all ends have in common.
LEMMA EndKeeps ==
    ASSUME IInv, NEW w \in Workers, tx[w] # Idle, Becomes(w, Idle)
    PROVE  /\ \A v \in Workers : v # w => tx'[v] = tx[v]
           /\ tx'[w] = Idle /\ Active' = Active \ {w}
           /\ tx' \in [Workers -> RowRequests \cup NodeRequests \cup {Idle}]
           /\ RequestsArePlanned' /\ OneRequestPerRow' /\ OneChange'
           /\ UNCHANGED served /\ NodesAreCurrent => NodesAreCurrent'
           /\ \A v \in Workers :
                 /\ Dropped(tx'[v]) = IF v = w THEN {} ELSE Dropped(tx[v])
                 /\ Made(tx'[v]) = IF v = w THEN {} ELSE Made(tx[v])
  <1> USE DEF IInv
  <1>1. /\ \A v \in Workers : v # w => tx'[v] = tx[v]
        /\ tx'[w] = Idle
        /\ tx' \in [Workers -> RowRequests \cup NodeRequests \cup {Idle}]
    BY Stepped
  <1>2. Active' = Active \ {w}
    BY <1>1 DEF Active
  <1>3. RequestsArePlanned'
    BY <1>1 DEF RequestsArePlanned, Planned, Idle, RowOps
  <1>4. OneRequestPerRow' /\ OneChange'
    BY <1>1 DEF OneRequestPerRow, OneChange, Changing, RowOps, Idle
  <1>5. UNCHANGED served /\ NodesAreCurrent => NodesAreCurrent'
    BY <1>1 DEF NodesAreCurrent, Active
  <1>6. \A v \in Workers :
           /\ Dropped(tx'[v]) = IF v = w THEN {} ELSE Dropped(tx[v])
           /\ Made(tx'[v]) = IF v = w THEN {} ELSE Made(tx[v])
    BY <1>1 DEF Dropped, Made, Idle
  <1>7. QED
    BY <1>1, <1>2, <1>3, <1>4, <1>5, <1>6

\* A node that has not been told of a request knows nothing of its end.
LEMMA UntoldStays ==
    ASSUME IInv, NEW w \in Workers, tx[w] # Idle, Becomes(w, Idle),
           NEW n \in Nodes, n \notin Told(w), NEW v, NEW s, NEW rs,
           AsTold(n, v, s, rs, tx)
    PROVE  AsTold(n, v, s, rs, tx')
  <1>1. /\ \A u \in Workers : u # w => tx'[u] = tx[u]
        /\ tx'[w] = Idle
        /\ \A u \in Workers :
              /\ Dropped(tx'[u]) = IF u = w THEN {} ELSE Dropped(tx[u])
              /\ Made(tx'[u]) = IF u = w THEN {} ELSE Made(tx[u])
    BY EndKeeps
  <1>2. n \notin tx[w].sent /\ n \notin Dropped(tx[w]) \cup Made(tx[w])
    BY DEF Told, Dropped, Made
  <1>3. \A op \in RowOps : ToldOf(tx', op, n) = ToldOf(tx, op, n)
    BY <1>1, <1>2, ToldSame DEF RowOps, Idle
  <1>4. QED
    BY <1>1, <1>2, <1>3 DEF AsTold, Kept, RowOps

\* A request fails, and its rollback reaches some nodes.
LEMMA FailKeeps ==
    ASSUME IInv, NEW w \in Workers, NEW undone \in SUBSET Nodes, Fail(w, undone)
    PROVE  IInv'
  <1> USE DEF IInv
  <1> DEFINE j == tx[w]
  <1>1. /\ j \in RowRequests \cup NodeRequests /\ j # Idle
        /\ j.op \in RowOps \cup {"Read", "Drop", "Make"}
        /\ j.old \subseteq Sentries /\ j.sent \subseteq Nodes /\ Planned(j)
        /\ j.op \in RowOps => j.row \in Rows
        /\ j.op \in {"Read", "Drop", "Make"} => j.new \subseteq Sentries /\ j.dropped \subseteq Nodes
    <2>1. j \in RowRequests \cup NodeRequests \cup {Idle} /\ j # Idle /\ Planned(j)
      BY DEF TypeOK, RequestsArePlanned, Fail
    <2>2. QED
      BY <2>1, RequestType DEF RowOps
  <1>2. /\ Becomes(w, Idle)
        /\ view' = [n \in Nodes |-> IF n \in undone THEN Undone(w, n) ELSE view[n]]
        /\ suspect' = suspect \cup (Told(w) \ undone)
        /\ UNCHANGED <<served, rows, raced>>
    BY DEF Fail, Becomes
  <1>3. /\ \A v \in Workers : v # w => tx'[v] = tx[v]
        /\ tx'[w] = Idle
        /\ tx' \in [Workers -> RowRequests \cup NodeRequests \cup {Idle}]
        /\ RequestsArePlanned' /\ OneRequestPerRow' /\ OneChange'
        /\ NodesAreCurrent => NodesAreCurrent'
        /\ \A v \in Workers :
              /\ Dropped(tx'[v]) = IF v = w THEN {} ELSE Dropped(tx[v])
              /\ Made(tx'[v]) = IF v = w THEN {} ELSE Made(tx[v])
    BY <1>1, <1>2, EndKeeps
  <1>4. undone \subseteq j.sent /\ (undone # {} => j.op \in {"RowCreate", "Make"})
    BY <1>1, CommandsAssumption DEF Fail, Undoable
  <1>5. TypeOK'
    <2>1. \A n \in undone : Undone(w, n) \in Views
      <3>1. CASE j.op = "Make"
        BY <3>1, ViewType DEF Undone
      <3>2. CASE j.op = "RowCreate"
        BY <3>2, <1>1, Applied DEF Undone, RowOps, TypeOK
      <3>3. QED
        BY <3>1, <3>2, <1>4
    <2>2. Told(w) \subseteq Nodes
      BY <1>1 DEF Told
    <2>3. QED
      BY <2>1, <2>2, <1>2, <1>3 DEF TypeOK
  <1>6. RowsAreOwned'
    BY <1>2, <1>3 DEF RowsAreOwned, Idle
  <1>7. ASSUME ~raced, NodesAreCurrent, ViewsAreAsTold PROVE ViewsAreAsTold'
    <2>1. SUFFICES ASSUME NEW n \in Nodes \ suspect'
                   PROVE  AsTold(n, view'[n], served, rows, tx')
      BY <1>2 DEF ViewsAreAsTold
    <2>2. n \notin suspect /\ AsTold(n, view[n], served, rows, tx)
      BY <2>1, <1>2, <1>7 DEF ViewsAreAsTold
    <2>3. CASE n \notin undone
      <3>1. n \notin Told(w) /\ view'[n] = view[n]
        BY <2>1, <2>3, <1>2
      <3>2. QED
        BY <3>1, <2>1, <2>2, <1>1, <1>2, UntoldStays
    <2>4. CASE n \in undone /\ j.op = "Make"
      <3>1. view'[n] = {}
        BY <2>4, <1>2 DEF Undone
      <3>2. \A v \in Workers : Dropped(tx'[v]) = {} /\ Made(tx'[v]) = {}
        BY <2>4, <1>3 DEF OneChange, Changing, Dropped, Made
      <3>3. n \in ToCreate(j.old, j.new) /\ j.old = served
        BY <2>4, <1>1, <1>4, <1>7 DEF Planned, RowOps, NodesAreCurrent, Active
      <3>4. n \notin WithServers(served)
        BY <3>3, <2>4, <1>1, NodesChosen
      <3>5. QED
        BY <3>1, <3>2, <3>4 DEF AsTold
    <2>5. CASE n \in undone /\ j.op = "RowCreate"
      <3>1. view'[n] = view[n] \ {j.row} /\ n \in j.sent
        BY <2>5, <1>2, <1>4 DEF Undone
      <3>2. \A v \in Workers :
               Dropped(tx'[v]) = Dropped(tx[v]) /\ Made(tx'[v]) = Made(tx[v])
        BY <2>5, <1>3 DEF Dropped, Made
      <3>3. \A v \in Workers : n \notin Made(tx[v])
        <4>1. SUFFICES ASSUME NEW v \in Workers, tx[v].op = "Make", n \in tx[v].sent
                       PROVE  FALSE
          BY DEF Made
        <4>2. tx[v].old = served /\ Planned(tx[v]) /\ tx[v].new \subseteq Sentries
          BY <4>1, <1>7, RequestType
             DEF NodesAreCurrent, Active, Idle, RequestsArePlanned, TypeOK
        <4>3. n \in ToCreate(served, tx[v].new)
          BY <4>1, <4>2 DEF Planned, RowOps
        <4>4. n \in WithServers(served)
          BY <2>5, <3>1, <1>1, <1>7 DEF Planned, RowOps, NodesAreCurrent, Active
        <4>5. QED
          BY <4>2, <4>3, <4>4, NodesChosen DEF TypeOK
      <3>4. Kept(tx', rows, n) = Kept(tx, rows, n) \ {j.row}
        <4>1. ToldOf(tx', "RowCreate", n) = ToldOf(tx, "RowCreate", n) \ {j.row}
          BY <2>5, <3>1, <1>3, ToldLess DEF Idle, OneRequestPerRow, RowOps
        <4>2. ToldOf(tx', "RowDelete", n) = ToldOf(tx, "RowDelete", n)
          BY <2>5, <1>3, ToldSame DEF Idle
        <4>3. j.row \notin rows
          BY <2>5 DEF RowsAreOwned
        <4>4. QED
          BY <4>1, <4>2, <4>3 DEF Kept
      <3>5. j.row # Subnet
        BY <2>5, <1>1, CommandsAssumption DEF RowOps
      <3>6. CASE \E v \in Workers : n \in Dropped(tx[v])
        <4>1. view[n] = {}
          BY <3>6, <2>2 DEF AsTold
        <4>2. QED
          BY <4>1, <3>1, <3>2, <3>3, <3>6 DEF AsTold
      <3>7. CASE \A v \in Workers : n \notin Dropped(tx[v])
        BY <3>1, <3>2, <3>3, <3>4, <3>5, <3>7, <2>2 DEF AsTold
      <3>8. QED
        BY <3>6, <3>7
    <2>6. QED
      BY <2>3, <2>4, <2>5, <1>4
  <1>8. QED
    BY <1>2, <1>3, <1>5, <1>6, <1>7

\* A row is there, or gone, when all of its nodes have been told.
LEMMA RowCommitKeeps ==
    ASSUME IInv, NEW w \in Workers, RowCreateCommit(w) \/ RowDeleteCommit(w)
    PROVE  IInv'
  <1> USE DEF IInv
  <1> DEFINE j == tx[w]
  <1>1. /\ j \in RowRequests /\ j # Idle /\ j.op \in RowOps /\ j.todo = {}
        /\ j.sent = WithServers(j.old) /\ j.row \in Rows
    <2>1. j.op \in RowOps /\ j.todo = {} /\ Planned(j)
          /\ j \in RowRequests \cup NodeRequests \cup {Idle}
      BY DEF RowCreateCommit, RowDeleteCommit, Sent, RowOps, RequestsArePlanned, TypeOK
    <2>2. QED
      BY <2>1, RequestType DEF Planned, RowOps, Idle
  <1>2. /\ Becomes(w, Idle)
        /\ rows' = IF j.op = "RowCreate" THEN rows \cup {j.row} ELSE rows \ {j.row}
        /\ UNCHANGED <<served, view, suspect, raced>>
    BY DEF RowCreateCommit, RowDeleteCommit, Commit, Becomes
  <1>3. /\ \A v \in Workers : v # w => tx'[v] = tx[v]
        /\ tx'[w] = Idle
        /\ tx' \in [Workers -> RowRequests \cup NodeRequests \cup {Idle}]
        /\ RequestsArePlanned' /\ OneRequestPerRow' /\ OneChange'
        /\ NodesAreCurrent => NodesAreCurrent'
        /\ \A v \in Workers :
              /\ Dropped(tx'[v]) = IF v = w THEN {} ELSE Dropped(tx[v])
              /\ Made(tx'[v]) = IF v = w THEN {} ELSE Made(tx[v])
    BY <1>1, <1>2, EndKeeps
  <1>4. TypeOK'
    BY <1>1, <1>2, <1>3 DEF TypeOK
  <1>5. \A v \in Workers : v # w /\ tx[v].op \in RowOps => tx[v].row # j.row
    BY <1>1 DEF OneRequestPerRow
  <1>6. RowsAreOwned'
    BY <1>2, <1>3, <1>5 DEF RowsAreOwned, Idle, RowOps
  <1>7. ASSUME ~raced, NodesAreCurrent, NEW n \in Nodes, AsTold(n, view[n], served, rows, tx)
        PROVE  AsTold(n, view[n], served, rows', tx')
    <2>1. \A v \in Workers :
             Dropped(tx'[v]) = Dropped(tx[v]) /\ Made(tx'[v]) = Made(tx[v])
      BY <1>1, <1>3 DEF Dropped, Made, RowOps
    <2>2. \A v \in Workers : n \in Made(tx[v]) => tx'[v] = tx[v]
      BY <1>1, <1>3 DEF Made, RowOps
    <2>3. ASSUME n \in WithServers(served) PROVE Kept(tx', rows', n) = Kept(tx, rows, n)
      <3>1. n \in j.sent
        BY <2>3, <1>1, <1>7 DEF NodesAreCurrent, Active
      <3>2. CASE j.op = "RowCreate"
        <4>1. ToldOf(tx', "RowCreate", n) = ToldOf(tx, "RowCreate", n) \ {j.row}
          BY <3>1, <3>2, <1>3, <1>5, ToldLess DEF Idle, RowOps
        <4>2. ToldOf(tx', "RowDelete", n) = ToldOf(tx, "RowDelete", n)
          BY <3>2, <1>3, ToldSame DEF Idle
        <4>3. j.row \in ToldOf(tx, "RowCreate", n)
          BY <3>1, <3>2 DEF ToldOf
        <4>4. QED
          BY <3>2, <4>1, <4>2, <4>3, <1>2 DEF Kept
      <3>3. CASE j.op = "RowDelete"
        <4>1. ToldOf(tx', "RowDelete", n) = ToldOf(tx, "RowDelete", n) \ {j.row}
          BY <3>1, <3>3, <1>3, <1>5, ToldLess DEF Idle, RowOps
        <4>2. ToldOf(tx', "RowCreate", n) = ToldOf(tx, "RowCreate", n)
          BY <3>3, <1>3, ToldSame DEF Idle
        <4>3. j.row \in ToldOf(tx, "RowDelete", n)
          BY <3>1, <3>3 DEF ToldOf
        <4>4. j.row \notin ToldOf(tx, "RowCreate", n)
          BY <3>3, <1>5 DEF ToldOf, RowOps
        <4>5. QED
          BY <3>3, <4>1, <4>2, <4>3, <4>4, <1>2 DEF Kept
      <3>4. QED
        BY <3>2, <3>3, <1>1 DEF RowOps
    <2>4. QED
      BY <1>7, <2>1, <2>2, <2>3 DEF AsTold
  <1>8. QED
    BY <1>2, <1>3, <1>4, <1>6, <1>7 DEF ViewsAreAsTold

\* A change of nodes that overlapped with no other request leaves every node
\* with what the database says.
LEMMA ChangeCommitKeeps ==
    ASSUME IInv, NEW w \in Workers, UpdateNodesCommit(w)
    PROVE  IInv'
  <1> USE DEF IInv
  <1> DEFINE j == tx[w]
  <1>1. /\ j \in NodeRequests /\ j # Idle /\ j.op \in {"Drop", "Make"} /\ j.todo = {}
        /\ j.old \subseteq Sentries /\ j.new \subseteq Sentries /\ Planned(j)
    <2>1. j.op \in {"Drop", "Make"} /\ j.todo = {} /\ Planned(j)
          /\ j \in RowRequests \cup NodeRequests \cup {Idle}
      BY DEF UpdateNodesCommit, Sent, RequestsArePlanned, TypeOK
    <2>2. QED
      BY <2>1, RequestType DEF RowOps, Idle
  <1>2. /\ Becomes(w, Idle)
        /\ served' = j.new
        /\ raced' = (raced \/ Active # {w} \/ (j.op = "Make" /\ rows # j.read))
        /\ UNCHANGED <<rows, view, suspect>>
    BY DEF UpdateNodesCommit, Commit, Becomes
  <1>3. /\ \A v \in Workers : v # w => tx'[v] = tx[v]
        /\ tx'[w] = Idle /\ Active' = Active \ {w}
        /\ tx' \in [Workers -> RowRequests \cup NodeRequests \cup {Idle}]
        /\ RequestsArePlanned' /\ OneRequestPerRow' /\ OneChange'
        /\ \A v \in Workers :
              /\ Dropped(tx'[v]) = IF v = w THEN {} ELSE Dropped(tx[v])
              /\ Made(tx'[v]) = IF v = w THEN {} ELSE Made(tx[v])
    BY <1>1, <1>2, EndKeeps
  <1>4. TypeOK'
    BY <1>1, <1>2, <1>3 DEF TypeOK
  <1>5. RowsAreOwned'
    BY <1>2, <1>3 DEF RowsAreOwned, Idle
  <1>6. ASSUME ~raced' PROVE NodesAreCurrent' /\ ViewsAreAsTold'
    <2>1. /\ ~raced /\ Active = {w} /\ (j.op = "Make" => rows = j.read)
          /\ NodesAreCurrent /\ ViewsAreAsTold
      BY <1>2, <1>4, <1>6 DEF TypeOK
    <2>2. NodesAreCurrent'
      BY <2>1, <1>3 DEF NodesAreCurrent
    <2>3. SUFFICES ASSUME NEW n \in Nodes \ suspect PROVE AsTold(n, view[n], j.new, rows, tx')
      BY <2>2, <1>2 DEF ViewsAreAsTold
    <2>4. AsTold(n, view[n], served, rows, tx)
      BY <2>1, <2>3 DEF ViewsAreAsTold
    <2>5. \A v \in Workers : v # w => tx[v] = Idle
      BY <2>1 DEF Active
    <2>6. \A v \in Workers : Dropped(tx'[v]) = {} /\ Made(tx'[v]) = {}
      BY <2>5, <1>3 DEF Dropped, Made, Idle
    <2>7. \A op \in RowOps : ToldOf(tx, op, n) = {} /\ ToldOf(tx', op, n) = {}
      BY <2>5, <1>1, <1>3 DEF ToldOf, RowOps, Idle
    <2>8. j.old = served
      BY <2>1 DEF NodesAreCurrent
    <2>9. Dropped(j) = ToDelete(served, j.new)
      BY <2>8, <1>1 DEF Dropped, Planned, RowOps
    <2>10. Made(j) = ToCreate(served, j.new)
      BY <2>8, <1>1 DEF Made, Planned, RowOps, UpdateNodesCommit
    <2>11. /\ ToDelete(served, j.new) \cap WithServers(j.new) = {}
           /\ ToCreate(served, j.new) \subseteq WithServers(j.new)
           /\ WithServers(j.new) =
                 (WithServers(served) \ ToDelete(served, j.new)) \cup ToCreate(served, j.new)
      BY <2>8, <1>1, NodesChosen
    <2>12. CASE n \in Dropped(j)
      <3>1. view[n] = {} /\ n \notin WithServers(j.new)
        BY <2>4, <2>9, <2>11, <2>12 DEF AsTold
      <3>2. QED
        BY <3>1, <2>6 DEF AsTold
    <2>13. CASE n \in Made(j)
      <3>1. view[n] = {Subnet} \cup rows /\ n \in WithServers(j.new)
        BY <2>1, <2>4, <2>10, <2>11, <2>13 DEF AsTold, Made
      <3>2. QED
        BY <3>1, <2>6, <2>7 DEF AsTold, Kept, RowOps
    <2>14. CASE n \notin Dropped(j) \cup Made(j)
      <3>1. n \in WithServers(j.new) <=> n \in WithServers(served)
        BY <2>9, <2>10, <2>11, <2>14
      <3>2. \A v \in Workers : n \notin Dropped(tx[v]) \cup Made(tx[v])
        BY <2>5, <2>14 DEF Dropped, Made, Idle
      <3>3. QED
        BY <3>1, <3>2, <2>4, <2>6, <2>7 DEF AsTold, Kept, RowOps
    <2>15. QED
      BY <2>12, <2>13, <2>14
  <1>7. QED
    BY <1>3, <1>4, <1>5, <1>6

-----------------------------------------------------------------------------
LEMMA InitIsInvariant == Init => IInv
  <1> SUFFICES ASSUME Init PROVE IInv
    OBVIOUS
  <1>1. TypeOK
    BY ViewType DEF Init, TypeOK
  <1>2. RequestsArePlanned /\ RowsAreOwned /\ OneRequestPerRow /\ OneChange
    BY DEF Init, RequestsArePlanned, Planned, RowsAreOwned, OneRequestPerRow, OneChange,
           Changing, RowOps, Idle
  <1>3. NodesAreCurrent
    BY DEF Init, NodesAreCurrent, Active
  <1>4. ViewsAreAsTold
    BY DEF Init, ViewsAreAsTold, AsTold, WithServers, Dropped, Made, Idle
  <1>5. QED
    BY <1>1, <1>2, <1>3, <1>4 DEF IInv

LEMMA NextKeeps == IInv /\ [Next]_vars => IInv'
  <1> SUFFICES ASSUME IInv, [Next]_vars PROVE IInv'
    OBVIOUS
  <1>1. ASSUME NEW w \in Workers, NEW r \in Rows, RowCreate(w, r) \/ RowDelete(w, r)
        PROVE  IInv'
    <2> DEFINE k(op) == [op |-> op, row |-> r, old |-> served,
                         todo |-> WithServers(served), sent |-> {}]
    <2>1. PICK op \in RowOps :
             /\ Becomes(w, k(op)) /\ tx[w] = Idle
             /\ op = "RowCreate" => r \notin rows
             /\ op = "RowDelete" => r \in rows
             /\ \A v \in Active : tx[v].op \in RowOps => tx[v].row # r
             /\ UNCHANGED <<served, rows, view, suspect, raced>>
      BY <1>1 DEF RowCreate, RowDelete, RowOps, Becomes
    <2>2. served \subseteq Sentries /\ WithServers(served) \subseteq Nodes
      BY NodesChosen DEF IInv, TypeOK
    <2>3. k(op) \in RowRequests /\ Planned(k(op))
      BY <2>1, <2>2 DEF RowRequests, RowOps, Planned
    <2>4. QED
      BY <2>1, <2>3, BeginKeeps DEF RowOps
  <1>2. ASSUME NEW w \in Workers, NEW new \in SUBSET Sentries, UpdateNodes(w, new)
        PROVE  IInv'
    <2> DEFINE k == [op |-> "Read", old |-> served, new |-> new, read |-> {},
                     dropped |-> {}, todo |-> {}, sent |-> {}]
    <2>1. /\ Becomes(w, k) /\ tx[w] = Idle
          /\ UNCHANGED <<served, rows, view, suspect, raced>>
      BY <1>2 DEF UpdateNodes, Becomes
    <2>2. k \in NodeRequests /\ Planned(k)
      BY DEF IInv, TypeOK, NodeRequests, RowOps, Planned
    <2>3. QED
      BY <2>1, <2>2, BeginKeeps DEF RowOps
  <1>3. ASSUME NEW w \in Workers, UpdateNodesLock(w) \/ UpdateNodesRead(w) PROVE IInv'
    BY <1>3, ChangeKeeps
  <1>4. ASSUME NEW w \in Workers, tx[w] # Idle, NEW n \in Nodes, Send(w, n) PROVE IInv'
    BY <1>4, SendKeeps
  <1>5. ASSUME NEW w \in Workers, NEW undone \in SUBSET Nodes, Fail(w, undone) PROVE IInv'
    BY <1>5, FailKeeps
  <1>6. ASSUME NEW w \in Workers, RowCreateCommit(w) \/ RowDeleteCommit(w) PROVE IInv'
    BY <1>6, RowCommitKeeps
  <1>7. ASSUME NEW w \in Workers, UpdateNodesCommit(w) PROVE IInv'
    BY <1>7, ChangeCommitKeeps
  <1>8. CASE UNCHANGED vars
    <2>1. TypeOK' /\ RequestsArePlanned' /\ RowsAreOwned' /\ OneRequestPerRow' /\ OneChange'
      BY <1>8 DEF IInv, vars, TypeOK, RequestsArePlanned, RowsAreOwned, OneRequestPerRow,
                  OneChange, Changing
    <2>2. ~raced' => NodesAreCurrent' /\ ViewsAreAsTold'
      BY <1>8 DEF IInv, vars, NodesAreCurrent, ViewsAreAsTold, Active
    <2>3. QED
      BY <2>1, <2>2 DEF IInv
  <1>9. QED
    BY <1>1, <1>2, <1>3, <1>4, <1>5, <1>6, <1>7, <1>8 DEF Next

LEMMA Invariant == Spec => []IInv
  BY InitIsInvariant, NextKeeps, PTL DEF Spec

\* A node is out of step with the database only through a rollback that did not
\* reach it or a change of nodes over another request, whatever the nodes, their
\* names, the rows and the number of workers are.
THEOREM NodesStayInStep == Spec => []NodesInStep
  <1>1. IInv => NodesInStep
    <2>1. SUFFICES ASSUME IInv, ~raced, NEW n \in Nodes \ (suspect \cup Touched)
                   PROVE  view[n] = Expected(n)
      BY DEF NodesInStep
    <2>2. AsTold(n, view[n], served, rows, tx)
      BY <2>1 DEF IInv, ViewsAreAsTold
    <2>3. \A w \in Workers : tx[w] # Idle => n \notin Told(w)
      BY <2>1 DEF Touched, Active
    <2>4. \A w \in Workers : /\ n \notin Dropped(tx[w]) \cup Made(tx[w])
                             /\ tx[w].op \in RowOps => n \notin tx[w].sent
      BY <2>3 DEF Told, Dropped, Made, Idle, RowOps
    <2>5. \A op \in RowOps : ToldOf(tx, op, n) = {}
      BY <2>4 DEF ToldOf
    <2>6. QED
      BY <2>2, <2>4, <2>5 DEF AsTold, Kept, Expected, RowOps
  <1>2. QED
    BY <1>1, Invariant, PTL

-----------------------------------------------------------------------------
(***************************************************************************)
(* The tree of address codes                                               *)
(***************************************************************************)
CodeOps == {"CreateCode", "UpdateCode", "DeleteCode"}

LayoutOps == {"CreateLayout", "UpdateLayout", "DeleteLayout"}

SegmentOps == {"CreateSegments", "DeleteSegments", "DeleteSegment", "UpdateSegment"}

\* What a request asks and has read is of the rows that there were.
JobTyped(job) ==
    \/ job = Waiting
    \/ /\ job.op \in CodeOps \cup LayoutOps \cup SegmentOps
       /\ job.url.code \in CodeIds
       /\ job.op \in CodeOps => job.ask \in CodeNames
       /\ job.op \in {"UpdateCode", "DeleteCode"} => job.read.code \in CodeNames
       /\ job.op \in LayoutOps \cup SegmentOps => job.url.layout \in LayoutIds
       /\ job.op = "CreateLayout" => job.ask.label \in Labels /\ job.ask.range \in Ranges
       /\ job.op = "UpdateLayout" => job.ask \in Labels
       /\ job.op \in {"UpdateLayout", "DeleteLayout"} \cup SegmentOps =>
             job.read.layout # NoLayout
       /\ job.op = "CreateSegments" =>
             /\ DOMAIN job.ask \subseteq SegmentIds
             /\ \A s \in DOMAIN job.ask : job.ask[s] \in SegmentCodes
             /\ \A s, t \in DOMAIN job.ask : job.ask[s] = job.ask[t] => s = t
       /\ job.op \in {"DeleteSegment", "UpdateSegment"} =>
             job.url.segment \in SegmentIds /\ job.read.segment # NoSegment
       /\ job.op = "UpdateSegment" => job.ask \in SegmentCodes

JobsTyped == serving = [k \in Clerks |-> serving[k]] /\ \A k \in Clerks : JobTyped(serving[k])

NamesUnique == \A c, d \in CodeRows : codes[c] = codes[d] => c = d

LabelsUnique ==
    \A l, m \in LayoutRows :
        layouts[l].code = layouts[m].code /\ layouts[l].label = layouts[m].label => l = m

SegmentCodesUnique ==
    \A s, t \in SegmentRows :
        segments[s].layout = segments[t].layout /\ segments[s].code = segments[t].code => s = t

\* No other request mentions the id of a layout that one creates.
NewLayoutsAreNew ==
    \A k \in Clerks : serving[k].op = "CreateLayout" =>
        /\ serving[k].url.layout \notin LayoutRows
        /\ \A j \in Clerks : serving[j] # Waiting =>
              /\ serving[k].url.layout \notin serving[j].read.others
              /\ j # k => serving[j].url.layout # serving[k].url.layout

\* A layout's bits never change.
NewLayoutsLieApart ==
    \A k \in Clerks : serving[k].op = "CreateLayout" =>
        \A m \in LayoutRows \cap serving[k].read.others :
            ~Overlap(layouts[m].range, serving[k].ask.range)

NewCodesAreValid ==
    \A k \in Clerks : serving[k].op \in SegmentOps /\ serving[k].url.layout \in LayoutRows =>
        /\ serving[k].op = "CreateSegments" => \A s \in DOMAIN serving[k].ask :
              Validate(serving[k].ask[s], layouts[serving[k].url.layout].range)
        /\ serving[k].op = "UpdateSegment" =>
              Validate(serving[k].ask, layouts[serving[k].url.layout].range)

TreeInv ==
    /\ TreeTyped
    /\ JobsTyped
    /\ NamesUnique
    /\ LabelsUnique
    /\ SegmentCodesUnique
    /\ NewLayoutsAreNew
    /\ NewLayoutsLieApart
    /\ NewCodesAreValid
    /\ StraightTreeMatches

-----------------------------------------------------------------------------
(***************************************************************************)
(* Codes that a layout has room for                                        *)
(***************************************************************************)
\* Validate admits only codes each of whose bits has a place in the layout.
LEMMA ValidCodesFit ==
    ASSUME NEW r \in Ranges, NEW s \in SegmentCodes, Validate(s, r)
    PROVE  Fits(s, r)
<1> DEFINE apart == r.end - r.begin
<1>1. apart \in 0..63 /\ s.digits \in Nat \ {0} /\ s.first \in 0..15 /\ r.end \in Nat /\ r.begin \in Nat
  BY CodesAssumption
<1>2. apart + 1 = s.digits * 4 - (3 - (apart % 4))
  BY DEF Validate
<1>3. (apart + 1) % 4 # 0 => s.first <= FirstDigit[(apart + 1) % 4]
  BY DEF Validate
<1>4. FirstDigit[1] = 1 /\ FirstDigit[2] = 3 /\ FirstDigit[3] = 7
  BY DEF FirstDigit
<1>5. DOMAIN Powers = 1..4 /\ Powers[1] = 1 /\ Powers[2] = 2 /\ Powers[3] = 4 /\ Powers[4] = 8
  BY DEF Powers
<1>6. SUFFICES ASSUME NEW i \in 1..4, s.first >= Powers[i]
               PROVE  4 * (s.digits - 1) + i <= apart + 1
  BY <1>5 DEF Fits
<1> HIDE DEF apart
<1>7. PICK q \in 0..15, m \in 0..3 : apart = 4 * q + m /\ apart % 4 = m
  BY <1>1
<1>8. 4 * (s.digits - 1) + m = apart
  BY <1>1, <1>2, <1>7
<1>9. SUFFICES i <= m + 1
  BY <1>1, <1>7, <1>8
<1>10. m # 3 => (apart + 1) % 4 = m + 1
  BY <1>1, <1>7
<1>11. CASE m = 0
  BY <1>1, <1>3, <1>4, <1>5, <1>6, <1>10, <1>11
<1>12. CASE m = 1
  BY <1>1, <1>3, <1>4, <1>5, <1>6, <1>10, <1>12
<1>13. CASE m = 2
  BY <1>1, <1>3, <1>4, <1>5, <1>6, <1>10, <1>13
<1>14. CASE m = 3
  BY <1>14
<1> QED
  BY <1>7, <1>11, <1>12, <1>13, <1>14

-----------------------------------------------------------------------------
(***************************************************************************)
(* Paths                                                                   *)
(***************************************************************************)
LEMMA ThroughCode ==
    /\ \A a, x : Through(<<a>>, <<x>>) <=> a = x
    /\ \A a, b, x : Through(<<a, b>>, <<x>>) <=> a = x
    /\ \A a, b, c, x : Through(<<a, b, c>>, <<x>>) <=> a = x
<1>1. \A x : DOMAIN <<x>> = {1} /\ <<x>>[1] = x /\ Len(<<x>>) = 1
  OBVIOUS
<1> QED
  BY <1>1 DEF Through

LEMMA ThroughLayout ==
    /\ \A a, x, y : ~Through(<<a>>, <<x, y>>)
    /\ \A a, b, x, y : Through(<<a, b>>, <<x, y>>) <=> (a = x /\ b = y)
    /\ \A a, b, c, x, y : Through(<<a, b, c>>, <<x, y>>) <=> (a = x /\ b = y)
<1>1. \A x, y :
         /\ DOMAIN <<x, y>> = {1, 2} /\ Len(<<x, y>>) = 2
         /\ <<x, y>>[1] = x /\ <<x, y>>[2] = y
  OBVIOUS
<1> QED
  BY <1>1 DEF Through

LEMMA ThroughSegment ==
    /\ \A a, x, y, z : ~Through(<<a>>, <<x, y, z>>)
    /\ \A a, b, x, y, z : ~Through(<<a, b>>, <<x, y, z>>)
    /\ \A a, b, c, x, y, z :
          Through(<<a, b, c>>, <<x, y, z>>) <=> (a = x /\ b = y /\ c = z)
<1>1. \A x, y, z :
         /\ DOMAIN <<x, y, z>> = {1, 2, 3} /\ Len(<<x, y, z>>) = 3
         /\ <<x, y, z>>[1] = x /\ <<x, y, z>>[2] = y /\ <<x, y, z>>[3] = z
  OBVIOUS
<1> QED
  BY <1>1 DEF Through

-----------------------------------------------------------------------------
(***************************************************************************)
(* Steps of the tree                                                       *)
(***************************************************************************)
\* Where a renaming puts a path.
Moved(command, p) ==
    IF Through(p, command.Old) THEN [p EXCEPT ![Len(command.Old)] = command.New] ELSE p

\* Renaming moves the paths that lead through the old name, and keeps the others.
LEMMA RenamedMoves ==
    ASSUME NEW command
    PROVE  Renamed(command) = {Moved(command, p) : p \in tree}
BY DEF Renamed, Cut, Below, Moved

\* Rows whose paths move as a renaming says.
LEMMA TreeMoves ==
    ASSUME NEW command, tree = Tree, tree' = Renamed(command),
           CodeRows' = CodeRows, LayoutRows' = LayoutRows, SegmentRows' = SegmentRows,
           \A c \in CodeRows : CodePath(c)' = Moved(command, CodePath(c)),
           \A l \in LayoutRows : LayoutPath(l)' = Moved(command, LayoutPath(l)),
           \A s \in SegmentRows : SegmentPath(s)' = Moved(command, SegmentPath(s))
    PROVE  tree' = Tree'
<1>1. tree' = {Moved(command, p) : p \in Tree}
  BY RenamedMoves
<1>2. Tree' = {CodePath(c)' : c \in CodeRows} \cup {LayoutPath(l)' : l \in LayoutRows}
              \cup {SegmentPath(s)' : s \in SegmentRows}
  BY Zenon DEF Tree
<1> HIDE DEF Moved, CodePath, LayoutPath, SegmentPath
<1> QED
  BY <1>1, <1>2 DEF Tree

\* Rows that go take their paths with them, and no other row has one of those.
LEMMA TreeShrinks ==
    ASSUME NEW gone, tree = Tree, tree' = tree \ gone,
           CodeRows' = {c \in CodeRows : CodePath(c) \notin gone},
           LayoutRows' = {l \in LayoutRows : LayoutPath(l) \notin gone},
           SegmentRows' = {s \in SegmentRows : SegmentPath(s) \notin gone},
           \A c \in CodeRows' : CodePath(c)' = CodePath(c),
           \A l \in LayoutRows' : LayoutPath(l)' = LayoutPath(l),
           \A s \in SegmentRows' : SegmentPath(s)' = SegmentPath(s)
    PROVE  tree' = Tree'
<1>1. Tree' = {CodePath(c)' : c \in CodeRows'} \cup {LayoutPath(l)' : l \in LayoutRows'}
              \cup {SegmentPath(s)' : s \in SegmentRows'}
  BY Zenon DEF Tree
<1> QED
  BY <1>1 DEF Tree

\* Rows that come bring their paths.
LEMMA TreeGrows ==
    ASSUME NEW cs, NEW ls, NEW ss, tree = Tree,
           CodeRows' = CodeRows \cup cs, LayoutRows' = LayoutRows \cup ls,
           SegmentRows' = SegmentRows \cup ss,
           tree' = tree \cup {CodePath(c)' : c \in cs} \cup {LayoutPath(l)' : l \in ls}
                        \cup {SegmentPath(s)' : s \in ss},
           \A c \in CodeRows : CodePath(c)' = CodePath(c),
           \A l \in LayoutRows : LayoutPath(l)' = LayoutPath(l),
           \A s \in SegmentRows : SegmentPath(s)' = SegmentPath(s)
    PROVE  tree' = Tree'
<1>1. Tree' = {CodePath(c)' : c \in CodeRows'} \cup {LayoutPath(l)' : l \in LayoutRows'}
              \cup {SegmentPath(s)' : s \in SegmentRows'}
  BY Zenon DEF Tree
<1> QED
  BY <1>1 DEF Tree

\* A command finds the parent of what it brings.
LEMMA PlantedCode ==
    ASSUME NEW a
    PROVE  Planted({<<a>>}) = tree \cup {<<a>>}
<1>1. ~(Len(<<a>>) > 1)
  OBVIOUS
<1>2. <<a>> \in Planted({<<a>>})
  BY <1>1, Zenon DEF Planted
<1> QED
  BY <1>2, Zenon DEF Planted

LEMMA PlantedLayout ==
    ASSUME NEW a, NEW b, <<a>> \in tree
    PROVE  Planted({<<a, b>>}) = tree \cup {<<a, b>>}
<1>1. Len(<<a>>) = Len(<<a, b>>) - 1
  OBVIOUS
<1>2. Through(<<a, b>>, <<a>>)
  BY ThroughCode
<1>3. <<a, b>> \in Planted({<<a, b>>})
  BY <1>1, <1>2, Zenon DEF Planted
<1> QED
  BY <1>3, Zenon DEF Planted

LEMMA PlantedSegments ==
    ASSUME NEW a, NEW b, NEW some, <<a, b>> \in tree
    PROVE  Planted({<<a, b, s>> : s \in some}) = tree \cup {<<a, b, s>> : s \in some}
<1>1. \A s : Len(<<a, b>>) = Len(<<a, b, s>>) - 1
  OBVIOUS
<1>2. \A s : Through(<<a, b, s>>, <<a, b>>)
  BY ThroughLayout
<1>3. \A s \in some : <<a, b, s>> \in Planted({<<a, b, t>> : t \in some})
  BY <1>1, <1>2, Zenon DEF Planted
<1> QED
  BY <1>3, Zenon DEF Planted

\* What a straight request has read still holds.
LEMMA StraightRead ==
    ASSUME TreeInv, NEW k \in Clerks, Finish(k), ~astray'
    PROVE  /\ ~astray /\ Straight(serving[k].url)
           /\ serving[k].read.code = codes[serving[k].url.code]
           /\ serving[k].url.layout # None =>
                 serving[k].read.layout = layouts[serving[k].url.layout]
           /\ serving[k].url.segment # None =>
                 serving[k].read.segment = segments[serving[k].url.segment]
           /\ serving[k].op = "CreateLayout" =>
                 serving[k].read.others = {l \in LayoutRows : layouts[l].code = serving[k].url.code}
<1>1. ~astray /\ Read(serving[k].op, serving[k].url) = serving[k].read /\ Straight(serving[k].url)
  BY DEF Finish, Slips, TreeInv, TreeTyped
<1> QED
  BY <1>1 DEF Read

\* What a row that exists has in its columns.
LEMMA RowTypes ==
    ASSUME TreeInv
    PROVE  /\ \A c \in CodeRows : c \in CodeIds /\ codes[c] \in CodeNames
           /\ \A l \in LayoutRows :
                 /\ l \in LayoutIds /\ l # None
                 /\ layouts[l] \in LayoutsTyped
                 /\ layouts[l].code \in CodeRows
           /\ \A s \in SegmentRows :
                 /\ s \in SegmentIds /\ s # None
                 /\ segments[s] \in SegmentsTyped
                 /\ segments[s].layout \in LayoutRows
           /\ None \notin CodeNames
           /\ \A s \in SegmentIds \ SegmentRows : segments[s] = NoSegment /\ segments[s].layout \notin LayoutIds
BY CodesAssumption DEF TreeInv, TreeTyped, CodeRows, LayoutRows, SegmentRows, NoSegment

\* A new code adds one path to the tree of the rows.
LEMMA CreatedCodeInTree ==
    ASSUME TreeInv, NEW k \in Clerks, CreateCode(k), ~astray'
    PROVE  tree' = Tree'
<1> DEFINE c == serving[k].url.code
           n == serving[k].ask
<1>1. c \in CodeIds \ CodeRows /\ n \in CodeNames /\ n # None /\ tree = Tree
  BY StraightRead, CodesAssumption
  DEF CreateCode, TreeInv, JobsTyped, JobTyped, Waiting, CodeOps, StraightTreeMatches
<1>2. /\ codes' = [codes EXCEPT ![c] = n] /\ codes \in [CodeIds -> CodeNames \cup {None}]
      /\ layouts' = layouts /\ segments' = segments
      /\ tree' = tree \cup {<<n>>}
  BY PlantedCode DEF CreateCode, CreateAddressCodeRequest, TreeInv, TreeTyped
<1> HIDE DEF c, n
<1>3. /\ CodeRows' = CodeRows \cup {c} /\ LayoutRows' = LayoutRows /\ SegmentRows' = SegmentRows
      /\ \A d \in CodeIds : d # c => codes'[d] = codes[d]
  BY <1>1, <1>2 DEF CodeRows, LayoutRows, SegmentRows
<1>4. codes'[c] = n
  BY <1>1, <1>2
<1>5. tree' = tree \cup {CodePath(d)' : d \in {c}} \cup {LayoutPath(l)' : l \in {}}
                   \cup {SegmentPath(s)' : s \in {}}
  BY <1>2, <1>4, Zenon DEF CodePath
<1>6. \A d \in CodeRows : CodePath(d)' = CodePath(d)
  BY <1>1, <1>3, RowTypes DEF CodePath
<1>7. \A l \in LayoutRows : LayoutPath(l)' = LayoutPath(l)
  BY <1>1, <1>2, <1>3, RowTypes DEF LayoutPath
<1>8. \A s \in SegmentRows : SegmentPath(s)' = SegmentPath(s)
  BY <1>1, <1>2, <1>3, RowTypes DEF SegmentPath
<1>9. LayoutRows' = LayoutRows \cup {} /\ SegmentRows' = SegmentRows \cup {}
  BY <1>3
<1> QED
  BY <1>1, <1>3, <1>5, <1>6, <1>7, <1>8, <1>9, TreeGrows, Zenon

\* A renamed code moves its path and those of its layouts and segments.
LEMMA UpdatedCodeInTree ==
    ASSUME TreeInv, NEW k \in Clerks, UpdateCode(k), ~astray'
    PROVE  tree' = Tree'
<1> DEFINE c == serving[k].url.code
           n == serving[k].ask
           command == UpdateAddressCodeRequest(codes[c], n)
<1>1. /\ c \in CodeRows /\ n \in CodeNames /\ n # None /\ tree = Tree
      /\ serving[k].read.code = codes[c]
  BY StraightRead, CodesAssumption
  DEF UpdateCode, TreeInv, JobsTyped, JobTyped, Waiting, CodeOps, StraightTreeMatches, CodeRows
<1>2. /\ codes' = [codes EXCEPT ![c] = n] /\ codes \in [CodeIds -> CodeNames \cup {None}]
      /\ layouts' = layouts /\ segments' = segments
      /\ tree' = Renamed(command)
      /\ command.Old = <<codes[c]>> /\ command.New = n
  BY <1>1 DEF UpdateCode, UpdateAddressCodeRequest, TreeInv, TreeTyped
<1>3. NamesUnique
  BY DEF TreeInv
<1> HIDE DEF c, n, command
<1>4. /\ CodeRows' = CodeRows /\ LayoutRows' = LayoutRows /\ SegmentRows' = SegmentRows
      /\ \A d \in CodeRows : codes'[d] = IF d = c THEN n ELSE codes[d]
  BY <1>1, <1>2 DEF CodeRows, LayoutRows, SegmentRows
<1>5. \A d \in CodeRows : codes[d] = codes[c] <=> d = c
  BY <1>1, <1>3 DEF NamesUnique
<1>6. Len(command.Old) = 1
  BY <1>2
<1>7. \A d \in CodeRows : CodePath(d)' = Moved(command, CodePath(d))
  <2> SUFFICES ASSUME NEW d \in CodeRows
               PROVE  CodePath(d)' = Moved(command, CodePath(d))
    OBVIOUS
  <2>1. Through(CodePath(d), command.Old) <=> d = c
    BY <1>2, <1>5, ThroughCode DEF CodePath
  <2>2. [CodePath(d) EXCEPT ![1] = n] = <<n>>
    BY DEF CodePath
  <2> QED
    BY <1>2, <1>4, <1>6, <2>1, <2>2 DEF Moved, CodePath
<1>8. \A l \in LayoutRows : LayoutPath(l)' = Moved(command, LayoutPath(l))
  <2> SUFFICES ASSUME NEW l \in LayoutRows
               PROVE  LayoutPath(l)' = Moved(command, LayoutPath(l))
    OBVIOUS
  <2>1. Through(LayoutPath(l), command.Old) <=> layouts[l].code = c
    BY <1>2, <1>5, ThroughCode, RowTypes DEF LayoutPath
  <2>2. [LayoutPath(l) EXCEPT ![1] = n] = <<n, layouts[l].label>>
    BY DEF LayoutPath
  <2> QED
    BY <1>2, <1>4, <1>6, <2>1, <2>2, RowTypes DEF Moved, LayoutPath
<1>9. \A s \in SegmentRows : SegmentPath(s)' = Moved(command, SegmentPath(s))
  <2> SUFFICES ASSUME NEW s \in SegmentRows
               PROVE  SegmentPath(s)' = Moved(command, SegmentPath(s))
    OBVIOUS
  <2> DEFINE l == segments[s].layout
  <2>1. Through(SegmentPath(s), command.Old) <=> layouts[l].code = c
    BY <1>2, <1>5, ThroughCode, RowTypes DEF SegmentPath
  <2>2. [SegmentPath(s) EXCEPT ![1] = n] = <<n, layouts[l].label, segments[s].code>>
    BY DEF SegmentPath
  <2> QED
    BY <1>2, <1>4, <1>6, <2>1, <2>2, RowTypes DEF Moved, SegmentPath
<1> QED
  BY <1>1, <1>2, <1>4, <1>7, <1>8, <1>9, TreeMoves

\* A deleted code takes its path, its layouts and their segments along.
LEMMA DeletedCodeOutOfTree ==
    ASSUME TreeInv, NEW k \in Clerks, DeleteCode(k), ~astray'
    PROVE  tree' = Tree'
<1> DEFINE c == serving[k].url.code
           mine == {l \in LayoutRows : layouts[l].code = c}
           gone == Below(<<codes[c]>>)
<1>1. c \in CodeRows /\ tree = Tree /\ serving[k].read.code = codes[c]
  BY StraightRead, CodesAssumption
  DEF DeleteCode, TreeInv, JobsTyped, JobTyped, Waiting, CodeOps, StraightTreeMatches, CodeRows
<1>2. /\ codes' = [codes EXCEPT ![c] = None] /\ codes \in [CodeIds -> CodeNames \cup {None}]
      /\ layouts' = [l \in LayoutIds |-> IF l \in mine THEN NoLayout ELSE layouts[l]]
      /\ segments' = [s \in SegmentIds |->
                         IF segments[s].layout \in mine THEN NoSegment ELSE segments[s]]
      /\ tree' = tree \ gone
  BY <1>1 DEF DeleteCode, DeleteAddressCodeRequest, Cut, TreeInv, TreeTyped
<1>3. NamesUnique
  BY DEF TreeInv
<1>4. \A d \in CodeRows : CodePath(d) \in gone <=> d = c
  BY <1>1, <1>3, ThroughCode DEF Below, Tree, CodePath, NamesUnique
<1>5. \A l \in LayoutRows : LayoutPath(l) \in gone <=> layouts[l].code = c
  BY <1>1, <1>3, ThroughCode, RowTypes DEF Below, Tree, LayoutPath, NamesUnique
<1>6. \A s \in SegmentRows : SegmentPath(s) \in gone <=> layouts[segments[s].layout].code = c
  BY <1>1, <1>3, ThroughCode, RowTypes DEF Below, Tree, SegmentPath, NamesUnique
<1> HIDE DEF c, gone
<1>7. CodeRows' = {d \in CodeRows : CodePath(d) \notin gone}
  BY <1>1, <1>2, <1>4 DEF CodeRows
<1>8. LayoutRows' = {l \in LayoutRows : LayoutPath(l) \notin gone}
  BY <1>2, <1>5 DEF LayoutRows
<1>9. SegmentRows' = {s \in SegmentRows : SegmentPath(s) \notin gone}
  BY <1>2, <1>6, RowTypes DEF SegmentRows
<1>10. \A d \in CodeRows' : d \in CodeRows /\ codes'[d] = codes[d]
  BY <1>1, <1>2, <1>7, <1>4 DEF CodeRows
<1>11. \A l \in LayoutRows' : l \in LayoutRows /\ layouts'[l] = layouts[l] /\ layouts[l].code \in CodeRows'
  BY <1>2, <1>4, <1>5, <1>7, <1>8, RowTypes
<1>12. \A s \in SegmentRows' :
          s \in SegmentRows /\ segments'[s] = segments[s] /\ segments[s].layout \in LayoutRows'
  BY <1>2, <1>5, <1>6, <1>8, <1>9, RowTypes
<1>13. \A d \in CodeRows' : CodePath(d)' = CodePath(d)
  BY <1>10 DEF CodePath
<1>14. \A l \in LayoutRows' : LayoutPath(l)' = LayoutPath(l)
  BY <1>10, <1>11 DEF LayoutPath
<1>15. \A s \in SegmentRows' : SegmentPath(s)' = SegmentPath(s)
  BY <1>10, <1>11, <1>12 DEF SegmentPath
<1> QED
  BY <1>1, <1>2, <1>7, <1>8, <1>9, <1>13, <1>14, <1>15, TreeShrinks

LEMMA NoRowIsTyped == NoLayout \notin LayoutsTyped /\ NoSegment \notin SegmentsTyped
<1>1. DOMAIN NoLayout = {"code"} /\ DOMAIN NoSegment = {"layout"}
  BY DEF NoLayout, NoSegment
<1>2. \A r \in LayoutsTyped : "label" \in DOMAIN r
  BY DEF LayoutsTyped
<1>3. \A r \in SegmentsTyped : "code" \in DOMAIN r
  BY DEF SegmentsTyped
<1>4. "label" # "code" /\ "code" # "layout"
  OBVIOUS
<1> QED
  BY <1>1, <1>2, <1>3, <1>4

\* A new layout adds one path below its code.
LEMMA CreatedLayoutInTree ==
    ASSUME TreeInv, NEW k \in Clerks, CreateLayout(k), ~astray'
    PROVE  tree' = Tree'
<1>0. PICK l : l = serving[k].url.layout
  OBVIOUS
<1> DEFINE c == serving[k].url.code
           label == serving[k].ask.label
           range == serving[k].ask.range
           new == [code |-> c, label |-> label, range |-> range]
<1>1. /\ l \in LayoutIds \ LayoutRows /\ c \in CodeRows /\ tree = Tree
      /\ serving[k].read.code = codes[c]
  BY <1>0, StraightRead, CodesAssumption
  DEF CreateLayout, TreeInv, JobsTyped, JobTyped, Waiting, LayoutOps, StraightTreeMatches
<1>2. <<codes[c]>> \in tree
  BY <1>1 DEF Tree, CodePath
<1>3. /\ layouts' = [layouts EXCEPT ![l] = new]
      /\ DOMAIN layouts = LayoutIds
      /\ codes' = codes /\ segments' = segments
      /\ tree' = tree \cup {<<codes[c], label>>}
  BY <1>0, <1>1, <1>2, PlantedLayout
  DEF CreateLayout, CreateAddressCodeLayoutRequest, TreeInv, TreeTyped
<1>4. new # NoLayout
  BY <1>1, RowTypes, CodesAssumption DEF NoLayout, CodeRows
<1>5. layouts'[l] = new /\ \A m \in LayoutIds : m # l => layouts'[m] = layouts[m]
  BY <1>1, <1>3
<1>6. layouts'[l].code = c /\ layouts'[l].label = label
  BY <1>5
<1> HIDE DEF c, label, range, new
<1>7. /\ CodeRows' = CodeRows \cup {} /\ LayoutRows' = LayoutRows \cup {l}
      /\ SegmentRows' = SegmentRows \cup {}
  BY <1>1, <1>3, <1>4, <1>5 DEF CodeRows, LayoutRows, SegmentRows
<1>8. LayoutPath(l)' = <<codes[c], label>>
  <2>1. LayoutPath(l)' = <<codes'[layouts'[l].code], layouts'[l].label>>
    BY Zenon DEF LayoutPath
  <2> QED
    BY <1>3, <1>6, <2>1
<1>9. tree' = tree \cup {CodePath(d)' : d \in {}} \cup {LayoutPath(m)' : m \in {l}}
                   \cup {SegmentPath(s)' : s \in {}}
  <2>1. {LayoutPath(m)' : m \in {l}} = {<<codes[c], label>>}
    BY <1>8
  <2>2. {CodePath(d)' : d \in {}} = {} /\ {SegmentPath(s)' : s \in {}} = {}
    OBVIOUS
  <2> QED
    BY <1>3, <2>1, <2>2
<1>10. \A d \in CodeRows : CodePath(d)' = CodePath(d)
  BY <1>3 DEF CodePath
<1>11. \A m \in LayoutRows : LayoutPath(m)' = LayoutPath(m)
  BY <1>1, <1>3, <1>5, RowTypes DEF LayoutPath
<1>12. \A s \in SegmentRows : SegmentPath(s)' = SegmentPath(s)
  BY <1>1, <1>3, <1>5, RowTypes DEF SegmentPath
<1> QED
  BY <1>1, <1>7, <1>9, <1>10, <1>11, <1>12, TreeGrows, Zenon

\* A layout is found by its code's name and its label.
LEMMA LayoutPathsDiffer ==
    ASSUME TreeInv, NEW l \in LayoutRows
    PROVE  \A m \in LayoutRows :
              codes[layouts[m].code] = codes[layouts[l].code] /\ layouts[m].label = layouts[l].label
                 <=> m = l
BY RowTypes DEF TreeInv, NamesUnique, LabelsUnique

\* A request below a layout goes to the layout's path.
LEMMA LayoutRead ==
    ASSUME TreeInv, NEW k \in Clerks, Finish(k), ~astray',
           serving[k].op \in {"UpdateLayout", "DeleteLayout"} \cup SegmentOps
    PROVE  /\ serving[k].url.layout \in LayoutRows
           /\ serving[k].read.code = codes[layouts[serving[k].url.layout].code]
           /\ serving[k].read.layout.label = layouts[serving[k].url.layout].label
           /\ tree = Tree
           /\ LayoutPath(serving[k].url.layout) \in tree
<1> DEFINE job == serving[k]
<1>1. job.url.layout \in LayoutIds /\ job.read.layout # NoLayout
  BY DEF TreeInv, JobsTyped, JobTyped, Waiting, LayoutOps, SegmentOps
<1>2. job.url.layout # None
  BY <1>1, CodesAssumption
<1>3. job.read.layout = layouts[job.url.layout] /\ Straight(job.url) /\ tree = Tree
  BY <1>2, StraightRead DEF TreeInv, StraightTreeMatches
<1>4. job.url.layout \in LayoutRows
  BY <1>1, <1>3 DEF LayoutRows
<1>5. layouts[job.url.layout].code = job.url.code
  BY <1>1, <1>2, <1>3 DEF Straight
<1> QED
  BY <1>3, <1>4, <1>5, StraightRead DEF Tree

\* A renamed layout moves its path and those of its segments.
LEMMA UpdatedLayoutInTree ==
    ASSUME TreeInv, NEW k \in Clerks, UpdateLayout(k), ~astray'
    PROVE  tree' = Tree'
<1> DEFINE l == serving[k].url.layout
           n == serving[k].ask
           a == codes[layouts[l].code]
           command == UpdateAddressCodeLayoutRequest(a, layouts[l].label, n)
<1>1. /\ l \in LayoutRows /\ tree = Tree
      /\ serving[k].read.code = a /\ serving[k].read.layout.label = layouts[l].label
  BY LayoutRead DEF UpdateLayout
<1>2. /\ layouts' = [layouts EXCEPT ![l].label = n]
      /\ layouts \in [LayoutIds -> LayoutsTyped \cup {NoLayout}]
      /\ codes' = codes /\ segments' = segments
      /\ tree' = Renamed(command)
      /\ command.Old = <<a, layouts[l].label>> /\ command.New = n
  BY <1>1 DEF UpdateLayout, UpdateAddressCodeLayoutRequest, TreeInv, TreeTyped
<1>3. \A m \in LayoutRows :
         /\ layouts'[m].code = layouts[m].code
         /\ layouts'[m].label = IF m = l THEN n ELSE layouts[m].label
  BY <1>1, <1>2, RowTypes DEF LayoutsTyped
<1>4. LayoutRows' = LayoutRows
  <2>1. layouts'[l] = [layouts[l] EXCEPT !.label = n]
    BY <1>1, <1>2, RowTypes
  <2>2. n \in Labels
    BY DEF UpdateLayout, TreeInv, JobsTyped, JobTyped, Waiting
  <2>3. layouts'[l] # NoLayout
    BY <1>1, <2>1, <2>2, RowTypes, NoRowIsTyped DEF LayoutsTyped
  <2> QED
    BY <1>1, <1>2, <2>3 DEF LayoutRows
<1>5. \A m \in LayoutRows :
         codes[layouts[m].code] = a /\ layouts[m].label = layouts[l].label <=> m = l
  BY <1>1, LayoutPathsDiffer
<1> HIDE DEF l, n, a, command
<1>6. CodeRows' = CodeRows /\ SegmentRows' = SegmentRows
  BY <1>2 DEF CodeRows, SegmentRows
<1>7. Len(command.Old) = 2
  BY <1>2
<1>8. \A d \in CodeRows : CodePath(d)' = Moved(command, CodePath(d))
  BY <1>2, ThroughLayout DEF Moved, CodePath
<1>9. \A m \in LayoutRows : LayoutPath(m)' = Moved(command, LayoutPath(m))
  <2> SUFFICES ASSUME NEW m \in LayoutRows
               PROVE  LayoutPath(m)' = Moved(command, LayoutPath(m))
    OBVIOUS
  <2>1. Through(LayoutPath(m), command.Old) <=> m = l
    BY <1>2, <1>5, ThroughLayout DEF LayoutPath
  <2>2. [LayoutPath(m) EXCEPT ![2] = n] = <<codes[layouts[m].code], n>>
    BY DEF LayoutPath
  <2> QED
    BY <1>2, <1>3, <1>7, <2>1, <2>2 DEF Moved, LayoutPath
<1>10. \A s \in SegmentRows : SegmentPath(s)' = Moved(command, SegmentPath(s))
  <2> SUFFICES ASSUME NEW s \in SegmentRows
               PROVE  SegmentPath(s)' = Moved(command, SegmentPath(s))
    OBVIOUS
  <2> DEFINE m == segments[s].layout
  <2>1. Through(SegmentPath(s), command.Old) <=> m = l
    BY <1>2, <1>5, ThroughLayout, RowTypes DEF SegmentPath
  <2>2. [SegmentPath(s) EXCEPT ![2] = n] = <<codes[layouts[m].code], n, segments[s].code>>
    BY DEF SegmentPath
  <2> QED
    BY <1>2, <1>3, <1>7, <2>1, <2>2, RowTypes DEF Moved, SegmentPath
<1> QED
  BY <1>1, <1>2, <1>4, <1>6, <1>8, <1>9, <1>10, TreeMoves

\* A deleted layout takes its path and its segments along.
LEMMA DeletedLayoutOutOfTree ==
    ASSUME TreeInv, NEW k \in Clerks, DeleteLayout(k), ~astray'
    PROVE  tree' = Tree'
<1> DEFINE l == serving[k].url.layout
           a == codes[layouts[l].code]
           gone == Below(<<a, layouts[l].label>>)
<1>1. /\ l \in LayoutRows /\ tree = Tree
      /\ serving[k].read.code = a /\ serving[k].read.layout.label = layouts[l].label
  BY LayoutRead DEF DeleteLayout
<1>2. /\ layouts' = [layouts EXCEPT ![l] = NoLayout] /\ DOMAIN layouts = LayoutIds
      /\ segments' = [s \in SegmentIds |->
                         IF segments[s].layout = l THEN NoSegment ELSE segments[s]]
      /\ codes' = codes
      /\ tree' = tree \ gone
  BY <1>1 DEF DeleteLayout, DeleteAddressCodeLayoutRequest, Cut, TreeInv, TreeTyped
<1>3. \A m \in LayoutRows :
         codes[layouts[m].code] = a /\ layouts[m].label = layouts[l].label <=> m = l
  BY <1>1, LayoutPathsDiffer
<1>4. \A d \in CodeRows : CodePath(d) \notin gone
  BY <1>1, ThroughLayout DEF Below, Tree, CodePath
<1>5. \A m \in LayoutRows : LayoutPath(m) \in gone <=> m = l
  BY <1>1, <1>3, ThroughLayout, RowTypes DEF Below, Tree, LayoutPath
<1>6. \A s \in SegmentRows : SegmentPath(s) \in gone <=> segments[s].layout = l
  BY <1>1, <1>3, ThroughLayout, RowTypes DEF Below, Tree, SegmentPath
<1> HIDE DEF l, a, gone
<1>7. CodeRows' = {d \in CodeRows : CodePath(d) \notin gone}
  BY <1>2, <1>4 DEF CodeRows
<1>8. LayoutRows' = {m \in LayoutRows : LayoutPath(m) \notin gone}
  BY <1>1, <1>2, <1>5 DEF LayoutRows
<1>9. SegmentRows' = {s \in SegmentRows : SegmentPath(s) \notin gone}
  BY <1>1, <1>2, <1>6, RowTypes DEF SegmentRows
<1>10. \A m \in LayoutRows' : m \in LayoutRows /\ layouts'[m] = layouts[m]
  BY <1>2, <1>5, <1>8, RowTypes
<1>11. \A s \in SegmentRows' :
          s \in SegmentRows /\ segments'[s] = segments[s] /\ segments[s].layout \in LayoutRows'
  BY <1>2, <1>5, <1>6, <1>8, <1>9, RowTypes
<1>12. \A d \in CodeRows' : CodePath(d)' = CodePath(d)
  BY <1>2 DEF CodePath
<1>13. \A m \in LayoutRows' : LayoutPath(m)' = LayoutPath(m)
  BY <1>2, <1>10 DEF LayoutPath
<1>14. \A s \in SegmentRows' : SegmentPath(s)' = SegmentPath(s)
  BY <1>2, <1>10, <1>11 DEF SegmentPath
<1> QED
  BY <1>1, <1>2, <1>7, <1>8, <1>9, <1>12, <1>13, <1>14, TreeShrinks

LEMMA SegmentPathsDiffer ==
    ASSUME TreeInv, NEW l \in LayoutRows
    PROVE  \A s \in SegmentRows :
              codes[layouts[segments[s].layout].code] = codes[layouts[l].code]
              /\ layouts[segments[s].layout].label = layouts[l].label
                 <=> segments[s].layout = l
BY LayoutPathsDiffer, RowTypes

\* New segments add a path each below their layout.
LEMMA CreatedSegmentsInTree ==
    ASSUME TreeInv, NEW k \in Clerks, CreateSegments(k), ~astray'
    PROVE  tree' = Tree'
<1>0. PICK l, new : l = serving[k].url.layout /\ new = serving[k].ask
  OBVIOUS
<1> DEFINE a == codes[layouts[l].code]
           brought == {new[s] : s \in DOMAIN new}
<1>1. /\ l \in LayoutRows /\ tree = Tree /\ LayoutPath(l) \in tree
      /\ serving[k].read.code = a /\ serving[k].read.layout.label = layouts[l].label
  BY <1>0, LayoutRead DEF CreateSegments, SegmentOps
<1>2. /\ DOMAIN new \subseteq SegmentIds
      /\ \A s \in DOMAIN new : new[s] \in SegmentCodes
  BY <1>0 DEF CreateSegments, TreeInv, JobsTyped, JobTyped, Waiting
<1>3. /\ DOMAIN new \cap SegmentRows = {}
      /\ segments' = [s \in SegmentIds |->
                         IF s \in DOMAIN new THEN [layout |-> l, code |-> new[s]]
                         ELSE segments[s]]
      /\ codes' = codes /\ layouts' = layouts
      /\ tree' = Planted({<<a, layouts[l].label, x>> : x \in brought})
  BY <1>0, <1>1 DEF CreateSegments, CreateAddressCodeLayoutSegmentsRequest
<1>4. tree' = tree \cup {<<a, layouts[l].label, x>> : x \in brought}
  <2>1. <<a, layouts[l].label>> \in tree
    BY <1>1 DEF LayoutPath
  <2>2. PICK b, some : b = layouts[l].label /\ some = brought
    OBVIOUS
  <2> HIDE DEF a, brought
  <2>3. Planted({<<a, b, x>> : x \in some}) = tree \cup {<<a, b, x>> : x \in some}
    BY <2>1, <2>2, PlantedSegments
  <2> QED
    BY <1>3, <2>2, <2>3
<1>5. /\ \A s \in DOMAIN new : /\ segments'[s].layout = l /\ segments'[s].code = new[s]
                               /\ segments'[s] # NoSegment
      /\ \A s \in SegmentIds \ DOMAIN new : segments'[s] = segments[s]
  <2>1. \A s \in DOMAIN new : segments'[s] = [layout |-> l, code |-> new[s]]
    BY <1>2, <1>3
  <2>2. \A s \in DOMAIN new : [layout |-> l, code |-> new[s]] \in SegmentsTyped
    BY <1>1, <1>2, RowTypes DEF SegmentsTyped
  <2>3. \A s \in DOMAIN new : segments'[s] # NoSegment
    BY <2>1, <2>2, NoRowIsTyped
  <2>4. \A s \in SegmentIds \ DOMAIN new : segments'[s] = segments[s]
    BY <1>3
  <2>5. ASSUME NEW s \in DOMAIN new
        PROVE  segments'[s].layout = l /\ segments'[s].code = new[s]
    <3>1. segments'[s] = [layout |-> l, code |-> new[s]]
      BY <2>1
    <3> QED
      BY <3>1
  <2> QED
    BY <2>3, <2>4, <2>5
<1>6. /\ CodeRows' = CodeRows \cup {} /\ LayoutRows' = LayoutRows \cup {}
      /\ SegmentRows' = SegmentRows \cup DOMAIN new
  BY <1>2, <1>3, <1>5 DEF CodeRows, LayoutRows, SegmentRows
<1> HIDE DEF a, brought
<1>7. \A s \in DOMAIN new : SegmentPath(s)' = <<a, layouts[l].label, new[s]>>
  BY <1>3, <1>5 DEF SegmentPath, a
<1>8. {SegmentPath(s)' : s \in DOMAIN new} = {<<a, layouts[l].label, x>> : x \in brought}
  BY <1>7 DEF brought
<1>9. tree' = tree \cup {CodePath(d)' : d \in {}} \cup {LayoutPath(m)' : m \in {}}
                   \cup {SegmentPath(s)' : s \in DOMAIN new}
  <2>1. {CodePath(d)' : d \in {}} = {} /\ {LayoutPath(m)' : m \in {}} = {}
    OBVIOUS
  <2> QED
    BY <1>4, <1>8, <2>1
<1>10. \A d \in CodeRows : CodePath(d)' = CodePath(d)
  BY <1>3 DEF CodePath
<1>11. \A m \in LayoutRows : LayoutPath(m)' = LayoutPath(m)
  BY <1>3 DEF LayoutPath
<1>12. \A s \in SegmentRows : SegmentPath(s)' = SegmentPath(s)
  BY <1>3, <1>5, RowTypes DEF SegmentPath
<1> QED
  BY <1>1, <1>6, <1>9, <1>10, <1>11, <1>12, TreeGrows, Zenon

\* The segments of a layout whose codes a command names go, and no others.
LEMMA SegmentsOutOfTree ==
    ASSUME TreeInv, NEW l \in LayoutRows, NEW some, tree = Tree,
           codes' = codes, layouts' = layouts,
           segments' = [s \in SegmentIds |->
                           IF s \in SegmentRows /\ segments[s].layout = l
                              /\ segments[s].code \in some
                           THEN NoSegment ELSE segments[s]],
           tree' = tree \ {<<codes[layouts[l].code], layouts[l].label, x>> : x \in some}
    PROVE  tree' = Tree'
<1> DEFINE a == codes[layouts[l].code]
           gone == {<<a, layouts[l].label, x>> : x \in some}
<1>1. \A d \in CodeRows : CodePath(d) \notin gone
  BY DEF CodePath
<1>2. \A m \in LayoutRows : LayoutPath(m) \notin gone
  BY DEF LayoutPath
<1>3. \A s \in SegmentRows :
         SegmentPath(s) \in gone <=> (segments[s].layout = l /\ segments[s].code \in some)
  BY SegmentPathsDiffer DEF SegmentPath
<1> HIDE DEF a, gone
<1>4. CodeRows' = {d \in CodeRows : CodePath(d) \notin gone}
  BY <1>1 DEF CodeRows
<1>5. LayoutRows' = {m \in LayoutRows : LayoutPath(m) \notin gone}
  BY <1>2 DEF LayoutRows
<1>6. SegmentRows' = {s \in SegmentRows : SegmentPath(s) \notin gone}
  BY <1>3 DEF SegmentRows
<1>7. \A s \in SegmentRows' : s \in SegmentRows /\ segments'[s] = segments[s]
  BY <1>3, <1>6, RowTypes
<1>8. \A d \in CodeRows' : CodePath(d)' = CodePath(d)
  BY DEF CodePath
<1>9. \A m \in LayoutRows' : LayoutPath(m)' = LayoutPath(m)
  BY DEF LayoutPath
<1>10. \A s \in SegmentRows' : SegmentPath(s)' = SegmentPath(s)
  BY <1>7 DEF SegmentPath
<1>11. tree' = tree \ gone
  BY DEF gone, a
<1> QED
  BY <1>4, <1>5, <1>6, <1>8, <1>9, <1>10, <1>11, TreeShrinks

\* Deleted segments take their own paths only.
LEMMA DeletedSegmentsOutOfTree ==
    ASSUME TreeInv, NEW k \in Clerks, DeleteSegments(k), ~astray'
    PROVE  tree' = Tree'
<1>0. PICK l, some : l = serving[k].url.layout /\ some = serving[k].ask
  OBVIOUS
<1>1. /\ l \in LayoutRows /\ tree = Tree
      /\ serving[k].read.code = codes[layouts[l].code]
      /\ serving[k].read.layout.label = layouts[l].label
  BY <1>0, LayoutRead DEF DeleteSegments, SegmentOps
<1>2. /\ segments' = [s \in SegmentIds |->
                         IF s \in SegmentRows /\ segments[s].layout = l
                            /\ segments[s].code \in some
                         THEN NoSegment ELSE segments[s]]
      /\ codes' = codes /\ layouts' = layouts
      /\ tree' = tree \ {<<codes[layouts[l].code], layouts[l].label, x>> : x \in some}
  BY <1>0, <1>1 DEF DeleteSegments, DeleteAddressCodeLayoutSegmentsRequest
<1> QED
  BY <1>1, <1>2, SegmentsOutOfTree

\* A request on a segment has read its row, and is of the segment's layout.
LEMMA SegmentRead ==
    ASSUME TreeInv, NEW k \in Clerks, Finish(k), ~astray',
           serving[k].op \in {"DeleteSegment", "UpdateSegment"}
    PROVE  /\ serving[k].url.segment \in SegmentRows
           /\ serving[k].read.segment = segments[serving[k].url.segment]
           /\ segments[serving[k].url.segment].layout = serving[k].url.layout
<1> DEFINE job == serving[k]
<1>1. job.url.segment \in SegmentIds /\ job.read.segment # NoSegment
  BY DEF TreeInv, JobsTyped, JobTyped, Waiting
<1>2. job.url.segment # None
  BY <1>1, CodesAssumption
<1>3. job.read.segment = segments[job.url.segment] /\ Straight(job.url)
  BY <1>2, StraightRead
<1> QED
  BY <1>1, <1>2, <1>3 DEF Straight, SegmentRows

LEMMA DeletedSegmentOutOfTree ==
    ASSUME TreeInv, NEW k \in Clerks, DeleteSegment(k), ~astray'
    PROVE  tree' = Tree'
<1>0. PICK l, s, some :
         l = serving[k].url.layout /\ s = serving[k].url.segment /\ some = {segments[s].code}
  OBVIOUS
<1>1. /\ l \in LayoutRows /\ tree = Tree
      /\ serving[k].read.code = codes[layouts[l].code]
      /\ serving[k].read.layout.label = layouts[l].label
  BY <1>0, LayoutRead DEF DeleteSegment, SegmentOps
<1>2. s \in SegmentRows /\ serving[k].read.segment = segments[s] /\ segments[s].layout = l
  BY <1>0, SegmentRead DEF DeleteSegment
<1>3. /\ segments' = [segments EXCEPT ![s] = NoSegment]
      /\ codes' = codes /\ layouts' = layouts
      /\ tree' = tree \ {<<codes[layouts[l].code], layouts[l].label, x>> : x \in some}
  BY <1>0, <1>1, <1>2 DEF DeleteSegment, DeleteAddressCodeLayoutSegmentsRequest
<1>4. \A t \in SegmentRows : segments[t].layout = l /\ segments[t].code \in some <=> t = s
  BY <1>0, <1>2 DEF TreeInv, SegmentCodesUnique
<1>5. segments' = [t \in SegmentIds |->
                      IF t \in SegmentRows /\ segments[t].layout = l /\ segments[t].code \in some
                      THEN NoSegment ELSE segments[t]]
  BY <1>2, <1>3, <1>4, RowTypes DEF TreeInv, TreeTyped
<1> QED
  BY <1>1, <1>3, <1>5, SegmentsOutOfTree

\* A segment with another code moves its path only.
LEMMA UpdatedSegmentInTree ==
    ASSUME TreeInv, NEW k \in Clerks, UpdateSegment(k), ~astray'
    PROVE  tree' = Tree'
<1>0. PICK l, s, n :
         l = serving[k].url.layout /\ s = serving[k].url.segment /\ n = serving[k].ask
  OBVIOUS
<1> DEFINE a == codes[layouts[l].code]
           command == UpdateAddressCodeLayoutSegmentRequest(
                         a, layouts[l].label, segments[s].code, n)
<1>1. /\ l \in LayoutRows /\ tree = Tree
      /\ serving[k].read.code = a /\ serving[k].read.layout.label = layouts[l].label
  BY <1>0, LayoutRead DEF UpdateSegment, SegmentOps
<1>2. s \in SegmentRows /\ serving[k].read.segment = segments[s] /\ segments[s].layout = l
  BY <1>0, SegmentRead DEF UpdateSegment
<1>3. /\ segments' = [segments EXCEPT ![s].code = n]
      /\ segments \in [SegmentIds -> SegmentsTyped \cup {NoSegment}]
      /\ codes' = codes /\ layouts' = layouts
      /\ tree' = Renamed(command)
      /\ command.Old = <<a, layouts[l].label, segments[s].code>> /\ command.New = n
  BY <1>0, <1>1, <1>2
  DEF UpdateSegment, UpdateAddressCodeLayoutSegmentRequest, TreeInv, TreeTyped
<1>4. \A t \in SegmentRows :
         /\ segments'[t].layout = segments[t].layout
         /\ segments'[t].code = IF t = s THEN n ELSE segments[t].code
  BY <1>2, <1>3, RowTypes DEF SegmentsTyped
<1>5. SegmentRows' = SegmentRows
  <2>1. segments'[s] = [segments[s] EXCEPT !.code = n]
    BY <1>2, <1>3, RowTypes
  <2>2. n \in SegmentCodes
    BY <1>0 DEF UpdateSegment, TreeInv, JobsTyped, JobTyped, Waiting
  <2>3. segments'[s] # NoSegment
    BY <1>2, <2>1, <2>2, RowTypes, NoRowIsTyped DEF SegmentsTyped
  <2> QED
    BY <1>2, <1>3, <2>3 DEF SegmentRows
<1>6. \A t \in SegmentRows :
         (/\ codes[layouts[segments[t].layout].code] = a
          /\ layouts[segments[t].layout].label = layouts[l].label
          /\ segments[t].code = segments[s].code) <=> t = s
  BY <1>1, <1>2, SegmentPathsDiffer DEF TreeInv, SegmentCodesUnique
<1> HIDE DEF a, command
<1>7. CodeRows' = CodeRows /\ LayoutRows' = LayoutRows
  BY <1>3 DEF CodeRows, LayoutRows
<1>8. Len(command.Old) = 3
  BY <1>3
<1>9. \A d \in CodeRows : CodePath(d)' = Moved(command, CodePath(d))
  BY <1>3, ThroughSegment DEF Moved, CodePath
<1>10. \A m \in LayoutRows : LayoutPath(m)' = Moved(command, LayoutPath(m))
  BY <1>3, ThroughSegment DEF Moved, LayoutPath
<1>11. \A t \in SegmentRows : SegmentPath(t)' = Moved(command, SegmentPath(t))
  <2> SUFFICES ASSUME NEW t \in SegmentRows
               PROVE  SegmentPath(t)' = Moved(command, SegmentPath(t))
    OBVIOUS
  <2> DEFINE m == segments[t].layout
  <2>1. Through(SegmentPath(t), command.Old) <=> t = s
    BY <1>3, <1>6, ThroughSegment DEF SegmentPath
  <2>2. [SegmentPath(t) EXCEPT ![3] = n] = <<codes[layouts[m].code], layouts[m].label, n>>
    BY DEF SegmentPath
  <2> QED
    BY <1>3, <1>4, <1>8, <2>1, <2>2 DEF Moved, SegmentPath
<1> QED
  BY <1>1, <1>3, <1>5, <1>7, <1>9, <1>10, <1>11, TreeMoves

SegmentsFit == \A s \in SegmentRows : Fits(segments[s].code, layouts[segments[s].layout].range)

LayoutsApart ==
    \A l, m \in LayoutRows : l # m /\ layouts[l].code = layouts[m].code =>
        ~Overlap(layouts[l].range, layouts[m].range)

LEMMA TreeMatchesAs ==
    StraightTreeMatches <=> (~astray => tree = Tree /\ SegmentsFit /\ LayoutsApart)
BY DEF StraightTreeMatches, SegmentsFit, LayoutsApart

LEMMA InitTreeInv == InitTree => TreeInv
<1> SUFFICES ASSUME InitTree PROVE TreeInv
  OBVIOUS
<1>1. CodeRows = {} /\ LayoutRows = {} /\ SegmentRows = {}
  BY DEF InitTree, CodeRows, LayoutRows, SegmentRows
<1>2. TreeTyped
  BY <1>1 DEF InitTree, TreeTyped
<1>3. JobsTyped /\ \A k \in Clerks : serving[k].op = "none"
  BY DEF InitTree, JobsTyped, JobTyped, Waiting
<1>4. tree = Tree
  BY <1>1 DEF InitTree, Tree
<1>5. /\ NamesUnique /\ LabelsUnique /\ SegmentCodesUnique
      /\ SegmentsFit /\ LayoutsApart
  BY <1>1 DEF NamesUnique, LabelsUnique, SegmentCodesUnique, SegmentsFit, LayoutsApart
<1>6. NewLayoutsAreNew /\ NewLayoutsLieApart /\ NewCodesAreValid
  BY <1>3 DEF NewLayoutsAreNew, NewLayoutsLieApart, NewCodesAreValid, SegmentOps
<1> QED
  BY <1>2, <1>3, <1>4, <1>5, <1>6, TreeMatchesAs DEF TreeInv

\* What a request that ends leaves to the others: no layout's bits change, and
\* no other request mentions a layout that comes.
LEMMA OthersGoOn ==
    ASSUME TreeInv, NEW k \in Clerks, serving' = [serving EXCEPT ![k] = Waiting],
           \A l \in LayoutRows' :
              \/ l \in LayoutRows /\ layouts'[l].range = layouts[l].range
              \/ serving[k].op = "CreateLayout" /\ l = serving[k].url.layout
    PROVE  JobsTyped' /\ NewLayoutsAreNew' /\ NewLayoutsLieApart' /\ NewCodesAreValid'
<1>1. /\ serving'[k] = Waiting
      /\ \A j \in Clerks \ {k} : serving'[j] = serving[j]
      /\ serving' = [j \in Clerks |-> serving'[j]]
  BY DEF TreeInv, JobsTyped
<1>2. Waiting.op = "none"
  BY DEF Waiting
<1>3. JobsTyped'
  <2>1. \A j \in Clerks : JobTyped(serving'[j])
    BY <1>1 DEF TreeInv, JobsTyped, JobTyped
  <2>2. \A j \in Clerks : JobTyped(serving[j])'
    BY <2>1 DEF JobTyped, Waiting, CodeOps, LayoutOps, SegmentOps, NoLayout, NoSegment
  <2> QED
    BY <1>1, <2>2 DEF JobsTyped
<1>4. NewLayoutsAreNew'
  <2> SUFFICES ASSUME NEW i \in Clerks, serving'[i].op = "CreateLayout"
               PROVE  /\ serving'[i].url.layout \notin LayoutRows'
                      /\ \A j \in Clerks : serving'[j] # Waiting =>
                            /\ serving'[i].url.layout \notin serving'[j].read.others
                            /\ j # i => serving'[j].url.layout # serving'[i].url.layout
    BY Zenon DEF NewLayoutsAreNew, Waiting
  <2>1. i # k /\ serving'[i] = serving[i] /\ serving[i] # Waiting
    BY <1>1, <1>2
  <2>2. serving[i].url.layout \notin LayoutRows'
    BY <2>1 DEF TreeInv, NewLayoutsAreNew
  <2> QED
    BY <1>1, <2>1, <2>2 DEF TreeInv, NewLayoutsAreNew
<1>5. NewLayoutsLieApart'
  <2> SUFFICES ASSUME NEW i \in Clerks, serving'[i].op = "CreateLayout",
                      NEW m \in LayoutRows', m \in serving'[i].read.others
               PROVE  ~Overlap(layouts'[m].range, serving'[i].ask.range)
    BY Zenon DEF NewLayoutsLieApart, Overlap
  <2>1. i # k /\ serving'[i] = serving[i] /\ serving[i] # Waiting
    BY <1>1, <1>2
  <2>2. m \in LayoutRows /\ layouts'[m].range = layouts[m].range
    BY <2>1 DEF TreeInv, NewLayoutsAreNew
  <2> QED
    BY <2>1, <2>2 DEF TreeInv, NewLayoutsLieApart
<1>6. NewCodesAreValid'
  <2> SUFFICES ASSUME NEW i \in Clerks, serving'[i].op \in SegmentOps,
                      serving'[i].url.layout \in LayoutRows'
               PROVE  /\ serving'[i].op = "CreateSegments" => \A s \in DOMAIN serving'[i].ask :
                            Validate(serving'[i].ask[s], layouts'[serving'[i].url.layout].range)
                      /\ serving'[i].op = "UpdateSegment" =>
                            Validate(serving'[i].ask, layouts'[serving'[i].url.layout].range)
    BY Zenon DEF NewCodesAreValid, SegmentOps, Validate, FirstDigit
  <2>1. i # k /\ serving'[i] = serving[i] /\ serving[i] # Waiting
    BY <1>1, <1>2 DEF SegmentOps
  <2>2. /\ serving[i].url.layout \in LayoutRows
        /\ layouts'[serving[i].url.layout].range = layouts[serving[i].url.layout].range
    BY <2>1 DEF TreeInv, NewLayoutsAreNew
  <2> QED
    BY <2>1, <2>2 DEF TreeInv, NewCodesAreValid
<1> QED
  BY <1>3, <1>4, <1>5, <1>6

\* Rows that stay as they are keep what relates them.
LEMMA FewerRows ==
    ASSUME TreeInv,
           \A c \in CodeRows' : c \in CodeRows /\ codes'[c] = codes[c],
           \A l \in LayoutRows' : l \in LayoutRows /\ layouts'[l] = layouts[l],
           \A s \in SegmentRows' : s \in SegmentRows /\ segments'[s] = segments[s]
    PROVE  /\ NamesUnique' /\ LabelsUnique' /\ SegmentCodesUnique'
           /\ ~astray /\ (\A s \in SegmentRows' : segments[s].layout \in LayoutRows') =>
                 SegmentsFit' /\ LayoutsApart'
<1>1. NamesUnique'
  BY DEF TreeInv, NamesUnique
<1>2. LabelsUnique'
  BY DEF TreeInv, LabelsUnique
<1>3. SegmentCodesUnique'
  BY DEF TreeInv, SegmentCodesUnique
<1>4. ASSUME ~astray, \A s \in SegmentRows' : segments[s].layout \in LayoutRows'
      PROVE  SegmentsFit' /\ LayoutsApart'
  <2>1. SegmentsFit /\ LayoutsApart
    BY <1>4, TreeMatchesAs DEF TreeInv
  <2>2. LayoutsApart'
    BY <2>1 DEF LayoutsApart, Overlap
  <2>3. SegmentsFit'
    <3> SUFFICES ASSUME NEW s \in SegmentRows'
                 PROVE  Fits(segments'[s].code, layouts'[segments'[s].layout].range)
      BY DEF SegmentsFit, Fits, Powers
    <3>1. /\ s \in SegmentRows /\ segments'[s] = segments[s]
          /\ layouts'[segments[s].layout] = layouts[segments[s].layout]
      BY <1>4
    <3> QED
      BY <2>1, <3>1 DEF SegmentsFit
  <2> QED
    BY <2>2, <2>3
<1> QED
  BY <1>1, <1>2, <1>3, <1>4

\* A request that begins finds the layouts that there are, or an id that no
\* other mentions.
LEMMA BegunKeepsTree ==
    ASSUME TreeInv, NEW k \in Clerks, NEW op, NEW url, NEW ask,
           BeginRequest(k, op, url, ask),
           JobTyped([op |-> op, url |-> url, ask |-> ask, read |-> Read(op, url)]),
           op \in CodeOps \cup LayoutOps \cup SegmentOps,
           \/ op \in CodeOps /\ url.layout = None
           \/ op = "CreateLayout" /\ url.layout \notin LayoutRows /\ Fresh(url.layout)
           \/ op # "CreateLayout" /\ url.layout \in LayoutRows,
           op = "CreateLayout" => \A m \in LayoutRows : layouts[m].code = url.code =>
              ~Overlap(layouts[m].range, ask.range),
           op = "CreateSegments" =>
              \A s \in DOMAIN ask : Validate(ask[s], layouts[url.layout].range),
           op = "UpdateSegment" => Validate(ask, layouts[url.layout].range)
    PROVE  TreeInv'
<1>0. PICK job : job = [op |-> op, url |-> url, ask |-> ask, read |-> Read(op, url)]
  OBVIOUS
<1>1. /\ job.op = op /\ job.url = url /\ job.ask = ask /\ job.read = Read(op, url)
      /\ JobTyped(job)
  BY <1>0
<1>2. /\ serving' = [serving EXCEPT ![k] = job] /\ serving[k] = Waiting
      /\ codes' = codes /\ layouts' = layouts /\ segments' = segments
      /\ tree' = tree /\ astray' = astray
  BY <1>0 DEF BeginRequest
<1>3. /\ serving'[k] = job
      /\ \A j \in Clerks \ {k} : serving'[j] = serving[j]
      /\ serving' = [j \in Clerks |-> serving'[j]]
  BY <1>2 DEF TreeInv, JobsTyped
<1>4. CodeRows' = CodeRows /\ LayoutRows' = LayoutRows /\ SegmentRows' = SegmentRows
  BY <1>2 DEF CodeRows, LayoutRows, SegmentRows
<1>5. /\ job.read.others \subseteq LayoutRows
      /\ op # "CreateLayout" => job.read.others = {}
      /\ op = "CreateLayout" => job.read.others = {m \in LayoutRows : layouts[m].code = url.code}
  BY <1>1 DEF Read
<1>6. TreeTyped'
  BY <1>2, <1>4 DEF TreeInv, TreeTyped
<1>7. JobsTyped'
  <2>1. \A j \in Clerks : JobTyped(serving'[j])
    BY <1>1, <1>3 DEF TreeInv, JobsTyped
  <2>2. \A j \in Clerks : JobTyped(serving[j])'
    BY <2>1 DEF JobTyped, Waiting, CodeOps, LayoutOps, SegmentOps, NoLayout, NoSegment
  <2> QED
    BY <1>3, <2>2 DEF JobsTyped
<1>8. NamesUnique' /\ LabelsUnique' /\ SegmentCodesUnique'
  BY <1>2, <1>4 DEF TreeInv, NamesUnique, LabelsUnique, SegmentCodesUnique
<1>9. \A j \in Clerks \ {k} : serving[j].op = "CreateLayout" => serving[j] # Waiting
  BY DEF Waiting
<1>10. NewLayoutsAreNew'
  <2> SUFFICES ASSUME NEW i \in Clerks, serving'[i].op = "CreateLayout"
               PROVE  /\ serving'[i].url.layout \notin LayoutRows
                      /\ \A j \in Clerks : serving'[j] # Waiting =>
                            /\ serving'[i].url.layout \notin serving'[j].read.others
                            /\ j # i => serving'[j].url.layout # serving'[i].url.layout
    BY <1>4, Zenon DEF NewLayoutsAreNew, Waiting
  <2>1. CASE i = k
    <3>1. op = "CreateLayout" /\ url.layout \notin LayoutRows /\ Fresh(url.layout)
      BY <1>1, <1>3, <2>1 DEF CodeOps
    <3>2. \A j \in Clerks \ {k} : serving[j] # Waiting =>
             url.layout \notin serving[j].read.others /\ serving[j].url.layout # url.layout
      BY <3>1 DEF Fresh, Mentioned
    <3> QED
      BY <1>1, <1>3, <1>5, <2>1, <3>1, <3>2
  <2>2. CASE i # k
    <3>1. /\ serving'[i] = serving[i] /\ serving[i] # Waiting
          /\ serving[i].url.layout \notin LayoutRows
      BY <1>3, <1>9, <2>2 DEF TreeInv, NewLayoutsAreNew
    <3>2. serving[i].url.layout \in LayoutIds /\ serving[i].url.layout # None
      BY <1>3, <2>2, <3>1, CodesAssumption DEF TreeInv, JobsTyped, JobTyped, LayoutOps
    <3>3. url.layout # serving[i].url.layout
      BY <2>2, <3>1, <3>2 DEF Fresh, Mentioned
    <3> QED
      BY <1>1, <1>3, <1>5, <2>2, <3>1, <3>3 DEF TreeInv, NewLayoutsAreNew
  <2> QED
    BY <2>1, <2>2
<1>11. NewLayoutsLieApart'
  <2> SUFFICES ASSUME NEW i \in Clerks, serving'[i].op = "CreateLayout",
                      NEW m \in LayoutRows, m \in serving'[i].read.others
               PROVE  ~Overlap(layouts[m].range, serving'[i].ask.range)
    BY <1>2, <1>4, Zenon DEF NewLayoutsLieApart, Overlap
  <2> QED
    BY <1>1, <1>3, <1>5 DEF TreeInv, NewLayoutsLieApart
<1>12. NewCodesAreValid'
  <2> SUFFICES ASSUME NEW i \in Clerks, serving'[i].op \in SegmentOps,
                      serving'[i].url.layout \in LayoutRows
               PROVE  /\ serving'[i].op = "CreateSegments" => \A s \in DOMAIN serving'[i].ask :
                            Validate(serving'[i].ask[s], layouts[serving'[i].url.layout].range)
                      /\ serving'[i].op = "UpdateSegment" =>
                            Validate(serving'[i].ask, layouts[serving'[i].url.layout].range)
    BY <1>2, <1>4, Zenon DEF NewCodesAreValid, SegmentOps, Validate, FirstDigit
  <2> QED
    BY <1>1, <1>3 DEF TreeInv, NewCodesAreValid
<1>13. StraightTreeMatches'
  <2>1. Tree' = Tree
    BY <1>2 DEF Tree, CodeRows, LayoutRows, SegmentRows, CodePath, LayoutPath, SegmentPath
  <2> QED
    BY <1>2, <1>4, <2>1 DEF TreeInv, StraightTreeMatches
<1> QED
  BY <1>6, <1>7, <1>8, <1>10, <1>11, <1>12, <1>13 DEF TreeInv

\* A request on a code begins.
LEMMA BegunCodeKeepsTree ==
    ASSUME TreeInv, NEW k \in Clerks, BeginCode(k)
    PROVE  TreeInv'
<1>1. PICK c \in CodeIds, name \in CodeNames, op \in CodeOps :
         /\ BeginRequest(k, op, Url(c, None, None), name)
         /\ op # "CreateCode" => c \in CodeRows
  BY DEF BeginCode, CodeOps
<1>2. PICK url : url = Url(c, None, None)
  OBVIOUS
<1>3. url.code = c /\ url.layout = None /\ url.segment = None
  BY <1>2 DEF Url
<1>4. JobTyped([op |-> op, url |-> url, ask |-> name, read |-> Read(op, url)])
  <2>1. c \in CodeRows => codes[c] \in CodeNames
    BY RowTypes
  <2>2. Read(op, url).code = codes[c]
    BY <1>3 DEF Read
  <2> QED
    BY <1>1, <1>3, <2>1, <2>2 DEF JobTyped, CodeOps, LayoutOps, SegmentOps
<1> QED
  BY <1>1, <1>2, <1>3, <1>4, BegunKeepsTree DEF CodeOps

\* A request on a layout begins.
LEMMA BegunLayoutKeepsTree ==
    ASSUME TreeInv, NEW k \in Clerks, BeginLayout(k)
    PROVE  TreeInv'
<1>1. PICK c \in CodeRows, l \in LayoutIds, label \in Labels, range \in Ranges :
         \/ /\ l \notin LayoutRows /\ Fresh(l)
            /\ checkAddressCodeLayoutDuplicate(c, l, label, range)
            /\ BeginRequest(k, "CreateLayout", Url(c, l, None), [label |-> label, range |-> range])
         \/ /\ l \in LayoutRows
            /\ \E op \in {"UpdateLayout", "DeleteLayout"} :
                  BeginRequest(k, op, Url(c, l, None), label)
  BY DEF BeginLayout
<1>2. PICK url : url = Url(c, l, None)
  OBVIOUS
<1>3. url.code = c /\ url.layout = l /\ url.segment = None /\ c \in CodeIds /\ l # None
  BY <1>2, RowTypes, CodesAssumption DEF Url
<1>4. CASE l \notin LayoutRows
  <2>1. PICK ask : ask = [label |-> label, range |-> range]
    OBVIOUS
  <2>2. ask.label = label /\ ask.range = range
    BY <2>1
  <2>3. \A m \in LayoutRows : layouts[m].code = c => ~Overlap(layouts[m].range, range)
    BY <1>1, <1>4 DEF checkAddressCodeLayoutDuplicate
  <2>4. JobTyped([op |-> "CreateLayout", url |-> url, ask |-> ask,
                  read |-> Read("CreateLayout", url)])
    BY <1>3, <2>2 DEF JobTyped, CodeOps, LayoutOps, SegmentOps
  <2>5. BeginRequest(k, "CreateLayout", url, ask) /\ Fresh(url.layout)
    BY <1>1, <1>2, <1>3, <1>4, <2>1
  <2> QED
    BY <1>3, <1>4, <2>2, <2>3, <2>4, <2>5, BegunKeepsTree DEF CodeOps, LayoutOps, SegmentOps
<1>5. CASE l \in LayoutRows
  <2>1. PICK op \in {"UpdateLayout", "DeleteLayout"} : BeginRequest(k, op, url, label)
    BY <1>1, <1>2, <1>5
  <2>2. Read(op, url).layout = layouts[l] /\ layouts[l] # NoLayout
    BY <1>3, <1>5 DEF Read, LayoutRows
  <2>3. JobTyped([op |-> op, url |-> url, ask |-> label, read |-> Read(op, url)])
    BY <1>3, <2>2 DEF JobTyped, CodeOps, LayoutOps, SegmentOps
  <2> QED
    BY <1>3, <1>5, <2>1, <2>3, BegunKeepsTree DEF CodeOps, LayoutOps, SegmentOps
<1> QED
  BY <1>4, <1>5

\* A request on segments begins.
LEMMA BegunSegmentKeepsTree ==
    ASSUME TreeInv, NEW k \in Clerks, BeginSegment(k)
    PROVE  TreeInv'
<1>0. PICK c \in CodeRows, l \in LayoutRows, op \in SegmentOps, s \in SegmentRows \cup {None} :
         \E ask :
            /\ BeginRequest(k, op, Url(c, l, s), ask)
            /\ op \in {"DeleteSegment", "UpdateSegment"} => s \in SegmentRows
            /\ op = "CreateSegments" =>
                  /\ DOMAIN ask \subseteq SegmentIds
                  /\ \A t \in DOMAIN ask :
                        ask[t] \in SegmentCodes /\ Validate(ask[t], layouts[l].range)
                  /\ \A t, u \in DOMAIN ask : ask[t] = ask[u] => t = u
            /\ op = "UpdateSegment" => ask \in SegmentCodes /\ Validate(ask, layouts[l].range)
  <2> DEFINE Begun(c, l, op, ask, s) ==
         /\ BeginRequest(k, op, Url(c, l, s), ask)
         /\ op \in {"DeleteSegment", "UpdateSegment"} => s \in SegmentRows
         /\ op = "CreateSegments" =>
               /\ DOMAIN ask \subseteq SegmentIds
               /\ \A t \in DOMAIN ask : ask[t] \in SegmentCodes /\ Validate(ask[t], layouts[l].range)
               /\ \A t, u \in DOMAIN ask : ask[t] = ask[u] => t = u
         /\ op = "UpdateSegment" => ask \in SegmentCodes /\ Validate(ask, layouts[l].range)
  <2>1. PICK c \in CodeRows, l \in LayoutRows :
           \/ \E ids \in SUBSET {s \in SegmentIds \ SegmentRows : Fresh(s)} :
                 \E new \in [ids -> SegmentCodes] :
                    /\ \A s, t \in ids : new[s] = new[t] => s = t
                    /\ \A s \in ids : Validate(new[s], layouts[l].range)
                    /\ BeginRequest(k, "CreateSegments", Url(c, l, None), new)
           \/ \E some \in SUBSET SegmentCodes :
                 BeginRequest(k, "DeleteSegments", Url(c, l, None), some)
           \/ \E s \in SegmentRows :
                 BeginRequest(k, "DeleteSegment", Url(c, l, s), segments[s].code)
           \/ \E s \in SegmentRows, code \in SegmentCodes :
                 /\ Validate(code, layouts[l].range)
                 /\ BeginRequest(k, "UpdateSegment", Url(c, l, s), code)
    BY DEF BeginSegment
  <2>2. ASSUME NEW ids \in SUBSET {s \in SegmentIds \ SegmentRows : Fresh(s)},
               NEW new \in [ids -> SegmentCodes],
               \A s, t \in ids : new[s] = new[t] => s = t,
               \A s \in ids : Validate(new[s], layouts[l].range),
               BeginRequest(k, "CreateSegments", Url(c, l, None), new)
        PROVE  Begun(c, l, "CreateSegments", new, None)
    BY <2>2
  <2>3. ASSUME NEW some, BeginRequest(k, "DeleteSegments", Url(c, l, None), some)
        PROVE  Begun(c, l, "DeleteSegments", some, None)
    BY <2>3
  <2>4. ASSUME NEW s \in SegmentRows, NEW code,
               BeginRequest(k, "DeleteSegment", Url(c, l, s), code)
        PROVE  Begun(c, l, "DeleteSegment", code, s)
    BY <2>4
  <2>5. ASSUME NEW s \in SegmentRows, NEW code \in SegmentCodes,
               Validate(code, layouts[l].range),
               BeginRequest(k, "UpdateSegment", Url(c, l, s), code)
        PROVE  Begun(c, l, "UpdateSegment", code, s)
    BY <2>5
  <2>6. /\ "CreateSegments" \in SegmentOps /\ "DeleteSegments" \in SegmentOps
        /\ "DeleteSegment" \in SegmentOps /\ "UpdateSegment" \in SegmentOps
        /\ None \in SegmentRows \cup {None}
        /\ \A s \in SegmentRows : s \in SegmentRows \cup {None}
    BY DEF SegmentOps
  <2> HIDE DEF Begun
  <2> DEFINE Some == \E op \in SegmentOps, s \in SegmentRows \cup {None} :
                        \E ask : Begun(c, l, op, ask, s)
  <2>7. ASSUME NEW op \in SegmentOps, NEW ask, NEW s \in SegmentRows \cup {None},
               Begun(c, l, op, ask, s)
        PROVE  Some
    BY <2>7, Zenon
  <2> HIDE DEF Some
  <2>8. Some
    <3>1. CASE \E ids \in SUBSET {s \in SegmentIds \ SegmentRows : Fresh(s)} :
                  \E new \in [ids -> SegmentCodes] :
                     /\ \A s, t \in ids : new[s] = new[t] => s = t
                     /\ \A s \in ids : Validate(new[s], layouts[l].range)
                     /\ BeginRequest(k, "CreateSegments", Url(c, l, None), new)
      <4>0. PICK ids \in SUBSET {s \in SegmentIds \ SegmentRows : Fresh(s)} :
               \E new \in [ids -> SegmentCodes] :
                  /\ \A s, t \in ids : new[s] = new[t] => s = t
                  /\ \A s \in ids : Validate(new[s], layouts[l].range)
                  /\ BeginRequest(k, "CreateSegments", Url(c, l, None), new)
        BY <3>1, Zenon
      <4>1. PICK new \in [ids -> SegmentCodes] :
               /\ \A s, t \in ids : new[s] = new[t] => s = t
               /\ \A s \in ids : Validate(new[s], layouts[l].range)
               /\ BeginRequest(k, "CreateSegments", Url(c, l, None), new)
        BY <4>0, Zenon
      <4>2. Begun(c, l, "CreateSegments", new, None)
        BY <4>1, <2>2, Zenon
      <4> QED
        BY <2>6, <2>7, <4>2, Zenon
    <3>2. CASE \E some \in SUBSET SegmentCodes :
                  BeginRequest(k, "DeleteSegments", Url(c, l, None), some)
      BY <2>3, <2>6, <2>7, <3>2, Zenon
    <3>3. CASE \E s \in SegmentRows :
                   BeginRequest(k, "DeleteSegment", Url(c, l, s), segments[s].code)
      BY <2>4, <2>6, <2>7, <3>3, Zenon
    <3>4. CASE \E s \in SegmentRows, code \in SegmentCodes :
                   /\ Validate(code, layouts[l].range)
                   /\ BeginRequest(k, "UpdateSegment", Url(c, l, s), code)
      BY <2>5, <2>6, <2>7, <3>4, Zenon
    <3> QED
      BY <2>1, <3>1, <3>2, <3>3, <3>4, Zenon
  <2> QED
    BY <2>8 DEF Begun, Some
<1>1. PICK ask :
         /\ BeginRequest(k, op, Url(c, l, s), ask)
         /\ op \in {"DeleteSegment", "UpdateSegment"} => s \in SegmentRows
         /\ op = "CreateSegments" =>
               /\ DOMAIN ask \subseteq SegmentIds
               /\ \A t \in DOMAIN ask : ask[t] \in SegmentCodes /\ Validate(ask[t], layouts[l].range)
               /\ \A t, u \in DOMAIN ask : ask[t] = ask[u] => t = u
         /\ op = "UpdateSegment" => ask \in SegmentCodes /\ Validate(ask, layouts[l].range)
  BY <1>0, Zenon
<1>2. PICK url : url = Url(c, l, s)
  OBVIOUS
<1>3. url.code = c /\ url.layout = l /\ url.segment = s /\ c \in CodeIds /\ l \in LayoutIds /\ l # None
  BY <1>2, RowTypes, CodesAssumption DEF Url
<1>4. Read(op, url).layout = layouts[l] /\ layouts[l] # NoLayout
  BY <1>3 DEF Read, LayoutRows
<1>5. s \in SegmentRows =>
         s \in SegmentIds /\ Read(op, url).segment = segments[s] /\ segments[s] # NoSegment
  BY <1>3, RowTypes DEF Read, SegmentRows
<1>6. JobTyped([op |-> op, url |-> url, ask |-> ask, read |-> Read(op, url)])
  BY <1>1, <1>3, <1>4, <1>5 DEF JobTyped, CodeOps, LayoutOps, SegmentOps
<1>7. BeginRequest(k, op, url, ask)
  BY <1>1, <1>2
<1> QED
  BY <1>1, <1>3, <1>6, <1>7, BegunKeepsTree DEF SegmentOps, CodeOps, LayoutOps

LEMMA FinishedServing ==
    ASSUME NEW k \in Clerks, Finish(k)
    PROVE  serving' = [serving EXCEPT ![k] = Waiting]
BY DEF Finish

LEMMA AstrayTyped ==
    ASSUME TreeInv, NEW k \in Clerks, Finish(k)
    PROVE  astray' \in BOOLEAN /\ (~astray' => ~astray)
BY DEF Finish, TreeInv, TreeTyped, Slips, Straight

LEMMA CreateCodeKeepsTree ==
    ASSUME TreeInv, NEW k \in Clerks, CreateCode(k)
    PROVE  TreeInv'
<1>0. PICK c, n : c = serving[k].url.code /\ n = serving[k].ask
  OBVIOUS
<1>1. c \in CodeIds \ CodeRows /\ n \in CodeNames /\ n # None
  BY <1>0, CodesAssumption DEF CreateCode, TreeInv, JobsTyped, JobTyped, Waiting, CodeOps
<1>2. /\ codes' = [codes EXCEPT ![c] = n] /\ codes \in [CodeIds -> CodeNames \cup {None}]
      /\ layouts' = layouts /\ segments' = segments
      /\ \A d \in CodeRows : codes[d] # n
      /\ Finish(k)
  BY <1>0 DEF CreateCode, TreeInv, TreeTyped
<1>3. /\ CodeRows' = CodeRows \cup {c} /\ LayoutRows' = LayoutRows /\ SegmentRows' = SegmentRows
      /\ codes'[c] = n /\ \A d \in CodeIds : d # c => codes'[d] = codes[d]
  BY <1>1, <1>2 DEF CodeRows, LayoutRows, SegmentRows
<1>4. TreeTyped'
  BY <1>1, <1>2, <1>3, AstrayTyped DEF TreeInv, TreeTyped
<1>5. NamesUnique'
  BY <1>1, <1>2, <1>3, RowTypes DEF TreeInv, NamesUnique
<1>6. LabelsUnique' /\ SegmentCodesUnique'
  BY <1>2, <1>3 DEF TreeInv, LabelsUnique, SegmentCodesUnique
<1>7. JobsTyped' /\ NewLayoutsAreNew' /\ NewLayoutsLieApart' /\ NewCodesAreValid'
  BY <1>2, <1>3, FinishedServing, OthersGoOn
<1>8. ASSUME ~astray' PROVE tree' = Tree' /\ SegmentsFit' /\ LayoutsApart'
  <2>1. SegmentsFit /\ LayoutsApart
    BY <1>2, <1>8, AstrayTyped, TreeMatchesAs DEF TreeInv
  <2> QED
    BY <1>2, <1>3, <1>8, <2>1, CreatedCodeInTree DEF SegmentsFit, LayoutsApart
<1>9. StraightTreeMatches'
  BY <1>8 DEF StraightTreeMatches, SegmentsFit, LayoutsApart
<1> QED
  BY <1>4, <1>5, <1>6, <1>7, <1>9 DEF TreeInv

LEMMA UpdateCodeKeepsTree ==
    ASSUME TreeInv, NEW k \in Clerks, UpdateCode(k)
    PROVE  TreeInv'
<1>0. PICK c, n : c = serving[k].url.code /\ n = serving[k].ask
  OBVIOUS
<1>1. c \in CodeIds /\ n \in CodeNames /\ n # None
  BY <1>0, CodesAssumption DEF UpdateCode, TreeInv, JobsTyped, JobTyped, Waiting, CodeOps
<1>2. /\ c \in CodeRows => /\ codes' = [codes EXCEPT ![c] = n]
                           /\ \A d \in CodeRows \ {c} : codes[d] # n
      /\ c \notin CodeRows => codes' = codes
      /\ codes \in [CodeIds -> CodeNames \cup {None}]
      /\ layouts' = layouts /\ segments' = segments
      /\ Finish(k)
  BY <1>0 DEF UpdateCode, TreeInv, TreeTyped
<1>3. /\ CodeRows' = CodeRows /\ LayoutRows' = LayoutRows /\ SegmentRows' = SegmentRows
      /\ c \in CodeRows => codes'[c] = n
      /\ \A d \in CodeIds : d # c => codes'[d] = codes[d]
  BY <1>1, <1>2 DEF CodeRows, LayoutRows, SegmentRows
<1>4. TreeTyped'
  BY <1>1, <1>2, <1>3, AstrayTyped DEF TreeInv, TreeTyped
<1>5. NamesUnique'
  BY <1>1, <1>2, <1>3, RowTypes DEF TreeInv, NamesUnique
<1>6. LabelsUnique' /\ SegmentCodesUnique'
  BY <1>2, <1>3 DEF TreeInv, LabelsUnique, SegmentCodesUnique
<1>7. JobsTyped' /\ NewLayoutsAreNew' /\ NewLayoutsLieApart' /\ NewCodesAreValid'
  BY <1>2, <1>3, FinishedServing, OthersGoOn
<1>8. ASSUME ~astray' PROVE tree' = Tree' /\ SegmentsFit' /\ LayoutsApart'
  <2>1. SegmentsFit /\ LayoutsApart
    BY <1>2, <1>8, AstrayTyped, TreeMatchesAs DEF TreeInv
  <2> QED
    BY <1>2, <1>3, <1>8, <2>1, UpdatedCodeInTree DEF SegmentsFit, LayoutsApart
<1>9. StraightTreeMatches'
  BY <1>8 DEF StraightTreeMatches, SegmentsFit, LayoutsApart
<1> QED
  BY <1>4, <1>5, <1>6, <1>7, <1>9 DEF TreeInv

LEMMA DeleteCodeKeepsTree ==
    ASSUME TreeInv, NEW k \in Clerks, DeleteCode(k)
    PROVE  TreeInv'
<1>0. PICK c, mine : c = serving[k].url.code /\ mine = {l \in LayoutRows : layouts[l].code = c}
  OBVIOUS
<1>1. c \in CodeIds
  BY <1>0 DEF DeleteCode, TreeInv, JobsTyped, JobTyped, Waiting, CodeOps
<1>2. /\ codes' = [codes EXCEPT ![c] = None] /\ codes \in [CodeIds -> CodeNames \cup {None}]
      /\ layouts' = [l \in LayoutIds |-> IF l \in mine THEN NoLayout ELSE layouts[l]]
      /\ segments' = [s \in SegmentIds |->
                         IF segments[s].layout \in mine THEN NoSegment ELSE segments[s]]
      /\ Finish(k)
  BY <1>0 DEF DeleteCode, TreeInv, TreeTyped
<1>3. CodeRows' = CodeRows \ {c} /\ \A d \in CodeRows' : d \in CodeRows /\ codes'[d] = codes[d]
  BY <1>1, <1>2 DEF CodeRows
<1>4. LayoutRows' = LayoutRows \ mine /\ \A l \in LayoutRows' : l \in LayoutRows /\ layouts'[l] = layouts[l]
  BY <1>0, <1>2 DEF LayoutRows
<1>5. /\ SegmentRows' = {s \in SegmentRows : segments[s].layout \notin mine}
      /\ \A s \in SegmentRows' : s \in SegmentRows /\ segments'[s] = segments[s]
  BY <1>0, <1>2, RowTypes DEF SegmentRows
<1>6. \A s \in SegmentRows' : segments[s].layout \in LayoutRows'
  BY <1>4, <1>5, RowTypes
<1>7. TreeTyped'
  <2>1. codes' \in [CodeIds -> CodeNames \cup {None}]
    BY <1>2
  <2>2. layouts' \in [LayoutIds -> LayoutsTyped \cup {NoLayout}]
    BY <1>2 DEF TreeInv, TreeTyped
  <2>3. segments' \in [SegmentIds -> SegmentsTyped \cup {NoSegment}]
    BY <1>2 DEF TreeInv, TreeTyped
  <2>4. \A l \in LayoutRows' : layouts'[l].code \in CodeRows'
    BY <1>0, <1>3, <1>4, RowTypes
  <2>5. \A s \in SegmentRows' : segments'[s].layout \in LayoutRows'
    BY <1>5, <1>6
  <2> QED
    BY <1>2, <2>1, <2>2, <2>3, <2>4, <2>5, AstrayTyped DEF TreeTyped, LayoutsTyped, NoLayout,
      SegmentsTyped, NoSegment
<1>8. /\ NamesUnique' /\ LabelsUnique' /\ SegmentCodesUnique'
      /\ ~astray => SegmentsFit' /\ LayoutsApart'
  BY <1>3, <1>4, <1>5, <1>6, FewerRows
<1>9. JobsTyped' /\ NewLayoutsAreNew' /\ NewLayoutsLieApart' /\ NewCodesAreValid'
  BY <1>2, <1>4, FinishedServing, OthersGoOn
<1>10. ~astray' => tree' = Tree' /\ SegmentsFit' /\ LayoutsApart'
  BY <1>2, <1>8, AstrayTyped, DeletedCodeOutOfTree
<1>11. StraightTreeMatches'
  BY <1>10 DEF StraightTreeMatches, SegmentsFit, LayoutsApart
<1> QED
  BY <1>7, <1>8, <1>9, <1>11 DEF TreeInv

LEMMA CreateLayoutKeepsTree ==
    ASSUME TreeInv, NEW k \in Clerks, CreateLayout(k)
    PROVE  TreeInv'
<1>0. PICK c, l, label, range, new :
         /\ c = serving[k].url.code /\ l = serving[k].url.layout
         /\ label = serving[k].ask.label /\ range = serving[k].ask.range
         /\ new = [code |-> c, label |-> label, range |-> range]
  OBVIOUS
<1>1. /\ l \in LayoutIds \ LayoutRows /\ c \in CodeRows /\ label \in Labels /\ range \in Ranges
      /\ new \in LayoutsTyped /\ new # NoLayout
      /\ new.code = c /\ new.label = label /\ new.range = range
  <2>1. l \in LayoutIds \ LayoutRows /\ c \in CodeRows /\ label \in Labels /\ range \in Ranges
    BY <1>0 DEF CreateLayout, TreeInv, JobsTyped, JobTyped, Waiting, LayoutOps
  <2>2. new \in LayoutsTyped
    BY <1>0, <2>1, RowTypes DEF LayoutsTyped
  <2>3. new.code = c /\ new.label = label /\ new.range = range
    BY <1>0
  <2> QED
    BY <2>1, <2>2, <2>3, NoRowIsTyped
<1>2. /\ layouts' = [layouts EXCEPT ![l] = new]
      /\ layouts \in [LayoutIds -> LayoutsTyped \cup {NoLayout}]
      /\ codes' = codes /\ segments' = segments
      /\ \A m \in LayoutRows : layouts[m].code = c => layouts[m].label # label
      /\ Finish(k) /\ serving[k].op = "CreateLayout"
  BY <1>0 DEF CreateLayout, TreeInv, TreeTyped
<1>3. /\ CodeRows' = CodeRows /\ LayoutRows' = LayoutRows \cup {l} /\ SegmentRows' = SegmentRows
      /\ layouts'[l] = new /\ \A m \in LayoutRows : m # l /\ layouts'[m] = layouts[m]
  BY <1>1, <1>2 DEF CodeRows, LayoutRows, SegmentRows
<1>4. TreeTyped'
  <2>1. layouts' \in [LayoutIds -> LayoutsTyped \cup {NoLayout}]
    BY <1>1, <1>2
  <2>2. \A m \in LayoutRows' : layouts'[m].code \in CodeRows'
    BY <1>1, <1>3, RowTypes
  <2> QED
    BY <1>2, <1>3, <2>1, <2>2, AstrayTyped DEF TreeInv, TreeTyped
<1>5. LabelsUnique'
  BY <1>1, <1>2, <1>3 DEF TreeInv, LabelsUnique
<1>6. NamesUnique' /\ SegmentCodesUnique'
  BY <1>2, <1>3 DEF TreeInv, NamesUnique, SegmentCodesUnique
<1>7. JobsTyped' /\ NewLayoutsAreNew' /\ NewLayoutsLieApart' /\ NewCodesAreValid'
  BY <1>0, <1>2, <1>3, FinishedServing, OthersGoOn
<1>8. ASSUME ~astray' PROVE tree' = Tree' /\ SegmentsFit' /\ LayoutsApart'
  <2>1. SegmentsFit /\ LayoutsApart
    BY <1>2, <1>8, AstrayTyped, TreeMatchesAs DEF TreeInv
  <2>2. serving[k].read.others = {m \in LayoutRows : layouts[m].code = c}
    BY <1>0, <1>2, <1>8, StraightRead
  <2>3. \A m \in LayoutRows : layouts[m].code = c => ~Overlap(layouts[m].range, range)
    BY <1>0, <1>2, <2>2 DEF TreeInv, NewLayoutsLieApart
  <2>4. \A m \in LayoutRows : layouts[m].code = c => ~Overlap(range, layouts[m].range)
    BY <2>3 DEF Overlap
  <2>5. LayoutsApart'
    <3> SUFFICES ASSUME NEW m \in LayoutRows', NEW n \in LayoutRows', m # n,
                        layouts'[m].code = layouts'[n].code
                 PROVE  ~Overlap(layouts'[m].range, layouts'[n].range)
      BY Zenon DEF LayoutsApart, Overlap
    <3> QED
      BY <1>1, <1>3, <2>1, <2>3, <2>4 DEF LayoutsApart
  <2>6. SegmentsFit'
    BY <1>2, <1>3, <2>1, RowTypes DEF SegmentsFit
  <2> QED
    BY <1>8, <2>5, <2>6, CreatedLayoutInTree
<1>9. StraightTreeMatches'
  BY <1>8 DEF StraightTreeMatches, SegmentsFit, LayoutsApart
<1> QED
  BY <1>4, <1>5, <1>6, <1>7, <1>9 DEF TreeInv

LEMMA UpdateLayoutKeepsTree ==
    ASSUME TreeInv, NEW k \in Clerks, UpdateLayout(k)
    PROVE  TreeInv'
<1>0. PICK l, n : l = serving[k].url.layout /\ n = serving[k].ask
  OBVIOUS
<1>1. l \in LayoutIds /\ n \in Labels
  BY <1>0 DEF UpdateLayout, TreeInv, JobsTyped, JobTyped, Waiting, LayoutOps
<1>2. /\ l \in LayoutRows =>
            /\ layouts' = [layouts EXCEPT ![l].label = n]
            /\ \A m \in LayoutRows \ {l} : layouts[m].code = layouts[l].code => layouts[m].label # n
      /\ l \notin LayoutRows => layouts' = layouts
      /\ layouts \in [LayoutIds -> LayoutsTyped \cup {NoLayout}]
      /\ codes' = codes /\ segments' = segments
      /\ Finish(k)
  BY <1>0 DEF UpdateLayout, TreeInv, TreeTyped
<1>3. \A m \in LayoutIds : m # l \/ l \notin LayoutRows => layouts'[m] = layouts[m]
  BY <1>1, <1>2
<1>4. ASSUME l \in LayoutRows
      PROVE  /\ layouts'[l] \in LayoutsTyped /\ layouts'[l].code = layouts[l].code
             /\ layouts'[l].label = n /\ layouts'[l].range = layouts[l].range
  <2>1. layouts'[l] = [layouts[l] EXCEPT !.label = n] /\ layouts[l] \in LayoutsTyped
    BY <1>1, <1>2, <1>4, RowTypes
  <2> QED
    BY <1>1, <2>1 DEF LayoutsTyped
<1>5. /\ CodeRows' = CodeRows /\ LayoutRows' = LayoutRows /\ SegmentRows' = SegmentRows
  BY <1>1, <1>2, <1>3, <1>4, NoRowIsTyped DEF CodeRows, LayoutRows, SegmentRows
<1>6. \A m \in LayoutRows : /\ layouts'[m].code = layouts[m].code
                            /\ layouts'[m].range = layouts[m].range
                            /\ layouts'[m].label = IF m = l THEN n ELSE layouts[m].label
  BY <1>3, <1>4, RowTypes
<1>7. TreeTyped'
  <2>1. layouts' \in [LayoutIds -> LayoutsTyped \cup {NoLayout}]
    <3>1. layouts' = [m \in LayoutIds |-> layouts'[m]]
      BY <1>2
    <3>2. \A m \in LayoutIds : layouts'[m] \in LayoutsTyped \cup {NoLayout}
      BY <1>2, <1>3, <1>4
    <3> QED
      BY <3>1, <3>2
  <2>2. \A m \in LayoutRows' : layouts'[m].code \in CodeRows'
    BY <1>5, <1>6, RowTypes
  <2> QED
    BY <1>2, <1>5, <2>1, <2>2, AstrayTyped DEF TreeInv, TreeTyped
<1>8. LabelsUnique'
  BY <1>2, <1>5, <1>6 DEF TreeInv, LabelsUnique
<1>9. NamesUnique' /\ SegmentCodesUnique'
  BY <1>2, <1>5 DEF TreeInv, NamesUnique, SegmentCodesUnique
<1>10. JobsTyped' /\ NewLayoutsAreNew' /\ NewLayoutsLieApart' /\ NewCodesAreValid'
  BY <1>2, <1>5, <1>6, FinishedServing, OthersGoOn
<1>11. ASSUME ~astray' PROVE tree' = Tree' /\ SegmentsFit' /\ LayoutsApart'
  <2>1. SegmentsFit /\ LayoutsApart
    BY <1>2, <1>11, AstrayTyped, TreeMatchesAs DEF TreeInv
  <2>2. SegmentsFit'
    BY <1>2, <1>5, <1>6, <2>1, RowTypes DEF SegmentsFit
  <2>3. LayoutsApart'
    BY <1>5, <1>6, <2>1 DEF LayoutsApart
  <2> QED
    BY <1>11, <2>2, <2>3, UpdatedLayoutInTree
<1>12. StraightTreeMatches'
  BY <1>11 DEF StraightTreeMatches, SegmentsFit, LayoutsApart
<1> QED
  BY <1>7, <1>8, <1>9, <1>10, <1>12 DEF TreeInv

LEMMA DeleteLayoutKeepsTree ==
    ASSUME TreeInv, NEW k \in Clerks, DeleteLayout(k)
    PROVE  TreeInv'
<1>0. PICK l : l = serving[k].url.layout
  OBVIOUS
<1>1. l \in LayoutIds
  BY <1>0 DEF DeleteLayout, TreeInv, JobsTyped, JobTyped, Waiting, LayoutOps
<1>2. /\ layouts' = [layouts EXCEPT ![l] = NoLayout]
      /\ layouts \in [LayoutIds -> LayoutsTyped \cup {NoLayout}]
      /\ segments' = [s \in SegmentIds |->
                         IF segments[s].layout = l THEN NoSegment ELSE segments[s]]
      /\ codes' = codes
      /\ Finish(k)
  BY <1>0 DEF DeleteLayout, TreeInv, TreeTyped
<1>3. CodeRows' = CodeRows
  BY <1>2 DEF CodeRows
<1>4. LayoutRows' = LayoutRows \ {l} /\ \A m \in LayoutRows' : m \in LayoutRows /\ layouts'[m] = layouts[m]
  BY <1>1, <1>2 DEF LayoutRows
<1>5. /\ SegmentRows' = {s \in SegmentRows : segments[s].layout # l}
      /\ \A s \in SegmentRows' : s \in SegmentRows /\ segments'[s] = segments[s]
  BY <1>1, <1>2, RowTypes DEF SegmentRows
<1>6. \A s \in SegmentRows' : segments[s].layout \in LayoutRows'
  BY <1>4, <1>5, RowTypes
<1>7. TreeTyped'
  <2>1. layouts' \in [LayoutIds -> LayoutsTyped \cup {NoLayout}]
    BY <1>2
  <2>2. segments' \in [SegmentIds -> SegmentsTyped \cup {NoSegment}]
    BY <1>2 DEF TreeInv, TreeTyped
  <2>3. \A m \in LayoutRows' : layouts'[m].code \in CodeRows'
    BY <1>3, <1>4, RowTypes
  <2>4. \A s \in SegmentRows' : segments'[s].layout \in LayoutRows'
    BY <1>5, <1>6
  <2> QED
    BY <1>2, <2>1, <2>2, <2>3, <2>4, AstrayTyped DEF TreeInv, TreeTyped, LayoutsTyped, NoLayout,
      SegmentsTyped, NoSegment
<1>8. /\ NamesUnique' /\ LabelsUnique' /\ SegmentCodesUnique'
      /\ ~astray => SegmentsFit' /\ LayoutsApart'
  BY <1>2, <1>3, <1>4, <1>5, <1>6, FewerRows
<1>9. JobsTyped' /\ NewLayoutsAreNew' /\ NewLayoutsLieApart' /\ NewCodesAreValid'
  BY <1>2, <1>4, FinishedServing, OthersGoOn
<1>10. ~astray' => tree' = Tree' /\ SegmentsFit' /\ LayoutsApart'
  BY <1>2, <1>8, AstrayTyped, DeletedLayoutOutOfTree
<1>11. StraightTreeMatches'
  BY <1>10 DEF StraightTreeMatches, SegmentsFit, LayoutsApart
<1> QED
  BY <1>7, <1>8, <1>9, <1>11 DEF TreeInv

LEMMA CreateSegmentsKeepsTree ==
    ASSUME TreeInv, NEW k \in Clerks, CreateSegments(k)
    PROVE  TreeInv'
<1>0. PICK l, new : l = serving[k].url.layout /\ new = serving[k].ask
  OBVIOUS
<1>1. /\ l \in LayoutRows
      /\ DOMAIN new \subseteq SegmentIds /\ DOMAIN new \cap SegmentRows = {}
      /\ \A s \in DOMAIN new : new[s] \in SegmentCodes
      /\ \A s, t \in DOMAIN new : new[s] = new[t] => s = t
  BY <1>0 DEF CreateSegments, TreeInv, JobsTyped, JobTyped, Waiting
<1>2. /\ segments' = [s \in SegmentIds |->
                         IF s \in DOMAIN new THEN [layout |-> l, code |-> new[s]]
                         ELSE segments[s]]
      /\ {new[s] : s \in DOMAIN new} \cap CodesOf(l) = {}
      /\ codes' = codes /\ layouts' = layouts
      /\ Finish(k) /\ serving[k].op = "CreateSegments"
  BY <1>0 DEF CreateSegments
<1>3. /\ \A s \in SegmentIds \ DOMAIN new : segments'[s] = segments[s]
      /\ \A s \in SegmentRows : s \notin DOMAIN new /\ segments'[s] = segments[s]
  BY <1>1, <1>2, RowTypes
<1>4. ASSUME NEW s \in DOMAIN new
      PROVE  /\ segments'[s] \in SegmentsTyped
             /\ segments'[s].layout = l /\ segments'[s].code = new[s]
  <2>1. segments'[s] = [layout |-> l, code |-> new[s]]
    BY <1>1, <1>2
  <2> QED
    BY <1>1, <2>1, RowTypes DEF SegmentsTyped
<1>5. CodeRows' = CodeRows /\ LayoutRows' = LayoutRows /\ SegmentRows' = SegmentRows \cup DOMAIN new
  BY <1>1, <1>2, <1>3, <1>4, NoRowIsTyped DEF CodeRows, LayoutRows, SegmentRows
<1>6. TreeTyped'
  <2>1. segments' \in [SegmentIds -> SegmentsTyped \cup {NoSegment}]
    <3>1. \A s \in SegmentIds : segments'[s] \in SegmentsTyped \cup {NoSegment}
      BY <1>3, <1>4 DEF TreeInv, TreeTyped
    <3>2. segments' = [s \in SegmentIds |-> segments'[s]]
      BY <1>2
    <3> QED
      BY <3>1, <3>2
  <2>2. \A s \in SegmentRows' : segments'[s].layout \in LayoutRows'
    BY <1>1, <1>3, <1>4, <1>5, RowTypes
  <2> QED
    BY <1>2, <1>5, <2>1, <2>2, AstrayTyped DEF TreeInv, TreeTyped
<1>7. SegmentCodesUnique'
  <2>1. \A s \in SegmentRows, t \in DOMAIN new :
           segments[s].layout = l => segments[s].code # new[t]
    BY <1>2 DEF CodesOf
  <2> SUFFICES ASSUME NEW s \in SegmentRows', NEW t \in SegmentRows',
                      segments'[s].layout = segments'[t].layout,
                      segments'[s].code = segments'[t].code
               PROVE  s = t
    BY DEF SegmentCodesUnique
  <2>2. CASE s \in SegmentRows /\ t \in SegmentRows
    BY <1>3, <2>2 DEF TreeInv, SegmentCodesUnique
  <2>3. CASE s \in SegmentRows /\ t \in DOMAIN new
    BY <1>3, <1>4, <2>1, <2>3
  <2>4. CASE s \in DOMAIN new /\ t \in SegmentRows
    BY <1>3, <1>4, <2>1, <2>4
  <2>5. CASE s \in DOMAIN new /\ t \in DOMAIN new
    BY <1>1, <1>4, <2>5
  <2> QED
    BY <1>5, <2>2, <2>3, <2>4, <2>5
<1>8. NamesUnique' /\ LabelsUnique'
  BY <1>2, <1>5 DEF TreeInv, NamesUnique, LabelsUnique
<1>9. JobsTyped' /\ NewLayoutsAreNew' /\ NewLayoutsLieApart' /\ NewCodesAreValid'
  BY <1>2, <1>5, FinishedServing, OthersGoOn
<1>10. ASSUME ~astray' PROVE tree' = Tree' /\ SegmentsFit' /\ LayoutsApart'
  <2>1. SegmentsFit /\ LayoutsApart
    BY <1>2, <1>10, AstrayTyped, TreeMatchesAs DEF TreeInv
  <2>2. \A s \in DOMAIN new : Fits(new[s], layouts[l].range)
    <3>1. \A s \in DOMAIN new : Validate(new[s], layouts[l].range)
      BY <1>0, <1>1, <1>2 DEF TreeInv, NewCodesAreValid, SegmentOps
    <3>2. layouts[l].range \in Ranges
      BY <1>1, RowTypes DEF LayoutsTyped
    <3> QED
      BY <1>1, <3>1, <3>2, ValidCodesFit
  <2>3. SegmentsFit'
    <3> SUFFICES ASSUME NEW s \in SegmentRows'
                 PROVE  Fits(segments'[s].code, layouts'[segments'[s].layout].range)
      BY Zenon DEF SegmentsFit, Fits, Powers
    <3>1. CASE s \in SegmentRows
      BY <1>2, <1>3, <2>1, <3>1 DEF SegmentsFit
    <3>2. CASE s \in DOMAIN new
      BY <1>2, <1>4, <2>2, <3>2
    <3> QED
      BY <1>5, <3>1, <3>2
  <2>4. LayoutsApart'
    BY <1>2, <1>5, <2>1 DEF LayoutsApart
  <2> QED
    BY <1>10, <2>3, <2>4, CreatedSegmentsInTree
<1>11. StraightTreeMatches'
  BY <1>10 DEF StraightTreeMatches, SegmentsFit, LayoutsApart
<1> QED
  BY <1>6, <1>7, <1>8, <1>9, <1>11 DEF TreeInv

\* Segments that go leave the rest as it is.
LEMMA SegmentsGoKeepsTree ==
    ASSUME TreeInv, NEW k \in Clerks, Finish(k), ~astray' => tree' = Tree',
           codes' = codes, layouts' = layouts, segments' = [s \in SegmentIds |-> segments'[s]],
           \A s \in SegmentIds : segments'[s] = segments[s] \/ segments'[s] = NoSegment
    PROVE  TreeInv'
<1>1. CodeRows' = CodeRows /\ LayoutRows' = LayoutRows
  BY DEF CodeRows, LayoutRows
<1>2. \A s \in SegmentRows' : s \in SegmentRows /\ segments'[s] = segments[s]
  BY DEF SegmentRows
<1>3. TreeTyped'
  <2>1. segments' \in [SegmentIds -> SegmentsTyped \cup {NoSegment}]
    <3>1. \A s \in SegmentIds : segments'[s] \in SegmentsTyped \cup {NoSegment}
      BY DEF TreeInv, TreeTyped
    <3> QED
      BY <3>1
  <2>2. \A s \in SegmentRows' : segments'[s].layout \in LayoutRows'
    BY <1>1, <1>2, RowTypes
  <2> QED
    BY <1>1, <2>1, <2>2, AstrayTyped DEF TreeInv, TreeTyped
<1>4. /\ NamesUnique' /\ LabelsUnique' /\ SegmentCodesUnique'
      /\ ~astray => SegmentsFit' /\ LayoutsApart'
  BY <1>1, <1>2, FewerRows, RowTypes
<1>5. JobsTyped' /\ NewLayoutsAreNew' /\ NewLayoutsLieApart' /\ NewCodesAreValid'
  BY <1>1, FinishedServing, OthersGoOn
<1>6. ~astray' => tree' = Tree' /\ SegmentsFit' /\ LayoutsApart'
  BY <1>4, AstrayTyped
<1>7. StraightTreeMatches'
  BY <1>6 DEF StraightTreeMatches, SegmentsFit, LayoutsApart
<1> QED
  BY <1>3, <1>4, <1>5, <1>7 DEF TreeInv

LEMMA DeleteSegmentsKeepsTree ==
    ASSUME TreeInv, NEW k \in Clerks, DeleteSegments(k)
    PROVE  TreeInv'
<1>1. /\ codes' = codes /\ layouts' = layouts /\ Finish(k)
      /\ segments' = [s \in SegmentIds |-> segments'[s]]
      /\ \A s \in SegmentIds : segments'[s] = segments[s] \/ segments'[s] = NoSegment
  BY DEF DeleteSegments
<1> QED
  BY <1>1, DeletedSegmentsOutOfTree, SegmentsGoKeepsTree

LEMMA DeleteSegmentKeepsTree ==
    ASSUME TreeInv, NEW k \in Clerks, DeleteSegment(k)
    PROVE  TreeInv'
<1>1. /\ codes' = codes /\ layouts' = layouts /\ Finish(k)
      /\ segments' = [s \in SegmentIds |-> segments'[s]]
      /\ \A s \in SegmentIds : segments'[s] = segments[s] \/ segments'[s] = NoSegment
  BY DEF DeleteSegment, TreeInv, TreeTyped
<1> QED
  BY <1>1, DeletedSegmentOutOfTree, SegmentsGoKeepsTree

LEMMA UpdateSegmentKeepsTree ==
    ASSUME TreeInv, NEW k \in Clerks, UpdateSegment(k)
    PROVE  TreeInv'
<1>0. PICK s, n : s = serving[k].url.segment /\ n = serving[k].ask
  OBVIOUS
<1>1. s \in SegmentIds /\ n \in SegmentCodes
  BY <1>0 DEF UpdateSegment, TreeInv, JobsTyped, JobTyped, Waiting
<1>2. /\ s \in SegmentRows =>
            segments' = [segments EXCEPT ![s].code = n] /\ n \notin CodesOf(segments[s].layout)
      /\ s \notin SegmentRows => segments' = segments
      /\ segments \in [SegmentIds -> SegmentsTyped \cup {NoSegment}]
      /\ codes' = codes /\ layouts' = layouts
      /\ Finish(k) /\ serving[k].op = "UpdateSegment"
  BY <1>0 DEF UpdateSegment, TreeInv, TreeTyped
<1>3. \A t \in SegmentIds : t # s \/ s \notin SegmentRows => segments'[t] = segments[t]
  BY <1>1, <1>2
<1>4. ASSUME s \in SegmentRows
      PROVE  /\ segments'[s] \in SegmentsTyped
             /\ segments'[s].layout = segments[s].layout /\ segments'[s].code = n
  <2>1. segments'[s] = [segments[s] EXCEPT !.code = n] /\ segments[s] \in SegmentsTyped
    BY <1>1, <1>2, <1>4, RowTypes
  <2> QED
    BY <1>1, <2>1 DEF SegmentsTyped
<1>5. CodeRows' = CodeRows /\ LayoutRows' = LayoutRows /\ SegmentRows' = SegmentRows
  BY <1>1, <1>2, <1>3, <1>4, NoRowIsTyped DEF CodeRows, LayoutRows, SegmentRows
<1>6. \A t \in SegmentRows : /\ segments'[t].layout = segments[t].layout
                             /\ segments'[t].code = IF t = s THEN n ELSE segments[t].code
  BY <1>3, <1>4, RowTypes
<1>7. TreeTyped'
  <2>1. segments' \in [SegmentIds -> SegmentsTyped \cup {NoSegment}]
    <3>1. segments' = [t \in SegmentIds |-> segments'[t]]
      BY <1>2
    <3>2. \A t \in SegmentIds : segments'[t] \in SegmentsTyped \cup {NoSegment}
      BY <1>2, <1>3, <1>4
    <3> QED
      BY <3>1, <3>2
  <2>2. \A t \in SegmentRows' : segments'[t].layout \in LayoutRows'
    BY <1>5, <1>6, RowTypes
  <2> QED
    BY <1>2, <1>5, <2>1, <2>2, AstrayTyped DEF TreeInv, TreeTyped
<1>8. SegmentCodesUnique'
  <2>1. s \in SegmentRows => \A t \in SegmentRows :
           segments[t].layout = segments[s].layout => segments[t].code # n
    BY <1>2 DEF CodesOf
  <2> QED
    BY <1>5, <1>6, <2>1 DEF TreeInv, SegmentCodesUnique
<1>9. NamesUnique' /\ LabelsUnique'
  BY <1>2, <1>5 DEF TreeInv, NamesUnique, LabelsUnique
<1>10. JobsTyped' /\ NewLayoutsAreNew' /\ NewLayoutsLieApart' /\ NewCodesAreValid'
  BY <1>2, <1>5, FinishedServing, OthersGoOn
<1>11. ASSUME ~astray' PROVE tree' = Tree' /\ SegmentsFit' /\ LayoutsApart'
  <2>1. SegmentsFit /\ LayoutsApart
    BY <1>2, <1>11, AstrayTyped, TreeMatchesAs DEF TreeInv
  <2>2. Fits(n, layouts[segments[s].layout].range)
    <3>1. s \in SegmentRows /\ segments[s].layout = serving[k].url.layout
      BY <1>0, <1>2, <1>11, SegmentRead
    <3>2. Validate(n, layouts[segments[s].layout].range)
      BY <1>0, <1>2, <3>1, RowTypes DEF TreeInv, NewCodesAreValid, SegmentOps
    <3>3. layouts[segments[s].layout].range \in Ranges
      BY <3>1, RowTypes DEF LayoutsTyped
    <3> QED
      BY <1>1, <3>2, <3>3, ValidCodesFit
  <2>3. SegmentsFit'
    <3> SUFFICES ASSUME NEW t \in SegmentRows'
                 PROVE  Fits(segments'[t].code, layouts'[segments'[t].layout].range)
      BY Zenon DEF SegmentsFit, Fits, Powers
    <3> QED
      BY <1>2, <1>5, <1>6, <2>1, <2>2 DEF SegmentsFit
  <2>4. LayoutsApart'
    BY <1>2, <1>5, <2>1 DEF LayoutsApart
  <2> QED
    BY <1>11, <2>3, <2>4, UpdatedSegmentInTree
<1>12. StraightTreeMatches'
  BY <1>11 DEF StraightTreeMatches, SegmentsFit, LayoutsApart
<1> QED
  BY <1>7, <1>8, <1>9, <1>10, <1>12 DEF TreeInv

\* A request ends, and no row has changed.
LEMMA RowsStayKeepsTree ==
    ASSUME TreeInv, UNCHANGED <<codes, layouts, segments, tree, astray>>,
           JobsTyped', NewLayoutsAreNew', NewLayoutsLieApart', NewCodesAreValid'
    PROVE  TreeInv'
<1>1. CodeRows' = CodeRows /\ LayoutRows' = LayoutRows /\ SegmentRows' = SegmentRows
  BY DEF CodeRows, LayoutRows, SegmentRows
<1>2. Tree' = Tree
  BY DEF Tree, CodeRows, LayoutRows, SegmentRows, CodePath, LayoutPath, SegmentPath
<1>3. StraightTreeMatches'
  BY <1>1, <1>2 DEF TreeInv, StraightTreeMatches
<1>4. TreeTyped' /\ NamesUnique' /\ LabelsUnique' /\ SegmentCodesUnique'
  BY <1>1 DEF TreeInv, TreeTyped, NamesUnique, LabelsUnique, SegmentCodesUnique
<1> QED
  BY <1>3, <1>4 DEF TreeInv

LEMMA RefuseKeepsTree ==
    ASSUME TreeInv, NEW k \in Clerks, Refuse(k)
    PROVE  TreeInv'
<1>1. LayoutRows' = LayoutRows /\ layouts' = layouts
  BY DEF Refuse, LayoutRows
<1>2. JobsTyped' /\ NewLayoutsAreNew' /\ NewLayoutsLieApart' /\ NewCodesAreValid'
  BY <1>1, OthersGoOn DEF Refuse
<1> QED
  BY <1>2, RowsStayKeepsTree DEF Refuse

LEMMA StutterKeepsTree ==
    ASSUME TreeInv, UNCHANGED treeVars
    PROVE  TreeInv'
<1>1. UNCHANGED <<codes, layouts, segments, tree, astray>> /\ serving' = serving
  BY DEF treeVars
<1>2. LayoutRows' = LayoutRows
  BY <1>1 DEF LayoutRows
<1>3. JobsTyped' /\ NewLayoutsAreNew' /\ NewLayoutsLieApart' /\ NewCodesAreValid'
  BY <1>1, <1>2 DEF TreeInv, JobsTyped, JobTyped, NewLayoutsAreNew, NewLayoutsLieApart, NewCodesAreValid
<1> QED
  BY <1>1, <1>3, RowsStayKeepsTree

\* The invariant: types, unique names, labels and codes, and what a request in
\* flight may still rely on when it finishes.
THEOREM TreeInvariant == TreeSpec => []TreeInv
<1>1. TreeInv /\ [NextTree]_treeVars => TreeInv'
  BY BegunCodeKeepsTree, BegunLayoutKeepsTree, BegunSegmentKeepsTree,
     CreateCodeKeepsTree, UpdateCodeKeepsTree, DeleteCodeKeepsTree,
     CreateLayoutKeepsTree, UpdateLayoutKeepsTree, DeleteLayoutKeepsTree,
     CreateSegmentsKeepsTree, DeleteSegmentsKeepsTree, DeleteSegmentKeepsTree,
     UpdateSegmentKeepsTree, RefuseKeepsTree, StutterKeepsTree
  DEF NextTree
<1> QED
  BY <1>1, InitTreeInv, PTL DEF TreeSpec

\* Whatever requests on address codes, layouts and segments run at a time
\* (addresscode_service.go, addresscodelayout_service.go and
\* addresscodelayoutsegment_service.go), the nodes have the tree of names of the
\* rows, layouts of a code share no bits and their segments fit in them, unless a
\* request finished on rows that had changed since it read them, or on rows that
\* its URL had mixed up.
THEOREM StraightTreesMatch == TreeSpec => []StraightTreeMatches
<1>1. TreeInv => StraightTreeMatches
  BY DEF TreeInv
<1> QED
  BY <1>1, TreeInvariant, PTL

=============================================================================
