------------------------------ MODULE RowLocks ------------------------------
(***************************************************************************)
(* The order in which the services of a subnet lock its rows.              *)
(*                                                                         *)
(* A transaction of PostgreSQL locks the rows it writes and keeps them     *)
(* until it ends: UPDATE of a capacity, DELETE, and for the insertion of a *)
(* row that a subnet owns, the subnet's row against its deletion.  Most    *)
(* services write the subnet before its pools; the deletion of a pool and  *)
(* the reservation of an IPv4 address inside a pool write the pool first.  *)
(* Nothing in the code retries: a transaction that PostgreSQL ends because *)
(* of a deadlock is an error of its request.                               *)
(*                                                                         *)
(* The rows and what they say are in Subnet4 and Subnet6; here only which  *)
(* rows there are.  pools are pool4s, or pool6s and pdpools.               *)
(***************************************************************************)
EXTENDS Naturals, Sequences, FiniteSets, SequencesExt

CONSTANTS
    Workers,  \* goroutines that serve requests
    Pools,    \* the pools of the subnet
    Versions  \* of 4 and 6: the services that are modelled

Subnet == "Subnet"
Rows == {Subnet} \cup Pools

ASSUME RowLocksAssumption ==
    Subnet \notin Pools /\ IsFiniteSet(Pools) /\ Versions \subseteq {4, 6}

-----------------------------------------------------------------------------
(***************************************************************************)
(* Locks                                                                   *)
(***************************************************************************)
Modes == {"key share", "update", "delete"}

\* FOR KEY SHARE conflicts with FOR UPDATE, not with an UPDATE that leaves the
\* key alone.
Conflict(m, n) == IF "key share" \in {m, n} THEN "delete" \in {m, n} ELSE TRUE

Lock(row, mode) == [row |-> row, mode |-> mode]

\* The rows of one UPDATE are locked in the order of a Go map.
InAnyOrder(rows, mode) ==
    {[i \in DOMAIN s |-> Lock(s[i], mode)] : s \in SetToSeqs(rows)}

\* Mutant: a pool is inserted without its subnet being looked at.
CreatePoolUnowned == {<<>>, <<Lock(Subnet, "update")>>}

\* A pool without capacity leaves the subnet's capacity alone.
CreatePool ==
    {<<Lock(Subnet, "key share")>>,
     <<Lock(Subnet, "key share"), Lock(Subnet, "update")>>}

DeletePool(pool) ==
    {<<Lock(pool, "delete")>>,
     <<Lock(pool, "delete"), Lock(Subnet, "update")>>}

\* Mutant: the pools are written before the subnet.
PoolsFirst(pools) ==
    {s \o <<Lock(Subnet, "update")>> : s \in InAnyOrder(pools, "update")}

\* updateSubnet4AndPool4sCapacity, updateSubnet6AndPoolsCapacity: a reserved
\* pool, a reservation of IPv6 or a batch is created or deleted.  Without
\* pools, these are also the locks of a reservation of IPv4 outside of all
\* pools and of an update of the subnet.  What is inserted then looks for the
\* subnet, which is locked already.
WriteCapacities(pools) ==
    {<<Lock(Subnet, "update")>> \o s : s \in InAnyOrder(pools, "update")}

\* A reservation of IPv4 inside a pool writes the pool only.
ReserveAddress(pool) == {<<Lock(pool, "update"), Lock(Subnet, "key share")>>}

UnreserveAddress(pool) == {<<Lock(pool, "update")>>}

DeleteSubnet == {<<Lock(Subnet, "delete")>>}

\* The rows that a subnet owns are deleted with it.
Cascade(lock, pools) ==
    IF lock = Lock(Subnet, "delete") THEN InAnyOrder(pools, "delete") ELSE {<<>>}

Request(kind, creates, programs) ==
    {[kind |-> kind, creates |-> creates, program |-> p] : p \in programs}

\* Only a reservation of IPv4 takes one pool alone.
OfVersion4(pools) == IF 4 \in Versions THEN pools ELSE {}

\* What a service does when the given pools exist; the id of a new pool is new.
Requests(pools, newPools) ==
    UNION ({Request("DeleteSubnet", {}, DeleteSubnet)}
           \cup {Request("CreatePool", {p}, CreatePool) : p \in newPools}
           \cup {Request("DeletePool", {}, DeletePool(p)) : p \in pools}
           \cup {Request("WriteCapacities", {}, WriteCapacities(ps)) : ps \in SUBSET pools}
           \cup {Request("ReserveAddress", {}, ReserveAddress(p)) : p \in OfVersion4(pools)}
           \cup {Request("UnreserveAddress", {}, UnreserveAddress(p)) : p \in OfVersion4(pools)})

-----------------------------------------------------------------------------
VARIABLES
    rows,     \* the committed rows
    request,  \* what each worker serves, or Idle
    todo,     \* the locks it has not taken yet
    held      \* the locks it holds

vars == <<rows, request, todo, held>>

Idle == [kind |-> "Idle", creates |-> {}]

Busy == {w \in Workers : request[w] # Idle}

\* The types, and that no row is held in modes that conflict.
TypeOK ==
    /\ rows \subseteq Rows
    /\ \A w \in Workers :
          /\ request[w] # Idle => request[w].creates \subseteq Pools
          /\ request[w] = Idle => todo[w] = <<>> /\ held[w] = {}
          /\ \A i \in DOMAIN todo[w] : todo[w][i].row \in Rows /\ todo[w][i].mode \in Modes
    /\ \A v, w \in Workers : v # w =>
          \A l \in held[v], m \in held[w] : l.row = m.row => ~Conflict(l.mode, m.mode)

Init ==
    /\ rows \in {{Subnet} \cup ps : ps \in SUBSET Pools}
    /\ request = [w \in Workers |-> Idle]
    /\ todo = [w \in Workers |-> <<>>]
    /\ held = [w \in Workers |-> {}]

-----------------------------------------------------------------------------
Release(w) ==
    /\ request' = [request EXCEPT ![w] = Idle]
    /\ todo' = [todo EXCEPT ![w] = <<>>]
    /\ held' = [held EXCEPT ![w] = {}]

\* The pools that some request has to do with.
Mentioned ==
    UNION {request[w].creates \cup {l.row : l \in held[w] \cup Range(todo[w])} : w \in Workers}

\* A request reads the subnet and its pools without a lock.
Begin(w) ==
    /\ request[w] = Idle
    /\ Subnet \in rows
    /\ \E q \in Requests(rows \cap Pools, Pools \ (rows \cup Mentioned)) :
          /\ request' = [request EXCEPT ![w] = [kind |-> q.kind, creates |-> q.creates]]
          /\ todo' = [todo EXCEPT ![w] = q.program]
    /\ UNCHANGED <<rows, held>>

\* The workers that one waits for.
WaitsFor(w) ==
    IF todo[w] = <<>> THEN {}
    ELSE {v \in Workers \ {w} : \E l \in held[v] :
             l.row = Head(todo[w]).row /\ Conflict(l.mode, Head(todo[w]).mode)}

\* A row that is gone by now is not locked, and nothing can be inserted into
\* a subnet that is gone.  The number of affected rows is not looked at.
Acquire(w) ==
    /\ todo[w] # <<>> /\ WaitsFor(w) = {}
    /\ \/ /\ Head(todo[w]).row \in rows
          /\ held' = [held EXCEPT ![w] = @ \cup {Head(todo[w])}]
          /\ \E s \in Cascade(Head(todo[w]), rows \cap Pools) :
                todo' = [todo EXCEPT ![w] = Tail(@) \o s]
          /\ UNCHANGED request
       \/ /\ Head(todo[w]).row \notin rows /\ Head(todo[w]).mode # "key share"
          /\ todo' = [todo EXCEPT ![w] = Tail(@)]
          /\ UNCHANGED <<request, held>>
       \/ /\ Head(todo[w]).row \notin rows /\ Head(todo[w]).mode = "key share"
          /\ Release(w)
    /\ UNCHANGED rows

Deleted(w) == {l.row : l \in {k \in held[w] : k.mode = "delete"}}

Commit(w) ==
    /\ request[w] # Idle /\ todo[w] = <<>>
    /\ rows' = (rows \ Deleted(w)) \cup request[w].creates
    /\ Release(w)

\* A node cannot be told.
RollBack(w) ==
    /\ request[w] # Idle /\ todo[w] = <<>>
    /\ Release(w)
    /\ UNCHANGED rows

\* The workers that are waited for, directly or through others: those in every
\* set that has whom w waits for, and with each worker whom that one waits for.
WaitsInTheEnd(w) ==
    {v \in Workers : \A S \in SUBSET Workers :
        WaitsFor(w) \subseteq S /\ (\A u \in S : WaitsFor(u) \subseteq S) => v \in S}

\* Mutant: the detector sees two transactions that wait for each other only
\* if they wait for the same row.
DeadlockedOnOneRow ==
    {w \in Workers : w \in WaitsInTheEnd(w) /\
        \A v \in WaitsInTheEnd(w) : Head(todo[v]).row = Head(todo[w]).row}

Deadlocked == {w \in Workers : w \in WaitsInTheEnd(w)}

\* PostgreSQL finds a cycle after deadlock_timeout and ends one transaction.
EndDeadlock ==
    /\ \E w \in Deadlocked : Release(w)
    /\ UNCHANGED rows

\* The subnet is created again.
CreateSubnet ==
    /\ Subnet \notin rows
    /\ rows' = rows \cup {Subnet}
    /\ UNCHANGED <<request, todo, held>>

Next ==
    \/ \E w \in Workers : Begin(w) \/ Acquire(w) \/ Commit(w) \/ RollBack(w)
    \/ EndDeadlock
    \/ CreateSubnet

\* Workers run, and PostgreSQL serves those that wait for a row in turn.
Fairness ==
    /\ \A w \in Workers : SF_vars(Acquire(w)) /\ WF_vars(Commit(w) \/ RollBack(w))
    /\ WF_vars(EndDeadlock)

Spec == Init /\ [][Next]_vars /\ Fairness

-----------------------------------------------------------------------------
(***************************************************************************)
(* Properties                                                              *)
(***************************************************************************)

Serving(kinds) == {w \in Workers : request[w].kind \in kinds}

\* Whoever is deadlocked waits in the end for a request that writes a pool
\* before it looks at the subnet, and for one that writes the subnet before
\* pools: the deletion of a pool, or the reservation of an IPv4 address inside
\* one, against a reserved pool, a batch or the deletion of the subnet.
DeadlockIsOfTwoOrders ==
    \A w \in Deadlocked :
        /\ Deadlocked \cap WaitsInTheEnd(w) \cap Serving({"DeletePool", "ReserveAddress"}) # {}
        /\ Deadlocked \cap WaitsInTheEnd(w)
              \cap Serving({"WriteCapacities", "DeleteSubnet"}) # {}

\* A subnet that is deleted leaves no pools, whatever was being created.
NoOrphans == Subnet \notin rows => rows = {}

\* Each request is answered in the end, be it with an error.  Only the
\* deletion of a subnet may wait for ever, while rows are inserted that share
\* the lock it waits for.
EveryRequestEnds ==
    \A w \in Workers :
        (w \in Busy /\ (request[w].kind = "DeleteSubnet" => held[w] # {})) ~> w \notin Busy

=============================================================================
