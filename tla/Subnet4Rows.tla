---------------------------- MODULE Subnet4Rows ----------------------------
(***************************************************************************)
(* The rows that one subnet4 owns in PostgreSQL, and what every handler of *)
(* the address services decides and computes from them.  The module has no *)
(* variables.  A handler of the code is one transaction: it reads rows,    *)
(* checks them, and writes back values computed from what it READ.  The    *)
(* two operators of a handler follow that split:                           *)
(*                                                                         *)
(*   CanX(d, ...)   the checks of handler X on the rows d it has read;     *)
(*   X(c, d, ...)   the rows after its commit, where c are the rows in the *)
(*                  database when it commits and d those it has read.      *)
(*                                                                         *)
(* Subnet4 runs the handlers one after the other (c = d); in               *)
(* Subnet4Concurrent other transactions commit between read and write.     *)
(***************************************************************************)
EXTENDS Integers, FiniteSets

CONSTANTS
    FirstIp, LastIp,  \* the addresses of the subnet, uint32 in the code
    Ids,              \* the uuids of rows; their number bounds every table
    Clients,          \* a client: its hardware address or its hostname
    Word              \* the modulus of the uint64 arithmetic on capacities

\* 2^64 is far more than twice the 2^32 addresses of the largest subnet.
ASSUME RowsAssumption ==
    /\ FirstIp \in Nat
    /\ LastIp \in Nat
    /\ FirstIp <= LastIp
    /\ Word \in Nat
    /\ 2 * (LastIp - FirstIp + 1) < Word

Ip == FirstIp .. LastIp

\* A row of gr_pool4 or gr_reserved_pool4 without its capacity column.
PoolRow == {p \in [id: Ids, begin: Ip, end: Ip] : p.begin <= p.end}

\* A row of gr_reservation4; its capacity column is always 1.
ReservationRow == [id: Ids, ip: Ip, client: Clients, auto: BOOLEAN]

\* A lease held by a DHCP server, as the agent reports it over gRPC.
LeaseRow == [ip: Ip, client: Clients]

-----------------------------------------------------------------------------
(***************************************************************************)
(* uint64 arithmetic and address ranges                                    *)
(***************************************************************************)
Wrap(n) == IF n < 0 THEN n + Word ELSE IF n >= Word THEN n - Word ELSE n

Plus(m, n) == Wrap(m + n)

Minus(m, n) == Wrap(m - n)

Ips(p) == p.begin .. p.end

\* The range test of the SQL: begin_ip <= $2 and end_ip >= $3.
Overlaps(p, q) == p.begin <= q.end /\ p.end >= q.begin

OverlappingWith(rows, p) == {q \in rows : Overlaps(q, p)}

Containing(rows, ip) == {q \in rows : ip \in Ips(q)}

\* How many addresses a reserved pool takes off a pool, computed from the
\* larger begin and the smaller end without testing that they are ordered.
ReservedCount(p, r) ==
    LET begin == IF r.begin > p.begin THEN r.begin ELSE p.begin
        end   == IF r.end < p.end THEN r.end ELSE p.end
    IN  Wrap(end - begin + 1)

\* One pair for each row of the first set and each address it shares with p:
\* the number of pairs is the total that a loop over rows adds up.
SharedIps(rows, p) == {x \in rows \X Ip : x[2] \in Ips(x[1]) \cap Ips(p)}

ReservationsIn(d, p) == {v \in d.reservations : v.ip \in Ips(p)}

\* update gr_pool4 set capacity for the rows of f that still exist.
WithPoolCapacity(c, f) ==
    [c EXCEPT !.poolCapacity =
        [p \in c.pools |-> IF p \in DOMAIN f THEN f[p] ELSE c.poolCapacity[p]]]

-----------------------------------------------------------------------------
(***************************************************************************)
(* Pool4Service                                                            *)
(***************************************************************************)

\* Mutant: only the first address of the new pool is looked for.
CanCreatePool4ByBegin(d, p) == Containing(d.pools, p.begin) = {}

CanCreatePool4(d, p) == OverlappingWith(d.pools, p) = {}

\* Mutant: the reserved pools are not taken off.
Pool4CapacityUnreserved(d, p) ==
    Minus(p.end - p.begin + 1, Cardinality(ReservationsIn(d, p)))

\* recalculatePool4Capacity, on the size that Validate computes.
Pool4Capacity(d, p) ==
    LET size == p.end - p.begin + 1
        left == Minus(size, Cardinality(ReservationsIn(d, p)))
    IN  IF left = 0
        THEN 0
        ELSE Minus(left, Cardinality(SharedIps(d.reservedPools, p)))

\* Mutant: the capacity column of the new row is not written.
CreatePool4NoColumn(c, d, p) ==
    [c EXCEPT !.pools = @ \cup {p}, !.capacity = Plus(d.capacity, Pool4Capacity(d, p))]

CreatePool4(c, d, p) ==
    LET capacity == Pool4Capacity(d, p)
    IN  [c EXCEPT
            !.pools = @ \cup {p},
            !.poolCapacity = [q \in c.pools \cup {p} |->
                IF q = p THEN capacity ELSE c.poolCapacity[q]],
            !.capacity = IF capacity = 0 THEN @ ELSE Plus(d.capacity, capacity)]

\* Mutant: a lease is taken for a reserved one by its client, not its address.
Pool4LeasesByClient(d, p, leases) ==
    {l \in leases : /\ l.ip \in Ips(p)
                    /\ \A v \in d.reservations : v.client # l.client}

\* The leases that stop a pool from being deleted.  A pool whose stored
\* capacity is 0 is taken to have none and the agent is not asked.
Pool4Leases(d, p, leases) ==
    IF d.poolCapacity[p] = 0
    THEN {}
    ELSE {l \in leases : /\ l.ip \in Ips(p)
                         /\ \A v \in d.reservations : v.ip # l.ip}

CanDeletePool4(d, p, leases) ==
    /\ p \in d.pools
    /\ Pool4Leases(d, p, leases) = {}

\* Mutant: the subnet is charged the size of the pool, not its capacity.
DeletePool4BySize(c, d, p) ==
    [c EXCEPT
        !.pools = @ \ {p},
        !.poolCapacity = [q \in c.pools \ {p} |-> c.poolCapacity[q]],
        !.capacity = Minus(d.capacity, p.end - p.begin + 1)]

DeletePool4(c, d, p) ==
    [c EXCEPT
        !.pools = @ \ {p},
        !.poolCapacity = [q \in c.pools \ {p} |-> c.poolCapacity[q]],
        !.capacity = IF d.poolCapacity[p] = 0
                     THEN @
                     ELSE Minus(d.capacity, d.poolCapacity[p])]

-----------------------------------------------------------------------------
(***************************************************************************)
(* ReservedPool4Service.  The subnet row is written even when no pool      *)
(* overlaps the reserved pool.                                             *)
(***************************************************************************)

\* Mutant: reserved addresses are not looked at.
CanCreateReservedPool4Unreserved(d, r) == OverlappingWith(d.reservedPools, r) = {}

CanCreateReservedPool4(d, r) ==
    /\ OverlappingWith(d.reservedPools, r) = {}
    /\ ReservationsIn(d, r) = {}

CreateReservedPool4(c, d, r) ==
    LET hit == OverlappingWith(d.pools, r)
        rest == [p \in hit |-> Minus(d.poolCapacity[p], ReservedCount(p, r))]
    IN  [WithPoolCapacity(c, rest) EXCEPT
            !.reservedPools = @ \cup {r},
            !.capacity = Minus(d.capacity, Cardinality(SharedIps(hit, r)))]

CanDeleteReservedPool4(d, r) == r \in d.reservedPools

DeleteReservedPool4(c, d, r) ==
    LET hit == OverlappingWith(d.pools, r)
        rest == [p \in hit |-> Plus(d.poolCapacity[p], ReservedCount(p, r))]
    IN  [WithPoolCapacity(c, rest) EXCEPT
            !.reservedPools = @ \ {r},
            !.capacity = Plus(d.capacity, Cardinality(SharedIps(hit, r)))]

-----------------------------------------------------------------------------
(***************************************************************************)
(* Reservation4Service and the lease consumer.  affectPools[0] is the      *)
(* first row of a query without ORDER BY: any pool that holds the address. *)
(***************************************************************************)

\* Mutant: the reserved pools are not looked at.
CanCreateReservation4Anywhere(d, v) ==
    \A u \in d.reservations : u.client # v.client /\ u.ip # v.ip

CanCreateReservation4(d, v) ==
    /\ \A u \in d.reservations : u.client # v.client /\ u.ip # v.ip
    /\ Containing(d.reservedPools, v.ip) = {}

CreateReservation4(c, d, v) ==
    LET hit == Containing(d.pools, v.ip)
        added == [c EXCEPT !.reservations = @ \cup {v}]
    IN  IF hit = {}
        THEN {[added EXCEPT !.capacity = Plus(d.capacity, 1)]}
        ELSE {WithPoolCapacity(added, [q \in {p} |-> Minus(d.poolCapacity[p], 1)])
                : p \in hit}

\* GetReservation4LeaseCount: the lease of the reserved address that is held
\* by the client it is reserved for.
CanDeleteReservation4(d, v, leases) ==
    /\ v \in d.reservations
    /\ [ip |-> v.ip, client |-> v.client] \notin leases

\* The consumer deletes without looking at leases: the client has declined.
CanAutoDeleteReservation4(d, v, ip) ==
    v \in d.reservations /\ v.ip = ip /\ v.auto

DeleteReservation4(c, d, v) ==
    LET hit == Containing(d.pools, v.ip)
        removed == [c EXCEPT !.reservations = @ \ {v}]
    IN  IF hit = {}
        THEN {[removed EXCEPT !.capacity = Minus(d.capacity, 1)]}
        ELSE {WithPoolCapacity(removed, [q \in {p} |-> Plus(d.poolCapacity[p], 1)])
                : p \in hit}

-----------------------------------------------------------------------------
(***************************************************************************)
(* What the rows of a subnet are meant to satisfy                          *)
(***************************************************************************)
RowsType(d) ==
    /\ d = [pools |-> d.pools, poolCapacity |-> d.poolCapacity,
            reservedPools |-> d.reservedPools,
            reservations |-> d.reservations, capacity |-> d.capacity]
    /\ d.pools \subseteq PoolRow
    /\ d.poolCapacity \in [d.pools -> 0 .. Word - 1]
    /\ d.reservedPools \subseteq PoolRow
    /\ d.reservations \subseteq ReservationRow
    /\ d.capacity \in 0 .. Word - 1

DisjointRows(rows) == \A p, q \in rows : p # q => ~Overlaps(p, q)

ExclusiveRows(d) ==
    /\ DisjointRows(d.reservedPools)
    /\ \A u, v \in d.reservations : u # v => u.ip # v.ip /\ u.client # v.client
    /\ \A v \in d.reservations : Containing(d.reservedPools, v.ip) = {}

\* An address that a client without a reservation can be given.
Free(d, ip) ==
    /\ Containing(d.reservedPools, ip) = {}
    /\ \A v \in d.reservations : v.ip # ip

\* Every free address of every pool, together with its pool.
FreeIps(d) == {x \in d.pools \X Ip : x[2] \in Ips(x[1]) /\ Free(d, x[2])}

ExactPools(d) ==
    \A p \in d.pools :
        d.poolCapacity[p] = Cardinality({ip \in Ips(p) : Free(d, ip)})

ExactSubnet(d) ==
    d.capacity = Cardinality(FreeIps(d)) + Cardinality(d.reservations)

=============================================================================
