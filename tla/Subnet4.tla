------------------------------ MODULE Subnet4 ------------------------------
(***************************************************************************)
(* One subnet4 that is served by a DHCP node, its pools, reserved pools    *)
(* and reservations, and the capacity bookkeeping kept in the rows.  Every *)
(* handler runs as one transaction that commits before the next one reads: *)
(* what the services promise when requests do not overlap.                 *)
(***************************************************************************)
EXTENDS Subnet4Rows

CONSTANT MaxLeases  \* bounds the leases held at a time

VARIABLES
    db,      \* the committed rows
    leases   \* the leases the DHCP server holds

vars == <<db, leases>>

UnusedId(rows, id) == \A r \in rows : r.id # id

\* The rows have their columns, every pool has a capacity, and leases are of
\* addresses of the subnet.
TypeOK ==
    /\ RowsType(db)
    /\ leases \subseteq LeaseRow

\* A subnet is created without children and with capacity 0.
Childless == [pools |-> {}, poolCapacity |-> [p \in {} |-> 0],
              reservedPools |-> {}, reservations |-> {}, capacity |-> 0]

Init ==
    /\ db = Childless
    /\ leases = {}

-----------------------------------------------------------------------------
(***************************************************************************)
(* REST and gRPC requests                                                  *)
(***************************************************************************)
Pool4Create(p) ==
    /\ UnusedId(db.pools, p.id)
    /\ CanCreatePool4(db, p)
    /\ db' = CreatePool4(db, db, p)
    /\ UNCHANGED leases

Pool4Delete(p) ==
    /\ CanDeletePool4(db, p, leases)
    /\ db' = DeletePool4(db, db, p)
    /\ UNCHANGED leases

ReservedPool4Create(r) ==
    /\ UnusedId(db.reservedPools, r.id)
    /\ CanCreateReservedPool4(db, r)
    /\ db' = CreateReservedPool4(db, db, r)
    /\ UNCHANGED leases

ReservedPool4Delete(r) ==
    /\ CanDeleteReservedPool4(db, r)
    /\ db' = DeleteReservedPool4(db, db, r)
    /\ UNCHANGED leases

Reservation4Create(v) ==
    /\ ~v.auto
    /\ UnusedId(db.reservations, v.id)
    /\ CanCreateReservation4(db, v)
    /\ db' \in CreateReservation4(db, db, v)
    /\ UNCHANGED leases

Reservation4Delete(v) ==
    /\ CanDeleteReservation4(db, v, leases)
    /\ db' \in DeleteReservation4(db, db, v)
    /\ UNCHANGED leases

\* The server is asked for leases only if the stored capacity is not 0.  The
\* foreign keys take the children along and the server drops its leases; a
\* subnet created in its place is a new one.
SubnetDelete ==
    /\ db.capacity = 0 \/ leases = {}
    /\ db' = Childless
    /\ leases' = {}

(***************************************************************************)
(* The lease consumer.  A message may be read long after the lease it      *)
(* reports, so it may name any address and any client.                     *)
(***************************************************************************)
AutoReservation4Create(v) ==
    /\ v.auto
    /\ UnusedId(db.reservations, v.id)
    /\ CanCreateReservation4(db, v)
    /\ db' \in CreateReservation4(db, db, v)
    /\ UNCHANGED leases

AutoReservation4Delete(ip) ==
    /\ \E v \in db.reservations :
          /\ CanAutoDeleteReservation4(db, v, ip)
          /\ db' \in DeleteReservation4(db, db, v)
    /\ UNCHANGED leases

(***************************************************************************)
(* The DHCP server: it leases an address of a pool that is neither in a    *)
(* reserved pool nor reserved for another client, or the address reserved  *)
(* for the client.                                                         *)
(***************************************************************************)
Grantable(d, l) ==
    /\ \A v \in d.reservations : v.ip = l.ip => v.client = l.client
    /\ \/ Containing(d.pools, l.ip) # {} /\ Containing(d.reservedPools, l.ip) = {}
       \/ \E v \in d.reservations : v.ip = l.ip

GrantLease(l) ==
    /\ Cardinality(leases) < MaxLeases
    /\ \A m \in leases : m.ip # l.ip
    /\ Grantable(db, l)
    /\ leases' = leases \cup {l}
    /\ UNCHANGED db

EndLease(l) ==
    /\ leases' = leases \ {l}
    /\ UNCHANGED db

Next ==
    \/ \E p \in PoolRow :
          \/ Pool4Create(p)
          \/ Pool4Delete(p)
          \/ ReservedPool4Create(p)
          \/ ReservedPool4Delete(p)
    \/ \E v \in ReservationRow :
          \/ Reservation4Create(v)
          \/ Reservation4Delete(v)
          \/ AutoReservation4Create(v)
    \/ SubnetDelete
    \/ \E ip \in Ip : AutoReservation4Delete(ip)
    \/ \E l \in LeaseRow : GrantLease(l)
    \/ \E l \in leases : EndLease(l)

Spec == Init /\ [][Next]_vars

-----------------------------------------------------------------------------
(***************************************************************************)
(* Properties                                                              *)
(***************************************************************************)

\* No two pools of the subnet share an address.
PoolsDisjoint == DisjointRows(db.pools)

\* Reserved pools share no address, two reservations differ in address and in
\* client, and no reserved address lies in a reserved pool.  Each of the three
\* is checked by the handler that adds the second of the two rows.
ReservedExclusive == ExclusiveRows(db)

\* The capacity stored in a pool's row, maintained by the increments of six
\* handlers, is the number of its addresses that are neither in a reserved
\* pool nor reserved.
PoolCapacityExact == ExactPools(db)

\* The capacity stored in the subnet's row is the number of free addresses of
\* all its pools plus one for each reservation, wherever its address lies.
SubnetCapacityExact == ExactSubnet(db)

Plan == INSTANCE AddressPlan WITH
            pools <- db.pools,
            reservedPools <- db.reservedPools,
            reservations <- db.reservations,
            quoted <- [pool |-> db.poolCapacity, subnet |-> db.capacity]

\* Pools and subnets that are deleted although a client holds an address, against
\* doc/design/dhcp/dhcp_cement.md:843: an agent is not asked about a pool, or a
\* subnet, without a free address, and a lease is taken for a reserved one by its
\* address, also when that was reserved for another client after it was leased.
FullPoolDropped(p) == Plan!FreeIn(p) = {} /\ Plan!DropPool(p)

ReservedAnewDropped(p) ==
    /\ \A l \in leases : l.ip \in Plan!Addresses(p) => Plan!IsReserved(l.ip)
    /\ Plan!DropPool(p)

FullSubnetDropped == Plan!Counted.subnet = 0 /\ Plan!DropSubnet

DroppedInUse ==
    /\ \/ \E p \in PoolRow : FullPoolDropped(p) \/ ReservedAnewDropped(p)
       \/ FullSubnetDropped
    /\ Plan!Recounted

\* Every behaviour of the handlers, with their stored capacities and their checks
\* on them, is one of the address plan, whose capacities are counted and whose
\* leased pools stay, but for the deletions named above.  What counts as full is
\* counted from the rows too: a stored 0 that is wrong deletes what the plan keeps.
ImplementsAddressPlan == Plan!Init /\ [][Plan!Next \/ DroppedInUse]_(Plan!vars)

\* The inductive invariant: the capacities stay exact only because the ranges
\* that the handlers add and subtract are disjoint.
IInv ==
    /\ TypeOK
    /\ PoolsDisjoint
    /\ ReservedExclusive
    /\ PoolCapacityExact
    /\ SubnetCapacityExact

=============================================================================
