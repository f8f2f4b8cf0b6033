---------------------------- MODULE AddressPlan ----------------------------
(***************************************************************************)
(* What the address plan of one subnet promises, without saying how: ranges *)
(* that exclude each other, capacities that are not kept but counted anew  *)
(* from the rows each time, and pools that stay while clients hold their   *)
(* addresses.  Subnet4 has the capacities stored in rows and changed by    *)
(* differences, and deletes by them: it implements the plan but for the    *)
(* deletions that it names.                                                *)
(***************************************************************************)
EXTENDS Integers, FiniteSets

CONSTANTS
    Ip,              \* the addresses of the subnet
    PoolRow,         \* rows with a begin and an end
    ReservationRow,  \* rows with an ip and a client; auto: made by the service
    LeaseRow         \* an ip and the client that holds it

VARIABLES pools, reservedPools, reservations, leases,
          quoted     \* the capacities that the API shows

vars == <<pools, reservedPools, reservations, leases, quoted>>

Addresses(p) == {ip \in Ip : p.begin <= ip /\ ip <= p.end}

Apart(p, rows) == \A q \in rows : Addresses(p) \cap Addresses(q) = {}

IsReserved(ip) == \E v \in reservations : v.ip = ip

\* The addresses of a pool that a client without a reservation may be given.
FreeIn(p) ==
    {ip \in Addresses(p) : ~IsReserved(ip) /\ \A r \in reservedPools : ip \notin Addresses(r)}

Counted ==
    [pool |-> [p \in pools |-> Cardinality(FreeIn(p))],
     subnet |-> Cardinality({x \in pools \X Ip : x[2] \in FreeIn(x[1])})
                    + Cardinality(reservations)]

Init ==
    /\ pools = {} /\ reservedPools = {} /\ reservations = {} /\ leases = {}
    /\ quoted = Counted

AddPool(p) ==
    /\ Apart(p, pools)
    /\ pools' = pools \cup {p}
    /\ UNCHANGED <<reservedPools, reservations, leases>>

HeldByReservation(l) == \E v \in reservations : v.ip = l.ip /\ v.client = l.client

DropPool(p) ==
    /\ p \in pools
    /\ pools' = pools \ {p}
    /\ UNCHANGED <<reservedPools, reservations, leases>>

\* A pool is kept while a client holds one of its addresses, other than by the
\* client's own reservation, which does not need the pool.
RemovePool(p) ==
    /\ \A l \in leases : l.ip \in Addresses(p) => HeldByReservation(l)
    /\ DropPool(p)

\* A subnet goes with all it has.
DropSubnet == pools' = {} /\ reservedPools' = {} /\ reservations' = {} /\ leases' = {}

RemoveSubnet == leases = {} /\ DropSubnet

AddReservedPool(r) ==
    /\ Apart(r, reservedPools)
    /\ \A ip \in Addresses(r) : ~IsReserved(ip)
    /\ reservedPools' = reservedPools \cup {r}
    /\ UNCHANGED <<pools, reservations, leases>>

RemoveReservedPool(r) ==
    /\ r \in reservedPools
    /\ reservedPools' = reservedPools \ {r}
    /\ UNCHANGED <<pools, reservations, leases>>

AddReservation(v) ==
    /\ ~IsReserved(v.ip)
    /\ \A u \in reservations : u.client # v.client
    /\ \A r \in reservedPools : v.ip \notin Addresses(r)
    /\ reservations' = reservations \cup {v}
    /\ UNCHANGED <<pools, reservedPools, leases>>

\* A reservation in use is kept, unless the service has made it by itself.
RemoveReservation(v) ==
    /\ v \in reservations
    /\ v.auto \/ \A l \in leases : l.ip = v.ip => l.client # v.client
    /\ reservations' = reservations \ {v}
    /\ UNCHANGED <<pools, reservedPools, leases>>

Lease(l) ==
    /\ \A m \in leases : m.ip # l.ip
    /\ \/ \E p \in pools : l.ip \in FreeIn(p)
       \/ HeldByReservation(l)
    /\ leases' = leases \cup {l}
    /\ UNCHANGED <<pools, reservedPools, reservations>>

End(l) ==
    /\ leases' = leases \ {l}
    /\ UNCHANGED <<pools, reservedPools, reservations>>

Recounted == quoted' = Counted'

Next ==
    /\ \/ \E p \in PoolRow :
             AddPool(p) \/ RemovePool(p) \/ AddReservedPool(p) \/ RemoveReservedPool(p)
       \/ RemoveSubnet
       \/ \E v \in ReservationRow : AddReservation(v) \/ RemoveReservation(v)
       \/ \E l \in LeaseRow : Lease(l) \/ End(l)
    /\ Recounted

Spec == Init /\ [][Next]_vars

=============================================================================
