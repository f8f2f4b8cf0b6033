-------------------------- MODULE AddressLookups4 --------------------------
(***************************************************************************)
(* What other services are told, over gRPC, of the addresses of a subnet4: *)
(* their type and their lease, for one address or for many.                *)
(***************************************************************************)
EXTENDS Subnet4

\* Mutant: pools are asked before reserved pools.
PoolsFirst(d, ip) ==
    IF \E v \in d.reservations : v.ip = ip THEN "reservation"
    ELSE IF \E p \in d.pools : ip \in Ips(p) THEN "dynamic"
    ELSE IF \E r \in d.reservedPools : ip \in Ips(r) THEN "reserve"
    ELSE "exclusion"

\* getIPv4AddressType: the first table that has the address.
AddressType(d, ip) ==
    IF \E v \in d.reservations : v.ip = ip THEN "reservation"
    ELSE IF \E r \in d.reservedPools : ip \in Ips(r) THEN "reserve"
    ELSE IF \E p \in d.pools : ip \in Ips(p) THEN "dynamic"
    ELSE "exclusion"

Reserved(d, ips) == {ip \in ips : AddressType(d, ip) = "reservation"}

\* setIpv4InfosAddressType: every address begins as an exclusion, and reservations
\* are found.  With addresses left, the reserved pools are filled into a slice that
\* is no pointer: that fails, and what has been found stays.
BatchTypes(d, ips) ==
    [ip \in ips |-> IF ip \in Reserved(d, ips) THEN "reservation" ELSE "exclusion"]

\* GetSubnets4AndLeases4WithIps asks for leases only after its transaction.
BatchLeases(d, held, ips) ==
    IF Reserved(d, ips) = ips THEN {l \in held : l.ip \in ips} ELSE {}

\* GetSubnet4AndLease4WithIp
Leased(held, ip) == {l \in held : l.ip = ip}

\* getSubnet4sLeasesCount: a subnet of capacity 0 is not asked for.
LeasesCount(d, held) == IF d.capacity = 0 THEN 0 ELSE Cardinality(held)

\* An address is called dynamic, or a reservation, exactly when the capacities
\* count it.  A lookup of many addresses may leave types and leases out, and never
\* contradicts the lookups of each.
LookupsMatchBooks ==
    /\ \A p \in db.pools :
          db.poolCapacity[p] = Cardinality({ip \in Ips(p) : AddressType(db, ip) = "dynamic"})
    /\ db.capacity =
          Cardinality({ip \in Ip : AddressType(db, ip) \in {"dynamic", "reservation"}})
    /\ \A ips \in SUBSET Ip :
          /\ \A ip \in ips : BatchTypes(db, ips)[ip] \in {AddressType(db, ip), "exclusion"}
          /\ BatchLeases(db, leases, ips) \subseteq UNION {Leased(leases, ip) : ip \in ips}
    /\ LeasesCount(db, leases) = 0 =>
          \A l \in leases : AddressType(db, l.ip) # "dynamic"

=============================================================================
