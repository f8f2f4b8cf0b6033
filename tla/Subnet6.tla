------------------------------ MODULE Subnet6 ------------------------------
(***************************************************************************)
(* One subnet6 that is served by a DHCP node: its address and prefix pools, *)
(* reservations, the generation of addresses that excludes pools, and the  *)
(* stored capacities.  Requests run one after the other.                   *)
(***************************************************************************)
EXTENDS Subnet6Rows

CONSTANTS
    Masks,      \* the lengths the mask of the subnet may have
    Generated,  \* the capacity of a subnet that generates addresses
    MaxRows,    \* bounds the rows of all tables together
    MaxItems,   \* bounds the addresses or prefixes of a reservation
    MaxLeases   \* bounds the leases, and the delegations, held at a time

ASSUME Subnet6Assumption == Masks \subseteq Nat /\ Generated \in Nat \ {0}

VARIABLES
    db,           \* the committed rows
    leases,       \* addresses held by clients, as the DHCP server knows them
    delegations,  \* prefixes held by clients
    skewed        \* history: pools that a shortcut of the code has touched

vars == <<db, leases, delegations, skewed>>

\* The rows a subnet may be given, for each mask.
PrefixesBy == [mask \in Masks |-> PrefixOf(mask)]

PdPoolsBy == [mask \in Masks |-> PdPoolRow(mask)]

ReservationsBy ==
    [mask \in Masks |-> {v \in ReservationRow(mask) :
                            /\ Cardinality(v.ips) + Cardinality(v.prefixes) <= MaxItems
                            /\ v.auto => Cardinality(v.ips) = 1}]

Rows == db.pools \cup db.pdpools

\* The number of rows stays within its bound.
RoomFor(n) ==
    Cardinality(Rows) + Cardinality(db.reservedPools) + Cardinality(db.reservedPrefixes)
        + Cardinality(db.reservations) + n <= MaxRows

TypeOK ==
    /\ db.mask \in Masks
    /\ db.generates \in BOOLEAN
    /\ db.pools \subseteq PoolRow
    /\ db.reservedPools \subseteq PoolRow
    /\ db.pdpools \subseteq PdPoolsBy[db.mask]
    /\ db.reservedPrefixes \subseteq PrefixesBy[db.mask]
    /\ db.reservations \subseteq ReservationsBy[db.mask]
    /\ DOMAIN db.capacityOf = Rows
    /\ skewed \subseteq Rows

\* Subnet6Service.Create, with or without generated addresses.
Init ==
    /\ \E mask \in Masks, generates \in BOOLEAN :
          /\ generates => mask >= Limit
          /\ db = [mask |-> mask, generates |-> generates,
                   capacity |-> IF generates THEN Generated ELSE 0,
                   pools |-> {}, reservedPools |-> {}, pdpools |-> {},
                   reservedPrefixes |-> {}, reservations |-> {}, capacityOf |-> <<>>]
    /\ leases = {}
    /\ delegations = {}
    /\ skewed = {}

-----------------------------------------------------------------------------
(***************************************************************************)
(* Pools of addresses                                                      *)
(***************************************************************************)
Pool6Leases(p) ==
    IF db.capacityOf[p] = 0
    THEN {}
    ELSE {l \in leases : l.ip \in Ips(p) \ ReservedIps(db)}

CanHaveDynamicPools == ~db.generates /\ db.mask >= Limit

Pool6Create(p) ==
    /\ CanHaveDynamicPools
    /\ \A q \in db.pools : ~Overlaps(q, p)
    /\ RoomFor(1)
    /\ db' = WithRow([db EXCEPT !.pools = @ \cup {p}], p, Pool6Capacity(db, p))
    /\ UNCHANGED <<leases, delegations, skewed>>

Pool6Delete(p) ==
    /\ p \in db.pools
    /\ Pool6Leases(p) = {}
    /\ db' = WithoutRow([db EXCEPT !.pools = @ \ {p}], p)
    /\ skewed' = skewed \ {p}
    /\ UNCHANGED <<leases, delegations>>

ReservedPool6Create(r) ==
    /\ CanHaveDynamicPools
    /\ \A q \in db.reservedPools : ~Overlaps(q, r)
    /\ Ips(r) \cap ReservedIps(db) = {}
    /\ RoomFor(1)
    /\ db' = WithReservedPool([db EXCEPT !.reservedPools = @ \cup {r}], r, -1)
    /\ UNCHANGED <<leases, delegations, skewed>>

\* The rows of a batch are kept apart from each other and from the old ones,
\* and then taken off one after the other.
ReservedPool6BatchCreate(r) ==
    /\ CanHaveDynamicPools
    /\ RoomFor(2)
    /\ \E s \in PoolRow :
          /\ ~Overlaps(r, s)
          /\ \A q \in db.reservedPools : ~Overlaps(q, r) /\ ~Overlaps(q, s)
          /\ (Ips(r) \cup Ips(s)) \cap ReservedIps(db) = {}
          /\ db' = WithReservedPool(WithReservedPool(
                      [db EXCEPT !.reservedPools = @ \cup {r, s}], r, -1), s, -1)
    /\ UNCHANGED <<leases, delegations, skewed>>

ReservedPool6Delete(r) ==
    /\ r \in db.reservedPools
    /\ db' = WithReservedPool([db EXCEPT !.reservedPools = @ \ {r}], r, 1)
    /\ UNCHANGED <<leases, delegations, skewed>>

-----------------------------------------------------------------------------
(***************************************************************************)
(* Pools of prefixes                                                       *)
(***************************************************************************)

\* History.  A prefix that meets several pdpools changes one of them only.
\* Two prefixes reserved inside of one delegated prefix are counted twice.
Crowded(p, xs) ==
    \E b \in Blocks(p) : \E x, y \in xs : x # y /\ Meets(x, b) /\ Meets(y, b)

Reserved(d) == ReservedPrefixes(d) \cup d.reservedPrefixes

SkewedBy(d, xs) ==
    {p \in d.pdpools :
        \/ Crowded(p, Reserved(d) \cup xs)
        \/ \E x \in xs : Meets(p.prefix, x)
              /\ \E q \in d.pdpools \ {p} : Meets(q.prefix, x)}

\* The leases asked for lie in the range from the prefix to RangeEnd.
PdPoolLeases(p) ==
    IF db.capacityOf[p] = 0
    THEN {}
    ELSE {l \in delegations :
            /\ Base(l.prefix) \in Base(p.prefix) .. RangeEnd(p)
            /\ l.prefix \notin ReservedPrefixes(db)}

PdPoolCreate(p) ==
    /\ ~db.generates
    /\ \A q \in db.pdpools : ~Meets(q.prefix, p.prefix)
    /\ RoomFor(1)
    /\ \E capacity \in PdPoolCapacities(db, p) :
          db' = WithRow([db EXCEPT !.pdpools = @ \cup {p}], p, capacity)
    /\ skewed' = skewed \cup {q \in {p} : Crowded(q, Reserved(db))}
    /\ UNCHANGED <<leases, delegations>>

PdPoolDelete(p) ==
    /\ p \in db.pdpools
    /\ PdPoolLeases(p) = {}
    /\ db' = WithoutRow([db EXCEPT !.pdpools = @ \ {p}], p)
    /\ skewed' = skewed \ {p}
    /\ UNCHANGED <<leases, delegations>>

\* Mutant: only prefixes inside of the new one are looked for.
CanReservePrefixInside(x) ==
    \A y \in Reserved(db) : ~ContainsPrefix(x, y)

\* The prefix meets neither a reserved one nor one of a reservation.
CanReservePrefix(x) == \A y \in Reserved(db) : ~Meets(x, y)

ReservedPdPoolCreate(r) ==
    /\ ~db.generates
    /\ CanReservePrefix(r)
    /\ RoomFor(1)
    /\ db' \in WithReservedPdPool([db EXCEPT !.reservedPrefixes = @ \cup {r}], r, -1)
    /\ skewed' = skewed \cup SkewedBy(db, {r})
    /\ UNCHANGED <<leases, delegations>>

ReservedPdPoolDelete(r) ==
    /\ r \in db.reservedPrefixes
    /\ db' \in WithReservedPdPool([db EXCEPT !.reservedPrefixes = @ \ {r}], r, 1)
    /\ skewed' = skewed \cup SkewedBy(db, {r})
    /\ UNCHANGED <<leases, delegations>>

-----------------------------------------------------------------------------
(***************************************************************************)
(* Reservations                                                            *)
(***************************************************************************)
WithReservations(d, vs, sign) ==
    UNION {WithReservedPrefixes(WithReservedIps(d, UNION {v.ips : v \in vs}, sign),
                                UNION {v.prefixes : v \in vs}, sign)}

NotReserved(v) ==
    /\ \A r \in db.reservedPools : v.ips \cap Ips(r) = {}
    /\ \A r \in db.reservedPrefixes : \A x \in v.prefixes : ~Meets(x, r)

\* Reservation6.Validate: the prefixes of one reservation are apart.
Valid(v) == \A x, y \in v.prefixes : x # y => ~Meets(x, y)

Reservation6Create(v) ==
    /\ ~db.generates
    /\ Valid(v)
    /\ \A u \in db.reservations :
          /\ u.client # v.client
          /\ u.ips \cap v.ips = {}
          /\ \A x \in v.prefixes : \A y \in u.prefixes : ~Meets(x, y)
    /\ NotReserved(v)
    /\ RoomFor(1)
    /\ db' \in WithReservations([db EXCEPT !.reservations = @ \cup {v}], {v}, -1)
    /\ skewed' = skewed \cup SkewedBy(db, v.prefixes)
    /\ UNCHANGED <<leases, delegations>>

\* Reservation6Identifier.Add: prefixes differ, but one may contain another.
Distinct6(vs) ==
    /\ vs \cap db.reservations = {}
    /\ \A u \in db.reservations \cup vs : \A v \in vs :
          u # v => u.client # v.client /\ u.ips \cap v.ips = {} /\ u.prefixes \cap v.prefixes = {}

Reservation6BatchCreate(v) ==
    /\ ~db.generates
    /\ RoomFor(2)
    /\ ~v.auto
    /\ Valid(v)
    /\ NotReserved(v)
    /\ \E w \in ReservationsBy[db.mask] \ {v} :
          /\ ~w.auto
          /\ Distinct6({v, w})
          /\ Valid(w)
          /\ NotReserved(w)
          /\ db' \in WithReservations([db EXCEPT !.reservations = @ \cup {v, w}], {v, w}, -1)
          /\ skewed' = skewed \cup SkewedBy(db, v.prefixes \cup w.prefixes)
    /\ UNCHANGED <<leases, delegations>>

\* History.  A pool at capacity 0 is not given its addresses back.
PassedOver(ips) == {p \in db.pools : db.capacityOf[p] = 0 /\ ips \cap Ips(p) # {}}

Release(vs) ==
    LET ips == UNION {v.ips : v \in vs}
        prefixes == UNION {v.prefixes : v \in vs}
    IN  /\ db' \in WithReservations([db EXCEPT !.reservations = @ \ vs], vs, 1)
        /\ skewed' = skewed \cup PassedOver(ips) \cup SkewedBy(db, prefixes)
        /\ UNCHANGED <<leases, delegations>>

\* The client holds what is reserved for it.
InUse(v) ==
    \/ \E l \in leases : l.client = v.client /\ l.ip \in v.ips
    \/ \E l \in delegations : l.client = v.client /\ l.prefix \in v.prefixes

Reservation6Delete(v) == v \in db.reservations /\ ~InUse(v) /\ Release({v})

Reservation6BatchDelete(v, w) ==
    /\ v # w
    /\ {v, w} \subseteq db.reservations
    /\ ~InUse(v) /\ ~InUse(w)
    /\ Release({v, w})

\* The lease consumer reserves one address, and does not look at leases when a
\* client declines it.
AutoReservation6Delete(v) == v \in db.reservations /\ v.auto /\ Release({v})

-----------------------------------------------------------------------------
(***************************************************************************)
(* Subnet6Service.Update: generated addresses on or off                    *)
(***************************************************************************)

\* Mutant: pools of no capacity are not looked for.
HasPoolsByCapacity == db.capacity # 0

\* A capacity other than 0 is taken for a sign of pools; else rows are counted.
HasPools ==
    \/ db.capacity # 0
    \/ Rows \cup db.reservedPools \cup db.reservedPrefixes # {}
    \/ db.reservations # {}

GenerateOn ==
    /\ ~db.generates
    /\ db.mask >= Limit
    /\ ~HasPools
    /\ db' = [db EXCEPT !.generates = TRUE, !.capacity = Generated]
    /\ UNCHANGED <<leases, delegations, skewed>>

GenerateOff ==
    /\ db.generates
    /\ leases = {} /\ delegations = {}
    /\ db' = [db EXCEPT !.generates = FALSE, !.capacity = 0]
    /\ UNCHANGED <<leases, delegations, skewed>>

-----------------------------------------------------------------------------
(***************************************************************************)
(* The DHCP server                                                         *)
(***************************************************************************)
GrantLease(l) ==
    /\ Cardinality(leases) < MaxLeases
    /\ \A m \in leases : m.ip # l.ip
    /\ db.mask >= Limit
    /\ \A v \in db.reservations : l.ip \in v.ips => v.client = l.client
    /\ \A r \in db.reservedPools : l.ip \notin Ips(r)
    /\ \/ db.generates
       \/ \E p \in db.pools : l.ip \in Ips(p)
       \/ l.ip \in ReservedIps(db)
    /\ leases' = leases \cup {l}
    /\ UNCHANGED <<db, delegations, skewed>>

Delegate(l) ==
    /\ Cardinality(delegations) < MaxLeases
    /\ \A m \in delegations : ~Meets(m.prefix, l.prefix)
    /\ \/ \E v \in db.reservations : v.client = l.client /\ l.prefix \in v.prefixes
       \/ /\ \E p \in db.pdpools : l.prefix \in Blocks(p)
          /\ \A x \in Reserved(db) : ~Meets(x, l.prefix)
    /\ delegations' = delegations \cup {l}
    /\ UNCHANGED <<db, leases, skewed>>

EndLeases ==
    /\ leases \cup delegations # {}
    /\ leases' = {}
    /\ delegations' = {}
    /\ UNCHANGED <<db, skewed>>

Next ==
    \/ \E p \in PoolRow :
          \/ Pool6Create(p)
          \/ Pool6Delete(p)
          \/ ReservedPool6Create(p)
          \/ ReservedPool6BatchCreate(p)
          \/ ReservedPool6Delete(p)
    \/ \E p \in PdPoolsBy[db.mask] :
          \/ PdPoolCreate(p)
          \/ PdPoolDelete(p)
    \/ \E x \in PrefixesBy[db.mask] :
          \/ ReservedPdPoolCreate(x)
          \/ ReservedPdPoolDelete(x)
    \/ \E v \in ReservationsBy[db.mask] :
          \/ Reservation6Create(v)
          \/ Reservation6BatchCreate(v)
          \/ Reservation6Delete(v)
          \/ \E w \in db.reservations : Reservation6BatchDelete(v, w)
          \/ AutoReservation6Delete(v)
    \/ GenerateOn
    \/ GenerateOff
    \/ \E l \in [client: Clients, ip: Ip] : GrantLease(l)
    \/ \E l \in [client: Clients, prefix: PrefixesBy[db.mask]] : Delegate(l)
    \/ EndLeases

Spec == Init /\ [][Next]_vars

-----------------------------------------------------------------------------
(***************************************************************************)
(* GetSubnet6AndLease6WithIp: what other services are told of an address   *)
(***************************************************************************)
AddressType(d, ip) ==
    IF ip \in ReservedIps(d) THEN "reservation"
    ELSE IF \E r \in d.reservedPools : ip \in Ips(r) THEN "reserve"
    ELSE IF \E p \in d.pools : ip \in Ips(p) THEN "dynamic"
    ELSE "exclusion"

-----------------------------------------------------------------------------
(***************************************************************************)
(* Properties                                                              *)
(***************************************************************************)
\* The stored capacity of a pool is the number of its addresses that other
\* services are told are dynamic, that of a pdpool the number of its delegated
\* prefixes that meet no reserved one: the increments of eight handlers, some on
\* decimal strings read before, undo each other in every order.  The exceptions
\* are the rows that a prefix reserved over several pdpools, two prefixes
\* reserved inside of one delegated prefix, or a release from a pool at capacity
\* 0 have touched.  The subnet's is the sum of its pools' and its reservations',
\* as doc/design/dhcp/dhcp_cement.md has it, even then: what a handler takes off
\* a row and what it takes off the subnet never differ.
UnskewedBooksExact ==
    /\ \A p \in db.pools \ skewed :
          db.capacityOf[p] = Cardinality({ip \in Ips(p) : AddressType(db, ip) = "dynamic"})
    /\ \A p \in db.pdpools \ skewed :
          db.capacityOf[p] = Cardinality({b \in Blocks(p) :
                                            \A x \in Reserved(db) : ~Meets(x, b)})
    /\ ~db.generates =>
          db.capacity = SumFunctionOnSet(db.capacityOf, Rows)
            + SumFunction([v \in db.reservations |->
                              Cardinality(v.ips) + Cardinality(v.prefixes)])

\* No two pools, pdpools or reserved ranges meet, nothing is reserved twice.
\* Prefixes of reservations are the exception: a batch compares them only for
\* equality.
RangesApart ==
    /\ \A p, q \in db.pools : p # q => ~Overlaps(p, q)
    /\ \A p, q \in db.pdpools : p # q => ~Meets(p.prefix, q.prefix)
    /\ \A p, q \in db.reservedPools : p # q => ~Overlaps(p, q)
    /\ \A x, y \in db.reservedPrefixes : x # y => ~Meets(x, y)
    /\ \A r \in db.reservedPools : Ips(r) \cap ReservedIps(db) = {}
    /\ \A r \in db.reservedPrefixes : \A x \in ReservedPrefixes(db) : ~Meets(r, x)
    /\ \A u, v \in db.reservations : u # v =>
          u.client # v.client /\ u.ips \cap v.ips = {} /\ u.prefixes \cap v.prefixes = {}

\* A subnet that generates addresses has no pools, reserved ranges or
\* reservations: the check that a request makes for the rows, with its
\* shortcut by the capacity, and the checks of the requests for rows agree,
\* even when capacities add up to 0 or below.
GeneratedHasNoRows ==
    db.generates =>
        /\ Rows \cup db.reservedPools \cup db.reservedPrefixes = {}
        /\ db.reservations = {}

\* A pool is not deleted while a client holds one of its addresses or prefixes
\* that is not reserved, unless its stored capacity is 0 or the pdpool's prefix
\* ends inside of a byte, where the range the server is asked for is too short.
LeasedRowIsKept ==
    [][/\ \A p \in db.pools \ db'.pools : db.capacityOf[p] # 0 =>
            \A l \in leases : l.ip \in Ips(p) => l.ip \in ReservedIps(db)
       /\ \A p \in db.pdpools \ db'.pdpools :
            db.capacityOf[p] # 0 /\ (p.prefix.len % ByteBits = 0 \/ p.prefix.len = p.delegated)
                => \A l \in delegations : l.prefix \in Blocks(p)
                                            => l.prefix \in ReservedPrefixes(db)]_vars

=============================================================================
