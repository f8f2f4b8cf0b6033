---------------------------- MODULE Subnet6Rows ----------------------------
(***************************************************************************)
(* The rows of one subnet6: address pools, reserved address pools, prefix  *)
(* pools (pdpools), reserved prefix pools, reservations of addresses or of *)
(* prefixes; and the capacities that the handlers add to and take off the  *)
(* rows.  No variables.                                                    *)
(*                                                                         *)
(* A row is named by its range: the checks keep the ranges of one table    *)
(* apart, so no two rows of a table are equal.  Capacities are decimal     *)
(* strings of unbounded integers: nothing wraps, and they may be negative. *)
(***************************************************************************)
EXTENDS Integers, FiniteSets, FiniteSetsExt

CONSTANTS
    Ip,         \* the addresses of the subnet
    Clients,
    Limit,      \* the longest prefix that is delegated: 64 in the code
    ByteBits    \* the bits of a byte: 8 in the code

ASSUME Rows6Assumption ==
    /\ Ip \subseteq Int /\ IsFiniteSet(Ip)
    /\ Limit \in Nat /\ ByteBits \in Nat \ {0} /\ Limit % ByteBits = 0

\* big.NewInt(1).Lsh(n).
TwoTo[n \in 0 .. Limit] == IF n = 0 THEN 1 ELSE 2 * TwoTo[n - 1]

\* The n-th block of length len of the subnet whose mask has the length mask.
PrefixOf(mask) ==
    UNION {[len: {len}, n: 0 .. TwoTo[len - mask] - 1] : len \in mask .. Limit}

PoolRow == {p \in [begin: Ip, end: Ip] : p.begin <= p.end}

PdPoolRow(mask) ==
    {p \in [prefix: PrefixOf(mask), delegated: mask .. Limit] : p.delegated >= p.prefix.len}

\* Addresses or prefixes, never both.  Addresses need a mask of at least Limit,
\* prefixes a shorter one, and must be longer than it.
ReservationRow(mask) ==
    IF mask >= Limit
    THEN [client: Clients, ips: SUBSET Ip \ {{}}, prefixes: {{}}, auto: BOOLEAN]
    ELSE [client: Clients, ips: {{}}, auto: {FALSE},
          prefixes: SUBSET {x \in PrefixOf(mask) : x.len > mask} \ {{}}]

-----------------------------------------------------------------------------
(***************************************************************************)
(* Ranges                                                                  *)
(***************************************************************************)
Ips(p) == p.begin .. p.end

Overlaps(p, q) == p.begin <= q.end /\ p.end >= q.begin

\* Mutant: a prefix meets only the prefixes inside of it.
ContainsPrefix(x, y) == x.len <= y.len /\ y.n \div TwoTo[y.len - x.len] = x.n

\* One of the two prefixes contains the other.
Meets(x, y) ==
    \/ x.len <= y.len /\ y.n \div TwoTo[y.len - x.len] = x.n
    \/ y.len <= x.len /\ x.n \div TwoTo[x.len - y.len] = y.n

\* The prefixes that a pdpool delegates.
Blocks(p) ==
    LET k == TwoTo[p.delegated - p.prefix.len]
    IN  [len: {p.delegated}, n: p.prefix.n * k .. p.prefix.n * k + k - 1]

\* The first address of a prefix, counted in prefixes of the length Limit.
Base(x) == x.n * TwoTo[Limit - x.len]

\* Mutant: the delegated length is rounded down to bytes.
RangeEndRoundedDown(p) ==
    LET beginIndex == (p.prefix.len - 1) \div ByteBits
        endIndex   == p.delegated \div ByteBits - 1
    IN  Base(p.prefix) + IF endIndex > beginIndex
                         THEN TwoTo[Limit - ByteBits * (beginIndex + 1)]
                                - TwoTo[Limit - ByteBits * (endIndex + 1)]
                         ELSE 0

\* getPdPoolEndPrefix: the bytes after the one the prefix ends in, up to the
\* one the delegated length ends in, are filled with ones.
RangeEnd(p) ==
    LET beginIndex == (p.prefix.len - 1) \div ByteBits
        endIndex   == (p.delegated - 1) \div ByteBits
    IN  Base(p.prefix) + IF endIndex > beginIndex
                         THEN TwoTo[Limit - ByteBits * (beginIndex + 1)]
                                - TwoTo[Limit - ByteBits * (endIndex + 1)]
                         ELSE 0

-----------------------------------------------------------------------------
(***************************************************************************)
(* Counts                                                                  *)
(***************************************************************************)
ReservedIps(d) == UNION {v.ips : v \in d.reservations}

ReservedPrefixes(d) == UNION {v.prefixes : v \in d.reservations}

Size(p) == p.end - p.begin + 1

\* getPool6ReservedCountWithReservedPool6; the ranges are known to overlap.
PoolReservedCount(p, r) ==
    LET begin == IF r.begin > p.begin THEN r.begin ELSE p.begin
        end   == IF r.end < p.end THEN r.end ELSE p.end
    IN  end - begin + 1

PdPoolReservedCount(p, len) ==
    IF len <= p.prefix.len THEN TwoTo[p.delegated - p.prefix.len]
    ELSE IF len >= p.delegated THEN 1 ELSE TwoTo[p.delegated - len]

\* Mutant: the reservations are not taken off.
Pool6CapacityUnreserved(d, p) ==
    Size(p) - SumFunction([r \in {s \in d.reservedPools : Overlaps(s, p)} |->
                              PoolReservedCount(p, r)])

\* recalculatePool6Capacity; the loop over the reservations ends at 0.
Pool6Capacity(d, p) ==
    LET left == Size(p) - Cardinality(ReservedIps(d) \cap Ips(p))
    IN  left - SumFunction([r \in {s \in d.reservedPools : Overlaps(s, p)} |->
                               PoolReservedCount(p, r)])

\* What a loop that takes the reserved prefixes off n may leave: it follows
\* the order of the rows, which the query leaves open, and ends after the
\* prefix that leaves 0.
LeftAfter(p, n, prefixes) ==
    LET left[S \in SUBSET prefixes] ==
            IF S = {} THEN {n}
            ELSE UNION {{IF m = 0 /\ S # {x} THEN 0 ELSE m - PdPoolReservedCount(p, x.len)
                            : m \in left[S \ {x}]} : x \in S}
    IN  left[prefixes]

\* recalculatePdPoolCapacity: first the reservations, then the reserved pools.
PdPoolCapacities(d, p) ==
    LET Met(xs) == {x \in xs : Meets(p.prefix, x)}
    IN  UNION {LeftAfter(p, n, Met(d.reservedPrefixes))
                : n \in LeftAfter(p, TwoTo[p.delegated - p.prefix.len],
                                  Met(ReservedPrefixes(d)))}

-----------------------------------------------------------------------------
(***************************************************************************)
(* Capacities after a change                                               *)
(***************************************************************************)
\* The rows of f have the capacities f gives them.
WithCapacities(d, f) ==
    [d EXCEPT !.capacityOf = [p \in DOMAIN @ |-> IF p \in DOMAIN f THEN f[p] ELSE @[p]]]

WithRow(d, p, capacity) ==
    [d EXCEPT !.capacityOf = [q \in DOMAIN @ \cup {p} |-> IF q = p THEN capacity ELSE @[q]],
              !.capacity = @ + capacity]

WithoutRow(d, p) ==
    [d EXCEPT !.capacityOf = [q \in DOMAIN @ \ {p} |-> @[q]],
              !.capacity = @ - d.capacityOf[p]]

\* A reserved pool is made (sign -1) or removed (sign 1).
WithReservedPool(d, r, sign) ==
    LET hit == {p \in d.pools : Overlaps(p, r)}
        share == [p \in hit |-> sign * PoolReservedCount(p, r)]
    IN  [WithCapacities(d, [p \in hit |-> d.capacityOf[p] + share[p]])
            EXCEPT !.capacity = @ + SumFunction(share)]

\* The same for a reserved prefix pool, but only the first pdpool it meets, in
\* an order the query leaves open, is changed.
WithReservedPdPool(d, x, sign) ==
    LET hit == {p \in d.pdpools : Meets(p.prefix, x)}
        Share(p) == sign * PdPoolReservedCount(p, x.len)
    IN  IF hit = {}
        THEN {d}
        ELSE {[WithCapacities(d, [q \in {p} |-> d.capacityOf[p] + Share(p)])
                EXCEPT !.capacity = @ + Share(p)] : p \in hit}

\* Addresses become reserved (sign -1) or free (sign 1).  A pool whose stored
\* capacity is 0 is passed over, and its addresses are taken for addresses
\* outside of all pools: the subnet counts those by themselves.
WithReservedIps(d, ips, sign) ==
    LET hit == {p \in d.pools : d.capacityOf[p] # 0}
        In(p) == ips \cap Ips(p)
        outside == ips \ UNION {In(p) : p \in hit}
    IN  [WithCapacities(d, [p \in hit |-> d.capacityOf[p] + sign * Cardinality(In(p))])
            EXCEPT !.capacity = @ - sign * Cardinality(outside)]

\* Prefixes become reserved or free: each changes the first pdpool it meets,
\* and counts one by itself.
WithReservedPrefixes(d, prefixes, sign) ==
    LET met == {x \in prefixes : \E p \in d.pdpools : Meets(p.prefix, x)}
        picks == {f \in [met -> d.pdpools] : \A x \in met : Meets(f[x].prefix, x)}
        Shares(f) == [p \in d.pdpools |->
                        SumFunction([x \in {y \in met : f[y] = p} |->
                                        PdPoolReservedCount(p, x.len)])]
    IN  {[WithCapacities(d, [p \in d.pdpools |-> d.capacityOf[p] + sign * Shares(f)[p]])
            EXCEPT !.capacity = @ + sign * SumFunction(Shares(f))
                                  - sign * Cardinality(prefixes)]
            : f \in picks}

=============================================================================
