--------------------------- MODULE Subnet4_proofs ---------------------------
(***************************************************************************)
(* The books of one subnet, for any addresses, rows, clients and number of *)
(* requests.  Each handler keeps the capacities of rows that are in order  *)
(* exact: every count of rows or of (row, address) pairs is reduced to the *)
(* size of a set of addresses, a subset of the finite set Ip, and what is  *)
(* added or taken is disjoint from the rest.                               *)
(*                                                                         *)
(* Subnet4: so requests in turn keep the books, and it implements          *)
(* AddressPlan.  The rows correspond one to one; the capacities correspond *)
(* because the invariant makes the stored ones exact, before and after     *)
(* every step; so the stored 0 by which a pool or a subnet is deleted with *)
(* its leases is a counted one, and the deletion one of those that Subnet4 *)
(* names.                                                                  *)
(*                                                                         *)
(* Subnet4Concurrent: requests that overlap keep the books as long as each *)
(* commits while its footprint is what it was when the request read it.    *)
(* Then the checks it has passed still hold, and the values it has computed *)
(* are those it would compute from the rows of its commit: the commit is a *)
(* step of a serial handler.                                               *)
(*                                                                         *)
(* Subnet4Batch: batches and imports keep the rows in order and the        *)
(* capacities uint64, also where they do not keep the books exact.  A sum  *)
(* over rows is the size of a union of disjoint sets, so what an import    *)
(* counts of an exported line is what the handlers have kept; and a batch  *)
(* of two adds the differences that two requests in turn would.            *)
(***************************************************************************)
EXTENDS AddressLookups4, Subnet4Concurrent, Subnet4Batch, FiniteSetTheorems, FunctionTheorems,
        WellFoundedInduction, TLAPS

-----------------------------------------------------------------------------
(***************************************************************************)
(* Counting                                                                *)
(***************************************************************************)

\* The number of addresses of the subnet fits twice into a uint64.
LEMMA IpCount ==
    /\ IsFiniteSet(Ip)
    /\ Cardinality(Ip) \in Nat
    /\ 2 * Cardinality(Ip) < Word
  <1>1. FirstIp \in Int /\ LastIp \in Int /\ ~(FirstIp > LastIp)
    BY RowsAssumption
  <1>2. /\ IsFiniteSet(FirstIp .. LastIp)
        /\ Cardinality(FirstIp .. LastIp) = LastIp - FirstIp + 1
    BY <1>1, FS_Interval
  <1> QED
    BY <1>2, RowsAssumption DEF Ip

\* A set of addresses is finite and its size is bounded.
LEMMA SubsetCount ==
    ASSUME NEW A, A \subseteq Ip
    PROVE  /\ IsFiniteSet(A)
           /\ Cardinality(A) \in Nat
           /\ Cardinality(A) <= Cardinality(Ip)
  BY IpCount, FS_Subset, FS_CardinalityType

\* The sizes of two disjoint sets of addresses add up.
LEMMA DisjointCount ==
    ASSUME NEW A, NEW B, A \subseteq Ip, B \subseteq Ip, A \cap B = {}
    PROVE  Cardinality(A \cup B) = Cardinality(A) + Cardinality(B)
  <1>1. Cardinality(A \cup B)
          = Cardinality(A) + Cardinality(B) - Cardinality(A \cap B)
    BY SubsetCount, FS_Union
  <1>2. Cardinality(A \cap B) = 0
    BY FS_EmptySet
  <1> QED
    BY <1>1, <1>2, SubsetCount

\* A set that maps one to one onto a set of addresses has its size.
LEMMA BijectionCount ==
    ASSUME NEW S, NEW A, A \subseteq Ip, NEW f \in Bijection(S, A)
    PROVE  IsFiniteSet(S) /\ Cardinality(S) = Cardinality(A)
  <1>1. ExistsBijection(A, S)
    BY Fun_ExistsBijSymmetric DEF ExistsBijection
  <1> QED
    BY <1>1, SubsetCount, FS_Bijection

\* Ranges overlap exactly when they share an address.
LEMMA OverlapsIff ==
    ASSUME NEW p \in PoolRow, NEW q \in PoolRow
    PROVE  /\ Ips(p) \subseteq Ip
           /\ Overlaps(p, q) <=> \E ip \in Ip : ip \in Ips(p) /\ ip \in Ips(q)
           /\ Overlaps(p, q) <=> Overlaps(q, p)
  <1> USE RowsAssumption DEF PoolRow, Ips, Ip, Overlaps
  <1>1. ASSUME Overlaps(p, q)
        PROVE  \E ip \in Ip : ip \in Ips(p) /\ ip \in Ips(q)
    <2>1. CASE p.begin <= q.begin
      BY <1>1, <2>1
    <2>2. CASE q.begin <= p.begin
      BY <1>1, <2>2
    <2> QED
      BY <2>1, <2>2
  <1> QED
    BY <1>1

\* Pairs of a row and one of its addresses, taken over disjoint rows, are as
\* many as the addresses they name.
LEMMA PairsCount ==
    ASSUME NEW rows, rows \subseteq PoolRow, DisjointRows(rows),
           NEW S, S \subseteq rows \X Ip, \A x \in S : x[2] \in Ips(x[1])
    PROVE  Cardinality(S) = Cardinality({x[2] : x \in S})
  <1> DEFINE A == {x[2] : x \in S}
             f == [x \in S |-> x[2]]
  <1>1. A \subseteq Ip
    OBVIOUS
  <1>2. ASSUME NEW x \in S, NEW y \in S, x[2] = y[2]
        PROVE  x = y
    <2>1. x = <<x[1], x[2]>> /\ y = <<y[1], y[2]>> /\ x[1] \in rows /\ y[1] \in rows
      OBVIOUS
    <2>2. x[1] = y[1]
      BY <2>1, <1>2, OverlapsIff DEF DisjointRows
    <2> QED
      BY <2>1, <2>2, <1>2
  <1>3. f \in Bijection(S, A)
    BY <1>2 DEF Bijection, Injection, Surjection, IsInjective
  <1> QED
    BY <1>1, <1>3, BijectionCount

\* Reservations of distinct addresses are as many as their addresses.
LEMMA ReservationsCount ==
    ASSUME NEW V, V \subseteq ReservationRow,
           \A u, v \in V : u # v => u.ip # v.ip
    PROVE  Cardinality(V) = Cardinality({v.ip : v \in V})
  <1> DEFINE A == {v.ip : v \in V}
             f == [v \in V |-> v.ip]
  <1>1. A \subseteq Ip
    BY DEF ReservationRow
  <1>2. f \in Bijection(V, A)
    BY DEF Bijection, Injection, Surjection, IsInjective
  <1> QED
    BY <1>1, <1>2, BijectionCount

\* On overlapping ranges the arithmetic of getPool4ReservedCountWith-
\* ReservedPool4 gives the number of addresses they share.
LEMMA ReservedCountShared ==
    ASSUME NEW p \in PoolRow, NEW r \in PoolRow, Overlaps(p, r)
    PROVE  ReservedCount(p, r) = Cardinality(Ips(p) \cap Ips(r))
  <1> DEFINE begin == IF r.begin > p.begin THEN r.begin ELSE p.begin
             end   == IF r.end < p.end THEN r.end ELSE p.end
  <1>1. /\ begin \in Int /\ end \in Int /\ begin <= end
        /\ Ips(p) \cap Ips(r) = begin .. end
        /\ end - begin + 1 <= LastIp - FirstIp + 1
    BY RowsAssumption DEF PoolRow, Ips, Ip, Overlaps
  <1>2. Cardinality(begin .. end) = end - begin + 1
    BY <1>1, FS_Interval
  <1>3. Wrap(end - begin + 1) = end - begin + 1
    BY <1>1, RowsAssumption DEF Wrap
  <1> QED
    BY <1>1, <1>2, <1>3 DEF ReservedCount

-----------------------------------------------------------------------------
(***************************************************************************)
(* The books of a subnet, as sets of addresses                             *)
(***************************************************************************)
Books(d) ==
    /\ RowsType(d)
    /\ DisjointRows(d.pools)
    /\ ExclusiveRows(d)
    /\ ExactPools(d)
    /\ ExactSubnet(d)

FreeOf(d, p) == {ip \in Ips(p) : Free(d, ip)}

PoolIps(d) == {ip \in Ip : Containing(d.pools, ip) # {} /\ Free(d, ip)}

ReservedIps(d) == {v.ip : v \in d.reservations}

\* The counts in the books are sizes of two disjoint sets of addresses, and
\* so no capacity ever comes near the modulus.
LEMMA BooksAsSets ==
    ASSUME NEW d,
           d.pools \subseteq PoolRow, d.reservedPools \subseteq PoolRow,
           d.reservations \subseteq ReservationRow,
           DisjointRows(d.pools), ExclusiveRows(d)
    PROVE  /\ Cardinality(FreeIps(d)) = Cardinality(PoolIps(d))
           /\ Cardinality(d.reservations) = Cardinality(ReservedIps(d))
           /\ Cardinality(PoolIps(d)) \in Nat
           /\ Cardinality(ReservedIps(d)) \in Nat
           /\ Cardinality(PoolIps(d)) + Cardinality(ReservedIps(d)) < Word
  <1>1. Cardinality(FreeIps(d)) = Cardinality(PoolIps(d))
    <2>1. {x[2] : x \in FreeIps(d)} = PoolIps(d)
      <3>1. ASSUME NEW ip \in PoolIps(d)
            PROVE  ip \in {x[2] : x \in FreeIps(d)}
        <4>1. PICK p \in d.pools : ip \in Ips(p)
          BY DEF PoolIps, Containing
        <4>2. <<p, ip>> \in FreeIps(d)
          BY <4>1 DEF PoolIps, FreeIps
        <4> QED
          BY <4>2
      <3>2. ASSUME NEW x \in FreeIps(d)
            PROVE  x[2] \in PoolIps(d)
        BY DEF PoolIps, FreeIps, Containing
      <3> QED
        BY <3>1, <3>2
    <2>2. /\ FreeIps(d) \subseteq d.pools \X Ip
          /\ \A x \in FreeIps(d) : x[2] \in Ips(x[1])
      BY DEF FreeIps
    <2> QED
      BY <2>1, <2>2, PairsCount
  <1>2. Cardinality(d.reservations) = Cardinality(ReservedIps(d))
    BY ReservationsCount DEF ExclusiveRows, ReservedIps
  <1>3. PoolIps(d) \subseteq Ip /\ ReservedIps(d) \subseteq Ip
    BY DEF PoolIps, ReservedIps, ReservationRow
  <1> QED
    BY <1>1, <1>2, <1>3, SubsetCount, IpCount, RowsAssumption

\* The free addresses of a pool are counted by a number below the modulus.
LEMMA FreeOfCount ==
    ASSUME NEW d, NEW p \in PoolRow
    PROVE  /\ FreeOf(d, p) \subseteq Ip
           /\ Cardinality(FreeOf(d, p)) \in 0 .. Word - 1
  <1>1. FreeOf(d, p) \subseteq Ip
    BY OverlapsIff DEF FreeOf
  <1> QED
    BY <1>1, SubsetCount, IpCount, RowsAssumption

\* The addresses of a pool that are reserved, and those in reserved pools.
ReservedOf(d, p) == {v.ip : v \in ReservationsIn(d, p)}

SharedOf(d, p) == {x[2] : x \in SharedIps(d.reservedPools, p)}

\* A range is made of its free addresses, those reserved and those in reserved
\* pools.
LEMMA RangeIsSplit ==
    ASSUME NEW d, NEW p \in PoolRow,
           d.reservedPools \subseteq PoolRow,
           d.reservations \subseteq ReservationRow,
           ExclusiveRows(d)
    PROVE  /\ Cardinality(ReservationsIn(d, p)) = Cardinality(ReservedOf(d, p))
           /\ Cardinality(SharedIps(d.reservedPools, p)) = Cardinality(SharedOf(d, p))
           /\ p.end - p.begin + 1 = Cardinality(FreeOf(d, p)) + Cardinality(ReservedOf(d, p))
                                       + Cardinality(SharedOf(d, p))
           /\ Cardinality(FreeOf(d, p)) \in Nat
           /\ Cardinality(ReservedOf(d, p)) \in Nat
           /\ Cardinality(SharedOf(d, p)) \in Nat
           /\ p.end - p.begin + 1 < Word
  <1> DEFINE R == ReservedOf(d, p)
             P == SharedOf(d, p)
             F == FreeOf(d, p)
  <1>1. /\ Ips(p) \subseteq Ip
        /\ Cardinality(Ips(p)) = p.end - p.begin + 1
    <2>1. p.begin \in Int /\ p.end \in Int /\ ~(p.begin > p.end)
      BY RowsAssumption DEF PoolRow, Ip
    <2> QED
      BY <2>1, FS_Interval, OverlapsIff DEF Ips
  <1>2. Cardinality(ReservationsIn(d, p)) = Cardinality(R)
    <2>1. /\ ReservationsIn(d, p) \subseteq ReservationRow
          /\ \A u, v \in ReservationsIn(d, p) : u # v => u.ip # v.ip
      BY DEF ReservationsIn, ExclusiveRows
    <2> QED
      BY <2>1, ReservationsCount DEF ReservedOf
  <1>3. Cardinality(SharedIps(d.reservedPools, p)) = Cardinality(P)
    <2>1. /\ SharedIps(d.reservedPools, p) \subseteq d.reservedPools \X Ip
          /\ \A x \in SharedIps(d.reservedPools, p) : x[2] \in Ips(x[1])
      BY DEF SharedIps
    <2> QED
      BY <2>1, PairsCount DEF ExclusiveRows, SharedOf
  <1>4. R \subseteq Ips(p) /\ P \subseteq Ips(p) /\ F \subseteq Ips(p)
    BY DEF ReservationsIn, SharedIps, FreeOf, ReservedOf, SharedOf
  <1>5. /\ \A ip \in Ips(p) : ip \in P <=> Containing(d.reservedPools, ip) # {}
        /\ \A ip \in Ips(p) : ip \in R <=> \E v \in d.reservations : v.ip = ip
    <2>1. ASSUME NEW ip \in Ips(p), NEW r \in d.reservedPools, ip \in Ips(r)
          PROVE  ip \in P
      <3>1. <<r, ip>> \in SharedIps(d.reservedPools, p)
        BY <1>1, <2>1 DEF SharedIps
      <3> QED
        BY <3>1 DEF SharedOf
    <2>2. ASSUME NEW ip \in P
          PROVE  Containing(d.reservedPools, ip) # {}
      BY DEF SharedIps, Containing, SharedOf
    <2>3. \A ip \in Ips(p) : ip \in R <=> \E v \in d.reservations : v.ip = ip
      BY DEF ReservationsIn, ReservedOf
    <2> QED
      BY <2>1, <2>2, <2>3 DEF Containing
  <1>6. /\ Ips(p) = F \cup R \cup P
        /\ F \cap R = {} /\ (F \cup R) \cap P = {}
    <2>1. R \cap P = {}
      BY <1>4, <1>5 DEF ExclusiveRows
    <2> QED
      BY <2>1, <1>4, <1>5 DEF FreeOf, Free
  <1>7. Cardinality(Ips(p)) = Cardinality(F) + Cardinality(R) + Cardinality(P)
    <2>1. /\ Cardinality(F \cup R) = Cardinality(F) + Cardinality(R)
          /\ Cardinality((F \cup R) \cup P) = Cardinality(F \cup R) + Cardinality(P)
      BY <1>1, <1>4, <1>6, DisjointCount
    <2> QED
      BY <1>6, <2>1
  <1>8. /\ Cardinality(F) \in Nat /\ Cardinality(R) \in Nat
        /\ Cardinality(P) \in Nat /\ Cardinality(Ips(p)) < Word
    BY <1>1, <1>4, SubsetCount, IpCount, RowsAssumption
  <1> HIDE DEF F, R, P
  <1> QED
    BY <1>1, <1>2, <1>3, <1>7, <1>8 DEF F, R, P

\* What recalculatePool4Capacity computes: the free addresses of the range.
LEMMA Pool4CapacityExact ==
    ASSUME NEW d, NEW p \in PoolRow,
           d.reservedPools \subseteq PoolRow,
           d.reservations \subseteq ReservationRow,
           ExclusiveRows(d)
    PROVE  Pool4Capacity(d, p) = Cardinality(FreeOf(d, p))
  BY RangeIsSplit, RowsAssumption DEF Pool4Capacity, Minus, Wrap

-----------------------------------------------------------------------------
(***************************************************************************)
(* Each handler keeps the books                                            *)
(***************************************************************************)

\* What the books say, field by field.
LEMMA BooksElim ==
    ASSUME NEW d, Books(d)
    PROVE  /\ d = [pools |-> d.pools, poolCapacity |-> d.poolCapacity,
                   reservedPools |-> d.reservedPools,
                   reservations |-> d.reservations, capacity |-> d.capacity]
           /\ d.pools \subseteq PoolRow
           /\ d.reservedPools \subseteq PoolRow
           /\ d.reservations \subseteq ReservationRow
           /\ DisjointRows(d.pools)
           /\ ExclusiveRows(d)
           /\ d.poolCapacity = [p \in d.pools |-> Cardinality(FreeOf(d, p))]
           /\ d.capacity = Cardinality(PoolIps(d)) + Cardinality(ReservedIps(d))
  <1>1. \A p \in d.pools : d.poolCapacity[p] = Cardinality(FreeOf(d, p))
    BY DEF Books, ExactPools, FreeOf
  <1>2. d.poolCapacity = [p \in d.pools |-> d.poolCapacity[p]]
    BY DEF Books, RowsType
  <1>3. d.poolCapacity = [p \in d.pools |-> Cardinality(FreeOf(d, p))]
    BY <1>1, <1>2
  <1> QED
    BY <1>3, BooksAsSets DEF Books, RowsType, ExactSubnet

\* What must be shown of the rows that a handler leaves.
LEMMA BooksIntro ==
    ASSUME NEW P, P \subseteq PoolRow, DisjointRows(P),
           NEW R, R \subseteq PoolRow,
           NEW V, V \subseteq ReservationRow,
           NEW f, NEW n,
           NEW d, d = [pools |-> P, poolCapacity |-> f, reservedPools |-> R,
                       reservations |-> V, capacity |-> n],
           ExclusiveRows(d),
           f = [p \in P |-> f[p]],
           \A p \in P : f[p] = Cardinality(FreeOf(d, p)),
           n = Cardinality(PoolIps(d)) + Cardinality(ReservedIps(d))
    PROVE  Books(d)
  <1>1. /\ Cardinality(FreeIps(d)) = Cardinality(PoolIps(d))
        /\ Cardinality(d.reservations) = Cardinality(ReservedIps(d))
        /\ n \in 0 .. Word - 1
    BY BooksAsSets, RowsAssumption
  <1>2. f \in [P -> 0 .. Word - 1]
    BY FreeOfCount
  <1>3. RowsType(d)
    BY <1>1, <1>2 DEF RowsType
  <1>4. ExactPools(d) /\ ExactSubnet(d)
    BY <1>1 DEF ExactPools, ExactSubnet, FreeOf
  <1> QED
    BY <1>3, <1>4 DEF Books

LEMMA CreatePool4Books ==
    ASSUME NEW d, Books(d), NEW p \in PoolRow, CanCreatePool4(d, p)
    PROVE  Books(CreatePool4(d, d, p))
  <1> DEFINE e == CreatePool4(d, d, p)
             k == Pool4Capacity(d, p)
             P == d.pools \cup {p}
             f == [q \in P |-> IF q = p THEN k ELSE d.poolCapacity[q]]
             n == IF k = 0 THEN d.capacity ELSE Plus(d.capacity, k)
  <1>1. /\ d.pools \subseteq PoolRow /\ d.reservedPools \subseteq PoolRow
        /\ d.reservations \subseteq ReservationRow
        /\ ExclusiveRows(d)
    BY BooksElim
  <1>2. k = Cardinality(FreeOf(d, p)) /\ k \in 0 .. Word - 1
    BY <1>1, Pool4CapacityExact, FreeOfCount
  <1>3. p \notin d.pools /\ DisjointRows(P)
    <2>1. \A q \in d.pools : ~Overlaps(q, p) /\ ~Overlaps(p, q)
      BY <1>1, OverlapsIff DEF CanCreatePool4, OverlappingWith
    <2>2. Overlaps(p, p)
      BY RowsAssumption DEF Overlaps, PoolRow, Ip
    <2> QED
      BY <2>1, <2>2, BooksElim DEF DisjointRows
  <1>4. e = [pools |-> P, poolCapacity |-> f,
             reservedPools |-> d.reservedPools,
             reservations |-> d.reservations, capacity |-> n]
    <2>1. /\ d = [pools |-> d.pools, poolCapacity |-> d.poolCapacity,
                  reservedPools |-> d.reservedPools,
                  reservations |-> d.reservations, capacity |-> d.capacity]
      BY BooksElim
    <2>2. e = [d EXCEPT !.pools = P, !.poolCapacity = f, !.capacity = n]
      BY DEF CreatePool4
    <2> HIDE DEF e, P, f, n
    <2> QED
      BY <2>1, <2>2
  <1>5. \A q \in P : FreeOf(e, q) = FreeOf(d, q)
    BY <1>4 DEF FreeOf, Free
  <1>6. \A q \in P : f[q] = Cardinality(FreeOf(e, q))
    <2>1. \A q \in d.pools : d.poolCapacity[q] = Cardinality(FreeOf(d, q))
      BY DEF Books, ExactPools, FreeOf
    <2> HIDE DEF e, k
    <2> QED
      BY <1>2, <1>5, <2>1
  <1>7. ReservedIps(e) = ReservedIps(d)
    BY <1>4 DEF ReservedIps
  <1>8. ExclusiveRows(e)
    BY <1>1, <1>4 DEF ExclusiveRows
  <1>9. n = Cardinality(PoolIps(e)) + Cardinality(ReservedIps(e))
    <2>1. /\ PoolIps(e) = PoolIps(d) \cup FreeOf(d, p)
          /\ PoolIps(d) \cap FreeOf(d, p) = {}
      <3>1. Ips(p) \subseteq Ip
        BY OverlapsIff
      <3>2. \A ip \in Ip, q \in d.pools : ~(ip \in Ips(q) /\ ip \in Ips(p))
        BY <1>1, OverlapsIff DEF CanCreatePool4, OverlappingWith
      <3> QED
        BY <1>4, <3>1, <3>2 DEF PoolIps, FreeOf, Free, Containing
    <2>2. Cardinality(PoolIps(e)) = Cardinality(PoolIps(d)) + k
      BY <1>2, <2>1, FreeOfCount, DisjointCount DEF PoolIps
    <2>3. /\ d.capacity = Cardinality(PoolIps(d)) + Cardinality(ReservedIps(d))
          /\ Cardinality(PoolIps(d)) \in Nat
          /\ Cardinality(ReservedIps(d)) \in Nat
      BY BooksElim, BooksAsSets
    <2>4. Cardinality(PoolIps(e)) + Cardinality(ReservedIps(e)) < Word
      <3>1. /\ e.pools \subseteq PoolRow /\ e.reservedPools \subseteq PoolRow
            /\ e.reservations \subseteq ReservationRow
            /\ DisjointRows(e.pools)
        BY <1>1, <1>3, <1>4
      <3> HIDE DEF e
      <3> QED
        BY <3>1, <1>8, BooksAsSets
    <2> HIDE DEF e, k
    <2> QED
      BY <1>2, <1>4, <1>7, <2>2, <2>3, <2>4, RowsAssumption DEF Plus, Wrap
  <1> HIDE DEF e
  <1> QED
    BY <1>1, <1>3, <1>4, <1>6, <1>8, <1>9, BooksIntro DEF e

LEMMA DeletePool4Books ==
    ASSUME NEW d, Books(d), NEW p \in d.pools
    PROVE  Books(DeletePool4(d, d, p))
  <1> DEFINE e == DeletePool4(d, d, p)
             k == d.poolCapacity[p]
             P == d.pools \ {p}
             f == [q \in P |-> d.poolCapacity[q]]
             n == IF k = 0 THEN d.capacity ELSE Minus(d.capacity, k)
  <1>1. /\ d.pools \subseteq PoolRow /\ d.reservedPools \subseteq PoolRow
        /\ d.reservations \subseteq ReservationRow
        /\ ExclusiveRows(d)
    BY BooksElim
  <1>2. /\ \A q \in d.pools : d.poolCapacity[q] = Cardinality(FreeOf(d, q))
        /\ k \in 0 .. Word - 1
    <2>1. \A q \in d.pools : d.poolCapacity[q] = Cardinality(FreeOf(d, q))
      BY DEF Books, ExactPools, FreeOf
    <2> QED
      BY <1>1, <2>1, FreeOfCount
  <1>3. DisjointRows(P) /\ P \subseteq PoolRow
    BY <1>1, BooksElim DEF DisjointRows
  <1>4. e = [pools |-> P, poolCapacity |-> f,
             reservedPools |-> d.reservedPools,
             reservations |-> d.reservations, capacity |-> n]
    <2>1. /\ d = [pools |-> d.pools, poolCapacity |-> d.poolCapacity,
                  reservedPools |-> d.reservedPools,
                  reservations |-> d.reservations, capacity |-> d.capacity]
      BY BooksElim
    <2>2. e = [d EXCEPT !.pools = P, !.poolCapacity = f, !.capacity = n]
      BY DEF DeletePool4
    <2> HIDE DEF e, P, f, n
    <2> QED
      BY <2>1, <2>2
  <1>5. \A q \in P : f[q] = Cardinality(FreeOf(e, q))
    <2>1. \A q \in P : FreeOf(e, q) = FreeOf(d, q)
      BY <1>4 DEF FreeOf, Free
    <2> HIDE DEF e, k
    <2> QED
      BY <1>2, <2>1
  <1>6. ReservedIps(e) = ReservedIps(d)
    BY <1>4 DEF ReservedIps
  <1>7. ExclusiveRows(e)
    BY <1>1, <1>4 DEF ExclusiveRows
  <1>8. n = Cardinality(PoolIps(e)) + Cardinality(ReservedIps(e))
    <2>1. /\ PoolIps(d) = PoolIps(e) \cup FreeOf(d, p)
          /\ PoolIps(e) \cap FreeOf(d, p) = {}
      <3>1. Ips(p) \subseteq Ip
        BY <1>1, OverlapsIff
      <3>2. \A ip \in Ip, q \in P : ~(ip \in Ips(q) /\ ip \in Ips(p))
        BY <1>1, OverlapsIff, BooksElim DEF DisjointRows
      <3> QED
        BY <1>4, <3>1, <3>2 DEF PoolIps, FreeOf, Free, Containing
    <2>2. Cardinality(PoolIps(d)) = Cardinality(PoolIps(e)) + k
      BY <1>1, <1>2, <2>1, FreeOfCount, DisjointCount DEF PoolIps
    <2>3. /\ d.capacity = Cardinality(PoolIps(d)) + Cardinality(ReservedIps(d))
          /\ Cardinality(PoolIps(d)) + Cardinality(ReservedIps(d)) < Word
          /\ Cardinality(ReservedIps(d)) \in Nat
      BY <1>1, BooksElim, BooksAsSets
    <2>4. Cardinality(PoolIps(e)) \in Nat
      BY SubsetCount DEF PoolIps
    <2> HIDE DEF e, k
    <2> QED
      BY <1>2, <1>6, <2>2, <2>3, <2>4, RowsAssumption DEF Minus, Wrap
  <1> HIDE DEF e
  <1> QED
    BY <1>1, <1>3, <1>4, <1>5, <1>7, <1>8, BooksIntro DEF e

\* A reserved pool r takes the addresses it shares with each pool out of that
\* pool, and those it shares with any pool out of the subnet.  d has the rows
\* without r, e with it.
LEMMA ReservedPoolCounts ==
    ASSUME NEW d, NEW e, NEW r \in PoolRow,
           d.pools \subseteq PoolRow, DisjointRows(d.pools),
           d.reservedPools \subseteq PoolRow, r \notin d.reservedPools,
           e.pools = d.pools, e.reservations = d.reservations,
           e.reservedPools = d.reservedPools \cup {r},
           ExclusiveRows(e)
    PROVE  /\ \A p \in d.pools :
                 Cardinality(FreeOf(d, p))
                   = Cardinality(FreeOf(e, p)) + Cardinality(Ips(p) \cap Ips(r))
           /\ Cardinality(PoolIps(d))
                = Cardinality(PoolIps(e))
                    + Cardinality(SharedIps(OverlappingWith(d.pools, r), r))
           /\ Cardinality(SharedIps(OverlappingWith(d.pools, r), r)) \in Nat
  <1> DEFINE hit == OverlappingWith(d.pools, r)
             X == {x[2] : x \in SharedIps(hit, r)}
  <1>1. Ips(r) \subseteq Ip
    BY OverlapsIff
  <1>2. \A ip \in Ips(r) : Free(d, ip)
    <2>1. ASSUME NEW ip \in Ips(r), NEW q \in d.reservedPools, ip \in Ips(q)
          PROVE  FALSE
      <3>1. Overlaps(q, r) /\ q # r
        BY <1>1, <2>1, OverlapsIff
      <3> QED
        BY <3>1 DEF ExclusiveRows, DisjointRows
    <2>2. ASSUME NEW ip \in Ips(r), NEW v \in d.reservations, v.ip = ip
          PROVE  FALSE
      BY <2>2 DEF ExclusiveRows, Containing
    <2> QED
      BY <2>1, <2>2 DEF Free, Containing
  <1>3. \A ip : Free(e, ip) <=> Free(d, ip) /\ ip \notin Ips(r)
    BY DEF Free, Containing
  <1>4. ASSUME NEW p \in d.pools
        PROVE  Cardinality(FreeOf(d, p))
                 = Cardinality(FreeOf(e, p)) + Cardinality(Ips(p) \cap Ips(r))
    <2>1. /\ FreeOf(d, p) = FreeOf(e, p) \cup (Ips(p) \cap Ips(r))
          /\ FreeOf(e, p) \cap (Ips(p) \cap Ips(r)) = {}
      BY <1>2, <1>3 DEF FreeOf
    <2> QED
      BY <1>1, <2>1, FreeOfCount, DisjointCount
  <1>5. Cardinality(SharedIps(hit, r)) = Cardinality(X)
    <2>1. /\ hit \subseteq PoolRow /\ DisjointRows(hit)
          /\ SharedIps(hit, r) \subseteq hit \X Ip
          /\ \A x \in SharedIps(hit, r) : x[2] \in Ips(x[1])
      BY DEF OverlappingWith, DisjointRows, SharedIps
    <2> QED
      BY <2>1, PairsCount
  <1>6. X = {ip \in Ips(r) : Containing(d.pools, ip) # {}}
    <2>1. ASSUME NEW ip \in Ips(r), NEW p \in d.pools, ip \in Ips(p)
          PROVE  ip \in X
      <3>1. p \in hit
        BY <1>1, <2>1, OverlapsIff DEF OverlappingWith
      <3>2. <<p, ip>> \in SharedIps(hit, r)
        BY <1>1, <2>1, <3>1 DEF SharedIps
      <3> QED
        BY <3>2
    <2>2. ASSUME NEW x \in SharedIps(hit, r)
          PROVE  x[2] \in Ips(r) /\ Containing(d.pools, x[2]) # {}
      BY DEF SharedIps, OverlappingWith, Containing
    <2> QED
      BY <2>1, <2>2 DEF Containing
  <1>7. Cardinality(PoolIps(d)) = Cardinality(PoolIps(e)) + Cardinality(X)
    <2> HIDE DEF X
    <2>1. PoolIps(d) = PoolIps(e) \cup X /\ PoolIps(e) \cap X = {}
      BY <1>1, <1>2, <1>3, <1>6 DEF PoolIps, Containing
    <2>2. PoolIps(e) \subseteq Ip /\ X \subseteq Ip
      BY <1>1, <1>6 DEF PoolIps
    <2> QED
      BY <2>1, <2>2, DisjointCount
  <1>8. Cardinality(X) \in Nat
    BY <1>1, <1>6, SubsetCount
  <1> QED
    BY <1>4, <1>5, <1>7, <1>8

\* A reservation v takes its address out of the pool that holds it and adds
\* one reserved address.  d has the rows without v, e with it.
LEMMA ReservationCounts ==
    ASSUME NEW d, NEW e, NEW v \in ReservationRow,
           d.pools \subseteq PoolRow,
           d.reservations \subseteq ReservationRow, v \notin d.reservations,
           e.pools = d.pools, e.reservedPools = d.reservedPools,
           e.reservations = d.reservations \cup {v},
           ExclusiveRows(e)
    PROVE  /\ \A p \in d.pools :
                 Cardinality(FreeOf(d, p))
                   = Cardinality(FreeOf(e, p)) + (IF v.ip \in Ips(p) THEN 1 ELSE 0)
           /\ Cardinality(PoolIps(d))
                = Cardinality(PoolIps(e))
                    + (IF Containing(d.pools, v.ip) # {} THEN 1 ELSE 0)
           /\ Cardinality(ReservedIps(e)) = Cardinality(ReservedIps(d)) + 1
  <1>1. v.ip \in Ip /\ Cardinality({v.ip}) = 1 /\ {v.ip} \subseteq Ip
    BY FS_Singleton DEF ReservationRow
  <1>2. Free(d, v.ip)
    BY DEF ExclusiveRows, Free, Containing
  <1>3. \A ip : Free(e, ip) <=> Free(d, ip) /\ ip # v.ip
    BY DEF Free, Containing
  <1>4. ASSUME NEW p \in d.pools
        PROVE  Cardinality(FreeOf(d, p))
                 = Cardinality(FreeOf(e, p)) + (IF v.ip \in Ips(p) THEN 1 ELSE 0)
    <2>1. CASE v.ip \in Ips(p)
      <3>1. /\ FreeOf(d, p) = FreeOf(e, p) \cup {v.ip}
            /\ FreeOf(e, p) \cap {v.ip} = {}
        BY <1>2, <1>3, <2>1 DEF FreeOf
      <3> QED
        BY <1>1, <2>1, <3>1, FreeOfCount, DisjointCount
    <2>2. CASE v.ip \notin Ips(p)
      <3>1. FreeOf(d, p) = FreeOf(e, p)
        BY <1>3, <2>2 DEF FreeOf
      <3> QED
        BY <2>2, <3>1, FreeOfCount
    <2> QED
      BY <2>1, <2>2
  <1>5. Cardinality(PoolIps(d))
          = Cardinality(PoolIps(e))
              + (IF Containing(d.pools, v.ip) # {} THEN 1 ELSE 0)
    <2>1. CASE Containing(d.pools, v.ip) # {}
      <3>1. /\ PoolIps(d) = PoolIps(e) \cup {v.ip}
            /\ PoolIps(e) \cap {v.ip} = {}
            /\ PoolIps(e) \subseteq Ip
        BY <1>1, <1>2, <1>3, <2>1 DEF PoolIps, Containing
      <3> QED
        BY <1>1, <2>1, <3>1, DisjointCount
    <2>2. CASE Containing(d.pools, v.ip) = {}
      <3>1. PoolIps(d) = PoolIps(e) /\ PoolIps(e) \subseteq Ip
        BY <1>3, <2>2 DEF PoolIps, Containing
      <3> QED
        BY <2>2, <3>1, SubsetCount
    <2> QED
      BY <2>1, <2>2
  <1>6. Cardinality(ReservedIps(e)) = Cardinality(ReservedIps(d)) + 1
    <2>1. /\ ReservedIps(e) = ReservedIps(d) \cup {v.ip}
          /\ ReservedIps(d) \cap {v.ip} = {}
          /\ ReservedIps(d) \subseteq Ip
      BY <1>1, <1>2 DEF ReservedIps, Free, ReservationRow
    <2> QED
      BY <1>1, <2>1, DisjointCount
  <1> QED
    BY <1>4, <1>5, <1>6

LEMMA CreateReservedPool4Books ==
    ASSUME NEW d, Books(d), NEW r \in PoolRow, CanCreateReservedPool4(d, r)
    PROVE  Books(CreateReservedPool4(d, d, r))
  <1> DEFINE e == CreateReservedPool4(d, d, r)
             hit == OverlappingWith(d.pools, r)
             rest == [p \in hit |-> Minus(d.poolCapacity[p], ReservedCount(p, r))]
             f == [p \in d.pools |->
                     IF p \in DOMAIN rest THEN rest[p] ELSE d.poolCapacity[p]]
             R == d.reservedPools \cup {r}
             s == Cardinality(SharedIps(hit, r))
             n == Minus(d.capacity, s)
  <1>1. /\ d.pools \subseteq PoolRow /\ d.reservedPools \subseteq PoolRow
        /\ d.reservations \subseteq ReservationRow
        /\ DisjointRows(d.pools) /\ ExclusiveRows(d)
    BY BooksElim
  <1>2. e = [pools |-> d.pools, poolCapacity |-> f, reservedPools |-> R,
             reservations |-> d.reservations, capacity |-> n]
    <2>1. d = [pools |-> d.pools, poolCapacity |-> d.poolCapacity,
               reservedPools |-> d.reservedPools,
               reservations |-> d.reservations, capacity |-> d.capacity]
      BY BooksElim
    <2>2. e = [[d EXCEPT !.poolCapacity = f]
                  EXCEPT !.reservedPools = [d EXCEPT !.poolCapacity = f].reservedPools
                                             \cup {r},
                         !.capacity = n]
      BY DEF CreateReservedPool4, WithPoolCapacity
    <2> HIDE DEF e, f, n
    <2> QED
      BY <2>1, <2>2
  <1>3. r \notin d.reservedPools /\ DisjointRows(R)
    <2>1. \A q \in d.reservedPools : ~Overlaps(q, r) /\ ~Overlaps(r, q)
      BY <1>1, OverlapsIff DEF CanCreateReservedPool4, OverlappingWith
    <2>2. Overlaps(r, r)
      BY RowsAssumption DEF Overlaps, PoolRow, Ip
    <2> QED
      BY <1>1, <2>1, <2>2 DEF DisjointRows, ExclusiveRows
  <1>4. ExclusiveRows(e)
    BY <1>1, <1>2, <1>3
    DEF ExclusiveRows, CanCreateReservedPool4, ReservationsIn, Containing
  <1>5. /\ \A p \in d.pools :
              Cardinality(FreeOf(d, p))
                = Cardinality(FreeOf(e, p)) + Cardinality(Ips(p) \cap Ips(r))
        /\ Cardinality(PoolIps(d)) = Cardinality(PoolIps(e)) + s /\ s \in Nat
    <2>1. e.pools = d.pools /\ e.reservations = d.reservations /\ e.reservedPools = R
      BY <1>2
    <2> HIDE DEF e
    <2> QED
      BY <1>1, <1>3, <1>4, <2>1, ReservedPoolCounts
  <1>6. ASSUME NEW p \in d.pools
        PROVE  f[p] = Cardinality(FreeOf(e, p))
    <2> HIDE DEF e
    <2>1. /\ d.poolCapacity[p] = Cardinality(FreeOf(d, p))
          /\ Cardinality(FreeOf(d, p)) \in 0 .. Word - 1
          /\ Cardinality(FreeOf(e, p)) \in 0 .. Word - 1
          /\ p \in PoolRow
      BY <1>1, FreeOfCount DEF Books, ExactPools, FreeOf
    <2>2. CASE p \in hit
      <3>1. Overlaps(p, r)
        BY <2>2 DEF OverlappingWith
      <3>2. ReservedCount(p, r) = Cardinality(Ips(p) \cap Ips(r))
        BY <2>1, <3>1, ReservedCountShared
      <3>3. f[p] = Minus(d.poolCapacity[p], Cardinality(Ips(p) \cap Ips(r)))
        BY <2>2, <3>2
      <3>4. Cardinality(Ips(p) \cap Ips(r)) \in Nat
        BY SubsetCount, OverlapsIff
      <3> HIDE DEF f, hit
      <3> QED
        BY <1>5, <2>1, <3>3, <3>4, RowsAssumption DEF Minus, Wrap
    <2>3. CASE p \notin hit
      <3>1. Ips(p) \cap Ips(r) = {}
        BY <2>1, <2>3, OverlapsIff DEF OverlappingWith
      <3>2. Cardinality(Ips(p) \cap Ips(r)) = 0
        BY <3>1, FS_EmptySet
      <3>3. f[p] = d.poolCapacity[p]
        BY <2>3
      <3> HIDE DEF f, hit
      <3> QED
        BY <1>5, <2>1, <3>2, <3>3
    <2> QED
      BY <2>2, <2>3
  <1>7. n = Cardinality(PoolIps(e)) + Cardinality(ReservedIps(e))
    <2>1. ReservedIps(e) = ReservedIps(d)
      BY <1>2 DEF ReservedIps
    <2>2. /\ d.capacity = Cardinality(PoolIps(d)) + Cardinality(ReservedIps(d))
          /\ Cardinality(PoolIps(d)) + Cardinality(ReservedIps(d)) < Word
          /\ Cardinality(ReservedIps(d)) \in Nat
          /\ Cardinality(PoolIps(d)) \in Nat
      BY <1>1, BooksElim, BooksAsSets
    <2>3. Cardinality(PoolIps(e)) \in Nat
      BY SubsetCount DEF PoolIps
    <2> HIDE DEF e, s
    <2> QED
      BY <1>5, <2>1, <2>2, <2>3, RowsAssumption DEF Minus, Wrap
  <1> HIDE DEF e
  <1> QED
    BY <1>1, <1>2, <1>4, <1>6, <1>7, BooksIntro DEF e

LEMMA DeleteReservedPool4Books ==
    ASSUME NEW d, Books(d), NEW r \in d.reservedPools
    PROVE  Books(DeleteReservedPool4(d, d, r))
  <1> DEFINE e == DeleteReservedPool4(d, d, r)
             hit == OverlappingWith(d.pools, r)
             rest == [p \in hit |-> Plus(d.poolCapacity[p], ReservedCount(p, r))]
             f == [p \in d.pools |->
                     IF p \in DOMAIN rest THEN rest[p] ELSE d.poolCapacity[p]]
             R == d.reservedPools \ {r}
             s == Cardinality(SharedIps(hit, r))
             n == Plus(d.capacity, s)
  <1>1. /\ d.pools \subseteq PoolRow /\ d.reservedPools \subseteq PoolRow
        /\ d.reservations \subseteq ReservationRow /\ r \in PoolRow
        /\ DisjointRows(d.pools) /\ ExclusiveRows(d)
    BY BooksElim
  <1>2. e = [pools |-> d.pools, poolCapacity |-> f, reservedPools |-> R,
             reservations |-> d.reservations, capacity |-> n]
    <2>1. d = [pools |-> d.pools, poolCapacity |-> d.poolCapacity,
               reservedPools |-> d.reservedPools,
               reservations |-> d.reservations, capacity |-> d.capacity]
      BY BooksElim
    <2>2. e = [[d EXCEPT !.poolCapacity = f]
                  EXCEPT !.reservedPools = [d EXCEPT !.poolCapacity = f].reservedPools
                                             \ {r},
                         !.capacity = n]
      BY DEF DeleteReservedPool4, WithPoolCapacity
    <2> HIDE DEF e, f, n
    <2> QED
      BY <2>1, <2>2
  <1>3. /\ e.pools = d.pools /\ e.reservations = d.reservations
        /\ e.reservedPools = R
    BY <1>2
  <1>4. ExclusiveRows(e)
    BY <1>1, <1>3 DEF ExclusiveRows, DisjointRows, Containing
  <1>5. /\ \A p \in d.pools :
              Cardinality(FreeOf(e, p))
                = Cardinality(FreeOf(d, p)) + Cardinality(Ips(p) \cap Ips(r))
        /\ Cardinality(PoolIps(e)) = Cardinality(PoolIps(d)) + s /\ s \in Nat
    <2>1. /\ e.pools \subseteq PoolRow /\ DisjointRows(e.pools)
          /\ e.reservedPools \subseteq PoolRow /\ r \notin e.reservedPools
          /\ d.pools = e.pools /\ d.reservations = e.reservations
          /\ d.reservedPools = e.reservedPools \cup {r}
      BY <1>1, <1>3
    <2> HIDE DEF e
    <2>2. /\ \A p \in e.pools :
              Cardinality(FreeOf(e, p))
                = Cardinality(FreeOf(d, p)) + Cardinality(Ips(p) \cap Ips(r))
          /\ Cardinality(PoolIps(e))
               = Cardinality(PoolIps(d))
                   + Cardinality(SharedIps(OverlappingWith(e.pools, r), r))
          /\ Cardinality(SharedIps(OverlappingWith(e.pools, r), r)) \in Nat
      BY <1>1, <2>1, ReservedPoolCounts
    <2> QED
      BY <1>3, <2>2
  <1>6. ASSUME NEW p \in d.pools
        PROVE  f[p] = Cardinality(FreeOf(e, p))
    <2> HIDE DEF e
    <2>1. /\ d.poolCapacity[p] = Cardinality(FreeOf(d, p))
          /\ Cardinality(FreeOf(d, p)) \in 0 .. Word - 1
          /\ Cardinality(FreeOf(e, p)) \in 0 .. Word - 1
          /\ p \in PoolRow
      BY <1>1, FreeOfCount DEF Books, ExactPools, FreeOf
    <2>2. CASE p \in hit
      <3>1. Overlaps(p, r)
        BY <2>2 DEF OverlappingWith
      <3>2. ReservedCount(p, r) = Cardinality(Ips(p) \cap Ips(r))
        BY <1>1, <2>1, <3>1, ReservedCountShared
      <3>3. f[p] = Plus(d.poolCapacity[p], Cardinality(Ips(p) \cap Ips(r)))
        BY <2>2, <3>2
      <3>4. Cardinality(Ips(p) \cap Ips(r)) \in Nat
        BY <1>1, SubsetCount, OverlapsIff
      <3> HIDE DEF f, hit
      <3> QED
        BY <1>5, <2>1, <3>3, <3>4, RowsAssumption DEF Plus, Wrap
    <2>3. CASE p \notin hit
      <3>1. Ips(p) \cap Ips(r) = {}
        BY <1>1, <2>1, <2>3, OverlapsIff DEF OverlappingWith
      <3>2. Cardinality(Ips(p) \cap Ips(r)) = 0
        BY <3>1, FS_EmptySet
      <3>3. f[p] = d.poolCapacity[p]
        BY <2>3
      <3> HIDE DEF f, hit
      <3> QED
        BY <1>5, <2>1, <3>2, <3>3
    <2> QED
      BY <2>2, <2>3
  <1>7. n = Cardinality(PoolIps(e)) + Cardinality(ReservedIps(e))
    <2>1. ReservedIps(e) = ReservedIps(d)
      BY <1>3 DEF ReservedIps
    <2>2. /\ d.capacity = Cardinality(PoolIps(d)) + Cardinality(ReservedIps(d))
          /\ Cardinality(ReservedIps(d)) \in Nat
          /\ Cardinality(PoolIps(d)) \in Nat
      BY <1>1, BooksElim, BooksAsSets
    <2>3. /\ Cardinality(PoolIps(e)) \in Nat
          /\ Cardinality(PoolIps(e)) + Cardinality(ReservedIps(e)) < Word
      <3> HIDE DEF e
      <3> QED
        BY <1>1, <1>3, <1>4, BooksAsSets
    <2> HIDE DEF e, s
    <2> QED
      BY <1>5, <2>1, <2>2, <2>3, RowsAssumption DEF Plus, Wrap
  <1> HIDE DEF e
  <1> QED
    BY <1>1, <1>2, <1>4, <1>6, <1>7, BooksIntro DEF e

LEMMA CreateReservation4Books ==
    ASSUME NEW d, Books(d), NEW v \in ReservationRow,
           CanCreateReservation4(d, v),
           NEW e \in CreateReservation4(d, d, v)
    PROVE  Books(e)
  <1> DEFINE hit == Containing(d.pools, v.ip)
             V == d.reservations \cup {v}
  <1>1. /\ d.pools \subseteq PoolRow /\ d.reservedPools \subseteq PoolRow
        /\ d.reservations \subseteq ReservationRow /\ v \in ReservationRow
        /\ DisjointRows(d.pools) /\ ExclusiveRows(d)
        /\ d = [pools |-> d.pools, poolCapacity |-> d.poolCapacity,
                reservedPools |-> d.reservedPools,
                reservations |-> d.reservations, capacity |-> d.capacity]
        /\ d.capacity = Cardinality(PoolIps(d)) + Cardinality(ReservedIps(d))
        /\ Cardinality(PoolIps(d)) \in Nat /\ Cardinality(ReservedIps(d)) \in Nat
        /\ d.poolCapacity = [p \in d.pools |-> d.poolCapacity[p]]
    BY BooksElim, BooksAsSets DEF Books, RowsType
  <1>2. /\ e.pools = d.pools /\ e.reservedPools = d.reservedPools
        /\ e.reservations = V
        /\ e = [pools |-> d.pools, poolCapacity |-> e.poolCapacity,
                reservedPools |-> d.reservedPools, reservations |-> V,
                capacity |-> e.capacity]
        /\ \/ /\ hit = {}
              /\ e.capacity = Plus(d.capacity, 1)
              /\ e.poolCapacity = d.poolCapacity
           \/ \E p \in hit :
                 /\ e.capacity = d.capacity
                 /\ e.poolCapacity
                      = [q \in d.pools |-> IF q \in {p}
                                           THEN Minus(d.poolCapacity[p], 1)
                                           ELSE d.poolCapacity[q]]
    <2>1. CASE hit = {}
      <3>1. e = [d EXCEPT !.reservations = V, !.capacity = Plus(d.capacity, 1)]
        BY <2>1, <1>1 DEF CreateReservation4
      <3> QED
        BY <1>1, <2>1, <3>1
    <2>2. CASE hit # {}
      <3>1. PICK p \in hit :
               e = WithPoolCapacity([d EXCEPT !.reservations = V],
                                    [q \in {p} |-> Minus(d.poolCapacity[p], 1)])
        BY <2>2 DEF CreateReservation4
      <3>2. [d EXCEPT !.reservations = V]
              = [pools |-> d.pools, poolCapacity |-> d.poolCapacity,
                 reservedPools |-> d.reservedPools,
                 reservations |-> V, capacity |-> d.capacity]
        BY <1>1
      <3> DEFINE g == [q \in d.pools |-> IF q \in {p}
                                         THEN Minus(d.poolCapacity[p], 1)
                                         ELSE d.poolCapacity[q]]
      <3>3. e = [[d EXCEPT !.reservations = V] EXCEPT !.poolCapacity = g]
        BY <3>1, <3>2 DEF WithPoolCapacity
      <3> HIDE DEF g, V
      <3>4. e = [pools |-> d.pools, poolCapacity |-> g,
                 reservedPools |-> d.reservedPools,
                 reservations |-> V, capacity |-> d.capacity]
        BY <3>2, <3>3
      <3> QED
        BY <3>4 DEF g
    <2> QED
      BY <2>1, <2>2
  <1>3. ExclusiveRows(e)
    BY <1>1, <1>2
    DEF ExclusiveRows, CanCreateReservation4
  <1>4. /\ \A p \in d.pools :
              Cardinality(FreeOf(d, p))
                = Cardinality(FreeOf(e, p)) + (IF v.ip \in Ips(p) THEN 1 ELSE 0)
        /\ Cardinality(PoolIps(d))
             = Cardinality(PoolIps(e)) + (IF hit # {} THEN 1 ELSE 0)
        /\ Cardinality(ReservedIps(e)) = Cardinality(ReservedIps(d)) + 1
    <2>1. v \notin d.reservations
      BY DEF CanCreateReservation4
    <2> QED
      BY <1>1, <1>2, <1>3, <2>1, ReservationCounts
  <1>5. /\ \A p \in d.pools :
              /\ d.poolCapacity[p] = Cardinality(FreeOf(d, p))
              /\ Cardinality(FreeOf(d, p)) \in 0 .. Word - 1
              /\ Cardinality(FreeOf(e, p)) \in 0 .. Word - 1
        /\ \A p, q \in d.pools : p \in hit /\ v.ip \in Ips(q) => p = q
    <2>1. \A p, q \in d.pools : p \in hit /\ v.ip \in Ips(q) => p = q
      BY <1>1, OverlapsIff DEF Containing, DisjointRows, ReservationRow
    <2> QED
      BY <1>1, <2>1, FreeOfCount DEF Books, ExactPools, FreeOf
  <1>6. ASSUME NEW q \in d.pools
        PROVE  e.poolCapacity[q] = Cardinality(FreeOf(e, q))
    <2>1. CASE v.ip \in Ips(q)
      <3>1. q \in hit
        BY <2>1 DEF Containing
      <3>2. PICK p \in hit :
               e.poolCapacity = [u \in d.pools |-> IF u \in {p}
                                                   THEN Minus(d.poolCapacity[p], 1)
                                                   ELSE d.poolCapacity[u]]
        BY <1>2, <3>1
      <3>3. p = q
        BY <1>5, <2>1, <3>2 DEF Containing
      <3>4. e.poolCapacity[q] = Minus(d.poolCapacity[q], 1)
        BY <3>2, <3>3
      <3> QED
        BY <1>4, <1>5, <2>1, <3>4, RowsAssumption DEF Plus, Minus, Wrap
    <2>2. CASE v.ip \notin Ips(q)
      <3>1. q \notin hit
        BY <2>2 DEF Containing
      <3>2. e.poolCapacity[q] = d.poolCapacity[q]
        BY <1>2, <3>1
      <3> QED
        BY <1>4, <1>5, <2>2, <3>2
    <2> QED
      BY <2>1, <2>2
  <1>7. e.capacity = Cardinality(PoolIps(e)) + Cardinality(ReservedIps(e))
    <2>1. /\ Cardinality(PoolIps(e)) \in Nat /\ Cardinality(ReservedIps(e)) \in Nat
          /\ Cardinality(PoolIps(e)) + Cardinality(ReservedIps(e)) < Word
          /\ Cardinality(PoolIps(d)) + Cardinality(ReservedIps(d)) < Word
      <3>1. /\ e.pools \subseteq PoolRow /\ e.reservedPools \subseteq PoolRow
            /\ e.reservations \subseteq ReservationRow /\ DisjointRows(e.pools)
        BY <1>1, <1>2
      <3> QED
        BY <1>1, <1>3, <3>1, BooksAsSets
    <2>2. e.capacity = IF hit = {} THEN Plus(d.capacity, 1) ELSE d.capacity
      BY <1>2
    <2> HIDE DEF hit
    <2> QED
      BY <1>1, <1>4, <2>1, <2>2, RowsAssumption DEF Plus, Minus, Wrap
  <1> DEFINE f == e.poolCapacity
             n == e.capacity
  <1>8. /\ e = [pools |-> d.pools, poolCapacity |-> f,
                reservedPools |-> d.reservedPools, reservations |-> V,
                capacity |-> n]
        /\ f = [p \in d.pools |-> f[p]]
        /\ \A p \in d.pools : f[p] = Cardinality(FreeOf(e, p))
        /\ n = Cardinality(PoolIps(e)) + Cardinality(ReservedIps(e))
    BY <1>1, <1>2, <1>6, <1>7
  <1>9. /\ d.pools \subseteq PoolRow /\ d.reservedPools \subseteq PoolRow
        /\ V \subseteq ReservationRow /\ DisjointRows(d.pools)
    BY <1>1
  <1> HIDE DEF V, f, n
  <1> QED
    BY <1>3, <1>8, <1>9, BooksIntro

LEMMA DeleteReservation4Books ==
    ASSUME NEW d, Books(d), NEW v \in d.reservations,
           NEW e \in DeleteReservation4(d, d, v)
    PROVE  Books(e)
  <1> DEFINE hit == Containing(d.pools, v.ip)
             V == d.reservations \ {v}
  <1>1. /\ d.pools \subseteq PoolRow /\ d.reservedPools \subseteq PoolRow
        /\ d.reservations \subseteq ReservationRow /\ v \in ReservationRow
        /\ DisjointRows(d.pools) /\ ExclusiveRows(d)
        /\ d = [pools |-> d.pools, poolCapacity |-> d.poolCapacity,
                reservedPools |-> d.reservedPools,
                reservations |-> d.reservations, capacity |-> d.capacity]
        /\ d.capacity = Cardinality(PoolIps(d)) + Cardinality(ReservedIps(d))
        /\ Cardinality(PoolIps(d)) \in Nat /\ Cardinality(ReservedIps(d)) \in Nat
        /\ d.poolCapacity = [p \in d.pools |-> d.poolCapacity[p]]
    BY BooksElim, BooksAsSets DEF Books, RowsType
  <1>2. /\ e.pools = d.pools /\ e.reservedPools = d.reservedPools
        /\ e.reservations = V
        /\ e = [pools |-> d.pools, poolCapacity |-> e.poolCapacity,
                reservedPools |-> d.reservedPools, reservations |-> V,
                capacity |-> e.capacity]
        /\ \/ /\ hit = {}
              /\ e.capacity = Minus(d.capacity, 1)
              /\ e.poolCapacity = d.poolCapacity
           \/ \E p \in hit :
                 /\ e.capacity = d.capacity
                 /\ e.poolCapacity
                      = [q \in d.pools |-> IF q \in {p}
                                           THEN Plus(d.poolCapacity[p], 1)
                                           ELSE d.poolCapacity[q]]
    <2>1. CASE hit = {}
      <3>1. e = [d EXCEPT !.reservations = V, !.capacity = Minus(d.capacity, 1)]
        BY <2>1, <1>1 DEF DeleteReservation4
      <3> QED
        BY <1>1, <2>1, <3>1
    <2>2. CASE hit # {}
      <3>1. PICK p \in hit :
               e = WithPoolCapacity([d EXCEPT !.reservations = V],
                                    [q \in {p} |-> Plus(d.poolCapacity[p], 1)])
        BY <2>2 DEF DeleteReservation4
      <3>2. [d EXCEPT !.reservations = V]
              = [pools |-> d.pools, poolCapacity |-> d.poolCapacity,
                 reservedPools |-> d.reservedPools,
                 reservations |-> V, capacity |-> d.capacity]
        BY <1>1
      <3> DEFINE g == [q \in d.pools |-> IF q \in {p}
                                         THEN Plus(d.poolCapacity[p], 1)
                                         ELSE d.poolCapacity[q]]
      <3>3. e = [[d EXCEPT !.reservations = V] EXCEPT !.poolCapacity = g]
        BY <3>1, <3>2 DEF WithPoolCapacity
      <3> HIDE DEF g, V
      <3>4. e = [pools |-> d.pools, poolCapacity |-> g,
                 reservedPools |-> d.reservedPools,
                 reservations |-> V, capacity |-> d.capacity]
        BY <3>2, <3>3
      <3> QED
        BY <3>4 DEF g
    <2> QED
      BY <2>1, <2>2
  <1>3. ExclusiveRows(e)
    BY <1>1, <1>2 DEF ExclusiveRows
  <1>4. /\ \A p \in d.pools :
              Cardinality(FreeOf(e, p))
                = Cardinality(FreeOf(d, p)) + (IF v.ip \in Ips(p) THEN 1 ELSE 0)
        /\ Cardinality(PoolIps(e))
             = Cardinality(PoolIps(d)) + (IF hit # {} THEN 1 ELSE 0)
        /\ Cardinality(ReservedIps(d)) = Cardinality(ReservedIps(e)) + 1
    <2>1. /\ e.pools \subseteq PoolRow
          /\ e.reservations \subseteq ReservationRow /\ v \notin e.reservations
          /\ d.pools = e.pools /\ d.reservedPools = e.reservedPools
          /\ d.reservations = e.reservations \cup {v}
      BY <1>1, <1>2
    <2>2. /\ \A p \in e.pools :
              Cardinality(FreeOf(e, p))
                = Cardinality(FreeOf(d, p)) + (IF v.ip \in Ips(p) THEN 1 ELSE 0)
          /\ Cardinality(PoolIps(e))
               = Cardinality(PoolIps(d))
                   + (IF Containing(e.pools, v.ip) # {} THEN 1 ELSE 0)
          /\ Cardinality(ReservedIps(d)) = Cardinality(ReservedIps(e)) + 1
      BY <1>1, <2>1, ReservationCounts
    <2> QED
      BY <1>2, <2>2
  <1>5. /\ \A p \in d.pools :
              /\ d.poolCapacity[p] = Cardinality(FreeOf(d, p))
              /\ Cardinality(FreeOf(d, p)) \in 0 .. Word - 1
              /\ Cardinality(FreeOf(e, p)) \in 0 .. Word - 1
        /\ \A p, q \in d.pools : p \in hit /\ v.ip \in Ips(q) => p = q
    <2>1. \A p, q \in d.pools : p \in hit /\ v.ip \in Ips(q) => p = q
      BY <1>1, OverlapsIff DEF Containing, DisjointRows, ReservationRow
    <2> QED
      BY <1>1, <2>1, FreeOfCount DEF Books, ExactPools, FreeOf
  <1>6. ASSUME NEW q \in d.pools
        PROVE  e.poolCapacity[q] = Cardinality(FreeOf(e, q))
    <2>1. CASE v.ip \in Ips(q)
      <3>1. q \in hit
        BY <2>1 DEF Containing
      <3>2. PICK p \in hit :
               e.poolCapacity = [u \in d.pools |-> IF u \in {p}
                                                   THEN Plus(d.poolCapacity[p], 1)
                                                   ELSE d.poolCapacity[u]]
        BY <1>2, <3>1
      <3>3. p = q
        BY <1>5, <2>1, <3>2 DEF Containing
      <3>4. e.poolCapacity[q] = Plus(d.poolCapacity[q], 1)
        BY <3>2, <3>3
      <3> QED
        BY <1>4, <1>5, <2>1, <3>4, RowsAssumption DEF Plus, Minus, Wrap
    <2>2. CASE v.ip \notin Ips(q)
      <3>1. q \notin hit
        BY <2>2 DEF Containing
      <3>2. e.poolCapacity[q] = d.poolCapacity[q]
        BY <1>2, <3>1
      <3> QED
        BY <1>4, <1>5, <2>2, <3>2
    <2> QED
      BY <2>1, <2>2
  <1>7. e.capacity = Cardinality(PoolIps(e)) + Cardinality(ReservedIps(e))
    <2>1. /\ Cardinality(PoolIps(e)) \in Nat /\ Cardinality(ReservedIps(e)) \in Nat
          /\ Cardinality(PoolIps(e)) + Cardinality(ReservedIps(e)) < Word
          /\ Cardinality(PoolIps(d)) + Cardinality(ReservedIps(d)) < Word
      <3>1. /\ e.pools \subseteq PoolRow /\ e.reservedPools \subseteq PoolRow
            /\ e.reservations \subseteq ReservationRow /\ DisjointRows(e.pools)
        BY <1>1, <1>2
      <3> QED
        BY <1>1, <1>3, <3>1, BooksAsSets
    <2>2. e.capacity = IF hit = {} THEN Minus(d.capacity, 1) ELSE d.capacity
      BY <1>2
    <2> HIDE DEF hit
    <2> QED
      BY <1>1, <1>4, <2>1, <2>2, RowsAssumption DEF Plus, Minus, Wrap
  <1> DEFINE f == e.poolCapacity
             n == e.capacity
  <1>8. /\ e = [pools |-> d.pools, poolCapacity |-> f,
                reservedPools |-> d.reservedPools, reservations |-> V,
                capacity |-> n]
        /\ f = [p \in d.pools |-> f[p]]
        /\ \A p \in d.pools : f[p] = Cardinality(FreeOf(e, p))
        /\ n = Cardinality(PoolIps(e)) + Cardinality(ReservedIps(e))
    BY <1>1, <1>2, <1>6, <1>7
  <1>9. /\ d.pools \subseteq PoolRow /\ d.reservedPools \subseteq PoolRow
        /\ V \subseteq ReservationRow /\ DisjointRows(d.pools)
    BY <1>1
  <1> HIDE DEF V, f, n
  <1> QED
    BY <1>3, <1>8, <1>9, BooksIntro

\* The books of a new subnet.
LEMMA ChildlessBooks ==
    ASSUME NEW d, d = [pools |-> {}, poolCapacity |-> [p \in {} |-> 0],
                       reservedPools |-> {}, reservations |-> {}, capacity |-> 0]
    PROVE  Books(d)
  <1> DEFINE no == {}
             none == [p \in no |-> 0]
             zero == 0
  <1>1. d = [pools |-> no, poolCapacity |-> none, reservedPools |-> no,
             reservations |-> no, capacity |-> zero]
    OBVIOUS
  <1>2. ExclusiveRows(d) /\ DisjointRows(no)
    BY <1>1 DEF ExclusiveRows, DisjointRows
  <1>3. zero = Cardinality(PoolIps(d)) + Cardinality(ReservedIps(d))
    <2>1. PoolIps(d) = {} /\ ReservedIps(d) = {}
      BY <1>1 DEF PoolIps, ReservedIps, Containing
    <2>2. Cardinality(PoolIps(d)) = 0 /\ Cardinality(ReservedIps(d)) = 0
      BY <2>1, FS_EmptySet
    <2> QED
      BY <2>2
  <1>4. none = [p \in no |-> none[p]] /\ \A p \in no : none[p] = Cardinality(FreeOf(d, p))
    OBVIOUS
  <1>5. no \subseteq PoolRow /\ no \subseteq ReservationRow
    OBVIOUS
  <1> HIDE DEF none, no, zero
  <1> QED
    BY <1>1, <1>2, <1>3, <1>4, <1>5, BooksIntro

-----------------------------------------------------------------------------
(***************************************************************************)
(* Subnet4: the invariant                                                  *)
(***************************************************************************)
LEMMA IInvIsBooks == IInv <=> Books(db) /\ leases \subseteq LeaseRow
  BY DEF IInv, TypeOK, PoolsDisjoint, ReservedExclusive, PoolCapacityExact,
         SubnetCapacityExact, Books

LEMMA InitIInv == Init => IInv
  BY ChildlessBooks, IInvIsBooks DEF Init, Childless

LEMMA NextIInv == IInv /\ [Next]_vars => IInv'
  <1> SUFFICES ASSUME Books(db), leases \subseteq LeaseRow, [Next]_vars
               PROVE  Books(db') /\ leases' \subseteq LeaseRow
    BY IInvIsBooks
    DEF IInv, TypeOK, PoolsDisjoint, ReservedExclusive, PoolCapacityExact,
        SubnetCapacityExact, Books
  <1>1. ASSUME NEW p \in PoolRow, Pool4Create(p)
        PROVE  Books(db') /\ leases' = leases
    BY <1>1, CreatePool4Books DEF Pool4Create
  <1>2. ASSUME NEW p \in PoolRow, Pool4Delete(p)
        PROVE  Books(db') /\ leases' = leases
    BY <1>2, DeletePool4Books DEF Pool4Delete, CanDeletePool4
  <1>3. ASSUME NEW r \in PoolRow, ReservedPool4Create(r)
        PROVE  Books(db') /\ leases' = leases
    BY <1>3, CreateReservedPool4Books DEF ReservedPool4Create
  <1>4. ASSUME NEW r \in PoolRow, ReservedPool4Delete(r)
        PROVE  Books(db') /\ leases' = leases
    BY <1>4, DeleteReservedPool4Books
    DEF ReservedPool4Delete, CanDeleteReservedPool4
  <1>5. ASSUME NEW v \in ReservationRow,
               Reservation4Create(v) \/ AutoReservation4Create(v)
        PROVE  Books(db') /\ leases' = leases
    BY <1>5, CreateReservation4Books
    DEF Reservation4Create, AutoReservation4Create
  <1>6. ASSUME NEW v \in ReservationRow, Reservation4Delete(v)
        PROVE  Books(db') /\ leases' = leases
    BY <1>6, DeleteReservation4Books
    DEF Reservation4Delete, CanDeleteReservation4
  <1>7. ASSUME NEW ip \in Ip, AutoReservation4Delete(ip)
        PROVE  Books(db') /\ leases' = leases
    BY <1>7, DeleteReservation4Books
    DEF AutoReservation4Delete, CanAutoDeleteReservation4
  <1>8. ASSUME NEW l \in LeaseRow, GrantLease(l)
        PROVE  db' = db /\ leases' \subseteq LeaseRow
    BY <1>8 DEF GrantLease
  <1>9. ASSUME NEW l \in leases, EndLease(l)
        PROVE  db' = db /\ leases' \subseteq LeaseRow
    BY <1>9 DEF EndLease
  <1>10. ASSUME SubnetDelete
         PROVE  Books(db') /\ leases' = {}
    BY <1>10, ChildlessBooks DEF SubnetDelete, Childless
  <1>11. ASSUME UNCHANGED vars
         PROVE  db' = db /\ leases' = leases
    BY <1>11 DEF vars
  <1> QED
    BY <1>1, <1>2, <1>3, <1>4, <1>5, <1>6, <1>7, <1>8, <1>9, <1>10, <1>11 DEF Next

\* In every reachable state the rows are well typed, the ranges exclude each
\* other as the handlers check, and every stored capacity is exact: what the
\* six handlers of Pool4Service, ReservedPool4Service and Reservation4Service
\* and the two of the lease consumer keep, for every subnet and any number of
\* rows, clients and leases.
THEOREM Invariant == Spec => []IInv
  BY InitIInv, NextIInv, PTL DEF Spec

\* The rows keep their types; in particular no capacity leaves the range of a
\* uint64, whatever sequence of increments made it.
THEOREM TypeCorrect == Spec => []TypeOK
  <1>1. IInv => TypeOK
    BY DEF IInv
  <1> QED
    BY <1>1, Invariant, PTL

\* No sequence of requests makes two pools of the subnet share an address.
THEOREM PoolsStayDisjoint == Spec => []PoolsDisjoint
  <1>1. IInv => PoolsDisjoint
    BY DEF IInv
  <1> QED
    BY <1>1, Invariant, PTL

\* No sequence of requests reserves an address twice, or a second address for
\* a client, or an address of a reserved pool.
THEOREM ReservedStaysExclusive == Spec => []ReservedExclusive
  <1>1. IInv => ReservedExclusive
    BY DEF IInv
  <1> QED
    BY <1>1, Invariant, PTL

\* The capacity in a pool's row is the number of its free addresses.
THEOREM PoolCapacityStaysExact == Spec => []PoolCapacityExact
  <1>1. IInv => PoolCapacityExact
    BY DEF IInv
  <1> QED
    BY <1>1, Invariant, PTL

\* The capacity in the subnet's row is the number of free addresses of its
\* pools plus the number of its reservations.
THEOREM SubnetCapacityStaysExact == Spec => []SubnetCapacityExact
  <1>1. IInv => SubnetCapacityExact
    BY DEF IInv
  <1> QED
    BY <1>1, Invariant, PTL

-----------------------------------------------------------------------------
(***************************************************************************)
(* The words of the two modules                                            *)
(***************************************************************************)
LEMMA RangesAgree ==
    ASSUME NEW p \in PoolRow
    PROVE  Plan!Addresses(p) = Ips(p)
  BY OverlapsIff DEF Plan!Addresses, Ips, Ip, PoolRow

LEMMA ApartAgrees ==
    ASSUME NEW p \in PoolRow, NEW rows, rows \subseteq PoolRow,
           OverlappingWith(rows, p) = {}
    PROVE  Plan!Apart(p, rows)
  <1> SUFFICES ASSUME NEW q \in rows
               PROVE  Plan!Addresses(p) \cap Plan!Addresses(q) = {}
    BY DEF Plan!Apart
  <1>1. ~Overlaps(q, p)
    BY DEF OverlappingWith
  <1>2. p.begin \in Int /\ p.end \in Int /\ q.begin \in Int /\ q.end \in Int
    BY RowsAssumption DEF PoolRow, Ip
  <1> QED
    BY <1>1, <1>2, RangesAgree DEF Overlaps, Ips

LEMMA SizesAgree ==
    ASSUME NEW S
    PROVE  Plan!Cardinality(S) = Cardinality(S)
  BY DEF Plan!Cardinality, Cardinality

\* The capacities of AddressPlan for the rows d.
CountedOf(d) ==
    [pool |-> [p \in d.pools |-> Cardinality(FreeOf(d, p))],
     subnet |-> Cardinality({x \in d.pools \X Ip : x[2] \in FreeOf(d, x[1])})
                    + Cardinality(d.reservations)]

\* Exact books are counted books.
LEMMA ExactIsCounted ==
    ASSUME NEW d, Books(d)
    PROVE  [pool |-> d.poolCapacity, subnet |-> d.capacity] = CountedOf(d)
  <1>1. d.poolCapacity = [p \in d.pools |-> Cardinality(FreeOf(d, p))]
    BY BooksElim
  <1>2. FreeIps(d) = {x \in d.pools \X Ip : x[2] \in FreeOf(d, x[1])}
    BY DEF FreeIps, FreeOf
  <1>3. d.capacity = Cardinality(FreeIps(d)) + Cardinality(d.reservations)
    BY DEF Books, ExactSubnet
  <1> QED
    BY <1>1, <1>2, <1>3 DEF CountedOf

LEMMA FreeAgrees ==
    ASSUME Books(db), NEW p \in PoolRow
    PROVE  Plan!FreeIn(p) = FreeOf(db, p)
  <1>1. \A r \in db.reservedPools : Plan!Addresses(r) = Ips(r)
    BY RangesAgree, BooksElim
  <1> QED
    BY <1>1, RangesAgree
    DEF Plan!FreeIn, Plan!IsReserved, FreeOf, Free, Containing

\* The same after a step.
LEMMA FreeAgreesAfter ==
    ASSUME Books(db'), NEW p \in PoolRow
    PROVE  Plan!FreeIn(p)' = FreeOf(db', p)
  <1>1. \A r \in db'.reservedPools : Plan!Addresses(r) = Ips(r)
    BY RangesAgree, BooksElim
  <1> QED
    BY <1>1, RangesAgree
    DEF Plan!FreeIn, Plan!IsReserved, Plan!Addresses, FreeOf, Free, Containing

LEMMA CountedAgrees ==
    ASSUME Books(db)
    PROVE  Plan!Counted = CountedOf(db)
  <1>1. \A p \in db.pools : Plan!FreeIn(p) = FreeOf(db, p)
    BY FreeAgrees, BooksElim
  <1> QED
    BY <1>1, SizesAgree DEF Plan!Counted, CountedOf

LEMMA CountedAgreesAfter ==
    ASSUME Books(db')
    PROVE  Plan!Counted' = CountedOf(db')
  <1>1. \A p \in db'.pools : Plan!FreeIn(p)' = FreeOf(db', p)
    BY FreeAgreesAfter, BooksElim
  <1> QED
    BY <1>1, SizesAgree DEF Plan!Counted, CountedOf

-----------------------------------------------------------------------------
(***************************************************************************)
(* Initial states and steps                                                *)
(***************************************************************************)
LEMMA InitImplements == Init => Plan!Init
  <1> SUFFICES ASSUME Init PROVE Plan!Init
    OBVIOUS
  <1>1. Books(db)
    BY InitIInv, IInvIsBooks
  <1>2. [pool |-> db.poolCapacity, subnet |-> db.capacity] = Plan!Counted
    BY <1>1, ExactIsCounted, CountedAgrees
  <1> QED
    BY <1>2 DEF Init, Childless, Plan!Init

\* What a request leaves of the rows that it does not name.
LEMMA PoolFields ==
    ASSUME Books(db), NEW p \in PoolRow
    PROVE  /\ CreatePool4(db, db, p).pools = db.pools \cup {p}
           /\ CreatePool4(db, db, p).reservedPools = db.reservedPools
           /\ CreatePool4(db, db, p).reservations = db.reservations
           /\ DeletePool4(db, db, p).pools = db.pools \ {p}
           /\ DeletePool4(db, db, p).reservedPools = db.reservedPools
           /\ DeletePool4(db, db, p).reservations = db.reservations
           /\ CreateReservedPool4(db, db, p).pools = db.pools
           /\ CreateReservedPool4(db, db, p).reservedPools = db.reservedPools \cup {p}
           /\ CreateReservedPool4(db, db, p).reservations = db.reservations
           /\ DeleteReservedPool4(db, db, p).pools = db.pools
           /\ DeleteReservedPool4(db, db, p).reservedPools = db.reservedPools \ {p}
           /\ DeleteReservedPool4(db, db, p).reservations = db.reservations
  <1>1. db = [pools |-> db.pools, poolCapacity |-> db.poolCapacity,
              reservedPools |-> db.reservedPools,
              reservations |-> db.reservations, capacity |-> db.capacity]
    BY BooksElim
  <1> QED
    BY <1>1 DEF CreatePool4, DeletePool4, CreateReservedPool4, DeleteReservedPool4,
                WithPoolCapacity

LEMMA ReservationFields ==
    ASSUME Books(db), NEW v \in ReservationRow
    PROVE  /\ \A e \in CreateReservation4(db, db, v) :
                 /\ e.pools = db.pools /\ e.reservedPools = db.reservedPools
                 /\ e.reservations = db.reservations \cup {v}
           /\ \A e \in DeleteReservation4(db, db, v) :
                 /\ e.pools = db.pools /\ e.reservedPools = db.reservedPools
                 /\ e.reservations = db.reservations \ {v}
  <1>1. db = [pools |-> db.pools, poolCapacity |-> db.poolCapacity,
              reservedPools |-> db.reservedPools,
              reservations |-> db.reservations, capacity |-> db.capacity]
    BY BooksElim
  <1> QED
    BY <1>1 DEF CreateReservation4, DeleteReservation4, WithPoolCapacity

\* The guard of a deletion: a stored capacity of 0 means no free address.
LEMMA DeletionIsSafe ==
    ASSUME Books(db), NEW p \in PoolRow, CanDeletePool4(db, p, leases)
    PROVE  \/ Plan!FreeIn(p) = {}
           \/ \A l \in leases : l.ip \in Plan!Addresses(p) => Plan!IsReserved(l.ip)
  <1>1. p \in db.pools /\ Pool4Leases(db, p, leases) = {}
    BY DEF CanDeletePool4
  <1>2. CASE db.poolCapacity[p] = 0
    <2>1. Cardinality(FreeOf(db, p)) = 0
      BY <1>1, <1>2, BooksElim
    <2>2. IsFiniteSet(FreeOf(db, p))
      BY FreeOfCount, IpCount, FS_Subset
    <2>3. FreeOf(db, p) = {}
      BY <2>1, <2>2, FS_EmptySet
    <2> QED
      BY <2>3, FreeAgrees
  <1>3. CASE db.poolCapacity[p] # 0
    BY <1>1, <1>3, RangesAgree DEF Pool4Leases, Plan!IsReserved
  <1> QED
    BY <1>2, <1>3

\* A pool or a reserved pool is made or deleted.
LEMMA PoolStep ==
    ASSUME Books(db), NEW p \in PoolRow,
           \/ Pool4Create(p) \/ Pool4Delete(p)
           \/ ReservedPool4Create(p) \/ ReservedPool4Delete(p)
    PROVE  \/ Plan!AddPool(p) \/ FullPoolDropped(p) \/ ReservedAnewDropped(p)
           \/ Plan!AddReservedPool(p) \/ Plan!RemoveReservedPool(p)
  <1>1. db.pools \subseteq PoolRow /\ db.reservedPools \subseteq PoolRow
    BY BooksElim
  <1>2. CASE Pool4Create(p)
    <2>1. Plan!Apart(p, db.pools)
      BY <1>1, <1>2, ApartAgrees DEF Pool4Create, CanCreatePool4
    <2> QED
      BY <1>2, <2>1, PoolFields DEF Pool4Create, Plan!AddPool
  <1>3. CASE Pool4Delete(p)
    <2>1. CanDeletePool4(db, p, leases) /\ p \in db.pools
      BY <1>3 DEF Pool4Delete, CanDeletePool4
    <2>2. Plan!DropPool(p)
      BY <1>3, <2>1, PoolFields DEF Pool4Delete, Plan!DropPool
    <2> QED
      BY <2>1, <2>2, DeletionIsSafe DEF FullPoolDropped, ReservedAnewDropped
  <1>4. CASE ReservedPool4Create(p)
    <2>1. /\ OverlappingWith(db.reservedPools, p) = {}
          /\ ReservationsIn(db, p) = {}
      BY <1>4 DEF ReservedPool4Create, CanCreateReservedPool4
    <2>2. Plan!Apart(p, db.reservedPools)
      BY <1>1, <2>1, ApartAgrees
    <2>3. \A ip \in Plan!Addresses(p) : ~Plan!IsReserved(ip)
      BY <2>1, RangesAgree DEF ReservationsIn, Plan!IsReserved
    <2> QED
      BY <1>4, <2>2, <2>3, PoolFields DEF ReservedPool4Create, Plan!AddReservedPool
  <1>5. CASE ReservedPool4Delete(p)
    BY <1>5, PoolFields
    DEF ReservedPool4Delete, CanDeleteReservedPool4, Plan!RemoveReservedPool
  <1> QED
    BY <1>2, <1>3, <1>4, <1>5

\* A reservation is made or deleted, by a request or by the lease consumer.
LEMMA ReservationStep ==
    ASSUME Books(db), leases \subseteq LeaseRow, NEW v \in ReservationRow
    PROVE  /\ Reservation4Create(v) \/ AutoReservation4Create(v)
                 => Plan!AddReservation(v)
           /\ Reservation4Delete(v) => Plan!RemoveReservation(v)
  <1>1. ASSUME Reservation4Create(v) \/ AutoReservation4Create(v)
        PROVE  Plan!AddReservation(v)
    <2>1. /\ CanCreateReservation4(db, v)
          /\ db' \in CreateReservation4(db, db, v)
          /\ leases' = leases
      BY <1>1 DEF Reservation4Create, AutoReservation4Create
    <2>2. \A r \in db.reservedPools : v.ip \notin Plan!Addresses(r)
      BY <2>1, RangesAgree, BooksElim DEF CanCreateReservation4, Containing
    <2> QED
      BY <2>1, <2>2, ReservationFields
      DEF CanCreateReservation4, Plan!AddReservation, Plan!IsReserved
  <1>2. ASSUME Reservation4Delete(v)
        PROVE  Plan!RemoveReservation(v)
    <2>1. /\ v \in db.reservations
          /\ [ip |-> v.ip, client |-> v.client] \notin leases
          /\ db' \in DeleteReservation4(db, db, v)
          /\ leases' = leases
      BY <1>2 DEF Reservation4Delete, CanDeleteReservation4
    <2>2. \A l \in LeaseRow : l = [ip |-> l.ip, client |-> l.client]
      BY DEF LeaseRow
    <2> QED
      BY <2>1, <2>2, ReservationFields DEF Plan!RemoveReservation
  <1> QED
    BY <1>1, <1>2

\* The server leases an address, or a lease ends.
LEMMA LeaseStep ==
    ASSUME Books(db), NEW l \in LeaseRow
    PROVE  /\ GrantLease(l) => Plan!Lease(l)
           /\ EndLease(l) => Plan!End(l)
  <1>1. ASSUME GrantLease(l)
        PROVE  Plan!Lease(l)
    <2>1. CASE \E v \in db.reservations : v.ip = l.ip
      BY <1>1, <2>1 DEF GrantLease, Grantable, Plan!Lease, Plan!HeldByReservation
    <2>2. CASE ~ \E v \in db.reservations : v.ip = l.ip
      <3>1. /\ Containing(db.pools, l.ip) # {}
            /\ Containing(db.reservedPools, l.ip) = {}
        BY <1>1, <2>2 DEF GrantLease, Grantable
      <3>2. PICK p \in db.pools : l.ip \in Ips(p)
        BY <3>1 DEF Containing
      <3>3. l.ip \in FreeOf(db, p)
        BY <2>2, <3>1, <3>2 DEF FreeOf, Free
      <3>4. l.ip \in Plan!FreeIn(p)
        BY <3>3, FreeAgrees, BooksElim
      <3> QED
        BY <1>1, <3>4 DEF GrantLease, Plan!Lease
    <2> QED
      BY <2>1, <2>2
  <1>2. ASSUME EndLease(l)
        PROVE  Plan!End(l)
    BY <1>2 DEF EndLease, Plan!End
  <1> QED
    BY <1>1, <1>2

LEMMA StepImplements ==
    ASSUME IInv, IInv', Next
    PROVE  Plan!Next \/ DroppedInUse
  <1>1. Books(db) /\ leases \subseteq LeaseRow
    BY IInvIsBooks
  <1>2. Books(db')
    BY DEF IInv, TypeOK, PoolsDisjoint, ReservedExclusive, PoolCapacityExact,
           SubnetCapacityExact, Books
  <1>3. Plan!Recounted
    BY <1>2, ExactIsCounted, CountedAgreesAfter DEF Plan!Recounted
  <1>4. ASSUME NEW p \in PoolRow,
               \/ Pool4Create(p) \/ Pool4Delete(p)
               \/ ReservedPool4Create(p) \/ ReservedPool4Delete(p)
        PROVE  Plan!Next \/ DroppedInUse
    BY <1>1, <1>3, <1>4, PoolStep DEF Plan!Next, DroppedInUse
  <1>5. ASSUME NEW v \in ReservationRow,
               \/ Reservation4Create(v) \/ Reservation4Delete(v)
               \/ AutoReservation4Create(v)
        PROVE  Plan!Next \/ DroppedInUse
    BY <1>1, <1>3, <1>5, ReservationStep DEF Plan!Next
  <1>6. ASSUME NEW ip \in Ip, AutoReservation4Delete(ip)
        PROVE  Plan!Next \/ DroppedInUse
    <2>1. PICK v \in db.reservations :
              /\ v.auto
              /\ db' \in DeleteReservation4(db, db, v)
              /\ leases' = leases
      BY <1>6 DEF AutoReservation4Delete, CanAutoDeleteReservation4
    <2>2. v \in ReservationRow
      BY <1>1, BooksElim
    <2>3. Plan!RemoveReservation(v)
      BY <1>1, <2>1, <2>2, ReservationFields DEF Plan!RemoveReservation
    <2> QED
      BY <1>3, <2>2, <2>3 DEF Plan!Next
  <1>7. ASSUME NEW l \in LeaseRow, GrantLease(l) \/ EndLease(l)
        PROVE  Plan!Next \/ DroppedInUse
    BY <1>1, <1>3, <1>7, LeaseStep DEF Plan!Next
  <1>8. ASSUME SubnetDelete
        PROVE  Plan!Next \/ DroppedInUse
    <2>1. Plan!Counted.subnet = db.capacity
      BY <1>1, ExactIsCounted, CountedAgrees
    <2>2. Plan!DropSubnet /\ (db.capacity = 0 \/ leases = {})
      BY <1>8 DEF SubnetDelete, Childless, Plan!DropSubnet
    <2> QED
      BY <1>3, <2>1, <2>2 DEF Plan!Next, Plan!RemoveSubnet, DroppedInUse, FullSubnetDropped
  <1> QED
    BY <1>1, <1>4, <1>5, <1>6, <1>7, <1>8 DEF Next

\* The handlers of pools, reserved pools and reservations, which change stored
\* capacities by differences and trust a stored 0, do for every subnet, any
\* number of rows, clients and leases what a plan with counted capacities does,
\* and delete no pool or subnet in use but where nothing is free by that count, or
\* where the leased addresses are reserved.
THEOREM PlanIsImplemented == Spec => ImplementsAddressPlan
  <1>1. IInv /\ IInv' /\ [Next]_vars => [Plan!Next \/ DroppedInUse]_(Plan!vars)
    <2> SUFFICES ASSUME IInv, IInv', [Next]_vars
                 PROVE  [Plan!Next \/ DroppedInUse]_(Plan!vars)
      OBVIOUS
    <2>1. CASE Next
      BY <2>1, StepImplements
    <2>2. CASE UNCHANGED vars
      BY <2>2 DEF vars, Plan!vars
    <2> QED
      BY <2>1, <2>2
  <1> QED
    BY <1>1, InitImplements, Invariant, PTL DEF Spec, ImplementsAddressPlan

-----------------------------------------------------------------------------
(***************************************************************************)
(* Lookups of addresses                                                    *)
(***************************************************************************)
LEMMA LeasesFinite == Spec => []IsFiniteSet(leases)
  <1>1. Init => IsFiniteSet(leases)
    BY FS_EmptySet DEF Init
  <1>2. IsFiniteSet(leases) /\ [Next]_vars => IsFiniteSet(leases)'
    <2> SUFFICES ASSUME IsFiniteSet(leases), [Next]_vars
                 PROVE  IsFiniteSet(leases')
      OBVIOUS
    <2>1. ASSUME NEW l, leases' = leases \cup {l}
          PROVE  IsFiniteSet(leases')
      BY <2>1, FS_AddElement
    <2>2. ASSUME leases' \subseteq leases
          PROVE  IsFiniteSet(leases')
      BY <2>2, FS_Subset
    <2>3. leases' \subseteq leases \/ \E l \in LeaseRow : leases' = leases \cup {l}
      BY DEF Next, vars, Pool4Create, Pool4Delete, ReservedPool4Create, ReservedPool4Delete,
             Reservation4Create, Reservation4Delete, AutoReservation4Create,
             AutoReservation4Delete, SubnetDelete, GrantLease, EndLease
    <2> QED
      BY <2>1, <2>2, <2>3
  <1> QED
    BY <1>1, <1>2, PTL DEF Spec

\* The rows that the capacities count are those that decide the type of an address.
LEMMA TypeOfAddress ==
    ASSUME NEW d, Books(d), NEW ip \in Ip
    PROVE  /\ AddressType(d, ip) = "dynamic" <=> ip \in PoolIps(d)
           /\ AddressType(d, ip) = "reservation" <=> ip \in ReservedIps(d)
           /\ \A p \in d.pools : ip \in Ips(p) =>
                 (AddressType(d, ip) = "dynamic" <=> ip \in FreeOf(d, p))
  BY DEF AddressType, PoolIps, ReservedIps, FreeOf, Free, Containing

\* What the gRPC service tells others of an address is what the stored capacities
\* count, for one address and for many, and a capacity of 0 hides no dynamic lease.
THEOREM LookupsAgree == Spec => []LookupsMatchBooks
  <1>1. IInv /\ IsFiniteSet(leases) => LookupsMatchBooks
    <2> SUFFICES ASSUME Books(db), leases \subseteq LeaseRow, IsFiniteSet(leases)
                 PROVE  LookupsMatchBooks
      BY IInvIsBooks
    <2>1. /\ db.pools \subseteq PoolRow
          /\ db.poolCapacity = [p \in db.pools |-> Cardinality(FreeOf(db, p))]
          /\ db.capacity = Cardinality(PoolIps(db)) + Cardinality(ReservedIps(db))
          /\ db.reservations \subseteq ReservationRow
      BY BooksElim
    <2>2. ASSUME NEW p \in db.pools
          PROVE  db.poolCapacity[p]
                   = Cardinality({ip \in Ips(p) : AddressType(db, ip) = "dynamic"})
      <3>1. Ips(p) \subseteq Ip
        BY <2>1, OverlapsIff
      <3>2. {ip \in Ips(p) : AddressType(db, ip) = "dynamic"} = FreeOf(db, p)
        BY <3>1, TypeOfAddress DEF FreeOf
      <3> QED
        BY <2>1, <3>2
    <2>3. /\ PoolIps(db) \subseteq Ip /\ ReservedIps(db) \subseteq Ip
          /\ PoolIps(db) \cap ReservedIps(db) = {}
      BY <2>1 DEF PoolIps, ReservedIps, Free, ReservationRow
    <2>4. db.capacity =
             Cardinality({ip \in Ip : AddressType(db, ip) \in {"dynamic", "reservation"}})
      <3>1. {ip \in Ip : AddressType(db, ip) \in {"dynamic", "reservation"}}
              = PoolIps(db) \cup ReservedIps(db)
        BY <2>3, TypeOfAddress
      <3> QED
        BY <2>1, <2>3, <3>1, DisjointCount
    <2>5. ASSUME NEW ips \in SUBSET Ip
          PROVE  /\ \A ip \in ips : BatchTypes(db, ips)[ip] \in {AddressType(db, ip), "exclusion"}
                 /\ BatchLeases(db, leases, ips) \subseteq UNION {Leased(leases, ip) : ip \in ips}
      <3>1. \A ip \in ips : BatchTypes(db, ips)[ip] \in {AddressType(db, ip), "exclusion"}
        BY DEF BatchTypes, Reserved
      <3>2. \A l \in BatchLeases(db, leases, ips) : l.ip \in ips /\ l \in Leased(leases, l.ip)
        BY DEF BatchLeases, Leased
      <3> QED
        BY <3>1, <3>2
    <2>6. ASSUME LeasesCount(db, leases) = 0, NEW l \in leases
          PROVE  AddressType(db, l.ip) # "dynamic"
      <3>1. Cardinality(leases) # 0
        BY FS_EmptySet
      <3>2. db.capacity = 0
        BY <2>6, <3>1 DEF LeasesCount
      <3>3. Cardinality(PoolIps(db)) = 0
        BY <2>1, <2>3, <3>2, SubsetCount
      <3>4. PoolIps(db) = {}
        BY <2>3, <3>3, SubsetCount, FS_EmptySet
      <3> QED
        BY <3>4, TypeOfAddress DEF LeaseRow
    <2> QED
      BY <2>2, <2>4, <2>5, <2>6 DEF LookupsMatchBooks
  <1> QED
    BY <1>1, Invariant, LeasesFinite, PTL

-----------------------------------------------------------------------------
(***************************************************************************)
(* Subnet4Concurrent: what a request knows                                 *)
(***************************************************************************)
\* The checks that request q has passed on rows d; an import makes its own later.
Passed(d, q) ==
    /\ q.op = "Pool4Create" => CanCreatePool4(d, q.row)
    /\ q.op = "Pool4Delete" => q.row \in d.pools
    /\ q.op = "ReservedPool4Create" => CanCreateReservedPool4(d, q.row)
    /\ q.op = "ReservedPool4Delete" => q.row \in d.reservedPools
    /\ q.op = "Reservation4Create" => CanCreateReservation4(d, q.row)
    /\ q.op = "Reservation4Delete" => q.row \in d.reservations

InOrder(t) ==
    /\ t = [busy |-> t.busy, request |-> t.request, read |-> t.read]
    /\ t.request \in Requests
    /\ t.request.op \notin Imports => t.busy
    /\ Passed(t.read, t.request)
    /\ t.read.reservedPools \subseteq PoolRow

ConcurrentIInv ==
    /\ tx = [w \in Workers |-> tx[w]]
    /\ ~raced => /\ Books(committed)
                 /\ \A w \in Workers : tx[w] # Idle => InOrder(tx[w])

-----------------------------------------------------------------------------
(***************************************************************************)
(* Equal footprints                                                        *)
(***************************************************************************)
LEMMA RequestType ==
    ASSUME NEW q \in Requests
    PROVE  \/ /\ q.op \in {"Pool4Create", "Pool4Delete", "ReservedPool4Create",
                           "ReservedPool4Delete"}
              /\ q.row \in PoolRow
           \/ /\ q.op \in {"Reservation4Create", "Reservation4Delete", "Reservation4Import"}
              /\ q.row \in ReservationRow
  BY DEF Requests

\* Equal sets of pools with their capacities are equal pools with equal capacities.
LEMMA PairsAgree ==
    ASSUME NEW c, NEW d, NEW P, NEW Q, PoolsWithCapacity(c, P) = PoolsWithCapacity(d, Q)
    PROVE  P = Q /\ \A p \in P : c.poolCapacity[p] = d.poolCapacity[p]
  <1>1. ASSUME NEW p \in P
        PROVE  p \in Q /\ c.poolCapacity[p] = d.poolCapacity[p]
    <2>1. <<p, c.poolCapacity[p]>> \in PoolsWithCapacity(d, Q)
      BY DEF PoolsWithCapacity
    <2> QED
      BY <2>1 DEF PoolsWithCapacity
  <1>2. ASSUME NEW p \in Q
        PROVE  p \in P
    <2>1. <<p, d.poolCapacity[p]>> \in PoolsWithCapacity(c, P)
      BY DEF PoolsWithCapacity
    <2> QED
      BY <2>1 DEF PoolsWithCapacity
  <1> QED
    BY <1>1, <1>2

\* A range overlaps itself, and every row it shares an address with.
LEMMA OverlapFacts ==
    ASSUME NEW p \in PoolRow
    PROVE  /\ Overlaps(p, p)
           /\ \A rows : rows \subseteq PoolRow =>
                 SharedIps(rows, p) = SharedIps(OverlappingWith(rows, p), p)
  <1>1. Overlaps(p, p)
    BY RowsAssumption DEF Overlaps, PoolRow, Ip
  <1>2. ASSUME NEW rows, rows \subseteq PoolRow
        PROVE  SharedIps(rows, p) = SharedIps(OverlappingWith(rows, p), p)
    <2>1. \A q \in rows : OverlappingWith(rows, p) \subseteq rows
      BY DEF OverlappingWith
    <2>2. ASSUME NEW q \in rows, NEW ip \in Ip, ip \in Ips(q) \cap Ips(p)
          PROVE  q \in OverlappingWith(rows, p)
      <3>1. q \in PoolRow /\ ip \in Ips(q) /\ ip \in Ips(p)
        BY <1>2, <2>2
      <3>2. Overlaps(q, p)
        BY <3>1, OverlapsIff
      <3> QED
        BY <3>2 DEF OverlappingWith
    <2> QED
      BY <2>1, <2>2 DEF SharedIps, OverlappingWith
  <1> QED
    BY <1>1, <1>2

LEMMA CreatePool4Agrees ==
    ASSUME NEW c, NEW d, NEW q, q.op = "Pool4Create", q.row \in PoolRow,
           Footprint(c, q) = Footprint(d, q), Passed(d, q),
           c.reservedPools \subseteq PoolRow, d.reservedPools \subseteq PoolRow
    PROVE  CanCreatePool4(c, q.row) /\ CreatePool4(c, d, q.row) = CreatePool4(c, c, q.row)
  <1>1. /\ OverlappingWith(c.pools, q.row) = OverlappingWith(d.pools, q.row)
        /\ OverlappingWith(c.reservedPools, q.row) = OverlappingWith(d.reservedPools, q.row)
        /\ ReservationsIn(c, q.row) = ReservationsIn(d, q.row)
        /\ c.capacity = d.capacity
    BY DEF Footprint
  <1>2. CanCreatePool4(c, q.row)
    BY <1>1 DEF Passed, CanCreatePool4
  <1>3. SharedIps(c.reservedPools, q.row) = SharedIps(d.reservedPools, q.row)
    BY <1>1, OverlapFacts
  <1>4. Pool4Capacity(c, q.row) = Pool4Capacity(d, q.row)
    BY <1>1, <1>3 DEF Pool4Capacity
  <1> QED
    BY <1>1, <1>2, <1>4 DEF CreatePool4

LEMMA DeletePool4Agrees ==
    ASSUME NEW c, NEW d, NEW q, q.op = "Pool4Delete",
           Footprint(c, q) = Footprint(d, q), Passed(d, q)
    PROVE  q.row \in c.pools /\ DeletePool4(c, d, q.row) = DeletePool4(c, c, q.row)
  <1>1. /\ PoolsWithCapacity(c, c.pools \cap {q.row}) = PoolsWithCapacity(d, d.pools \cap {q.row})
        /\ c.capacity = d.capacity
    BY DEF Footprint
  <1>2. q.row \in d.pools \cap {q.row}
    BY DEF Passed
  <1>3. q.row \in c.pools /\ c.poolCapacity[q.row] = d.poolCapacity[q.row]
    BY <1>1, <1>2, PairsAgree
  <1> QED
    BY <1>1, <1>3 DEF DeletePool4

LEMMA ReservedPool4Agrees ==
    ASSUME NEW c, NEW d, NEW q, q.row \in PoolRow,
           q.op \in {"ReservedPool4Create", "ReservedPool4Delete"},
           Footprint(c, q) = Footprint(d, q), Passed(d, q)
    PROVE  /\ q.op = "ReservedPool4Create" =>
                 /\ CanCreateReservedPool4(c, q.row)
                 /\ CreateReservedPool4(c, d, q.row) = CreateReservedPool4(c, c, q.row)
           /\ q.op = "ReservedPool4Delete" =>
                 /\ q.row \in c.reservedPools
                 /\ DeleteReservedPool4(c, d, q.row) = DeleteReservedPool4(c, c, q.row)
  <1> DEFINE hit == OverlappingWith(c.pools, q.row)
  <1>1. /\ PoolsWithCapacity(c, hit) = PoolsWithCapacity(d, OverlappingWith(d.pools, q.row))
        /\ OverlappingWith(c.reservedPools, q.row) = OverlappingWith(d.reservedPools, q.row)
        /\ ReservationsIn(c, q.row) = ReservationsIn(d, q.row)
        /\ c.capacity = d.capacity
    BY DEF Footprint
  <1>2. /\ hit = OverlappingWith(d.pools, q.row)
        /\ \A p \in hit : c.poolCapacity[p] = d.poolCapacity[p]
    BY <1>1, PairsAgree
  <1>3. ASSUME q.op = "ReservedPool4Create"
        PROVE  /\ CanCreateReservedPool4(c, q.row)
               /\ CreateReservedPool4(c, d, q.row) = CreateReservedPool4(c, c, q.row)
    <2>1. CanCreateReservedPool4(c, q.row)
      BY <1>1, <1>3 DEF Passed, CanCreateReservedPool4
    <2>2. [p \in hit |-> Minus(c.poolCapacity[p], ReservedCount(p, q.row))]
            = [p \in hit |-> Minus(d.poolCapacity[p], ReservedCount(p, q.row))]
      BY <1>2
    <2> HIDE DEF hit
    <2> QED
      BY <1>1, <1>2, <2>1, <2>2 DEF CreateReservedPool4, hit
  <1>4. ASSUME q.op = "ReservedPool4Delete"
        PROVE  /\ q.row \in c.reservedPools
               /\ DeleteReservedPool4(c, d, q.row) = DeleteReservedPool4(c, c, q.row)
    <2>1. q.row \in OverlappingWith(d.reservedPools, q.row)
      BY <1>4, OverlapFacts DEF Passed, OverlappingWith
    <2>2. q.row \in c.reservedPools
      BY <1>1, <2>1 DEF OverlappingWith
    <2>3. [p \in hit |-> Plus(c.poolCapacity[p], ReservedCount(p, q.row))]
            = [p \in hit |-> Plus(d.poolCapacity[p], ReservedCount(p, q.row))]
      BY <1>2
    <2> HIDE DEF hit
    <2> QED
      BY <1>1, <1>2, <2>2, <2>3 DEF DeleteReservedPool4, hit
  <1> QED
    BY <1>3, <1>4

\* The rows that the requests for a reservation look at.
Client(d, v) == {u \in d.reservations : u.ip = v.ip \/ u.client = v.client}

LEMMA ReservationFootprint ==
    ASSUME NEW c, NEW d, NEW q,
           q.op \in {"Reservation4Create", "Reservation4Delete", "Reservation4Import"},
           Footprint(c, q) = Footprint(d, q)
    PROVE  /\ Containing(c.pools, q.row.ip) = Containing(d.pools, q.row.ip)
           /\ \A p \in Containing(c.pools, q.row.ip) : c.poolCapacity[p] = d.poolCapacity[p]
           /\ Containing(c.reservedPools, q.row.ip) = Containing(d.reservedPools, q.row.ip)
           /\ Client(c, q.row) = Client(d, q.row)
           /\ Containing(c.pools, q.row.ip) = {} \/ q.op = "Reservation4Import"
                 => c.capacity = d.capacity
           /\ CanCreateReservation4(d, q.row) <=> CanCreateReservation4(c, q.row)
           /\ q.row \in d.reservations => q.row \in c.reservations
  <1> DEFINE hit(e) == Containing(e.pools, q.row.ip)
             seen(e) == <<PoolsWithCapacity(e, hit(e)), Containing(e.reservedPools, q.row.ip),
                          Client(e, q.row),
                          IF hit(e) = {} \/ q.op \in Imports THEN e.capacity ELSE 0>>
  <1>1. Footprint(c, q) = seen(c) /\ Footprint(d, q) = seen(d)
    BY DEF Footprint, Client, Imports
  <1>2. seen(c) = seen(d)
    BY <1>1
  <1>3. /\ PoolsWithCapacity(c, hit(c)) = PoolsWithCapacity(d, hit(d))
        /\ Containing(c.reservedPools, q.row.ip) = Containing(d.reservedPools, q.row.ip)
        /\ Client(c, q.row) = Client(d, q.row)
        /\ (IF hit(c) = {} \/ q.op \in Imports THEN c.capacity ELSE 0)
             = (IF hit(d) = {} \/ q.op \in Imports THEN d.capacity ELSE 0)
    BY <1>2
  <1>4. hit(c) = hit(d) /\ \A p \in hit(c) : c.poolCapacity[p] = d.poolCapacity[p]
    BY <1>3, PairsAgree
  <1>5. hit(c) = {} \/ q.op = "Reservation4Import" => c.capacity = d.capacity
    BY <1>3, <1>4 DEF Imports
  <1>6. \A e \in {c, d} : CanCreateReservation4(e, q.row) <=>
              Client(e, q.row) = {} /\ Containing(e.reservedPools, q.row.ip) = {}
    BY DEF CanCreateReservation4, Client
  <1>7. q.row \in d.reservations => q.row \in c.reservations
    BY <1>3 DEF Client
  <1> QED
    BY <1>3, <1>4, <1>5, <1>6, <1>7

LEMMA Reservation4Agrees ==
    ASSUME NEW c, NEW d, NEW q, NEW e,
           q.op \in {"Reservation4Create", "Reservation4Delete"},
           Footprint(c, q) = Footprint(d, q), Passed(d, q)
    PROVE  /\ q.op = "Reservation4Create" /\ e \in CreateReservation4(c, d, q.row) =>
                 CanCreateReservation4(c, q.row) /\ e \in CreateReservation4(c, c, q.row)
           /\ q.op = "Reservation4Delete" /\ e \in DeleteReservation4(c, d, q.row) =>
                 q.row \in c.reservations /\ e \in DeleteReservation4(c, c, q.row)
  <1> DEFINE hit == Containing(c.pools, q.row.ip)
             added == [c EXCEPT !.reservations = @ \cup {q.row}]
             removed == [c EXCEPT !.reservations = @ \ {q.row}]
  <1>1. /\ hit = Containing(d.pools, q.row.ip)
        /\ \A p \in hit : c.poolCapacity[p] = d.poolCapacity[p]
        /\ hit = {} => c.capacity = d.capacity
        /\ CanCreateReservation4(d, q.row) => CanCreateReservation4(c, q.row)
        /\ q.row \in d.reservations => q.row \in c.reservations
    BY ReservationFootprint
  <1> HIDE DEF hit
  <1>2. ASSUME q.op = "Reservation4Create", e \in CreateReservation4(c, d, q.row)
        PROVE  CanCreateReservation4(c, q.row) /\ e \in CreateReservation4(c, c, q.row)
    <2>1. CASE hit = {}
      BY <1>1, <1>2, <2>1 DEF CreateReservation4, Passed, hit
    <2>2. CASE hit # {}
      <3>1. PICK p \in hit :
               e = WithPoolCapacity(added, [r \in {p} |-> Minus(d.poolCapacity[p], 1)])
        BY <1>1, <1>2, <2>2 DEF CreateReservation4, hit
      <3>2. e = WithPoolCapacity(added, [r \in {p} |-> Minus(c.poolCapacity[p], 1)])
        BY <1>1, <3>1
      <3>3. e \in CreateReservation4(c, c, q.row)
        BY <2>2, <3>2 DEF CreateReservation4, hit
      <3> QED
        BY <1>1, <1>2, <3>3 DEF Passed
    <2> QED
      BY <2>1, <2>2
  <1>3. ASSUME q.op = "Reservation4Delete", e \in DeleteReservation4(c, d, q.row)
        PROVE  q.row \in c.reservations /\ e \in DeleteReservation4(c, c, q.row)
    <2>1. CASE hit = {}
      BY <1>1, <1>3, <2>1 DEF DeleteReservation4, Passed, hit
    <2>2. CASE hit # {}
      <3>1. PICK p \in hit :
               e = WithPoolCapacity(removed, [r \in {p} |-> Plus(d.poolCapacity[p], 1)])
        BY <1>1, <1>3, <2>2 DEF DeleteReservation4, hit
      <3>2. e = WithPoolCapacity(removed, [r \in {p} |-> Plus(c.poolCapacity[p], 1)])
        BY <1>1, <3>1
      <3>3. e \in DeleteReservation4(c, c, q.row)
        BY <2>2, <3>2 DEF DeleteReservation4, hit
      <3> QED
        BY <1>1, <1>3, <3>3 DEF Passed
    <2> QED
      BY <2>1, <2>2
  <1> QED
    BY <1>2, <1>3

-----------------------------------------------------------------------------
(***************************************************************************)
(* An import passes over pools of capacity 0, but a pool that holds an     *)
(* address nobody has reserved has a capacity; and it adds 0 to the        *)
(* subnet's capacity when there is such a pool.                            *)
(***************************************************************************)
LEMMA PoolHasCapacity ==
    ASSUME NEW c, Books(c), NEW v \in ReservationRow, CanCreateReservation4(c, v),
           NEW p \in Containing(c.pools, v.ip)
    PROVE  c.poolCapacity[p] # 0 /\ Containing(c.pools, v.ip) = {p}
  <1>1. /\ p \in c.pools /\ p \in PoolRow /\ v.ip \in Ips(p) /\ v.ip \in Ip
        /\ c.pools \subseteq PoolRow /\ DisjointRows(c.pools)
    BY BooksElim DEF Containing, ReservationRow
  <1>2. v.ip \in FreeOf(c, p)
    BY <1>1 DEF FreeOf, Free, CanCreateReservation4
  <1>3. Cardinality(FreeOf(c, p)) # 0
    <2>1. IsFiniteSet(FreeOf(c, p))
      BY <1>1, FreeOfCount, SubsetCount
    <2> QED
      BY <1>2, <2>1, FS_EmptySet
  <1>4. c.poolCapacity[p] = Cardinality(FreeOf(c, p))
    BY <1>1, BooksElim
  <1>5. ASSUME NEW r \in Containing(c.pools, v.ip)
        PROVE  r = p
    <2>1. r \in c.pools /\ r \in PoolRow /\ v.ip \in Ips(r)
      BY <1>1 DEF Containing
    <2>2. Overlaps(r, p)
      BY <1>1, <2>1, OverlapsIff
    <2> QED
      BY <1>1, <2>1, <2>2 DEF DisjointRows
  <1> QED
    BY <1>3, <1>4, <1>5

LEMMA ImportBooks ==
    ASSUME NEW c, Books(c), NEW d, NEW q, q.op = "Reservation4Import",
           q.row \in ReservationRow, Footprint(c, q) = Footprint(d, q)
    PROVE  Books(Import(c, d, q.row))
  <1> DEFINE v == q.row
             all == Containing(c.pools, v.ip)
             hit == {p \in Containing(d.pools, v.ip) : d.poolCapacity[p] # 0}
             rest == [p \in hit |-> Minus(d.poolCapacity[p], 1)]
             added == [c EXCEPT !.reservations = @ \cup {v}]
  <1>1. /\ all = Containing(d.pools, v.ip) /\ \A p \in all : c.poolCapacity[p] = d.poolCapacity[p]
        /\ c.capacity = d.capacity
        /\ CanCreateReservation4(d, v) <=> CanCreateReservation4(c, v)
    BY ReservationFootprint
  <1>2. c = [pools |-> c.pools, poolCapacity |-> c.poolCapacity,
             reservedPools |-> c.reservedPools, reservations |-> c.reservations,
             capacity |-> c.capacity]
    BY BooksElim
  <1>3. c.capacity \in 0 .. Word - 1 /\ c.poolCapacity = [p \in c.pools |-> c.poolCapacity[p]]
    BY DEF Books, RowsType
  <1>4. CASE ~CanCreateReservation4(d, v)
    <2>1. Import(c, d, v) = [c EXCEPT !.capacity = d.capacity]
      BY <1>4 DEF Import
    <2>2. Import(c, d, v) = c
      BY <1>1, <1>2, <2>1
    <2> QED
      BY <2>2
  <1>5. CASE CanCreateReservation4(d, v)
    <2>1. CanCreateReservation4(c, v) /\ hit = all
      BY <1>1, <1>5, PoolHasCapacity
    <2>2. Import(c, d, v) = [WithPoolCapacity(added, rest) EXCEPT
                                !.capacity = Plus(d.capacity, IF hit = {} THEN 1 ELSE 0)]
      BY <1>5 DEF Import
    <2>3. /\ added.pools = c.pools /\ added.poolCapacity = c.poolCapacity
          /\ added = [pools |-> c.pools, poolCapacity |-> c.poolCapacity,
                      reservedPools |-> c.reservedPools,
                      reservations |-> c.reservations \cup {v}, capacity |-> c.capacity]
      BY <1>2
    <2>4. CASE all = {}
      <3>1. WithPoolCapacity(added, rest) = added
        BY <1>3, <2>1, <2>3, <2>4 DEF WithPoolCapacity
      <3>2. Import(c, d, v) \in CreateReservation4(c, c, v)
        BY <1>1, <2>1, <2>2, <2>4, <3>1 DEF CreateReservation4
      <3> QED
        BY <2>1, <3>2, CreateReservation4Books
    <2>5. CASE all # {}
      <3>1. PICK p \in all : all = {p}
        BY <2>1, <2>5, PoolHasCapacity
      <3>2. rest = [r \in {p} |-> Minus(c.poolCapacity[p], 1)]
        BY <1>1, <2>1, <3>1
      <3>3. Plus(d.capacity, IF hit = {} THEN 1 ELSE 0) = c.capacity
        BY <1>1, <1>3, <2>1, <2>5, RowsAssumption DEF Plus, Wrap
      <3>4. Import(c, d, v) = WithPoolCapacity(added, rest)
        <4> HIDE DEF rest, hit, v
        <4>1. Import(c, d, v) = [WithPoolCapacity(added, rest) EXCEPT !.capacity = c.capacity]
          BY <2>2, <3>3
        <4> QED
          BY <2>3, <4>1 DEF WithPoolCapacity
      <3>5. Import(c, d, v) \in CreateReservation4(c, c, v)
        BY <2>5, <3>1, <3>2, <3>4 DEF CreateReservation4
      <3> QED
        BY <2>1, <3>5, CreateReservation4Books
    <2> QED
      BY <2>4, <2>5
  <1> QED
    BY <1>4, <1>5

-----------------------------------------------------------------------------
(***************************************************************************)
(* The invariant                                                           *)
(***************************************************************************)

\* A commit whose footprint is unchanged keeps the books.
LEMMA CommitBooks ==
    ASSUME NEW c, Books(c), NEW t, InOrder(t),
           Footprint(c, t.request) = Footprint(t.read, t.request),
           NEW e \in Outcomes(c, t.read, t.request)
    PROVE  Books(e)
  <1> DEFINE q == t.request
             d == t.read
  <1>1. q \in Requests /\ Passed(d, q) /\ d.reservedPools \subseteq PoolRow
    BY DEF InOrder
  <1>2. c.reservedPools \subseteq PoolRow
    BY BooksElim
  <1>3. Footprint(c, q) = Footprint(d, q) /\ e \in Outcomes(c, d, q)
    OBVIOUS
  <1> HIDE DEF q, d
  <1>4. CASE q.op = "Pool4Create"
    <2>1. q.row \in PoolRow /\ e = CreatePool4(c, d, q.row)
      BY <1>1, <1>3, <1>4, RequestType DEF Outcomes, Imports
    <2> QED
      BY <1>1, <1>2, <1>3, <1>4, <2>1, CreatePool4Agrees, CreatePool4Books
  <1>5. CASE q.op = "Pool4Delete"
    <2>1. e = DeletePool4(c, d, q.row)
      BY <1>3, <1>5 DEF Outcomes, Imports
    <2> QED
      BY <1>1, <1>3, <1>5, <2>1, DeletePool4Agrees, DeletePool4Books
  <1>6. CASE q.op = "ReservedPool4Create"
    <2>1. q.row \in PoolRow /\ e = CreateReservedPool4(c, d, q.row)
      BY <1>1, <1>3, <1>6, RequestType DEF Outcomes, Imports
    <2> QED
      BY <1>1, <1>3, <1>6, <2>1, ReservedPool4Agrees, CreateReservedPool4Books
  <1>7. CASE q.op = "ReservedPool4Delete"
    <2>1. q.row \in PoolRow /\ e = DeleteReservedPool4(c, d, q.row)
      BY <1>1, <1>3, <1>7, RequestType DEF Outcomes, Imports
    <2> QED
      BY <1>1, <1>3, <1>7, <2>1, ReservedPool4Agrees, DeleteReservedPool4Books
  <1>8. CASE q.op = "Reservation4Create"
    <2>1. q.row \in ReservationRow /\ e \in CreateReservation4(c, d, q.row)
      BY <1>1, <1>3, <1>8, RequestType DEF Outcomes, Imports
    <2> QED
      BY <1>1, <1>3, <1>8, <2>1, Reservation4Agrees, CreateReservation4Books
  <1>9. CASE q.op = "Reservation4Delete"
    <2>1. e \in DeleteReservation4(c, d, q.row)
      BY <1>3, <1>9 DEF Outcomes, Imports
    <2> QED
      BY <1>1, <1>3, <1>9, <2>1, Reservation4Agrees, DeleteReservation4Books
  <1>10. CASE q.op = "Reservation4Import"
    <2>1. q.row \in ReservationRow /\ e = Import(c, d, q.row)
      BY <1>1, <1>3, <1>10, RequestType DEF Outcomes, Imports
    <2> QED
      BY <1>3, <1>10, <2>1, ImportBooks
  <1> QED
    BY <1>1, <1>4, <1>5, <1>6, <1>7, <1>8, <1>9, <1>10, RequestType

LEMMA ConcurrentInitIInv == ConcurrentInit => ConcurrentIInv
  BY ChildlessBooks DEF ConcurrentInit, ConcurrentIInv

LEMMA BeginKeeps ==
    ASSUME ConcurrentIInv, NEW w \in Workers, NEW q \in Requests, Begin(w, q)
    PROVE  ConcurrentIInv'
  <1> DEFINE t == [busy |-> q.op \notin Imports, request |-> q, read |-> committed]
  <1>1. tx' = [tx EXCEPT ![w] = t] /\ UNCHANGED <<committed, raced>> /\ Accepted(committed, q)
    BY DEF Begin
  <1>2. Passed(committed, q)
    BY <1>1, RequestType
    DEF Accepted, Imports, Passed, CanDeletePool4, CanDeleteReservedPool4, CanDeleteReservation4
  <1>3. t.busy = (q.op \notin Imports) /\ t.request = q /\ t.read = committed
    OBVIOUS
  <1>4. Books(committed) => InOrder(t)
    BY <1>2, <1>3, BooksElim DEF InOrder
  <1> HIDE DEF t
  <1> QED
    BY <1>1, <1>4 DEF ConcurrentIInv

LEMMA ImportReadKeeps ==
    ASSUME ConcurrentIInv, NEW w \in Workers, ImportRead(w)
    PROVE  ConcurrentIInv'
  <1> DEFINE now == [committed EXCEPT !.capacity = tx[w].read.capacity]
             t == [busy |-> TRUE, request |-> tx[w].request, read |-> now]
  <1>1. /\ tx[w] # Idle /\ ~tx[w].busy /\ UNCHANGED <<committed, raced>>
        /\ tx' = [tx EXCEPT ![w] = t]
    BY DEF ImportRead
  <1>2. ASSUME ~raced
        PROVE  InOrder(t)
    <2>1. /\ tx[w] = [busy |-> tx[w].busy, request |-> tx[w].request, read |-> tx[w].read]
          /\ tx[w].request \in Requests /\ tx[w].request.op \in Imports
      BY <1>1, <1>2 DEF ConcurrentIInv, InOrder
    <2>2. now.reservedPools \subseteq PoolRow
      <3>1. Books(committed)
        BY <1>2 DEF ConcurrentIInv
      <3>2. /\ committed = [pools |-> committed.pools, poolCapacity |-> committed.poolCapacity,
                     reservedPools |-> committed.reservedPools,
                     reservations |-> committed.reservations, capacity |-> committed.capacity]
            /\ committed.reservedPools \subseteq PoolRow
        BY <3>1, BooksElim
      <3>3. now.reservedPools = committed.reservedPools
        BY <3>2
      <3> QED
        BY <3>2, <3>3
    <2>3. Passed(now, tx[w].request)
      BY <2>1 DEF Passed, Imports
    <2> HIDE DEF now
    <2> QED
      BY <2>1, <2>2, <2>3 DEF InOrder
  <1>3. tx' = [v \in Workers |-> tx'[v]]
    BY <1>1 DEF ConcurrentIInv
  <1> HIDE DEF t
  <1> QED
    BY <1>1, <1>2, <1>3 DEF ConcurrentIInv

LEMMA CommitKeeps ==
    ASSUME ConcurrentIInv, NEW w \in Workers, Commit(w)
    PROVE  ConcurrentIInv'
  <1>1. /\ tx[w] # Idle /\ tx' = [tx EXCEPT ![w] = Idle]
        /\ committed' \in Outcomes(committed, tx[w].read, tx[w].request)
        /\ ~raced' => ~raced /\ Footprint(committed, tx[w].request)
                                   = Footprint(tx[w].read, tx[w].request)
    BY DEF Commit
  <1>2. ~raced' => Books(committed')
    BY <1>1, CommitBooks DEF ConcurrentIInv
  <1>3. ASSUME ~raced', NEW v \in Workers, tx'[v] # Idle
        PROVE  InOrder(tx'[v])
    BY <1>1, <1>3 DEF ConcurrentIInv
  <1>4. tx' = [v \in Workers |-> tx'[v]]
    BY <1>1 DEF ConcurrentIInv
  <1> QED
    BY <1>2, <1>3, <1>4
    DEF ConcurrentIInv, Books, InOrder, RowsType, ExactPools, ExactSubnet

LEMMA ConcurrentNextIInv == ConcurrentIInv /\ [ConcurrentNext]_concurrentVars => ConcurrentIInv'
  <1> SUFFICES ASSUME ConcurrentIInv, [ConcurrentNext]_concurrentVars PROVE ConcurrentIInv'
    OBVIOUS
  <1>1. ASSUME NEW w \in Workers, Abort(w)
        PROVE  ConcurrentIInv'
    BY <1>1 DEF Abort, ConcurrentIInv
  <1>2. CASE UNCHANGED concurrentVars
    BY <1>2 DEF concurrentVars, ConcurrentIInv
  <1> QED
    BY <1>1, <1>2, BeginKeeps, ImportReadKeeps, CommitKeeps DEF ConcurrentNext

\* Requests may overlap in any way: unless one commits after the rows of its
\* footprint have changed, ranges exclude each other and capacities are exact.
THEOREM UnracedBooksStayExact == ConcurrentSpec => []UnracedBooksExact
  <1>1. ConcurrentIInv => UnracedBooksExact
    BY DEF ConcurrentIInv, Books, UnracedBooksExact
  <1> QED
    BY <1>1, ConcurrentInitIInv, ConcurrentNextIInv, PTL DEF ConcurrentSpec

-----------------------------------------------------------------------------
(***************************************************************************)
(* Subnet4Batch: rows in order                                             *)
(***************************************************************************)

\* The row has the columns of the table.
HasColumns(d) ==
    d = [pools |-> d.pools, poolCapacity |-> d.poolCapacity,
         reservedPools |-> d.reservedPools,
         reservations |-> d.reservations, capacity |-> d.capacity]

\* Every row has its type, pools share no address, and what is reserved is
\* reserved once: what the checks of all handlers compare.
RowsInOrder(d) ==
    /\ HasColumns(d)
    /\ d.pools \subseteq PoolRow
    /\ d.reservedPools \subseteq PoolRow
    /\ d.reservations \subseteq ReservationRow
    /\ DisjointRows(d.pools)
    /\ ExclusiveRows(d)

\* A handler that changes capacities, removes rows or adds rows that the checks
\* have compared with those there are.
LEMMA FewerInOrder ==
    ASSUME NEW d, RowsInOrder(d), NEW e, HasColumns(e),
           e.pools \subseteq d.pools, e.reservedPools \subseteq d.reservedPools,
           e.reservations \subseteq d.reservations
    PROVE  RowsInOrder(e)
  BY DEF RowsInOrder, DisjointRows, ExclusiveRows, Containing

LEMMA PoolAddedInOrder ==
    ASSUME NEW d, RowsInOrder(d), NEW p \in PoolRow, CanCreatePool4(d, p),
           NEW e, HasColumns(e), e.pools = d.pools \cup {p},
           e.reservedPools = d.reservedPools, e.reservations = d.reservations
    PROVE  RowsInOrder(e)
  <1>1. \A q \in d.pools : ~Overlaps(q, p) /\ ~Overlaps(p, q)
    BY OverlapsIff DEF CanCreatePool4, OverlappingWith, RowsInOrder
  <1>2. DisjointRows(e.pools)
    BY <1>1 DEF DisjointRows, RowsInOrder
  <1> QED
    BY <1>2 DEF RowsInOrder, ExclusiveRows

LEMMA ReservedPoolsAddedInOrder ==
    ASSUME NEW d, RowsInOrder(d), NEW rs, rs \subseteq PoolRow, DisjointRows(rs),
           \A r \in rs : CanCreateReservedPool4(d, r),
           NEW e, HasColumns(e), e.pools = d.pools,
           e.reservedPools = d.reservedPools \cup rs, e.reservations = d.reservations
    PROVE  RowsInOrder(e)
  <1>1. \A q \in d.reservedPools, r \in rs : ~Overlaps(q, r) /\ ~Overlaps(r, q)
    BY OverlapsIff DEF CanCreateReservedPool4, OverlappingWith, RowsInOrder
  <1>2. DisjointRows(e.reservedPools)
    BY <1>1 DEF DisjointRows, RowsInOrder, ExclusiveRows
  <1>3. \A v \in e.reservations, r \in e.reservedPools : v.ip \notin Ips(r)
    BY DEF RowsInOrder, ExclusiveRows, Containing, CanCreateReservedPool4, ReservationsIn
  <1> QED
    BY <1>2, <1>3 DEF RowsInOrder, ExclusiveRows, Containing

LEMMA ReservationsAddedInOrder ==
    ASSUME NEW d, RowsInOrder(d), NEW vs, vs \subseteq ReservationRow,
           \A u, v \in vs : u # v => u.client # v.client /\ u.ip # v.ip,
           \A v \in vs : CanCreateReservation4(d, v),
           NEW e, HasColumns(e), e.pools = d.pools,
           e.reservedPools = d.reservedPools, e.reservations = d.reservations \cup vs
    PROVE  RowsInOrder(e)
  <1>1. \A u, v \in e.reservations : u # v => u.ip # v.ip /\ u.client # v.client
    BY DEF CanCreateReservation4, RowsInOrder, ExclusiveRows
  <1>2. \A v \in e.reservations : Containing(e.reservedPools, v.ip) = {}
    BY DEF CanCreateReservation4, RowsInOrder, ExclusiveRows
  <1> QED
    BY <1>1, <1>2 DEF RowsInOrder, ExclusiveRows

\* Every handler leaves the rows in order: what it adds, its checks have compared.
LEMMA Pool4CreateInOrder ==
    ASSUME NEW d, RowsInOrder(d), NEW p \in PoolRow, CanCreatePool4(d, p)
    PROVE  RowsInOrder(CreatePool4(d, d, p))
  <1>0. SUFFICES ASSUME NEW e, e = CreatePool4(d, d, p) PROVE RowsInOrder(e)
    OBVIOUS
  <1>1. HasColumns(e) /\ e.pools = d.pools \cup {p} /\ e.reservedPools = d.reservedPools
        /\ e.reservations = d.reservations
    BY <1>0 DEF CreatePool4, RowsInOrder, HasColumns
  <1> QED
    BY <1>1, PoolAddedInOrder

LEMMA Pool4DeleteInOrder ==
    ASSUME NEW d, RowsInOrder(d), NEW p
    PROVE  RowsInOrder(DeletePool4(d, d, p))
  <1>0. SUFFICES ASSUME NEW e, e = DeletePool4(d, d, p) PROVE RowsInOrder(e)
    OBVIOUS
  <1>1. HasColumns(e) /\ e.pools = d.pools \ {p} /\ e.reservedPools = d.reservedPools
        /\ e.reservations = d.reservations
    BY <1>0 DEF DeletePool4, RowsInOrder, HasColumns
  <1> QED
    BY <1>1, FewerInOrder

LEMMA ReservedPool4CreateInOrder ==
    ASSUME NEW d, RowsInOrder(d), NEW r \in PoolRow, CanCreateReservedPool4(d, r)
    PROVE  RowsInOrder(CreateReservedPool4(d, d, r))
  <1>0. SUFFICES ASSUME NEW e, e = CreateReservedPool4(d, d, r) PROVE RowsInOrder(e)
    OBVIOUS
  <1>1. HasColumns(e) /\ e.pools = d.pools /\ e.reservedPools = d.reservedPools \cup {r}
        /\ e.reservations = d.reservations
    BY <1>0 DEF CreateReservedPool4, WithPoolCapacity, RowsInOrder, HasColumns
  <1>2. DisjointRows({r})
    BY DEF DisjointRows
  <1> QED
    BY <1>1, <1>2, ReservedPoolsAddedInOrder

LEMMA ReservedPool4DeleteInOrder ==
    ASSUME NEW d, RowsInOrder(d), NEW r
    PROVE  RowsInOrder(DeleteReservedPool4(d, d, r))
  <1>0. SUFFICES ASSUME NEW e, e = DeleteReservedPool4(d, d, r) PROVE RowsInOrder(e)
    OBVIOUS
  <1>1. HasColumns(e) /\ e.pools = d.pools /\ e.reservedPools = d.reservedPools \ {r}
        /\ e.reservations = d.reservations
    BY <1>0 DEF DeleteReservedPool4, WithPoolCapacity, RowsInOrder, HasColumns
  <1> QED
    BY <1>1, FewerInOrder

LEMMA Reservation4CreateInOrder ==
    ASSUME NEW d, RowsInOrder(d), NEW v \in ReservationRow, CanCreateReservation4(d, v),
           NEW e \in CreateReservation4(d, d, v)
    PROVE  RowsInOrder(e)
  <1>1. HasColumns(e) /\ e.pools = d.pools /\ e.reservedPools = d.reservedPools
        /\ e.reservations = d.reservations \cup {v}
    BY DEF CreateReservation4, WithPoolCapacity, RowsInOrder, HasColumns
  <1> QED
    BY <1>1, ReservationsAddedInOrder

LEMMA Reservation4DeleteInOrder ==
    ASSUME NEW d, RowsInOrder(d), NEW v, NEW e \in DeleteReservation4(d, d, v)
    PROVE  RowsInOrder(e)
  <1>1. HasColumns(e) /\ e.pools = d.pools /\ e.reservedPools = d.reservedPools
        /\ e.reservations = d.reservations \ {v}
    BY DEF DeleteReservation4, WithPoolCapacity, RowsInOrder, HasColumns
  <1> QED
    BY <1>1, FewerInOrder

\* A batch checks its rows against each other and each against those there are.
LEMMA ReservedPool4BatchInOrder ==
    ASSUME NEW d, RowsInOrder(d), NEW n, NEW rs \in [1 .. n -> PoolRow],
           CanBatchCreateReservedPool4s(d, rs)
    PROVE  RowsInOrder(BatchCreateReservedPool4s(d, rs))
  <1>0. SUFFICES ASSUME NEW e, e = BatchCreateReservedPool4s(d, rs) PROVE RowsInOrder(e)
    OBVIOUS
  <1>1. HasColumns(e) /\ e.pools = d.pools /\ e.reservedPools = d.reservedPools \cup ToSet(rs)
        /\ e.reservations = d.reservations
    BY <1>0 DEF BatchCreateReservedPool4s, WithPoolCapacity, RowsInOrder, HasColumns
  <1>2. ToSet(rs) = {rs[i] : i \in DOMAIN rs} /\ DOMAIN rs = 1 .. n
    BY DEF ToSet
  <1>3. ToSet(rs) \subseteq PoolRow
    BY <1>2
  <1>4. DisjointRows(ToSet(rs))
    BY <1>2 DEF DisjointRows, CanBatchCreateReservedPool4s
  <1>5. \A r \in ToSet(rs) : CanCreateReservedPool4(d, r)
    BY <1>2 DEF CanBatchCreateReservedPool4s
  <1> QED
    BY <1>1, <1>3, <1>4, <1>5, ReservedPoolsAddedInOrder

LEMMA Reservation4BatchInOrder ==
    ASSUME NEW d, RowsInOrder(d), NEW vs, vs \subseteq ReservationRow,
           CanBatchCreateReservation4s(d, vs)
    PROVE  RowsInOrder(BatchCreateReservation4s(d, vs))
  <1>0. SUFFICES ASSUME NEW e, e = BatchCreateReservation4s(d, vs) PROVE RowsInOrder(e)
    OBVIOUS
  <1>1. HasColumns(e) /\ e.pools = d.pools /\ e.reservedPools = d.reservedPools
        /\ e.reservations = d.reservations \cup vs
    BY <1>0 DEF BatchCreateReservation4s, WithPoolCapacity, RowsInOrder, HasColumns
  <1> QED
    BY <1>1, ReservationsAddedInOrder DEF CanBatchCreateReservation4s

LEMMA Reservation4BatchDeleteInOrder ==
    ASSUME NEW d, RowsInOrder(d), NEW vs
    PROVE  RowsInOrder(BatchDeleteReservation4s(d, vs))
  <1>0. SUFFICES ASSUME NEW e, e = BatchDeleteReservation4s(d, vs) PROVE RowsInOrder(e)
    OBVIOUS
  <1>1. HasColumns(e) /\ e.pools = d.pools /\ e.reservedPools = d.reservedPools
        /\ e.reservations = d.reservations \ vs
    BY <1>0 DEF BatchDeleteReservation4s, WithPoolCapacity, RowsInOrder, HasColumns
  <1> QED
    BY <1>1, FewerInOrder

-----------------------------------------------------------------------------
(***************************************************************************)
(* A file of reservations                                                  *)
(***************************************************************************)

\* What the import has taken of the file so far can be created in one batch.
Taken(d, i) ==
    /\ i = [clients |-> i.clients, ips |-> i.ips, taken |-> i.taken]
    /\ i.taken \subseteq ReservationRow
    /\ \A v \in d.reservations \cup i.taken : v.client \in i.clients /\ v.ip \in i.ips
    /\ CanBatchCreateReservation4s(d, i.taken)

TakeRow(d, i, v) == IF Containing(d.reservedPools, v.ip) = {} THEN Add(i, v) ELSE i

LEMMA RowTaken ==
    ASSUME NEW d, NEW i, Taken(d, i), NEW v \in ReservationRow
    PROVE  Taken(d, TakeRow(d, i, v))
  <1>1. CASE Containing(d.reservedPools, v.ip) # {} \/ v.client \in i.clients
    BY <1>1 DEF TakeRow, Add
  <1>2. CASE /\ Containing(d.reservedPools, v.ip) = {}
             /\ v.client \notin i.clients /\ v.ip \in i.ips
    <2>1. TakeRow(d, i, v) = [i EXCEPT !.clients = @ \cup {v.client}]
      BY <1>2 DEF TakeRow, Add
    <2> QED
      BY <2>1 DEF Taken
  <1>3. CASE /\ Containing(d.reservedPools, v.ip) = {}
             /\ v.client \notin i.clients /\ v.ip \notin i.ips
    <2>1. SUFFICES ASSUME NEW j, j = [clients |-> i.clients \cup {v.client},
                                      ips |-> i.ips \cup {v.ip}, taken |-> i.taken \cup {v}]
                   PROVE  Taken(d, j)
      BY <1>3 DEF TakeRow, Add
    <2>2. \A u \in d.reservations \cup i.taken : u.client # v.client /\ u.ip # v.ip
      BY <1>3 DEF Taken
    <2>3. CanCreateReservation4(d, v)
      BY <1>3, <2>2 DEF CanCreateReservation4
    <2>4. CanBatchCreateReservation4s(d, j.taken)
      BY <2>1, <2>2, <2>3 DEF Taken, CanBatchCreateReservation4s
    <2> QED
      BY <2>1, <2>4 DEF Taken
  <1> QED
    BY <1>1, <1>2, <1>3

LEMMA FileTaken ==
    ASSUME NEW d, NEW file \in [1 .. 2 -> ReservationRow]
    PROVE  /\ ImportedReservation4s(d, file) \subseteq ReservationRow
           /\ CanBatchCreateReservation4s(d, ImportedReservation4s(d, file))
  <1> DEFINE b == Identifier(d.reservations)
             A(h) == h = [s \in SUBSET DOMAIN file |->
                            IF s = {} THEN b
                            ELSE TakeRow(d, h[s \ {Max(s)}], file[Max(s)])]
             g == CHOOSE h : A(h)
             one == TakeRow(d, b, file[1])
             two == TakeRow(d, one, file[2])
             k == [s \in SUBSET (1 .. 2) |->
                     CASE s = {} -> b
                       [] s = {1} -> one
                       [] s = {2} -> TakeRow(d, b, file[2])
                       [] s = 1 .. 2 -> two]
  <1>1. ImportedReservation4s(d, file) = g[DOMAIN file].taken
    BY Zenon DEF ImportedReservation4s, FoldLeft, MapThenFoldSet, TakeRow
  <1>2. DOMAIN file = 1 .. 2
    OBVIOUS
  <1>3. Max({1}) = 1 /\ Max({2}) = 2 /\ Max(1 .. 2) = 2
    <2>1. Max({1}) = 1 /\ Max({2}) = 2
      BY DEF Max
    <2>2. \A x \in 1 .. 2 : (\A y \in 1 .. 2 : x >= y) <=> x = 2
      OBVIOUS
    <2>3. Max(1 .. 2) = 2
      BY <2>2 DEF Max
    <2> QED
      BY <2>1, <2>3
  <1>4. \A s \in SUBSET (1 .. 2) : s = {} \/ s = {1} \/ s = {2} \/ s = 1 .. 2
    <2> SUFFICES ASSUME NEW s \in SUBSET (1 .. 2)
                 PROVE  s = {} \/ s = {1} \/ s = {2} \/ s = 1 .. 2
      OBVIOUS
    <2>1. \A x : x \in s => x = 1 \/ x = 2
      OBVIOUS
    <2>2. \A x : x \in 1 .. 2 <=> x = 1 \/ x = 2
      OBVIOUS
    <2>3. CASE 1 \in s /\ 2 \in s
      BY <2>1, <2>2, <2>3
    <2>4. CASE 1 \in s /\ 2 \notin s
      <3> s = {1}
        BY <2>1, <2>4
      <3> QED
        OBVIOUS
    <2>5. CASE 1 \notin s /\ 2 \in s
      <3> s = {2}
        BY <2>1, <2>5
      <3> QED
        OBVIOUS
    <2>6. CASE 1 \notin s /\ 2 \notin s
      <3> s = {}
        BY <2>1, <2>6
      <3> QED
        OBVIOUS
    <2> QED
      BY <2>3, <2>4, <2>5, <2>6
  <1>5. {1} # {} /\ {2} # {} /\ {1} # {2} /\ 1 .. 2 # {} /\ 1 .. 2 # {1} /\ 1 .. 2 # {2}
    OBVIOUS
  <1>6. {1} \ {1} = {} /\ {2} \ {2} = {} /\ (1 .. 2) \ {2} = {1}
    OBVIOUS
  <1>7. {} \in SUBSET (1 .. 2) /\ {1} \in SUBSET (1 .. 2) /\ {2} \in SUBSET (1 .. 2)
        /\ (1 .. 2) \in SUBSET (1 .. 2)
    OBVIOUS
  <1> HIDE DEF b
  <1>8. \E h : A(h)
    <2>1. k[{}] = b /\ k[{1}] = one /\ k[{2}] = TakeRow(d, b, file[2]) /\ k[1 .. 2] = two
      BY <1>5, <1>7
    <2> HIDE DEF two, one
    <2>2. ASSUME NEW s \in SUBSET (1 .. 2)
          PROVE  k[s] = IF s = {} THEN b ELSE TakeRow(d, k[s \ {Max(s)}], file[Max(s)])
      <3> HIDE DEF k
      <3>1. CASE s = {}
        BY <2>1, <3>1
      <3>2. CASE s = {1}
        BY <1>3, <1>5, <1>6, <2>1, <3>2 DEF one
      <3>3. CASE s = {2}
        BY <1>3, <1>5, <1>6, <2>1, <3>3
      <3>4. CASE s = 1 .. 2
        BY <1>3, <1>5, <1>6, <2>1, <3>4 DEF two
      <3> QED
        BY <1>4, <3>1, <3>2, <3>3, <3>4
    <2>3. k = [s \in SUBSET (1 .. 2) |-> k[s]]
      <3>1. k \in [SUBSET (1 .. 2) -> {b, one, TakeRow(d, b, file[2]), two}]
        BY <1>4
      <3> HIDE DEF k
      <3> QED
        BY <3>1
    <2>4. A(k)
      <3> HIDE DEF k
      <3>1. k = [s \in SUBSET (1 .. 2) |->
                   IF s = {} THEN b ELSE TakeRow(d, k[s \ {Max(s)}], file[Max(s)])]
        BY <2>2, <2>3, Zenon
      <3> QED
        BY <1>2, <3>1, Zenon
    <2> HIDE DEF k, A
    <2> QED
      BY <2>4
  <1>9. A(g)
    <2> HIDE DEF A
    <2> QED
      BY <1>8
  <1> HIDE DEF g, k
  <1>10. g[1 .. 2] = two
    <2>1. \A s \in SUBSET (1 .. 2) :
             g[s] = IF s = {} THEN b ELSE TakeRow(d, g[s \ {Max(s)}], file[Max(s)])
      BY <1>2, <1>9
    <2>2. g[{}] = b
      BY <1>7, <2>1
    <2>3. g[{1}] = one
      BY <1>3, <1>5, <1>6, <1>7, <2>1, <2>2
    <2> QED
      BY <1>3, <1>5, <1>6, <1>7, <2>1, <2>3
  <1>11. Taken(d, b)
    BY DEF b, Identifier, Taken, CanBatchCreateReservation4s
  <1>12. Taken(d, two)
    <2>1. file[1] \in ReservationRow /\ file[2] \in ReservationRow
      OBVIOUS
    <2>2. Taken(d, one)
      BY <1>11, <2>1, RowTaken
    <2> HIDE DEF one
    <2> QED
      BY <2>1, <2>2, RowTaken
  <1>13. Taken(d, g[DOMAIN file])
    BY <1>2, <1>10, <1>12
  <1> HIDE DEF two, one, A
  <1> QED
    BY <1>1, <1>13 DEF Taken

-----------------------------------------------------------------------------
(***************************************************************************)
(* The uuids of an import                                                  *)
(***************************************************************************)

LEMMA IpFinite == IsFiniteSet(Ip)
  BY RowsAssumption, FS_Interval DEF Ip

LEMMA FiniteByColumn ==
    ASSUME NEW rows, NEW f \in [rows -> Ip],
           \A p, q \in rows : p # q => f[p] # f[q]
    PROVE  IsFiniteSet(rows)
  <1>1. f \in Injection(rows, Ip)
    BY DEF Injection, IsInjective
  <1> QED
    BY <1>1, IpFinite, FS_Injection

LEMMA NumbersGiven ==
    ASSUME NEW rows, IsFiniteSet(rows), Cardinality(rows) <= Cardinality(Ids)
    PROVE  Numbered(rows) \in [rows -> Ids]
  <1> DEFINE m == Cardinality(rows)
             n == Cardinality(Ids)
  <1>1. m \in Nat /\ n \in Nat /\ ExistsBijection(1 .. m, rows) /\ ExistsBijection(1 .. n, Ids)
    BY BatchAssumption, FS_CardinalityType
  <1>2. PICK f \in Bijection(1 .. m, rows) : TRUE
    BY <1>1 DEF ExistsBijection
  <1>3. PICK g \in Bijection(1 .. n, Ids) : TRUE
    BY <1>1 DEF ExistsBijection
  <1> HIDE DEF m, n
  <1>4. \A r \in rows : \E i \in 1 .. m : f[i] = r
    BY <1>2 DEF Bijection, Surjection
  <1> DEFINE at == [r \in rows |-> CHOOSE i \in 1 .. m : f[i] = r]
             h == [r \in rows |-> g[at[r]]]
  <1>5. \A r \in rows : at[r] \in 1 .. m /\ f[at[r]] = r
    BY <1>4
  <1> HIDE DEF at
  <1>6. m <= n
    BY DEF m, n
  <1>7. \A r \in rows : at[r] \in 1 .. n
    BY <1>1, <1>5, <1>6
  <1>8. g \in [1 .. n -> Ids] /\ \A i, j \in 1 .. n : g[i] = g[j] => i = j
    BY <1>3 DEF Bijection, Injection, IsInjective
  <1>9. h \in [rows -> Ids]
    BY <1>7, <1>8
  <1>10. \A p, q \in rows : p # q => h[p] # h[q]
    BY <1>5, <1>7, <1>8
  <1> HIDE DEF h
  <1> QED
    BY <1>9, <1>10, Zenon DEF Numbered

LEMMA NumberedRanges ==
    ASSUME NEW ranges \in Columns(Ranges), DisjointRows(ranges)
    PROVE  /\ PoolRows(ranges) \subseteq PoolRow
           /\ DisjointRows(PoolRows(ranges))
           /\ \A p \in PoolRows(ranges) :
                 \E r \in ranges : p.begin = r.begin /\ p.end = r.end
  <1>1. ranges \subseteq Ranges /\ Cardinality(ranges) <= Cardinality(Ids)
    BY DEF Columns
  <1>2. IsFiniteSet(ranges)
    <2> DEFINE f == [r \in ranges |-> r.begin]
    <2>1. f \in [ranges -> Ip]
      BY <1>1 DEF Ranges
    <2>2. \A p, q \in ranges : p # q => f[p] # f[q]
      BY <1>1, RowsAssumption DEF Ranges, DisjointRows, Overlaps, Ip
    <2> HIDE DEF f
    <2> QED
      BY <2>1, <2>2, FiniteByColumn
  <1>3. Numbered(ranges) \in [ranges -> Ids]
    BY <1>1, <1>2, NumbersGiven
  <1>4. PICK id : id = Numbered(ranges)
    OBVIOUS
  <1>5. PoolRows(ranges) = {[id |-> id[r], begin |-> r.begin, end |-> r.end] : r \in ranges}
    BY <1>4 DEF PoolRows
  <1>6. \A r \in ranges : [id |-> id[r], begin |-> r.begin, end |-> r.end] \in PoolRow
    BY <1>1, <1>3, <1>4 DEF Ranges, PoolRow
  <1>7. DisjointRows(PoolRows(ranges))
    BY <1>5 DEF DisjointRows, Overlaps
  <1> QED
    BY <1>5, <1>6, <1>7

LEMMA ImportInOrder ==
    ASSUME NEW line \in Lines, CanImportSubnet4(line)
    PROVE  RowsInOrder(ImportSubnet4(line))
  <1>0. SUFFICES ASSUME NEW e, e = ImportSubnet4(line) PROVE RowsInOrder(e)
    OBVIOUS
  <1>1. PICK id : id = Numbered(line.reservations)
    OBVIOUS
  <1>2. /\ HasColumns(e) /\ e.pools = PoolRows(line.pools)
        /\ e.reservedPools = PoolRows(line.reservedPools)
        /\ e.reservations = {[id |-> id[v], ip |-> v.ip, client |-> v.client, auto |-> FALSE] :
                               v \in line.reservations}
    BY <1>0, <1>1 DEF ImportSubnet4, HasColumns
  <1>3. /\ line.pools \in Columns(Ranges) /\ line.reservedPools \in Columns(Ranges)
        /\ line.reservations \subseteq [ip: Ip, client: Clients]
        /\ Cardinality(line.reservations) <= Cardinality(Ids)
    BY DEF Lines, Columns
  <1>4. IsFiniteSet(line.reservations)
    <2> DEFINE f == [v \in line.reservations |-> v.ip]
    <2>1. f \in [line.reservations -> Ip]
      BY <1>3
    <2>2. \A u, v \in line.reservations : u # v => f[u] # f[v]
      BY DEF CanImportSubnet4
    <2> HIDE DEF f
    <2> QED
      BY <2>1, <2>2, FiniteByColumn
  <1>5. id \in [line.reservations -> Ids]
    BY <1>1, <1>3, <1>4, NumbersGiven
  <1>6. e.reservations \subseteq ReservationRow
    <2> SUFFICES ASSUME NEW v \in line.reservations
                 PROVE  [id |-> id[v], ip |-> v.ip, client |-> v.client, auto |-> FALSE]
                           \in ReservationRow
      BY <1>2
    <2>1. id[v] \in Ids /\ v.ip \in Ip /\ v.client \in Clients
      BY <1>3, <1>5
    <2> QED
      BY <2>1 DEF ReservationRow
  <1>7. \A u, v \in e.reservations : u # v => u.ip # v.ip /\ u.client # v.client
    <2> SUFFICES ASSUME NEW u \in e.reservations, NEW v \in e.reservations, u # v
                 PROVE  u.ip # v.ip /\ u.client # v.client
      OBVIOUS
    <2>1. PICK a \in line.reservations :
             u = [id |-> id[a], ip |-> a.ip, client |-> a.client, auto |-> FALSE]
      BY <1>2
    <2>2. PICK b \in line.reservations :
             v = [id |-> id[b], ip |-> b.ip, client |-> b.client, auto |-> FALSE]
      BY <1>2
    <2>3. a # b
      BY <2>1, <2>2
    <2>4. a.ip # b.ip /\ a.client # b.client
      BY <2>3, Zenon DEF CanImportSubnet4
    <2> QED
      BY <2>1, <2>2, <2>4
  <1>8. DisjointRows(line.pools) /\ DisjointRows(line.reservedPools)
    BY DEF CanImportSubnet4
  <1>9. \A v \in e.reservations, r \in e.reservedPools : v.ip \notin Ips(r)
    <2> SUFFICES ASSUME NEW v \in e.reservations, NEW r \in e.reservedPools
                 PROVE  v.ip \notin Ips(r)
      OBVIOUS
    <2>1. PICK q \in line.reservedPools : r.begin = q.begin /\ r.end = q.end
      BY <1>2, <1>3, <1>8, NumberedRanges
    <2>2. PICK u \in line.reservations : v.ip = u.ip
      BY <1>2
    <2> QED
      BY <2>1, <2>2 DEF CanImportSubnet4, Ips
  <1> QED
    BY <1>2, <1>3, <1>6, <1>7, <1>8, <1>9, NumberedRanges
    DEF RowsInOrder, ExclusiveRows, Containing

-----------------------------------------------------------------------------
(***************************************************************************)
(* Subnet4Batch: the invariant                                             *)
(***************************************************************************)

LEMMA InitInOrder == Init => RowsInOrder(db)
  BY DEF Init, Childless, RowsInOrder, HasColumns, DisjointRows, ExclusiveRows

LEMMA NextInOrder == RowsInOrder(db) /\ [BatchNext]_vars => RowsInOrder(db')
  <1> SUFFICES ASSUME RowsInOrder(db), [BatchNext]_vars
               PROVE  RowsInOrder(db')
    OBVIOUS
  <1>1. ASSUME NEW p \in PoolRow, Pool4Create(p)
        PROVE  RowsInOrder(db')
    BY <1>1, Pool4CreateInOrder DEF Pool4Create
  <1>2. ASSUME NEW p \in PoolRow, Pool4Delete(p)
        PROVE  RowsInOrder(db')
    BY <1>2, Pool4DeleteInOrder DEF Pool4Delete
  <1>3. ASSUME NEW r \in PoolRow, ReservedPool4Create(r)
        PROVE  RowsInOrder(db')
    BY <1>3, ReservedPool4CreateInOrder DEF ReservedPool4Create
  <1>4. ASSUME NEW r \in PoolRow, ReservedPool4Delete(r)
        PROVE  RowsInOrder(db')
    BY <1>4, ReservedPool4DeleteInOrder DEF ReservedPool4Delete
  <1>5. ASSUME NEW v \in ReservationRow,
               Reservation4Create(v) \/ AutoReservation4Create(v)
        PROVE  RowsInOrder(db')
    BY <1>5, Reservation4CreateInOrder DEF Reservation4Create, AutoReservation4Create
  <1>6. ASSUME NEW v \in ReservationRow, Reservation4Delete(v)
        PROVE  RowsInOrder(db')
    BY <1>6, Reservation4DeleteInOrder DEF Reservation4Delete
  <1>7. ASSUME NEW ip \in Ip, AutoReservation4Delete(ip)
        PROVE  RowsInOrder(db')
    BY <1>7, Reservation4DeleteInOrder DEF AutoReservation4Delete
  <1>8. ASSUME SubnetDelete
        PROVE  RowsInOrder(db')
    BY <1>8 DEF SubnetDelete, Childless, RowsInOrder, HasColumns, DisjointRows, ExclusiveRows
  <1>9. ASSUME NEW l, GrantLease(l) \/ EndLease(l)
        PROVE  RowsInOrder(db')
    BY <1>9 DEF GrantLease, EndLease
  <1>10. ASSUME NEW rs \in ReservedPoolBatches, ReservedPool4BatchCreate(rs)
         PROVE  RowsInOrder(db')
    <2>1. PICK n \in 1 .. 2 : rs \in [1 .. n -> PoolRow]
      BY DEF ReservedPoolBatches
    <2> QED
      BY <1>10, <2>1, ReservedPool4BatchInOrder DEF ReservedPool4BatchCreate
  <1>11. ASSUME NEW vs \in ReservationBatches(ReservationRow), Reservation4BatchCreate(vs)
         PROVE  RowsInOrder(db')
    <2>1. vs \subseteq ReservationRow
      BY DEF ReservationBatches
    <2> QED
      BY <1>11, <2>1, Reservation4BatchInOrder DEF Reservation4BatchCreate
  <1>12. ASSUME NEW vs, Reservation4BatchDelete(vs)
         PROVE  RowsInOrder(db')
    BY <1>12, Reservation4BatchDeleteInOrder DEF Reservation4BatchDelete
  <1>13. ASSUME NEW file \in ReservationFiles, Reservation4Import(file)
         PROVE  RowsInOrder(db')
    <2>1. file \in [1 .. 2 -> ReservationRow]
      <3>1. [id: Ids, ip: Ip, client: Clients, auto: {FALSE}] \subseteq ReservationRow
        BY DEF ReservationRow
      <3>2. file \in [1 .. 2 -> [id: Ids, ip: Ip, client: Clients, auto: {FALSE}]]
        BY DEF ReservationFiles
      <3> QED
        BY <3>1, <3>2
    <2> QED
      BY <1>13, <2>1, FileTaken, Reservation4BatchInOrder DEF Reservation4Import
  <1>14. ASSUME NEW line \in Lines, SubnetImport(line)
         PROVE  RowsInOrder(db')
    BY <1>14, ImportInOrder DEF SubnetImport
  <1>15. ASSUME UNCHANGED vars
         PROVE  RowsInOrder(db')
    BY <1>15 DEF vars
  <1> QED
    BY <1>1, <1>2, <1>3, <1>4, <1>5, <1>6, <1>7, <1>8, <1>9, <1>10, <1>11, <1>12, <1>13,
       <1>14, <1>15
    DEF BatchNext, Next

-----------------------------------------------------------------------------
(***************************************************************************)
(* Sums over rows                                                          *)
(***************************************************************************)

\* Induction over a finite set: a property of its subsets that fails for one fails
\* for one whose own subsets have it.
LEMMA SmallestSubset ==
    ASSUME NEW S, IsFiniteSet(S), NEW B, B \subseteq SUBSET S, B # {}
    PROVE  \E T \in B : \A U \in B : U \subseteq T => U = T
  <1>1. IsWellFoundedOn(StrictSubsetOrdering(S), FiniteSubsetsOf(S))
    BY FS_StrictSubsetOrderingWellFounded
  <1>2. B \subseteq FiniteSubsetsOf(S)
    <2>1. \A T \in B : IsFiniteSet(T)
      BY FS_Subset
    <2> QED
      BY <2>1 DEF FiniteSubsetsOf
  <1>3. PICK T \in B : \A U \in B : ~(<<U, T>> \in StrictSubsetOrdering(S))
    <2>1. PICK R : R = StrictSubsetOrdering(S)
      OBVIOUS
    <2>2. PICK D : D = FiniteSubsetsOf(S)
      OBVIOUS
    <2>3. IsWellFoundedOn(R, D) /\ B \subseteq D
      BY <1>1, <1>2, <2>1, <2>2
    <2>4. \E x \in B : \A y \in B : ~(<<y, x>> \in R)
      BY <2>3, WFMin
    <2> QED
      BY <2>1, <2>4
  <1> QED
    BY <1>3 DEF StrictSubsetOrdering

\* The element that the folds of the community modules take first.
Pick(T) == CHOOSE x \in T : TRUE

\* What the sets that f gives the rows of T have together.
Together(f, T) == UNION {f[x] : x \in T}

\* The sets of different rows are finite and share nothing.
Separate(f, S) ==
    /\ \A x \in S : IsFiniteSet(f[x])
    /\ \A x, y \in S : x # y => f[x] \cap f[y] = {}

LEMMA TogetherFinite ==
    ASSUME NEW S, IsFiniteSet(S), NEW f, \A x \in S : IsFiniteSet(f[x])
    PROVE  IsFiniteSet(Together(f, S))
  <1> DEFINE R == {f[x] : x \in S}
             g == [x \in S |-> f[x]]
  <1>1. g \in Surjection(S, R)
    BY DEF Surjection
  <1>2. \A T \in R : IsFiniteSet(T)
    OBVIOUS
  <1>3. Together(f, S) = UNION R
    BY DEF Together
  <1> HIDE DEF R, g
  <1>4. IsFiniteSet(R)
    BY <1>1, FS_Surjection
  <1> QED
    BY <1>2, <1>3, <1>4, FS_UNION

\* One row adds what its set has: no other row has any of it.
LEMMA TogetherSplits ==
    ASSUME NEW S, IsFiniteSet(S), NEW f, Separate(f, S),
           NEW T \in SUBSET S
    PROVE  Cardinality(Together(f, T))
             = IF T = {} THEN 0
               ELSE Cardinality(f[Pick(T)]) + Cardinality(Together(f, T \ {Pick(T)}))
  <1>1. CASE T = {}
    <2>1. Together(f, T) = {}
      BY <1>1 DEF Together
    <2> QED
      BY <1>1, <2>1, FS_EmptySet
  <1>2. CASE T # {}
    <2>1. PICK x : x = Pick(T)
      OBVIOUS
    <2>2. x \in T
      BY <1>2, <2>1 DEF Pick
    <2>3. Together(f, T) = f[x] \cup Together(f, T \ {x})
      BY <2>2 DEF Together
    <2>4. f[x] \cap Together(f, T \ {x}) = {}
      BY <2>2 DEF Together, Separate
    <2>5. IsFiniteSet(f[x]) /\ IsFiniteSet(Together(f, T \ {x}))
      <3>1. IsFiniteSet(T \ {x})
        BY FS_Subset
      <3>2. \A y \in S : IsFiniteSet(f[y])
        BY DEF Separate
      <3> QED
        BY <2>2, <3>1, <3>2, TogetherFinite
    <2>6. Cardinality(Together(f, T))
            = Cardinality(f[x]) + Cardinality(Together(f, T \ {x})) - Cardinality({})
      BY <2>3, <2>4, <2>5, FS_Union
    <2>7. Cardinality(f[x]) \in Nat /\ Cardinality(Together(f, T \ {x})) \in Nat
      BY <2>5, FS_CardinalityType
    <2> QED
      BY <1>2, <2>1, <2>6, <2>7, FS_EmptySet
  <1> QED
    BY <1>1, <1>2

\* A sum of the sizes of disjoint sets is the size of their union.
LEMMA SumOfSizes ==
    ASSUME NEW S, IsFiniteSet(S), NEW f, Separate(f, S),
           NEW g, \A T \in SUBSET S :
                     g[T] = IF T = {} THEN 0
                            ELSE Cardinality(f[Pick(T)]) + g[T \ {Pick(T)}]
    PROVE  g[S] = Cardinality(Together(f, S))
  <1> DEFINE B == {T \in SUBSET S : g[T] # Cardinality(Together(f, T))}
  <1>1. SUFFICES ASSUME B # {} PROVE FALSE
    OBVIOUS
  <1>2. PICK T \in B : \A U \in B : U \subseteq T => U = T
    <2>1. B \subseteq SUBSET S
      OBVIOUS
    <2> HIDE DEF B
    <2> QED
      BY <1>1, <2>1, SmallestSubset
  <1>3. T # {}
    BY TogetherSplits
  <1>4. Pick(T) \in T
    BY <1>3 DEF Pick
  <1>5. T \ {Pick(T)} \in SUBSET S /\ T \ {Pick(T)} \notin B
    BY <1>2, <1>4
  <1>6. g[T \ {Pick(T)}] = Cardinality(Together(f, T \ {Pick(T)}))
    BY <1>5
  <1>7. g[T] = Cardinality(Together(f, T))
    <2>1. T \in SUBSET S
      OBVIOUS
    <2>2. g[T] = Cardinality(f[Pick(T)]) + g[T \ {Pick(T)}]
      BY <1>3, <2>1
    <2>3. Cardinality(Together(f, T))
            = Cardinality(f[Pick(T)]) + Cardinality(Together(f, T \ {Pick(T)}))
      BY <1>3, <2>1, TogetherSplits
    <2> QED
      BY <1>6, <2>2, <2>3
  <1> QED
    BY <1>7

\* A sum over rows of the sizes of separate sets is the size of their union; there
\* is one lemma for each sum of the model.
LEMMA ReservedSum ==
    ASSUME NEW p, NEW rows, IsFiniteSet(rows),
           NEW f, Separate(f, rows),
           \A r \in rows : ReservedCount(p, r) = Cardinality(f[r])
    PROVE  MapThenSumSet(LAMBDA r : ReservedCount(p, r), rows)
             = Cardinality(Together(f, rows))
  <1> DEFINE A(h) == h = [T \in SUBSET rows |->
                            IF T = {} THEN 0
                            ELSE ReservedCount(p, Pick(T)) + h[T \ {Pick(T)}]]
             g == CHOOSE h : A(h)
             k == [T \in SUBSET rows |-> Cardinality(Together(f, T))]
  <1>1. MapThenSumSet(LAMBDA r : ReservedCount(p, r), rows) = g[rows]
    BY Zenon DEF MapThenSumSet, MapThenFoldSet, Pick
  <1>2. ASSUME NEW T \in SUBSET rows, T # {}
        PROVE  /\ ReservedCount(p, Pick(T)) = Cardinality(f[Pick(T)])
               /\ T \ {Pick(T)} \in SUBSET rows
    BY <1>2 DEF Pick
  <1>3. A(k)
    <2>1. \A T \in SUBSET rows : k[T] = IF T = {} THEN 0
                                 ELSE ReservedCount(p, Pick(T)) + k[T \ {Pick(T)}]
      <3> SUFFICES ASSUME NEW T \in SUBSET rows
                   PROVE  k[T] = IF T = {} THEN 0 ELSE ReservedCount(p, Pick(T)) + k[T \ {Pick(T)}]
        OBVIOUS
      <3>1. Cardinality(Together(f, T))
              = IF T = {} THEN 0
                ELSE Cardinality(f[Pick(T)]) + Cardinality(Together(f, T \ {Pick(T)}))
        BY TogetherSplits
      <3>2. k[T] = Cardinality(Together(f, T))
        OBVIOUS
      <3>3. T # {} => k[T \ {Pick(T)}] = Cardinality(Together(f, T \ {Pick(T)}))
        BY <1>2
      <3> HIDE DEF k
      <3> QED
        BY <1>2, <3>1, <3>2, <3>3
    <2>2. k = [T \in SUBSET rows |-> k[T]]
      OBVIOUS
    <2> HIDE DEF k
    <2>3. k = [T \in SUBSET rows |-> IF T = {} THEN 0
                                     ELSE ReservedCount(p, Pick(T)) + k[T \ {Pick(T)}]]
      BY <2>1, <2>2, Zenon
    <2> QED
      BY <2>3, Zenon
  <1>4. A(g)
    <2> HIDE DEF A, k
    <2> QED
      BY <1>3
  <1> HIDE DEF g
  <1>5. \A T \in SUBSET rows : g[T] = IF T = {} THEN 0
                               ELSE Cardinality(f[Pick(T)]) + g[T \ {Pick(T)}]
    BY <1>2, <1>4
  <1> QED
    BY <1>1, <1>5, SumOfSizes

LEMMA PoolSum ==
    ASSUME NEW line, NEW rows, IsFiniteSet(rows),
           NEW f, Separate(f, rows),
           \A r \in rows : ImportedCapacity(line, r) = Cardinality(f[r])
    PROVE  MapThenSumSet(LAMBDA r : ImportedCapacity(line, r), rows)
             = Cardinality(Together(f, rows))
  <1> DEFINE A(h) == h = [T \in SUBSET rows |->
                            IF T = {} THEN 0
                            ELSE ImportedCapacity(line, Pick(T)) + h[T \ {Pick(T)}]]
             g == CHOOSE h : A(h)
             k == [T \in SUBSET rows |-> Cardinality(Together(f, T))]
  <1>1. MapThenSumSet(LAMBDA r : ImportedCapacity(line, r), rows) = g[rows]
    BY Zenon DEF MapThenSumSet, MapThenFoldSet, Pick
  <1>2. ASSUME NEW T \in SUBSET rows, T # {}
        PROVE  /\ ImportedCapacity(line, Pick(T)) = Cardinality(f[Pick(T)])
               /\ T \ {Pick(T)} \in SUBSET rows
    BY <1>2 DEF Pick
  <1>3. A(k)
    <2>1. \A T \in SUBSET rows : k[T] = IF T = {} THEN 0
                                 ELSE ImportedCapacity(line, Pick(T)) + k[T \ {Pick(T)}]
      <3> SUFFICES ASSUME NEW T \in SUBSET rows
                   PROVE  k[T] = IF T = {} THEN 0
                                 ELSE ImportedCapacity(line, Pick(T)) + k[T \ {Pick(T)}]
        OBVIOUS
      <3>1. Cardinality(Together(f, T))
              = IF T = {} THEN 0
                ELSE Cardinality(f[Pick(T)]) + Cardinality(Together(f, T \ {Pick(T)}))
        BY TogetherSplits
      <3>2. k[T] = Cardinality(Together(f, T))
        OBVIOUS
      <3>3. T # {} => k[T \ {Pick(T)}] = Cardinality(Together(f, T \ {Pick(T)}))
        BY <1>2
      <3> HIDE DEF k
      <3> QED
        BY <1>2, <3>1, <3>2, <3>3
    <2>2. k = [T \in SUBSET rows |-> k[T]]
      OBVIOUS
    <2> HIDE DEF k
    <2>3. k = [T \in SUBSET rows |-> IF T = {} THEN 0
                                     ELSE ImportedCapacity(line, Pick(T)) + k[T \ {Pick(T)}]]
      BY <2>1, <2>2, Zenon
    <2> QED
      BY <2>3, Zenon
  <1>4. A(g)
    <2> HIDE DEF A, k
    <2> QED
      BY <1>3
  <1> HIDE DEF g
  <1>5. \A T \in SUBSET rows : g[T] = IF T = {} THEN 0
                               ELSE Cardinality(f[Pick(T)]) + g[T \ {Pick(T)}]
    BY <1>2, <1>4
  <1> QED
    BY <1>1, <1>5, SumOfSizes

-----------------------------------------------------------------------------
(***************************************************************************)
(* Subnet4Batch: the exported line                                         *)
(***************************************************************************)

\* What an exported line keeps of a pool.
Range4(p) == [begin |-> p.begin, end |-> p.end]

RangesOf(rows) == {Range4(p) : p \in rows}

LEMMA LineFields ==
    ASSUME NEW d
    PROVE  /\ Line(d).pools = RangesOf(d.pools)
           /\ Line(d).reservedPools = RangesOf(d.reservedPools)
           /\ Line(d).reservations
                = {[ip |-> v.ip, client |-> v.client] : v \in d.reservations}
  BY DEF Line, Range4, RangesOf

\* A range is all that the handlers use of a pool.
LEMMA RangeIsPool ==
    ASSUME NEW p
    PROVE  /\ Range4(p).begin = p.begin /\ Range4(p).end = p.end
           /\ Ips(Range4(p)) = Ips(p)
           /\ \A q : Overlaps(Range4(p), Range4(q)) <=> Overlaps(p, q)
  BY DEF Range4, Ips, Overlaps

LEMMA RangesOfPools ==
    ASSUME NEW rows, rows \subseteq PoolRow, DisjointRows(rows)
    PROVE  /\ DisjointRows(RangesOf(rows))
           /\ IsFiniteSet(RangesOf(rows))
           /\ \A p \in RangesOf(rows) :
                 Ips(p) \subseteq Ip
           /\ \A p, q \in RangesOf(rows) :
                 p # q => Ips(p) \cap Ips(q) = {}
  <1> DEFINE R == RangesOf(rows)
  <1>1. ASSUME NEW a \in R, NEW b \in R, a # b
        PROVE  ~Overlaps(a, b) /\ Ips(a) \cap Ips(b) = {}
    <2>1. PICK p \in rows : a = Range4(p)
      BY DEF RangesOf
    <2>2. PICK q \in rows : b = Range4(q)
      BY DEF RangesOf
    <2>3. p # q
      BY <1>1, <2>1, <2>2
    <2>4. ~Overlaps(p, q)
      BY <2>3 DEF DisjointRows
    <2>5. Ips(p) \cap Ips(q) = {}
      BY <2>4, OverlapsIff
    <2> QED
      BY <2>1, <2>2, <2>4, <2>5, RangeIsPool
  <1>2. \A a \in R : Ips(a) \subseteq Ip /\ a.begin \in Ips(a)
    <2> SUFFICES ASSUME NEW p \in rows
                 PROVE  Ips(p) \subseteq Ip /\ p.begin \in Ips(p)
      BY RangeIsPool DEF RangesOf
    <2>1. p \in PoolRow
      OBVIOUS
    <2> QED
      BY <2>1, OverlapsIff, RowsAssumption DEF PoolRow, Ips, Ip
  <1>3. IsFiniteSet(R)
    <2> DEFINE f == [a \in R |-> a.begin]
    <2> HIDE DEF R
    <2>1. f \in [R -> Ip] /\ \A a, b \in R : a # b => f[a] # f[b]
      BY <1>1, <1>2
    <2> HIDE DEF f
    <2> QED
      BY <2>1, FiniteByColumn
  <1>4. DisjointRows(R)
    BY <1>1 DEF DisjointRows
  <1> HIDE DEF R
  <1>5. (\A p \in R : Ips(p) \subseteq Ip) /\ \A p, q \in R : p # q => Ips(p) \cap Ips(q) = {}
    BY <1>1, <1>2
  <1> QED
    BY <1>3, <1>4, <1>5 DEF R

\* A line exported from rows in order passes the checks of the import.
LEMMA LineIsAccepted ==
    ASSUME NEW d, RowsInOrder(d)
    PROVE  CanImportSubnet4(Line(d))
  <1>1. PICK line : line = Line(d)
    OBVIOUS
  <1>2. /\ d.pools \subseteq PoolRow /\ d.reservedPools \subseteq PoolRow
        /\ DisjointRows(d.pools) /\ DisjointRows(d.reservedPools)
    BY DEF RowsInOrder, ExclusiveRows
  <1>3. DisjointRows(line.pools) /\ DisjointRows(line.reservedPools)
    BY <1>1, <1>2, LineFields, RangesOfPools
  <1>4. line.reservations = {[ip |-> v.ip, client |-> v.client] : v \in d.reservations}
    BY <1>1, LineFields
  <1>5. \A u, v \in line.reservations : u # v => u.ip # v.ip /\ u.client # v.client
    <2> SUFFICES ASSUME NEW a \in d.reservations, NEW b \in d.reservations, a # b
                 PROVE  a.ip # b.ip /\ a.client # b.client
      BY <1>4
    <2> QED
      BY DEF RowsInOrder, ExclusiveRows
  <1>6. \A r \in line.reservedPools, v \in line.reservations : v.ip \notin Ips(r)
    <2> SUFFICES ASSUME NEW r \in line.reservedPools, NEW v \in line.reservations
                 PROVE  v.ip \notin Ips(r)
      OBVIOUS
    <2>1. PICK s \in d.reservedPools : r = Range4(s)
      BY <1>1, LineFields DEF RangesOf
    <2>2. PICK u \in d.reservations : v.ip = u.ip
      BY <1>4
    <2>3. u.ip \notin Ips(s)
      BY DEF RowsInOrder, ExclusiveRows, Containing
    <2> QED
      BY <2>1, <2>2, <2>3, RangeIsPool
  <1> QED
    BY <1>1, <1>3, <1>5, <1>6 DEF CanImportSubnet4

\* The import counts for a range what the books say of the pool.
LEMMA ImportedCounts ==
    ASSUME NEW d, RowsInOrder(d), NEW q \in d.pools,
           NEW p, p.begin = q.begin, p.end = q.end
    PROVE  ImportedCapacity(Line(d), p) = Cardinality(FreeOf(d, q))
  <1>0. /\ q \in PoolRow /\ d.reservedPools \subseteq PoolRow
        /\ d.reservations \subseteq ReservationRow
        /\ ExclusiveRows(d) /\ DisjointRows(d.reservedPools)
    BY DEF RowsInOrder, ExclusiveRows
  <1>1. PICK line : line = Line(d)
    OBVIOUS
  <1>2. Ips(p) = Ips(q) /\ Ips(p) \subseteq Ip
    BY <1>0, OverlapsIff DEF Ips
  <1>3. Cardinality(ReservationsIn(line, p)) = Cardinality(ReservedOf(d, q))
    <2> DEFINE V == ReservationsIn(line, p)
               A == {v.ip : v \in V}
               f == [v \in V |-> v.ip]
    <2>1. line.reservations = {[ip |-> v.ip, client |-> v.client] : v \in d.reservations}
      BY <1>1, LineFields
    <2>2. A = ReservedOf(d, q)
      <3>1. ASSUME NEW v \in V PROVE v.ip \in ReservedOf(d, q)
        <4>1. PICK u \in d.reservations : v.ip = u.ip
          BY <2>1 DEF ReservationsIn
        <4> QED
          BY <1>2, <4>1 DEF ReservationsIn, ReservedOf
      <3>2. ASSUME NEW u \in ReservationsIn(d, q) PROVE u.ip \in A
        <4>1. [ip |-> u.ip, client |-> u.client] \in V
          BY <1>2, <2>1 DEF ReservationsIn
        <4> QED
          BY <4>1
      <3> QED
        BY <3>1, <3>2 DEF ReservedOf
    <2>3. A \subseteq Ip
      BY <1>2 DEF ReservationsIn
    <2>4. \A u, v \in V : u.ip = v.ip => u = v
      BY <1>1, LineIsAccepted DEF CanImportSubnet4, ReservationsIn
    <2>5. f \in Bijection(V, A)
      BY <2>4 DEF Bijection, Injection, Surjection, IsInjective
    <2> HIDE DEF V, A, f
    <2>6. Cardinality(V) = Cardinality(A)
      BY <2>3, <2>5, BijectionCount
    <2> QED
      BY <2>2, <2>6 DEF V
  <1>4. MapThenSumSet(LAMBDA r : ReservedCount(p, r), OverlappingWith(line.reservedPools, p))
          = Cardinality(SharedOf(d, q))
    <2> DEFINE rows == OverlappingWith(line.reservedPools, p)
               f == [r \in rows |-> Ips(q) \cap Ips(r)]
    <2>1. line.reservedPools = RangesOf(d.reservedPools)
      BY <1>1, LineFields
    <2>2. /\ IsFiniteSet(line.reservedPools)
          /\ \A r, s \in line.reservedPools : r # s => Ips(r) \cap Ips(s) = {}
      BY <1>0, <2>1, RangesOfPools
    <2>3. IsFiniteSet(rows) /\ rows \subseteq line.reservedPools
      BY <2>2, FS_Subset DEF OverlappingWith
    <2>4. Separate(f, rows)
      <3>1. \A r \in rows : f[r] \subseteq Ip
        BY <1>2
      <3>2. \A r \in rows : IsFiniteSet(f[r])
        BY <3>1, SubsetCount
      <3> QED
        BY <2>2, <2>3, <3>2 DEF Separate
    <2>5. ASSUME NEW r \in rows
          PROVE  ReservedCount(p, r) = Cardinality(f[r])
      <3>1. PICK s \in d.reservedPools : r = Range4(s)
        BY <2>1, <2>3 DEF RangesOf
      <3>2. r.begin = s.begin /\ r.end = s.end /\ Ips(r) = Ips(s)
        BY <3>1, RangeIsPool
      <3>3. Overlaps(q, s)
        <4>1. Overlaps(r, p)
          BY DEF OverlappingWith
        <4>2. Overlaps(s, q)
          BY <3>2, <4>1 DEF Overlaps
        <4> QED
          BY <1>0, <4>2, OverlapsIff
      <3>4. ReservedCount(q, s) = Cardinality(Ips(q) \cap Ips(s))
        BY <1>0, <3>3, ReservedCountShared
      <3>5. ReservedCount(p, r) = ReservedCount(q, s)
        BY <3>2 DEF ReservedCount
      <3>6. f[r] = Ips(q) \cap Ips(s)
        BY <3>2
      <3> QED
        BY <3>4, <3>5, <3>6
    <2>6. Together(f, rows) = SharedOf(d, q)
      <3>1. ASSUME NEW ip \in Together(f, rows) PROVE ip \in SharedOf(d, q)
        <4>1. PICK r \in rows : ip \in Ips(q) \cap Ips(r)
          BY DEF Together
        <4>2. PICK s \in d.reservedPools : r = Range4(s)
          BY <2>1, <2>3 DEF RangesOf
        <4>3. <<s, ip>> \in SharedIps(d.reservedPools, q)
          BY <1>2, <4>1, <4>2, RangeIsPool DEF SharedIps
        <4> QED
          BY <4>3 DEF SharedOf
      <3>2. ASSUME NEW ip \in SharedOf(d, q) PROVE ip \in Together(f, rows)
        <4>1. PICK s \in d.reservedPools : ip \in Ips(s) \cap Ips(q)
          BY DEF SharedOf, SharedIps
        <4>2. s \in PoolRow /\ Overlaps(s, q)
          BY <1>0, <1>2, <4>1, OverlapsIff
        <4>3. Range4(s) \in rows
          <5>1. Overlaps(Range4(s), p)
            BY <4>2, RangeIsPool DEF Overlaps
          <5> QED
            BY <2>1, <5>1 DEF OverlappingWith, RangesOf
        <4>4. ip \in f[Range4(s)]
          BY <4>1, <4>3, RangeIsPool
        <4> HIDE DEF rows, f
        <4> QED
          BY <4>3, <4>4 DEF Together
      <3> QED
        BY <3>1, <3>2
    <2> HIDE DEF rows, f
    <2>7. MapThenSumSet(LAMBDA r : ReservedCount(p, r), rows) = Cardinality(Together(f, rows))
      BY <2>3, <2>4, <2>5, ReservedSum
    <2> QED
      BY <2>6, <2>7 DEF rows
  <1>5. ImportedCapacity(line, p)
          = Minus(Minus(p.end - p.begin + 1, Cardinality(ReservedOf(d, q))),
                  Cardinality(SharedOf(d, q)))
    BY <1>3, <1>4, Zenon DEF ImportedCapacity
  <1>6. Minus(Minus(q.end - q.begin + 1, Cardinality(ReservedOf(d, q))),
              Cardinality(SharedOf(d, q))) = Cardinality(FreeOf(d, q))
    BY <1>0, RangeIsSplit, RowsAssumption DEF Minus, Wrap
  <1> QED
    BY <1>1, <1>5, <1>6

LEMMA ImportedFields ==
    ASSUME NEW line, NEW new, new = ImportSubnet4(line)
    PROVE  /\ new.pools = PoolRows(line.pools)
           /\ \A p \in new.pools : new.poolCapacity[p] = ImportedCapacity(line, p)
           /\ new.reservedPools = PoolRows(line.reservedPools)
           /\ new.capacity
                = Cardinality(line.reservations)
                    + MapThenSumSet(LAMBDA p : ImportedCapacity(line, p), line.pools)
  <1>1. /\ new.pools = PoolRows(line.pools)
        /\ new.poolCapacity = [p \in PoolRows(line.pools) |-> ImportedCapacity(line, p)]
        /\ new.reservedPools = PoolRows(line.reservedPools)
        /\ new.capacity
             = Cardinality(line.reservations)
                 + MapThenSumSet(LAMBDA p : ImportedCapacity(line, p), line.pools)
    BY Zenon DEF ImportSubnet4
  <1> QED
    BY <1>1

LEMMA ImportedReservations ==
    ASSUME NEW line, NEW new, new = ImportSubnet4(line)
    PROVE  /\ \A v \in new.reservations : \E u \in line.reservations :
                 v.ip = u.ip /\ v.client = u.client
           /\ \A u \in line.reservations : \E v \in new.reservations :
                 v.ip = u.ip /\ v.client = u.client
  <1>1. PICK id : id = Numbered(line.reservations)
    OBVIOUS
  <1>2. new.reservations =
          {[id |-> id[v], ip |-> v.ip, client |-> v.client, auto |-> FALSE] :
             v \in line.reservations}
    BY <1>1, Zenon DEF ImportSubnet4
  <1>3. ASSUME NEW u \in line.reservations
        PROVE  \E v \in new.reservations : v.ip = u.ip /\ v.client = u.client
    <2>1. PICK v \in new.reservations :
             v = [id |-> id[u], ip |-> u.ip, client |-> u.client, auto |-> FALSE]
      BY <1>2
    <2> QED
      BY <2>1
  <1>4. ASSUME NEW v \in new.reservations
        PROVE  \E u \in line.reservations : v.ip = u.ip /\ v.client = u.client
    BY <1>2
  <1> QED
    BY <1>3, <1>4

\* New uuids are given to ranges, and no range is changed.
LEMMA RangesKept ==
    ASSUME NEW rows, NEW ranges, ranges = RangesOf(rows)
    PROVE  /\ RangesOf(PoolRows(ranges)) = ranges
           /\ \A p \in PoolRows(ranges) :
                 \E q \in rows : p.begin = q.begin /\ p.end = q.end
           /\ \A q \in rows : \E p \in PoolRows(ranges) :
                 p.begin = q.begin /\ p.end = q.end
  <1>1. PICK id : id = Numbered(ranges)
    OBVIOUS
  <1>2. PoolRows(ranges) = {[id |-> id[r], begin |-> r.begin, end |-> r.end] : r \in ranges}
    BY <1>1 DEF PoolRows
  <1>3. ASSUME NEW p \in PoolRows(ranges)
        PROVE  \E q \in rows : p.begin = q.begin /\ p.end = q.end /\ Range4(p) = Range4(q)
    <2>1. PICK r \in ranges : p = [id |-> id[r], begin |-> r.begin, end |-> r.end]
      BY <1>2
    <2>2. PICK q \in rows : r = Range4(q)
      BY DEF RangesOf
    <2> QED
      BY <2>1, <2>2 DEF Range4
  <1>4. ASSUME NEW q \in rows
        PROVE  \E p \in PoolRows(ranges) :
                  p.begin = q.begin /\ p.end = q.end /\ Range4(p) = Range4(q)
    <2>1. PICK r \in ranges : r = Range4(q)
      BY DEF RangesOf
    <2>2. PICK p \in PoolRows(ranges) : p = [id |-> id[r], begin |-> r.begin, end |-> r.end]
      BY <1>2
    <2> QED
      BY <2>1, <2>2 DEF Range4
  <1>5. RangesOf(PoolRows(ranges)) = ranges
    <2>1. ASSUME NEW p \in PoolRows(ranges) PROVE Range4(p) \in ranges
      BY <1>3 DEF RangesOf
    <2>2. ASSUME NEW r \in ranges PROVE \E p \in PoolRows(ranges) : r = Range4(p)
      BY <1>4 DEF RangesOf
    <2> QED
      BY <2>1, <2>2 DEF RangesOf
  <1> QED
    BY <1>3, <1>4, <1>5

\* The cells of a line, exported or read from a file.
LineShape(line) ==
    /\ line = [pools |-> line.pools, reservedPools |-> line.reservedPools,
               reservations |-> line.reservations]
    /\ line.pools = RangesOf(line.pools)
    /\ line.reservedPools = RangesOf(line.reservedPools)
    /\ \A v \in line.reservations : v = [ip |-> v.ip, client |-> v.client]

LEMMA RangesOfRanges == ASSUME NEW rows PROVE RangesOf(RangesOf(rows)) = RangesOf(rows)
  <1>1. \A p : Range4(Range4(p)) = Range4(p)
    BY DEF Range4
  <1>2. ASSUME NEW p \in rows PROVE Range4(p) \in RangesOf(RangesOf(rows))
    BY <1>1 DEF RangesOf
  <1>3. ASSUME NEW r \in RangesOf(RangesOf(rows)) PROVE r \in RangesOf(rows)
    BY <1>1 DEF RangesOf
  <1> QED
    BY <1>2, <1>3 DEF RangesOf

LEMMA LineOfRows == ASSUME NEW d PROVE LineShape(Line(d))
  <1>1. PICK line : line = Line(d)
    OBVIOUS
  <1>2. line.pools = RangesOf(d.pools) /\ line.reservedPools = RangesOf(d.reservedPools)
    BY <1>1, LineFields
  <1>3. \A v \in line.reservations : v = [ip |-> v.ip, client |-> v.client]
    BY <1>1, LineFields
  <1>4. line = [pools |-> line.pools, reservedPools |-> line.reservedPools,
                reservations |-> line.reservations]
    BY <1>1 DEF Line
  <1> QED
    BY <1>1, <1>2, <1>3, <1>4, RangesOfRanges DEF LineShape

LEMMA LineOfFile == ASSUME NEW line \in Lines PROVE LineShape(line)
  <1>1. /\ line = [pools |-> line.pools, reservedPools |-> line.reservedPools,
                   reservations |-> line.reservations]
        /\ line.pools \subseteq Ranges /\ line.reservedPools \subseteq Ranges
        /\ line.reservations \subseteq [ip: Ip, client: Clients]
    BY DEF Lines, Columns
  <1>2. ASSUME NEW rows, rows \subseteq Ranges PROVE rows = RangesOf(rows)
    <2>1. \A r \in rows : r = Range4(r)
      BY <1>2 DEF Ranges, Range4
    <2> QED
      BY <2>1 DEF RangesOf
  <1>3. \A v \in line.reservations : v = [ip |-> v.ip, client |-> v.client]
    BY <1>1
  <1> QED
    BY <1>1, <1>2, <1>3 DEF LineShape

\* What is imported from a line is exported as the same line.
LEMMA LineReturns ==
    ASSUME NEW line, LineShape(line), NEW new, new = ImportSubnet4(line)
    PROVE  Line(new) = line
  <1>2. /\ new.pools = PoolRows(line.pools) /\ new.reservedPools = PoolRows(line.reservedPools)
        /\ line.pools = RangesOf(line.pools)
        /\ line.reservedPools = RangesOf(line.reservedPools)
        /\ \A v \in line.reservations : v = [ip |-> v.ip, client |-> v.client]
    BY ImportedFields DEF LineShape
  <1>3. RangesOf(new.pools) = line.pools
    BY <1>2, RangesKept
  <1>4. RangesOf(new.reservedPools) = line.reservedPools
    BY <1>2, RangesKept
  <1>6. /\ \A v \in new.reservations : \E u \in line.reservations :
              v.ip = u.ip /\ v.client = u.client
        /\ \A u \in line.reservations : \E v \in new.reservations :
              v.ip = u.ip /\ v.client = u.client
    BY ImportedReservations
  <1>7. {[ip |-> v.ip, client |-> v.client] : v \in new.reservations} = line.reservations
    <2>1. ASSUME NEW v \in new.reservations
          PROVE  [ip |-> v.ip, client |-> v.client] \in line.reservations
      <3>1. PICK u \in line.reservations : v.ip = u.ip /\ v.client = u.client
        BY <1>6
      <3>2. u = [ip |-> u.ip, client |-> u.client]
        BY <1>2
      <3> QED
        BY <3>1, <3>2
    <2>2. ASSUME NEW u \in line.reservations
          PROVE  \E v \in new.reservations : u = [ip |-> v.ip, client |-> v.client]
      <3>1. PICK v \in new.reservations : v.ip = u.ip /\ v.client = u.client
        BY <1>6
      <3>2. u = [ip |-> u.ip, client |-> u.client]
        BY <1>2
      <3> QED
        BY <3>1, <3>2
    <2> QED
      BY <2>1, <2>2
  <1>8. Line(new) = [pools |-> line.pools, reservedPools |-> line.reservedPools,
                     reservations |-> line.reservations]
    BY <1>3, <1>4, <1>7, Zenon DEF Line, Range4, RangesOf
  <1> QED
    BY <1>8 DEF LineShape

\* An import counts for each range what the handlers have kept for its pool.
LEMMA SizesReturn ==
    ASSUME NEW d, RowsInOrder(d), ExactPools(d), NEW new, new = ImportSubnet4(Line(d))
    PROVE  {<<p.begin, p.end, new.poolCapacity[p]>> : p \in new.pools}
             = {<<p.begin, p.end, d.poolCapacity[p]>> : p \in d.pools}
  <1>1. PICK line : line = Line(d)
    OBVIOUS
  <1>0. new = ImportSubnet4(line)
    BY <1>1
  <1>2. /\ new.pools = PoolRows(line.pools)
        /\ \A p \in new.pools : new.poolCapacity[p] = ImportedCapacity(line, p)
        /\ line.pools = RangesOf(d.pools)
    <2>1. line.pools = RangesOf(d.pools)
      BY <1>1, LineFields
    <2>2. /\ new.pools = PoolRows(line.pools)
          /\ \A p \in new.pools : new.poolCapacity[p] = ImportedCapacity(line, p)
      BY <1>0, ImportedFields
    <2> QED
      BY <2>1, <2>2
  <1>3. ASSUME NEW p \in new.pools, NEW q \in d.pools, p.begin = q.begin, p.end = q.end
        PROVE  new.poolCapacity[p] = d.poolCapacity[q]
    <2>1. ImportedCapacity(line, p) = Cardinality(FreeOf(d, q))
      BY <1>1, <1>3, ImportedCounts
    <2>2. d.poolCapacity[q] = Cardinality(FreeOf(d, q))
      BY DEF ExactPools, FreeOf
    <2> QED
      BY <1>2, <2>1, <2>2
  <1>4. /\ \A p \in new.pools : \E q \in d.pools : p.begin = q.begin /\ p.end = q.end
        /\ \A q \in d.pools : \E p \in new.pools : p.begin = q.begin /\ p.end = q.end
    BY <1>2, RangesKept
  <1>5. ASSUME NEW p \in new.pools
        PROVE  \E q \in d.pools : <<p.begin, p.end, new.poolCapacity[p]>>
                                    = <<q.begin, q.end, d.poolCapacity[q]>>
    BY <1>3, <1>4
  <1>6. ASSUME NEW q \in d.pools
        PROVE  \E p \in new.pools : <<p.begin, p.end, new.poolCapacity[p]>>
                                      = <<q.begin, q.end, d.poolCapacity[q]>>
    BY <1>3, <1>4
  <1> QED
    BY <1>5, <1>6

\* An import counts the free addresses of the pools and the reserved addresses.
LEMMA ImportedSum ==
    ASSUME NEW d, RowsInOrder(d), NEW new, new = ImportSubnet4(Line(d))
    PROVE  new.capacity = Cardinality(PoolIps(d)) + Cardinality(ReservedIps(d))
  <1>1. PICK line : line = Line(d)
    OBVIOUS
  <1>0. new = ImportSubnet4(line)
    BY <1>1
  <1>2. /\ line.pools = RangesOf(d.pools)
        /\ line.reservations = {[ip |-> v.ip, client |-> v.client] : v \in d.reservations}
    BY <1>1, LineFields
  <1>3. /\ d.pools \subseteq PoolRow /\ d.reservedPools \subseteq PoolRow
        /\ d.reservations \subseteq ReservationRow
        /\ DisjointRows(d.pools) /\ ExclusiveRows(d)
    BY DEF RowsInOrder
  <1>4. Cardinality(line.reservations) = Cardinality(ReservedIps(d))
    <2> DEFINE V == line.reservations
               f == [v \in V |-> v.ip]
    <2>1. ReservedIps(d) \subseteq Ip
      BY <1>3 DEF ReservedIps, ReservationRow
    <2>2. ReservedIps(d) = {v.ip : v \in V}
      <3>1. ASSUME NEW v \in d.reservations PROVE \E u \in V : u.ip = v.ip
        <4>1. [ip |-> v.ip, client |-> v.client] \in V
          BY <1>2
        <4> QED
          BY <4>1
      <3>2. ASSUME NEW u \in V PROVE \E v \in d.reservations : u.ip = v.ip
        BY <1>2
      <3> QED
        BY <3>1, <3>2 DEF ReservedIps
    <2>3. \A u, v \in V : u.ip = v.ip => u = v
      BY <1>1, LineIsAccepted DEF CanImportSubnet4
    <2>4. f \in Bijection(V, ReservedIps(d))
      BY <2>2, <2>3 DEF Bijection, Injection, Surjection, IsInjective
    <2> HIDE DEF V, f
    <2>5. Cardinality(V) = Cardinality(ReservedIps(d))
      BY <2>1, <2>4, BijectionCount
    <2> QED
      BY <2>5 DEF V
  <1>5. MapThenSumSet(LAMBDA p : ImportedCapacity(line, p), line.pools)
          = Cardinality(PoolIps(d))
    <2> DEFINE f == [p \in line.pools |-> FreeOf(d, p)]
    <2>1. /\ IsFiniteSet(line.pools)
          /\ \A p \in line.pools : Ips(p) \subseteq Ip
          /\ \A p, q \in line.pools : p # q => Ips(p) \cap Ips(q) = {}
      BY <1>2, <1>3, RangesOfPools
    <2>2. Separate(f, line.pools)
      <3>1. \A p \in line.pools : f[p] \subseteq Ip
        BY <2>1 DEF FreeOf
      <3>2. \A p \in line.pools : IsFiniteSet(f[p])
        BY <3>1, SubsetCount
      <3> QED
        BY <2>1, <3>2 DEF Separate, FreeOf
    <2>3. ASSUME NEW p \in line.pools
          PROVE  ImportedCapacity(line, p) = Cardinality(f[p])
      <3>1. PICK q \in d.pools : p = Range4(q)
        BY <1>2 DEF RangesOf
      <3>2. p.begin = q.begin /\ p.end = q.end /\ FreeOf(d, p) = FreeOf(d, q)
        BY <3>1, RangeIsPool DEF FreeOf
      <3>3. ImportedCapacity(line, p) = Cardinality(FreeOf(d, q))
        BY <1>1, <3>2, ImportedCounts
      <3> QED
        BY <3>2, <3>3
    <2>4. Together(f, line.pools) = PoolIps(d)
      <3>1. Together(f, line.pools) = UNION {FreeOf(d, p) : p \in line.pools}
        BY DEF Together
      <3>2. ASSUME NEW ip, NEW p \in line.pools, ip \in FreeOf(d, p)
            PROVE  ip \in PoolIps(d)
        <4>1. PICK q \in d.pools : p = Range4(q)
          BY <1>2 DEF RangesOf
        <4>2. ip \in Ips(q) /\ ip \in Ip /\ Free(d, ip)
          BY <2>1, <3>2, <4>1, RangeIsPool DEF FreeOf
        <4> QED
          BY <4>2 DEF PoolIps, Containing
      <3>3. ASSUME NEW ip \in PoolIps(d)
            PROVE  \E p \in line.pools : ip \in FreeOf(d, p)
        <4>1. PICK q \in d.pools : ip \in Ips(q) /\ Free(d, ip)
          BY DEF PoolIps, Containing
        <4>2. Range4(q) \in line.pools /\ ip \in FreeOf(d, Range4(q))
          BY <1>2, <4>1, RangeIsPool DEF FreeOf, RangesOf
        <4> QED
          BY <4>2
      <3> QED
        BY <3>1, <3>2, <3>3
    <2> HIDE DEF f
    <2>5. PICK rows : rows = line.pools
      OBVIOUS
    <2>6. MapThenSumSet(LAMBDA p : ImportedCapacity(line, p), rows)
            = Cardinality(Together(f, rows))
      BY <2>1, <2>2, <2>3, <2>5, PoolSum
    <2> QED
      BY <2>4, <2>5, <2>6
  <1>6. new.capacity = Cardinality(line.reservations)
                        + MapThenSumSet(LAMBDA p : ImportedCapacity(line, p), line.pools)
    BY <1>0, ImportedFields
  <1>7. Cardinality(PoolIps(d)) \in Nat /\ Cardinality(ReservedIps(d)) \in Nat
    BY <1>3, BooksAsSets
  <1>8. new.capacity = Cardinality(ReservedIps(d)) + Cardinality(PoolIps(d))
    BY <1>4, <1>5, <1>6
  <1> QED
    BY <1>7, <1>8

LEMMA CapacityReturns ==
    ASSUME NEW d, RowsInOrder(d), ExactSubnet(d), NEW new, new = ImportSubnet4(Line(d))
    PROVE  new.capacity = d.capacity
  BY ImportedSum, BooksAsSets DEF ExactSubnet, RowsInOrder

LEMMA BatchSum ==
    ASSUME NEW rs, NEW rows, IsFiniteSet(rows),
           NEW f, Separate(f, rows),
           \A x \in rows : ReservedCount(x[1], rs[x[2]]) = Cardinality(f[x])
    PROVE  MapThenSumSet(LAMBDA x : ReservedCount(x[1], rs[x[2]]), rows)
             = Cardinality(Together(f, rows))
  <1> DEFINE A(h) == h = [T \in SUBSET rows |->
                            IF T = {} THEN 0
                            ELSE ReservedCount(Pick(T)[1], rs[Pick(T)[2]]) + h[T \ {Pick(T)}]]
             g == CHOOSE h : A(h)
             k == [T \in SUBSET rows |-> Cardinality(Together(f, T))]
  <1>1. MapThenSumSet(LAMBDA x : ReservedCount(x[1], rs[x[2]]), rows) = g[rows]
    BY Zenon DEF MapThenSumSet, MapThenFoldSet, Pick
  <1>2. ASSUME NEW T \in SUBSET rows, T # {}
        PROVE  /\ ReservedCount(Pick(T)[1], rs[Pick(T)[2]]) = Cardinality(f[Pick(T)])
               /\ T \ {Pick(T)} \in SUBSET rows
    BY <1>2 DEF Pick
  <1>3. A(k)
    <2>1. \A T \in SUBSET rows : k[T] = IF T = {} THEN 0
                                 ELSE ReservedCount(Pick(T)[1], rs[Pick(T)[2]]) + k[T \ {Pick(T)}]
      <3> SUFFICES ASSUME NEW T \in SUBSET rows
                   PROVE  k[T] = IF T = {} THEN 0
                                 ELSE ReservedCount(Pick(T)[1], rs[Pick(T)[2]])
                                        + k[T \ {Pick(T)}]
        OBVIOUS
      <3>1. Cardinality(Together(f, T))
              = IF T = {} THEN 0
                ELSE Cardinality(f[Pick(T)]) + Cardinality(Together(f, T \ {Pick(T)}))
        BY TogetherSplits
      <3>2. k[T] = Cardinality(Together(f, T))
        OBVIOUS
      <3>3. T # {} => k[T \ {Pick(T)}] = Cardinality(Together(f, T \ {Pick(T)}))
        BY <1>2
      <3> HIDE DEF k
      <3> QED
        BY <1>2, <3>1, <3>2, <3>3
    <2>2. k = [T \in SUBSET rows |-> k[T]]
      OBVIOUS
    <2> HIDE DEF k
    <2>3. k = [T \in SUBSET rows |-> IF T = {} THEN 0
                                     ELSE ReservedCount(Pick(T)[1], rs[Pick(T)[2]])
                                            + k[T \ {Pick(T)}]]
      BY <2>1, <2>2, Zenon
    <2> QED
      BY <2>3, Zenon
  <1>4. A(g)
    <2> HIDE DEF A, k
    <2> QED
      BY <1>3
  <1> HIDE DEF g
  <1>5. \A T \in SUBSET rows : g[T] = IF T = {} THEN 0
                               ELSE Cardinality(f[Pick(T)]) + g[T \ {Pick(T)}]
    BY <1>2, <1>4
  <1> QED
    BY <1>1, <1>5, SumOfSizes

-----------------------------------------------------------------------------
(***************************************************************************)
(* Capacities stay in range                                                *)
(***************************************************************************)

\* The capacities are numbers of the width of the code's.
CapacitiesTyped(d) ==
    /\ d.poolCapacity \in [d.pools -> 0 .. Word - 1]
    /\ d.capacity \in 0 .. Word - 1

LEMMA SumsTyped ==
    ASSUME NEW m \in 0 .. Word - 1, NEW n \in 0 .. Word - 1
    PROVE  /\ Plus(m, n) \in 0 .. Word - 1
           /\ Minus(m, n) \in 0 .. Word - 1
  BY RowsAssumption DEF Plus, Minus, Wrap

\* Also the count of ranges that share no address is a uint64.
LEMMA ReservedCountTyped ==
    ASSUME NEW p \in PoolRow, NEW r \in PoolRow
    PROVE  ReservedCount(p, r) \in 0 .. Word - 1
  <1> DEFINE begin == IF r.begin > p.begin THEN r.begin ELSE p.begin
             end   == IF r.end < p.end THEN r.end ELSE p.end
  <1>1. begin \in Ip /\ end \in Ip
    BY DEF PoolRow
  <1>2. ReservedCount(p, r) = Wrap(end - begin + 1)
    BY DEF ReservedCount
  <1> HIDE DEF begin, end
  <1> QED
    BY <1>1, <1>2, RowsAssumption DEF Ip, Wrap

LEMMA CountTyped ==
    ASSUME NEW A, A \subseteq Ip
    PROVE  Cardinality(A) \in 0 .. Word - 1
  BY SubsetCount, IpCount, RowsAssumption

LEMMA SharedCountTyped ==
    ASSUME NEW d, RowsInOrder(d), NEW r \in PoolRow
    PROVE  Cardinality(SharedIps(OverlappingWith(d.pools, r), r)) \in 0 .. Word - 1
  <1> DEFINE hit == OverlappingWith(d.pools, r)
             S == SharedIps(hit, r)
             A == {x[2] : x \in S}
  <1>1. hit \subseteq PoolRow /\ DisjointRows(hit)
    BY DEF OverlappingWith, RowsInOrder, DisjointRows
  <1>2. S \subseteq hit \X Ip /\ \A x \in S : x[2] \in Ips(x[1])
    BY DEF SharedIps
  <1>3. A \subseteq Ip
    BY <1>2
  <1> HIDE DEF hit, S
  <1>4. Cardinality(S) = Cardinality(A)
    BY <1>1, <1>2, PairsCount
  <1> HIDE DEF A
  <1> QED
    BY <1>3, <1>4, CountTyped DEF S, hit

LEMMA ReservationCountTyped ==
    ASSUME NEW vs, vs \subseteq ReservationRow, \A u, v \in vs : u # v => u.ip # v.ip,
           NEW ws, ws \subseteq vs
    PROVE  Cardinality(ws) \in 0 .. Word - 1
  <1>1. Cardinality(ws) = Cardinality({v.ip : v \in ws})
    BY ReservationsCount
  <1>2. {v.ip : v \in ws} \subseteq Ip
    BY DEF ReservationRow
  <1> QED
    BY <1>1, <1>2, CountTyped

\* Capacities that are written over those of the rows.
LEMMA WrittenTyped ==
    ASSUME NEW d, RowsInOrder(d), CapacitiesTyped(d),
           NEW f, \A p \in d.pools : p \in DOMAIN f => f[p] \in 0 .. Word - 1,
           NEW e, e.poolCapacity = WithPoolCapacity(d, f).poolCapacity,
           e.pools = d.pools, e.capacity \in 0 .. Word - 1
    PROVE  CapacitiesTyped(e)
  <1>1. WithPoolCapacity(d, f).poolCapacity
          = [p \in d.pools |-> IF p \in DOMAIN f THEN f[p] ELSE d.poolCapacity[p]]
    BY DEF WithPoolCapacity, RowsInOrder, HasColumns
  <1> QED
    BY <1>1 DEF CapacitiesTyped

\* Every handler leaves capacities of that width, exact or not.
LEMMA CreatePool4Typed ==
    ASSUME NEW d, RowsInOrder(d), CapacitiesTyped(d), NEW p \in PoolRow
    PROVE  CapacitiesTyped(CreatePool4(d, d, p))
  <1>0. SUFFICES ASSUME NEW e, e = CreatePool4(d, d, p) PROVE CapacitiesTyped(e)
    OBVIOUS
  <1>1. Pool4Capacity(d, p) \in 0 .. Word - 1
    BY Pool4CapacityExact, FreeOfCount DEF RowsInOrder
  <1>2. PICK n \in 0 .. Word - 1 : n = Pool4Capacity(d, p)
    BY <1>1
  <1>3. /\ e.pools = d.pools \cup {p}
        /\ e.poolCapacity = [q \in d.pools \cup {p} |-> IF q = p THEN n ELSE d.poolCapacity[q]]
        /\ e.capacity = IF n = 0 THEN d.capacity ELSE Plus(d.capacity, n)
    BY <1>0, <1>2 DEF CreatePool4, RowsInOrder, HasColumns
  <1>4. e.capacity \in 0 .. Word - 1
    BY <1>3, SumsTyped DEF CapacitiesTyped
  <1> QED
    BY <1>3, <1>4 DEF CapacitiesTyped

LEMMA DeletePool4Typed ==
    ASSUME NEW d, RowsInOrder(d), CapacitiesTyped(d), NEW p \in d.pools
    PROVE  CapacitiesTyped(DeletePool4(d, d, p))
  <1>0. SUFFICES ASSUME NEW e, e = DeletePool4(d, d, p) PROVE CapacitiesTyped(e)
    OBVIOUS
  <1>1. PICK n \in 0 .. Word - 1 : n = d.poolCapacity[p]
    BY DEF CapacitiesTyped
  <1>2. /\ e.pools = d.pools \ {p}
        /\ e.poolCapacity = [q \in d.pools \ {p} |-> d.poolCapacity[q]]
        /\ e.capacity = IF n = 0 THEN d.capacity ELSE Minus(d.capacity, n)
    BY <1>0, <1>1 DEF DeletePool4, RowsInOrder, HasColumns
  <1>3. e.capacity \in 0 .. Word - 1
    BY <1>2, SumsTyped DEF CapacitiesTyped
  <1> QED
    BY <1>2, <1>3 DEF CapacitiesTyped

LEMMA CreateReservedPool4Typed ==
    ASSUME NEW d, RowsInOrder(d), CapacitiesTyped(d), NEW r \in PoolRow
    PROVE  CapacitiesTyped(CreateReservedPool4(d, d, r))
  <1>0. SUFFICES ASSUME NEW e, e = CreateReservedPool4(d, d, r) PROVE CapacitiesTyped(e)
    OBVIOUS
  <1>1. PICK hit : hit = OverlappingWith(d.pools, r)
    OBVIOUS
  <1>2. PICK f : f = [p \in hit |-> Minus(d.poolCapacity[p], ReservedCount(p, r))]
    OBVIOUS
  <1>3. PICK n \in 0 .. Word - 1 : n = Cardinality(SharedIps(hit, r))
    BY <1>1, SharedCountTyped
  <1>4. \A p \in d.pools : p \in DOMAIN f => f[p] \in 0 .. Word - 1
    BY <1>2, SumsTyped, ReservedCountTyped DEF CapacitiesTyped, RowsInOrder
  <1>5. /\ e.poolCapacity = WithPoolCapacity(d, f).poolCapacity
        /\ e.pools = d.pools
        /\ e.capacity = Minus(d.capacity, n)
    BY <1>0, <1>1, <1>2, <1>3
    DEF CreateReservedPool4, WithPoolCapacity, RowsInOrder, HasColumns
  <1>6. e.capacity \in 0 .. Word - 1
    BY <1>5, SumsTyped DEF CapacitiesTyped
  <1> QED
    BY <1>4, <1>5, <1>6, WrittenTyped

LEMMA DeleteReservedPool4Typed ==
    ASSUME NEW d, RowsInOrder(d), CapacitiesTyped(d), NEW r \in PoolRow
    PROVE  CapacitiesTyped(DeleteReservedPool4(d, d, r))
  <1>0. SUFFICES ASSUME NEW e, e = DeleteReservedPool4(d, d, r) PROVE CapacitiesTyped(e)
    OBVIOUS
  <1>1. PICK hit : hit = OverlappingWith(d.pools, r)
    OBVIOUS
  <1>2. PICK f : f = [p \in hit |-> Plus(d.poolCapacity[p], ReservedCount(p, r))]
    OBVIOUS
  <1>3. PICK n \in 0 .. Word - 1 : n = Cardinality(SharedIps(hit, r))
    BY <1>1, SharedCountTyped
  <1>4. \A p \in d.pools : p \in DOMAIN f => f[p] \in 0 .. Word - 1
    BY <1>2, SumsTyped, ReservedCountTyped DEF CapacitiesTyped, RowsInOrder
  <1>5. /\ e.poolCapacity = WithPoolCapacity(d, f).poolCapacity
        /\ e.pools = d.pools
        /\ e.capacity = Plus(d.capacity, n)
    BY <1>0, <1>1, <1>2, <1>3
    DEF DeleteReservedPool4, WithPoolCapacity, RowsInOrder, HasColumns
  <1>6. e.capacity \in 0 .. Word - 1
    BY <1>5, SumsTyped DEF CapacitiesTyped
  <1> QED
    BY <1>4, <1>5, <1>6, WrittenTyped

LEMMA CreateReservation4Typed ==
    ASSUME NEW d, RowsInOrder(d), CapacitiesTyped(d), NEW v,
           NEW e \in CreateReservation4(d, d, v)
    PROVE  CapacitiesTyped(e)
  <1>0. 1 \in 0 .. Word - 1
    BY RowsAssumption
  <1>1. CASE Containing(d.pools, v.ip) = {}
    <2>1. e.pools = d.pools /\ e.poolCapacity = d.poolCapacity /\ e.capacity = Plus(d.capacity, 1)
      BY <1>1 DEF CreateReservation4, RowsInOrder, HasColumns
    <2> QED
      BY <1>0, <2>1, SumsTyped DEF CapacitiesTyped
  <1>2. CASE Containing(d.pools, v.ip) # {}
    <2>1. PICK p \in Containing(d.pools, v.ip) :
             e = WithPoolCapacity([d EXCEPT !.reservations = @ \cup {v}],
                                  [q \in {p} |-> Minus(d.poolCapacity[p], 1)])
      BY <1>2 DEF CreateReservation4
    <2>2. p \in d.pools
      BY DEF Containing
    <2>3. PICK f : f = [q \in {p} |-> Minus(d.poolCapacity[p], 1)]
      OBVIOUS
    <2>4. /\ e.poolCapacity = WithPoolCapacity(d, f).poolCapacity
          /\ e.pools = d.pools /\ e.capacity = d.capacity
      BY <2>1, <2>3 DEF WithPoolCapacity, RowsInOrder, HasColumns
    <2>5. \A q \in d.pools : q \in DOMAIN f => f[q] \in 0 .. Word - 1
      BY <1>0, <2>2, <2>3, SumsTyped DEF CapacitiesTyped
    <2> QED
      BY <2>4, <2>5, WrittenTyped DEF CapacitiesTyped
  <1> QED
    BY <1>1, <1>2

LEMMA DeleteReservation4Typed ==
    ASSUME NEW d, RowsInOrder(d), CapacitiesTyped(d), NEW v,
           NEW e \in DeleteReservation4(d, d, v)
    PROVE  CapacitiesTyped(e)
  <1>0. 1 \in 0 .. Word - 1
    BY RowsAssumption
  <1>1. CASE Containing(d.pools, v.ip) = {}
    <2>1. e.pools = d.pools /\ e.poolCapacity = d.poolCapacity /\ e.capacity = Minus(d.capacity, 1)
      BY <1>1 DEF DeleteReservation4, RowsInOrder, HasColumns
    <2> QED
      BY <1>0, <2>1, SumsTyped DEF CapacitiesTyped
  <1>2. CASE Containing(d.pools, v.ip) # {}
    <2>1. PICK p \in Containing(d.pools, v.ip) :
             e = WithPoolCapacity([d EXCEPT !.reservations = @ \ {v}],
                                  [q \in {p} |-> Plus(d.poolCapacity[p], 1)])
      BY <1>2 DEF DeleteReservation4
    <2>2. p \in d.pools
      BY DEF Containing
    <2>3. PICK f : f = [q \in {p} |-> Plus(d.poolCapacity[p], 1)]
      OBVIOUS
    <2>4. /\ e.poolCapacity = WithPoolCapacity(d, f).poolCapacity
          /\ e.pools = d.pools /\ e.capacity = d.capacity
      BY <2>1, <2>3 DEF WithPoolCapacity, RowsInOrder, HasColumns
    <2>5. \A q \in d.pools : q \in DOMAIN f => f[q] \in 0 .. Word - 1
      BY <1>0, <2>2, <2>3, SumsTyped DEF CapacitiesTyped
    <2> QED
      BY <2>4, <2>5, WrittenTyped DEF CapacitiesTyped
  <1> QED
    BY <1>1, <1>2

\* What a batch writes of a set of reservations.
LEMMA BatchReservation4sTyped ==
    ASSUME NEW d, RowsInOrder(d), CapacitiesTyped(d),
           NEW vs, vs \subseteq ReservationRow, \A u, v \in vs : u # v => u.ip # v.ip
    PROVE  /\ CapacitiesTyped(BatchCreateReservation4s(d, vs))
           /\ CapacitiesTyped(BatchDeleteReservation4s(d, vs))
  <1>0. SUFFICES ASSUME NEW a, a = BatchCreateReservation4s(d, vs),
                        NEW b, b = BatchDeleteReservation4s(d, vs)
                 PROVE  CapacitiesTyped(a) /\ CapacitiesTyped(b)
    OBVIOUS
  <1>1. PICK hit : hit = UNION {ConflictPool(d, v) : v \in vs}
    OBVIOUS
  <1>2. PICK h : h = [p \in hit |-> Cardinality({v \in vs : p \in ConflictPool(d, v)})]
    OBVIOUS
  <1>3. PICK n \in 0 .. Word - 1 : n = Cardinality(vs \ Inside(d, vs))
    BY ReservationCountTyped
  <1>4. \A p \in hit : h[p] \in 0 .. Word - 1
    <2> SUFFICES ASSUME NEW p \in hit PROVE h[p] \in 0 .. Word - 1
      OBVIOUS
    <2>1. {v \in vs : p \in ConflictPool(d, v)} \subseteq vs
      OBVIOUS
    <2> QED
      BY <1>2, <2>1, ReservationCountTyped
  <1>5. PICK f : f = [p \in hit |-> Minus(d.poolCapacity[p], h[p])]
    OBVIOUS
  <1>6. PICK g : g = [p \in hit |-> Plus(d.poolCapacity[p], h[p])]
    OBVIOUS
  <1>7. f = [p \in hit |-> Minus(d.poolCapacity[p],
                                 Cardinality({v \in vs : p \in ConflictPool(d, v)}))]
    BY <1>2, <1>5
  <1>8. g = [p \in hit |-> Plus(d.poolCapacity[p],
                                Cardinality({v \in vs : p \in ConflictPool(d, v)}))]
    BY <1>2, <1>6
  <1>9. a = [WithPoolCapacity(d, f) EXCEPT !.reservations = @ \cup vs,
                                          !.capacity = Plus(@, n)]
    BY <1>0, <1>1, <1>3, <1>7, Zenon DEF BatchCreateReservation4s
  <1>10. b = [WithPoolCapacity(d, g) EXCEPT !.reservations = @ \ vs,
                                           !.capacity = Minus(@, n)]
    BY <1>0, <1>1, <1>3, <1>8, Zenon DEF BatchDeleteReservation4s
  <1>11. /\ a.poolCapacity = WithPoolCapacity(d, f).poolCapacity
         /\ a.pools = d.pools /\ a.capacity = Plus(d.capacity, n)
    BY <1>9 DEF WithPoolCapacity, RowsInOrder, HasColumns
  <1>12. /\ b.poolCapacity = WithPoolCapacity(d, g).poolCapacity
         /\ b.pools = d.pools /\ b.capacity = Minus(d.capacity, n)
    BY <1>10 DEF WithPoolCapacity, RowsInOrder, HasColumns
  <1>13. \A p \in d.pools : p \in hit => f[p] \in 0 .. Word - 1 /\ g[p] \in 0 .. Word - 1
    BY <1>4, <1>5, <1>6, SumsTyped DEF CapacitiesTyped
  <1>14. a.capacity \in 0 .. Word - 1 /\ b.capacity \in 0 .. Word - 1
    BY <1>11, <1>12, SumsTyped DEF CapacitiesTyped
  <1>15. DOMAIN f = hit /\ DOMAIN g = hit
    BY <1>5, <1>6
  <1> QED
    BY <1>11, <1>12, <1>13, <1>14, <1>15, WrittenTyped

LEMMA PoolsFinite ==
    ASSUME NEW d, RowsInOrder(d)
    PROVE  IsFiniteSet(d.pools)
  <1> DEFINE f == [p \in d.pools |-> p.begin]
  <1>1. \A p \in d.pools : p \in PoolRow
    BY DEF RowsInOrder
  <1>2. f \in [d.pools -> Ip]
    BY <1>1 DEF PoolRow
  <1>3. ASSUME NEW p \in d.pools, NEW q \in d.pools, p # q PROVE f[p] # f[q]
    <2>1. ~Overlaps(p, q)
      BY <1>3 DEF RowsInOrder, DisjointRows
    <2> QED
      BY <1>1, <2>1, RowsAssumption DEF PoolRow, Overlaps, Ip
  <1> HIDE DEF f
  <1> QED
    BY <1>2, <1>3, FiniteByColumn

LEMMA LastOfBatch ==
    ASSUME NEW n \in 1 .. 2, NEW I, I \subseteq 1 .. n, I # {}
    PROVE  Max(I) \in I
  <1>1. \E m \in I : \A i \in I : m >= i
    <2>1. CASE 2 \in I
      BY <2>1
    <2>2. CASE 2 \notin I
      <3>1. \A i \in I : i = 1
        BY <2>2
      <3>2. PICK m \in I : TRUE
        OBVIOUS
      <3> QED
        BY <3>1, <3>2
    <2> QED
      BY <2>1, <2>2
  <1> QED
    BY <1>1 DEF Max

LEMMA CopiesCount ==
    ASSUME NEW x, NEW m \in Nat
    PROVE  IsFiniteSet({x} \X (1 .. m)) /\ Cardinality({x} \X (1 .. m)) = m
  <1>1. IsFiniteSet(1 .. m) /\ Cardinality(1 .. m) = m
    BY FS_Interval
  <1>2. IsFiniteSet({x}) /\ Cardinality({x}) = 1
    BY FS_Singleton
  <1>3. /\ IsFiniteSet({x} \X (1 .. m))
        /\ Cardinality({x} \X (1 .. m)) = Cardinality({x}) * Cardinality(1 .. m)
    BY <1>1, <1>2, FS_Product
  <1> QED
    BY <1>1, <1>2, <1>3

LEMMA ReservedPoolBatchTyped ==
    ASSUME NEW d, RowsInOrder(d), CapacitiesTyped(d),
           NEW n \in 1 .. 2, NEW rs \in [1 .. n -> PoolRow]
    PROVE  CapacitiesTyped(BatchCreateReservedPool4s(d, rs))
  <1>0. SUFFICES ASSUME NEW e, e = BatchCreateReservedPool4s(d, rs) PROVE CapacitiesTyped(e)
    OBVIOUS
  <1>1. d.pools \subseteq PoolRow
    BY DEF RowsInOrder
  <1>2. \A p \in d.pools, i \in 1 .. n : ReservedCount(p, rs[i]) \in 0 .. Word - 1
    BY <1>1, ReservedCountTyped
  <1> DEFINE rows == d.pools \X DOMAIN rs
             c == [x \in rows |-> ReservedCount(x[1], rs[x[2]])]
             f == [x \in rows |-> {x} \X (1 .. c[x])]
             sum == MapThenSumSet(LAMBDA x : ReservedCount(x[1], rs[x[2]]), rows)
  <1>3. sum \in Int
    <2>1. IsFiniteSet(rows)
      <3>1. IsFiniteSet(1 .. n) /\ DOMAIN rs = 1 .. n
        BY FS_Interval
      <3> QED
        BY <3>1, PoolsFinite, FS_Product
    <2>2. \A x \in rows : c[x] \in Nat
      BY <1>2, RowsAssumption
    <2>3. ASSUME NEW x \in rows
          PROVE  IsFiniteSet(f[x]) /\ Cardinality(f[x]) = c[x]
      <3> HIDE DEF rows, c
      <3>1. c[x] \in Nat
        BY <2>2
      <3> QED
        BY <3>1, CopiesCount
    <2>4. \A x, y \in rows : x # y => f[x] \cap f[y] = {}
      OBVIOUS
    <2>5. \A x \in rows : ReservedCount(x[1], rs[x[2]]) = Cardinality(f[x])
      BY <2>3
    <2> HIDE DEF c, f, rows
    <2>6. Separate(f, rows)
      BY <2>3, <2>4 DEF Separate
    <2>7. sum = Cardinality(Together(f, rows))
      BY <2>1, <2>5, <2>6, BatchSum
    <2>8. IsFiniteSet(Together(f, rows))
      BY <2>1, <2>6, TogetherFinite DEF Separate
    <2> QED
      BY <2>7, <2>8, FS_CardinalityType
  <1>4. PICK taken \in Int : taken = sum
    BY <1>3
  <1> DEFINE g == [p \in {q \in d.pools : Touching(q, rs) # {}} |->
                      Minus(d.poolCapacity[p], ReservedCount(p, rs[Max(Touching(p, rs))]))]
  <1>5. e = [WithPoolCapacity(d, g) EXCEPT !.reservedPools = @ \cup ToSet(rs),
                                          !.capacity = (@ - taken) % Word]
    BY <1>0, <1>4, Zenon DEF BatchCreateReservedPool4s
  <1> HIDE DEF sum, rows, c, f
  <1>6. \A p \in d.pools : p \in DOMAIN g => g[p] \in 0 .. Word - 1
    <2> SUFFICES ASSUME NEW p \in d.pools, Touching(p, rs) # {}
                 PROVE  g[p] \in 0 .. Word - 1
      OBVIOUS
    <2>1. Touching(p, rs) \subseteq 1 .. n
      BY DEF Touching
    <2>2. Max(Touching(p, rs)) \in 1 .. n
      BY <2>1, LastOfBatch
    <2>3. ReservedCount(p, rs[Max(Touching(p, rs))]) \in 0 .. Word - 1
      BY <1>2, <2>2
    <2>4. d.poolCapacity[p] \in 0 .. Word - 1
      BY DEF CapacitiesTyped
    <2>5. g[p] = Minus(d.poolCapacity[p], ReservedCount(p, rs[Max(Touching(p, rs))]))
      OBVIOUS
    <2> QED
      BY <2>3, <2>4, <2>5, SumsTyped
  <1> HIDE DEF g
  <1>7. /\ e.poolCapacity = WithPoolCapacity(d, g).poolCapacity
        /\ e.pools = d.pools /\ e.capacity = (d.capacity - taken) % Word
    BY <1>5 DEF WithPoolCapacity, RowsInOrder, HasColumns
  <1>8. e.capacity \in 0 .. Word - 1
    <2>1. d.capacity \in Int /\ Word \in Nat /\ Word > 0
      BY RowsAssumption DEF CapacitiesTyped
    <2> QED
      BY <1>7, <2>1
  <1> QED
    BY <1>6, <1>7, <1>8, WrittenTyped

\* The books of an imported subnet are exact.
LEMMA ImportExact ==
    ASSUME NEW line \in Lines, CanImportSubnet4(line)
    PROVE  CapacitiesTyped(ImportSubnet4(line))
  <1>0. SUFFICES ASSUME NEW e, e = ImportSubnet4(line) PROVE CapacitiesTyped(e)
    OBVIOUS
  <1>1. RowsInOrder(e)
    BY <1>0, ImportInOrder
  <1>2. Line(e) = line
    BY <1>0, LineOfFile, LineReturns
  <1>3. \A p \in e.pools : e.poolCapacity[p] = ImportedCapacity(line, p)
    BY <1>0, ImportedFields
  <1>4. \A p \in e.pools : e.poolCapacity[p] = Cardinality(FreeOf(e, p))
    BY <1>1, <1>2, <1>3, ImportedCounts
  <1>5. \A p \in e.pools : e.poolCapacity[p] \in 0 .. Word - 1
    BY <1>1, <1>4, FreeOfCount DEF RowsInOrder
  <1>6. e.poolCapacity = [p \in e.pools |-> e.poolCapacity[p]]
    <2>1. /\ e.poolCapacity = [p \in PoolRows(line.pools) |-> ImportedCapacity(line, p)]
          /\ e.pools = PoolRows(line.pools)
      BY <1>0, Zenon DEF ImportSubnet4
    <2> QED
      BY <2>1
  <1>7. e.capacity = Cardinality(PoolIps(e)) + Cardinality(ReservedIps(e))
    BY <1>0, <1>1, <1>2, ImportedSum
  <1>8. e.capacity \in 0 .. Word - 1
    BY <1>1, <1>7, BooksAsSets, RowsAssumption DEF RowsInOrder
  <1> QED
    BY <1>5, <1>6, <1>8 DEF CapacitiesTyped

\* What holds of a subnet in every state, whatever has been done to it.
BatchIInv == RowsInOrder(db) /\ CapacitiesTyped(db)

LEMMA InitBatchIInv == Init => BatchIInv
  <1>1. ASSUME Init PROVE CapacitiesTyped(db)
    BY <1>1, RowsAssumption DEF Init, Childless, CapacitiesTyped
  <1> QED
    BY <1>1, InitInOrder DEF BatchIInv

LEMMA NextTyped == BatchIInv /\ [BatchNext]_vars => CapacitiesTyped(db')
  <1> SUFFICES ASSUME RowsInOrder(db), CapacitiesTyped(db), [BatchNext]_vars
               PROVE  CapacitiesTyped(db')
    BY DEF BatchIInv
  <1>1. ASSUME NEW p \in PoolRow, Pool4Create(p)
        PROVE  CapacitiesTyped(db')
    BY <1>1, CreatePool4Typed DEF Pool4Create
  <1>2. ASSUME NEW p \in PoolRow, Pool4Delete(p)
        PROVE  CapacitiesTyped(db')
    BY <1>2, DeletePool4Typed DEF Pool4Delete, CanDeletePool4
  <1>3. ASSUME NEW r \in PoolRow, ReservedPool4Create(r)
        PROVE  CapacitiesTyped(db')
    BY <1>3, CreateReservedPool4Typed DEF ReservedPool4Create
  <1>4. ASSUME NEW r \in PoolRow, ReservedPool4Delete(r)
        PROVE  CapacitiesTyped(db')
    BY <1>4, DeleteReservedPool4Typed DEF ReservedPool4Delete
  <1>5. ASSUME NEW v \in ReservationRow,
               Reservation4Create(v) \/ AutoReservation4Create(v)
        PROVE  CapacitiesTyped(db')
    BY <1>5, CreateReservation4Typed DEF Reservation4Create, AutoReservation4Create
  <1>6. ASSUME NEW v \in ReservationRow, Reservation4Delete(v)
        PROVE  CapacitiesTyped(db')
    BY <1>6, DeleteReservation4Typed DEF Reservation4Delete
  <1>7. ASSUME NEW ip \in Ip, AutoReservation4Delete(ip)
        PROVE  CapacitiesTyped(db')
    BY <1>7, DeleteReservation4Typed DEF AutoReservation4Delete
  <1>8. ASSUME SubnetDelete
        PROVE  CapacitiesTyped(db')
    BY <1>8, RowsAssumption DEF SubnetDelete, Childless, CapacitiesTyped
  <1>9. ASSUME NEW l, GrantLease(l) \/ EndLease(l)
        PROVE  CapacitiesTyped(db')
    BY <1>9 DEF GrantLease, EndLease
  <1>10. ASSUME NEW rs \in ReservedPoolBatches, ReservedPool4BatchCreate(rs)
         PROVE  CapacitiesTyped(db')
    <2>1. PICK n \in 1 .. 2 : rs \in [1 .. n -> PoolRow]
      BY DEF ReservedPoolBatches
    <2> QED
      BY <1>10, <2>1, ReservedPoolBatchTyped DEF ReservedPool4BatchCreate
  <1>11. ASSUME NEW vs \in ReservationBatches(ReservationRow), Reservation4BatchCreate(vs)
         PROVE  CapacitiesTyped(db')
    <2>1. vs \subseteq ReservationRow
      BY DEF ReservationBatches
    <2>2. \A u, v \in vs : u # v => u.ip # v.ip
      BY <1>11 DEF Reservation4BatchCreate, CanBatchCreateReservation4s
    <2> QED
      BY <1>11, <2>1, <2>2, BatchReservation4sTyped DEF Reservation4BatchCreate
  <1>12. ASSUME NEW vs \in ReservationBatches(db.reservations), Reservation4BatchDelete(vs)
         PROVE  CapacitiesTyped(db')
    <2>1. vs \subseteq db.reservations
      BY DEF ReservationBatches
    <2>2. vs \subseteq ReservationRow /\ \A u, v \in vs : u # v => u.ip # v.ip
      BY <2>1 DEF RowsInOrder, ExclusiveRows
    <2> QED
      BY <1>12, <2>2, BatchReservation4sTyped DEF Reservation4BatchDelete
  <1>13. ASSUME NEW file \in ReservationFiles, Reservation4Import(file)
         PROVE  CapacitiesTyped(db')
    <2>1. file \in [1 .. 2 -> ReservationRow]
      <3>1. [id: Ids, ip: Ip, client: Clients, auto: {FALSE}] \subseteq ReservationRow
        BY DEF ReservationRow
      <3>2. file \in [1 .. 2 -> [id: Ids, ip: Ip, client: Clients, auto: {FALSE}]]
        BY DEF ReservationFiles
      <3> QED
        BY <3>1, <3>2
    <2>2. PICK vs : vs = ImportedReservation4s(db, file)
      OBVIOUS
    <2>3. vs \subseteq ReservationRow /\ \A u, v \in vs : u # v => u.ip # v.ip
      BY <2>1, <2>2, FileTaken DEF CanBatchCreateReservation4s
    <2> QED
      BY <1>13, <2>2, <2>3, BatchReservation4sTyped DEF Reservation4Import
  <1>14. ASSUME NEW line \in Lines, SubnetImport(line)
         PROVE  CapacitiesTyped(db')
    BY <1>14, ImportExact DEF SubnetImport
  <1>15. ASSUME UNCHANGED vars
         PROVE  CapacitiesTyped(db')
    BY <1>15 DEF vars
  <1> QED
    BY <1>1, <1>2, <1>3, <1>4, <1>5, <1>6, <1>7, <1>8, <1>9, <1>10, <1>11, <1>12, <1>13,
       <1>14, <1>15
    DEF BatchNext, Next

LEMMA NextBatchIInv == BatchIInv /\ [BatchNext]_vars => BatchIInv'
  <1> SUFFICES ASSUME BatchIInv, [BatchNext]_vars
               PROVE  RowsInOrder(db') /\ CapacitiesTyped(db')
    BY DEF BatchIInv
  <1>1. RowsInOrder(db')
    BY NextInOrder DEF BatchIInv
  <1>2. CapacitiesTyped(db')
    BY NextTyped
  <1> QED
    BY <1>1, <1>2

\* Whatever single requests, batches and imports have made of a subnet, and for
\* any addresses, rows and clients: the rows have their types and no capacity
\* leaves the range of a uint64, pools share no address, and what is reserved
\* is reserved once.
THEOREM BatchInvariant == BatchSpec => []BatchIInv
  BY InitBatchIInv, NextBatchIInv, PTL DEF BatchSpec

-----------------------------------------------------------------------------
(***************************************************************************)
(* Subnet4Batch: batches of reservations and single requests               *)
(***************************************************************************)

\* What the one outcome of a request is.
Created(d, v) == CHOOSE e \in CreateReservation4(d, d, v) : TRUE

Deleted(d, v) == CHOOSE e \in DeleteReservation4(d, d, v) : TRUE

LEMMA RestOfTwo ==
    ASSUME NEW u, NEW v, NEW s \in SUBSET {u, v}
    PROVE  /\ s \ {Pick(s)} \in SUBSET {u, v}
           /\ (s \ {Pick(s)}) \ {Pick(s \ {Pick(s)})} = {}
           /\ s # {} => Pick(s) \in s
  <1>1. \A T : T # {} => Pick(T) \in T
    BY DEF Pick
  <1>2. PICK x : x = Pick(s)
    OBVIOUS
  <1>3. PICK y : y = Pick(s \ {x})
    OBVIOUS
  <1>4. (s \ {x}) \ {y} = {}
    <2>1. s # {} => x \in s
      BY <1>1, <1>2
    <2>2. s \ {x} # {} => y \in s \ {x}
      BY <1>1, <1>3
    <2> QED
      BY <2>1, <2>2
  <1> QED
    BY <1>1, <1>2, <1>3, <1>4

\* The rows after one request for each of vs, in the order that a fold takes.
AllCreated(vs) ==
    (CHOOSE h : h = [s \in SUBSET vs |->
                       IF s = {} THEN db ELSE Created(h[s \ {Pick(s)}], Pick(s))])[vs]

\* f is what one request or two in turn make of the rows.
CreatedEitherWay(vs, f) ==
    \/ \E x : vs = {x} /\ f = Created(db, x)
    \/ \E x, y : x # y /\ vs = {x, y} /\ f = Created(Created(db, y), x)

\* One request after the other creates one row or two, in either order.
LEMMA CreatedInTurn ==
    ASSUME NEW u, NEW v, NEW vs, vs = {u, v}
    PROVE  CreatedEitherWay(vs, AllCreated(vs))
  <1> SUFFICES ASSUME NEW f, f = AllCreated(vs)
               PROVE  \/ \E x : vs = {x} /\ f = Created(db, x)
                      \/ \E x, y : x # y /\ vs = {x, y} /\ f = Created(Created(db, y), x)
    BY DEF CreatedEitherWay
  <1> DEFINE A(h) == h = [s \in SUBSET vs |->
                            IF s = {} THEN db ELSE Created(h[s \ {Pick(s)}], Pick(s))]
             g == CHOOSE h : A(h)
             k == [s \in SUBSET vs |->
                     IF s = {} THEN db
                     ELSE IF s \ {Pick(s)} = {} THEN Created(db, Pick(s))
                     ELSE Created(Created(db, Pick(s \ {Pick(s)})), Pick(s))]
  <1>1. f = g[vs]
    BY Zenon DEF AllCreated
  <1>2. ASSUME NEW s \in SUBSET vs
        PROVE  k[s] = IF s = {} THEN db ELSE Created(k[s \ {Pick(s)}], Pick(s))
    <2>1. PICK t : t = s \ {Pick(s)}
      OBVIOUS
    <2>2. t \in SUBSET vs /\ t \ {Pick(t)} = {}
      BY <2>1, RestOfTwo
    <2>3. CASE s = {}
      BY <2>3
    <2>4. CASE s # {} /\ t = {}
      <3>1. k[s] = Created(db, Pick(s)) /\ k[t] = db
        BY <2>1, <2>2, <2>4
      <3> HIDE DEF k
      <3> QED
        BY <2>1, <2>4, <3>1
    <2>5. CASE s # {} /\ t # {}
      <3>1. k[s] = Created(Created(db, Pick(t)), Pick(s)) /\ k[t] = Created(db, Pick(t))
        BY <2>1, <2>2, <2>5
      <3> HIDE DEF k
      <3> QED
        BY <2>1, <2>5, <3>1
    <2> QED
      BY <2>3, <2>4, <2>5
  <1>3. k = [s \in SUBSET vs |-> k[s]]
    OBVIOUS
  <1> HIDE DEF k
  <1>4. A(k)
    <2>1. k = [s \in SUBSET vs |-> IF s = {} THEN db ELSE Created(k[s \ {Pick(s)}], Pick(s))]
      BY <1>2, <1>3, Zenon
    <2> QED
      BY <2>1, Zenon
  <1>5. A(g)
    <2> HIDE DEF A
    <2> QED
      BY <1>4
  <1> HIDE DEF g
  <1>6. \A s \in SUBSET vs : g[s] = IF s = {} THEN db ELSE Created(g[s \ {Pick(s)}], Pick(s))
    BY <1>5
  <1> HIDE DEF A
  <1>7. PICK x : x = Pick(vs)
    OBVIOUS
  <1>8. PICK t : t = vs \ {x}
    OBVIOUS
  <1>9. x \in vs /\ t \in SUBSET vs /\ t \ {Pick(t)} = {} /\ (t # {} => Pick(t) \in t)
    BY <1>7, <1>8, RestOfTwo
  <1>10. g[{}] = db /\ g[vs] = Created(g[t], x)
    BY <1>6, <1>7, <1>8
  <1>11. CASE t = {}
    <2>1. vs = {x}
      BY <1>8, <1>9, <1>11
    <2> QED
      BY <1>1, <1>10, <1>11, <2>1
  <1>12. CASE t # {}
    <2>1. PICK y : y = Pick(t)
      OBVIOUS
    <2>2. t = {y} /\ x # y /\ vs = {x, y}
      BY <1>8, <1>9, <1>12, <2>1
    <2>3. g[t] = Created(g[t \ {y}], y)
      BY <1>6, <1>9, <1>12, <2>1
    <2>4. g[t] = Created(db, y)
      BY <1>9, <1>10, <2>1, <2>3
    <2> QED
      BY <1>1, <1>10, <2>2, <2>4
  <1> QED
    BY <1>11, <1>12

\* The same for deletions.
AllDeleted(vs) ==
    (CHOOSE h : h = [s \in SUBSET vs |->
                       IF s = {} THEN db ELSE Deleted(h[s \ {Pick(s)}], Pick(s))])[vs]

DeletedEitherWay(vs, f) ==
    \/ \E x : vs = {x} /\ f = Deleted(db, x)
    \/ \E x, y : x # y /\ vs = {x, y} /\ f = Deleted(Deleted(db, y), x)

\* One request after the other deletes one row or two, in either order.
LEMMA DeletedInTurn ==
    ASSUME NEW u, NEW v, NEW vs, vs = {u, v}
    PROVE  DeletedEitherWay(vs, AllDeleted(vs))
  <1> SUFFICES ASSUME NEW f, f = AllDeleted(vs)
               PROVE  \/ \E x : vs = {x} /\ f = Deleted(db, x)
                      \/ \E x, y : x # y /\ vs = {x, y} /\ f = Deleted(Deleted(db, y), x)
    BY DEF DeletedEitherWay
  <1> DEFINE A(h) == h = [s \in SUBSET vs |->
                            IF s = {} THEN db ELSE Deleted(h[s \ {Pick(s)}], Pick(s))]
             g == CHOOSE h : A(h)
             k == [s \in SUBSET vs |->
                     IF s = {} THEN db
                     ELSE IF s \ {Pick(s)} = {} THEN Deleted(db, Pick(s))
                     ELSE Deleted(Deleted(db, Pick(s \ {Pick(s)})), Pick(s))]
  <1>1. f = g[vs]
    BY Zenon DEF AllDeleted
  <1>2. ASSUME NEW s \in SUBSET vs
        PROVE  k[s] = IF s = {} THEN db ELSE Deleted(k[s \ {Pick(s)}], Pick(s))
    <2>1. PICK t : t = s \ {Pick(s)}
      OBVIOUS
    <2>2. t \in SUBSET vs /\ t \ {Pick(t)} = {}
      BY <2>1, RestOfTwo
    <2>3. CASE s = {}
      BY <2>3
    <2>4. CASE s # {} /\ t = {}
      <3>1. k[s] = Deleted(db, Pick(s)) /\ k[t] = db
        BY <2>1, <2>2, <2>4
      <3> HIDE DEF k
      <3> QED
        BY <2>1, <2>4, <3>1
    <2>5. CASE s # {} /\ t # {}
      <3>1. k[s] = Deleted(Deleted(db, Pick(t)), Pick(s)) /\ k[t] = Deleted(db, Pick(t))
        BY <2>1, <2>2, <2>5
      <3> HIDE DEF k
      <3> QED
        BY <2>1, <2>5, <3>1
    <2> QED
      BY <2>3, <2>4, <2>5
  <1>3. k = [s \in SUBSET vs |-> k[s]]
    OBVIOUS
  <1> HIDE DEF k
  <1>4. A(k)
    <2>1. k = [s \in SUBSET vs |-> IF s = {} THEN db ELSE Deleted(k[s \ {Pick(s)}], Pick(s))]
      BY <1>2, <1>3, Zenon
    <2> QED
      BY <2>1, Zenon
  <1>5. A(g)
    <2> HIDE DEF A
    <2> QED
      BY <1>4
  <1> HIDE DEF g
  <1>6. \A s \in SUBSET vs : g[s] = IF s = {} THEN db ELSE Deleted(g[s \ {Pick(s)}], Pick(s))
    BY <1>5
  <1> HIDE DEF A
  <1>7. PICK x : x = Pick(vs)
    OBVIOUS
  <1>8. PICK t : t = vs \ {x}
    OBVIOUS
  <1>9. x \in vs /\ t \in SUBSET vs /\ t \ {Pick(t)} = {} /\ (t # {} => Pick(t) \in t)
    BY <1>7, <1>8, RestOfTwo
  <1>10. g[{}] = db /\ g[vs] = Deleted(g[t], x)
    BY <1>6, <1>7, <1>8
  <1>11. CASE t = {}
    <2>1. vs = {x}
      BY <1>8, <1>9, <1>11
    <2> QED
      BY <1>1, <1>10, <1>11, <2>1
  <1>12. CASE t # {}
    <2>1. PICK y : y = Pick(t)
      OBVIOUS
    <2>2. t = {y} /\ x # y /\ vs = {x, y}
      BY <1>8, <1>9, <1>12, <2>1
    <2>3. g[t] = Deleted(g[t \ {y}], y)
      BY <1>6, <1>9, <1>12, <2>1
    <2>4. g[t] = Deleted(db, y)
      BY <1>9, <1>10, <2>1, <2>3
    <2> QED
      BY <1>1, <1>10, <2>2, <2>4
  <1> QED
    BY <1>11, <1>12

\* The rows are as the table has them, and pools share no address.
Plain(d) ==
    /\ HasColumns(d)
    /\ d.pools \subseteq PoolRow
    /\ DisjointRows(d.pools)
    /\ CapacitiesTyped(d)

\* By how much a reservation changes the capacity of a pool and of the subnet.
Hit(p, v) == IF v.ip \in Ips(p) THEN 1 ELSE 0

Missed(d, v) == IF Containing(d.pools, v.ip) = {} THEN 1 ELSE 0

\* The rows after a request for one reservation.
AfterCreate(d, v) ==
    [pools |-> d.pools,
     poolCapacity |-> [p \in d.pools |-> Minus(d.poolCapacity[p], Hit(p, v))],
     reservedPools |-> d.reservedPools, reservations |-> d.reservations \cup {v},
     capacity |-> Plus(d.capacity, Missed(d, v))]

AfterDelete(d, v) ==
    [pools |-> d.pools,
     poolCapacity |-> [p \in d.pools |-> Plus(d.poolCapacity[p], Hit(p, v))],
     reservedPools |-> d.reservedPools, reservations |-> d.reservations \ {v},
     capacity |-> Minus(d.capacity, Missed(d, v))]

LEMMA NothingAdded ==
    ASSUME NEW n \in 0 .. Word - 1
    PROVE  Plus(n, 0) = n /\ Minus(n, 0) = n
  BY RowsAssumption DEF Plus, Minus, Wrap

LEMMA TwiceIsTwo ==
    ASSUME NEW n \in 0 .. Word - 1, NEW a \in {0, 1}, NEW b \in {0, 1}
    PROVE  Plus(Plus(n, a), b) = Plus(n, a + b) /\ Minus(Minus(n, a), b) = Minus(n, a + b)
  <1>1. Word > 2
    BY RowsAssumption
  <1> QED
    BY <1>1, RowsAssumption DEF Plus, Minus, Wrap

LEMMA OnePool ==
    ASSUME NEW d, Plain(d), NEW v, NEW p \in Containing(d.pools, v.ip)
    PROVE  /\ Containing(d.pools, v.ip) = {p}
           /\ p \in d.pools
           /\ \A q \in d.pools : v.ip \in Ips(q) <=> q = p
  <1>1. ASSUME NEW q \in d.pools, v.ip \in Ips(q) PROVE q = p
    <2>1. p \in PoolRow /\ q \in PoolRow /\ p \in d.pools /\ v.ip \in Ips(p)
      BY DEF Plain, Containing
    <2>2. Overlaps(p, q)
      BY <1>1, <2>1, RowsAssumption DEF Ips, Overlaps, PoolRow, Ip
    <2> QED
      BY <2>1, <2>2 DEF Plain, DisjointRows
  <1> QED
    BY <1>1 DEF Containing

LEMMA CreatedIs ==
    ASSUME NEW d, Plain(d), NEW v
    PROVE  Created(d, v) = AfterCreate(d, v)
  <1>1. CASE Containing(d.pools, v.ip) = {}
    <2>1. Created(d, v) = [d EXCEPT !.reservations = @ \cup {v}, !.capacity = Plus(d.capacity, 1)]
      <3>1. CreateReservation4(d, d, v)
              = {[[d EXCEPT !.reservations = @ \cup {v}] EXCEPT !.capacity = Plus(d.capacity, 1)]}
        BY <1>1 DEF CreateReservation4
      <3>2. [[d EXCEPT !.reservations = @ \cup {v}] EXCEPT !.capacity = Plus(d.capacity, 1)]
              = [d EXCEPT !.reservations = @ \cup {v}, !.capacity = Plus(d.capacity, 1)]
        BY DEF Plain, HasColumns
      <3> QED
        BY <3>1, <3>2 DEF Created
    <2>2. \A p \in d.pools : Hit(p, v) = 0
      BY <1>1 DEF Hit, Containing
    <2>3. d.poolCapacity = [p \in d.pools |-> Minus(d.poolCapacity[p], Hit(p, v))]
      <3>1. \A p \in d.pools : d.poolCapacity[p] = Minus(d.poolCapacity[p], Hit(p, v))
        BY <2>2, NothingAdded DEF Plain, CapacitiesTyped
      <3>2. d.poolCapacity = [p \in d.pools |-> d.poolCapacity[p]]
        BY DEF Plain, CapacitiesTyped
      <3> QED
        BY <3>1, <3>2
    <2>4. Missed(d, v) = 1
      BY <1>1 DEF Missed
    <2> QED
      BY <2>1, <2>3, <2>4 DEF AfterCreate, Plain, HasColumns
  <1>2. CASE Containing(d.pools, v.ip) # {}
    <2>1. PICK p \in Containing(d.pools, v.ip) : TRUE
      BY <1>2
    <2>2. /\ Containing(d.pools, v.ip) = {p} /\ p \in d.pools
          /\ \A q \in d.pools : v.ip \in Ips(q) <=> q = p
      BY OnePool
    <2>3. PICK f : f = [q \in {p} |-> Minus(d.poolCapacity[p], 1)]
      OBVIOUS
    <2>4. Created(d, v) = WithPoolCapacity([d EXCEPT !.reservations = @ \cup {v}], f)
      <3>1. CreateReservation4(d, d, v)
              = {WithPoolCapacity([d EXCEPT !.reservations = @ \cup {v}], f)}
        BY <2>2, <2>3 DEF CreateReservation4
      <3> QED
        BY <3>1 DEF Created
    <2>5. \A q \in d.pools : (IF q \in DOMAIN f THEN f[q] ELSE d.poolCapacity[q])
                               = Minus(d.poolCapacity[q], Hit(q, v))
      BY <2>2, <2>3, NothingAdded DEF Hit, Plain, CapacitiesTyped
    <2>6. Missed(d, v) = 0 /\ Plus(d.capacity, 0) = d.capacity
      BY <1>2, NothingAdded DEF Missed, Plain, CapacitiesTyped
    <2>7. Created(d, v)
            = [d EXCEPT !.reservations = @ \cup {v},
                        !.poolCapacity = [q \in d.pools |-> Minus(d.poolCapacity[q], Hit(q, v))]]
      BY <2>4, <2>5 DEF WithPoolCapacity, Plain, HasColumns
    <2> QED
      BY <2>6, <2>7 DEF AfterCreate, Plain, HasColumns
  <1> QED
    BY <1>1, <1>2

LEMMA DeletedIs ==
    ASSUME NEW d, Plain(d), NEW v
    PROVE  Deleted(d, v) = AfterDelete(d, v)
  <1>1. CASE Containing(d.pools, v.ip) = {}
    <2>1. Deleted(d, v) = [d EXCEPT !.reservations = @ \ {v}, !.capacity = Minus(d.capacity, 1)]
      <3>1. DeleteReservation4(d, d, v)
              = {[[d EXCEPT !.reservations = @ \ {v}] EXCEPT !.capacity = Minus(d.capacity, 1)]}
        BY <1>1 DEF DeleteReservation4
      <3>2. [[d EXCEPT !.reservations = @ \ {v}] EXCEPT !.capacity = Minus(d.capacity, 1)]
              = [d EXCEPT !.reservations = @ \ {v}, !.capacity = Minus(d.capacity, 1)]
        BY DEF Plain, HasColumns
      <3> QED
        BY <3>1, <3>2 DEF Deleted
    <2>2. \A p \in d.pools : Hit(p, v) = 0
      BY <1>1 DEF Hit, Containing
    <2>3. d.poolCapacity = [p \in d.pools |-> Plus(d.poolCapacity[p], Hit(p, v))]
      <3>1. \A p \in d.pools : d.poolCapacity[p] = Plus(d.poolCapacity[p], Hit(p, v))
        BY <2>2, NothingAdded DEF Plain, CapacitiesTyped
      <3>2. d.poolCapacity = [p \in d.pools |-> d.poolCapacity[p]]
        BY DEF Plain, CapacitiesTyped
      <3> QED
        BY <3>1, <3>2
    <2>4. Missed(d, v) = 1
      BY <1>1 DEF Missed
    <2> QED
      BY <2>1, <2>3, <2>4 DEF AfterDelete, Plain, HasColumns
  <1>2. CASE Containing(d.pools, v.ip) # {}
    <2>1. PICK p \in Containing(d.pools, v.ip) : TRUE
      BY <1>2
    <2>2. /\ Containing(d.pools, v.ip) = {p} /\ p \in d.pools
          /\ \A q \in d.pools : v.ip \in Ips(q) <=> q = p
      BY OnePool
    <2>3. PICK f : f = [q \in {p} |-> Plus(d.poolCapacity[p], 1)]
      OBVIOUS
    <2>4. Deleted(d, v) = WithPoolCapacity([d EXCEPT !.reservations = @ \ {v}], f)
      <3>1. DeleteReservation4(d, d, v)
              = {WithPoolCapacity([d EXCEPT !.reservations = @ \ {v}], f)}
        BY <2>2, <2>3 DEF DeleteReservation4
      <3> QED
        BY <3>1 DEF Deleted
    <2>5. \A q \in d.pools : (IF q \in DOMAIN f THEN f[q] ELSE d.poolCapacity[q])
                               = Plus(d.poolCapacity[q], Hit(q, v))
      BY <2>2, <2>3, NothingAdded DEF Hit, Plain, CapacitiesTyped
    <2>6. Missed(d, v) = 0 /\ Minus(d.capacity, 0) = d.capacity
      BY <1>2, NothingAdded DEF Missed, Plain, CapacitiesTyped
    <2>7. Deleted(d, v)
            = [d EXCEPT !.reservations = @ \ {v},
                        !.poolCapacity = [q \in d.pools |-> Plus(d.poolCapacity[q], Hit(q, v))]]
      BY <2>4, <2>5 DEF WithPoolCapacity, Plain, HasColumns
    <2> QED
      BY <2>6, <2>7 DEF AfterDelete, Plain, HasColumns
  <1> QED
    BY <1>1, <1>2

\* By how much a batch changes them.
HitBy(p, vs) == Cardinality({v \in vs : v.ip \in Ips(p)})

MissedBy(d, vs) == Cardinality({v \in vs : Containing(d.pools, v.ip) = {}})

\* No pool with one of the addresses is passed over because its capacity is 0.
Open(d, vs) == \A v \in vs : ConflictPool(d, v) = Containing(d.pools, v.ip)

\* The rows after a batch whose every pool with one of the addresses has a
\* capacity left.
LEMMA BatchIs ==
    ASSUME NEW d, Plain(d), NEW vs, Open(d, vs)
    PROVE  /\ BatchCreateReservation4s(d, vs) =
                [pools |-> d.pools,
                 poolCapacity |-> [p \in d.pools |-> Minus(d.poolCapacity[p], HitBy(p, vs))],
                 reservedPools |-> d.reservedPools, reservations |-> d.reservations \cup vs,
                 capacity |-> Plus(d.capacity, MissedBy(d, vs))]
           /\ BatchDeleteReservation4s(d, vs) =
                [pools |-> d.pools,
                 poolCapacity |-> [p \in d.pools |-> Plus(d.poolCapacity[p], HitBy(p, vs))],
                 reservedPools |-> d.reservedPools, reservations |-> d.reservations \ vs,
                 capacity |-> Minus(d.capacity, MissedBy(d, vs))]
  <1>0. SUFFICES ASSUME NEW a, a = BatchCreateReservation4s(d, vs),
                        NEW b, b = BatchDeleteReservation4s(d, vs)
                 PROVE  /\ a = [pools |-> d.pools,
                                poolCapacity |-> [p \in d.pools |->
                                                    Minus(d.poolCapacity[p], HitBy(p, vs))],
                                reservedPools |-> d.reservedPools,
                                reservations |-> d.reservations \cup vs,
                                capacity |-> Plus(d.capacity, MissedBy(d, vs))]
                        /\ b = [pools |-> d.pools,
                                poolCapacity |-> [p \in d.pools |->
                                                    Plus(d.poolCapacity[p], HitBy(p, vs))],
                                reservedPools |-> d.reservedPools,
                                reservations |-> d.reservations \ vs,
                                capacity |-> Minus(d.capacity, MissedBy(d, vs))]
    OBVIOUS
  <1>1. PICK hit : hit = UNION {ConflictPool(d, v) : v \in vs}
    OBVIOUS
  <1>2. vs \ Inside(d, vs) = {v \in vs : Containing(d.pools, v.ip) = {}}
    BY DEF Inside, Open
  <1>3. \A p \in d.pools, v \in vs : p \in ConflictPool(d, v) <=> v.ip \in Ips(p)
    BY DEF Open, Containing
  <1>4. \A p \in d.pools : {v \in vs : p \in ConflictPool(d, v)} = {v \in vs : v.ip \in Ips(p)}
    BY <1>3
  <1>5. \A p \in d.pools : p \in hit <=> \E v \in vs : v.ip \in Ips(p)
    BY <1>1, <1>3
  <1>6. hit \subseteq d.pools
    BY <1>1 DEF ConflictPool, Containing
  <1>7. \A p \in d.pools : p \notin hit => HitBy(p, vs) = 0
    <2> SUFFICES ASSUME NEW p \in d.pools, p \notin hit PROVE HitBy(p, vs) = 0
      OBVIOUS
    <2>1. {v \in vs : v.ip \in Ips(p)} = {}
      BY <1>5
    <2> QED
      BY <2>1, FS_EmptySet DEF HitBy
  <1>8. PICK n : n = MissedBy(d, vs)
    OBVIOUS
  <1>9. PICK f : f = [p \in hit |-> Minus(d.poolCapacity[p],
                                          Cardinality({v \in vs : p \in ConflictPool(d, v)}))]
    OBVIOUS
  <1>10. PICK g : g = [p \in hit |-> Plus(d.poolCapacity[p],
                                          Cardinality({v \in vs : p \in ConflictPool(d, v)}))]
    OBVIOUS
  <1>11. n = Cardinality(vs \ Inside(d, vs))
    BY <1>2, <1>8 DEF MissedBy
  <1>12. a = [WithPoolCapacity(d, f) EXCEPT !.reservations = @ \cup vs,
                                           !.capacity = Plus(@, n)]
    BY <1>0, <1>1, <1>9, <1>11, Zenon DEF BatchCreateReservation4s
  <1>13. b = [WithPoolCapacity(d, g) EXCEPT !.reservations = @ \ vs,
                                           !.capacity = Minus(@, n)]
    BY <1>0, <1>1, <1>10, <1>11, Zenon DEF BatchDeleteReservation4s
  <1>14. ASSUME NEW p \in d.pools
         PROVE  /\ (IF p \in DOMAIN f THEN f[p] ELSE d.poolCapacity[p])
                     = Minus(d.poolCapacity[p], HitBy(p, vs))
                /\ (IF p \in DOMAIN g THEN g[p] ELSE d.poolCapacity[p])
                     = Plus(d.poolCapacity[p], HitBy(p, vs))
    <2>1. CASE p \in hit
      <3>1. Cardinality({v \in vs : p \in ConflictPool(d, v)}) = HitBy(p, vs)
        BY <1>4 DEF HitBy
      <3> QED
        BY <1>9, <1>10, <2>1, <3>1
    <2>2. CASE p \notin hit
      <3>1. HitBy(p, vs) = 0 /\ d.poolCapacity[p] \in 0 .. Word - 1
        BY <1>7, <2>2 DEF Plain, CapacitiesTyped
      <3>2. p \notin DOMAIN f /\ p \notin DOMAIN g
        BY <1>9, <1>10, <2>2
      <3> QED
        BY <3>1, <3>2, NothingAdded
    <2> QED
      BY <2>1, <2>2
  <1>15. WithPoolCapacity(d, f)
           = [d EXCEPT !.poolCapacity = [p \in d.pools |->
                                           Minus(d.poolCapacity[p], HitBy(p, vs))]]
    BY <1>14 DEF WithPoolCapacity
  <1>16. WithPoolCapacity(d, g)
           = [d EXCEPT !.poolCapacity = [p \in d.pools |->
                                           Plus(d.poolCapacity[p], HitBy(p, vs))]]
    BY <1>14 DEF WithPoolCapacity
  <1>17. a = [pools |-> d.pools,
              poolCapacity |-> [p \in d.pools |-> Minus(d.poolCapacity[p], HitBy(p, vs))],
              reservedPools |-> d.reservedPools, reservations |-> d.reservations \cup vs,
              capacity |-> Plus(d.capacity, n)]
    BY <1>12, <1>15 DEF Plain, HasColumns
  <1>18. b = [pools |-> d.pools,
              poolCapacity |-> [p \in d.pools |-> Plus(d.poolCapacity[p], HitBy(p, vs))],
              reservedPools |-> d.reservedPools, reservations |-> d.reservations \ vs,
              capacity |-> Minus(d.capacity, n)]
    BY <1>13, <1>16 DEF Plain, HasColumns
  <1> QED
    BY <1>8, <1>17, <1>18

LEMMA CountOfTwo ==
    ASSUME NEW x, NEW y, x # y
    PROVE  /\ \A p : HitBy(p, {x, y}) = Hit(p, x) + Hit(p, y)
           /\ \A d : MissedBy(d, {x, y}) = Missed(d, x) + Missed(d, y)
  <1>1. /\ Cardinality({}) = 0 /\ Cardinality({x}) = 1 /\ Cardinality({y}) = 1
        /\ Cardinality({x, y}) = 2
    <2>1. IsFiniteSet({x}) /\ Cardinality({x}) = 1 /\ Cardinality({y}) = 1
      BY FS_Singleton
    <2>2. Cardinality({x} \cup {y}) = 1 + 1
      BY <2>1, FS_AddElement
    <2>3. {x} \cup {y} = {x, y}
      OBVIOUS
    <2> QED
      BY <2>1, <2>2, <2>3, FS_EmptySet
  <1>2. ASSUME NEW P \in SUBSET {x, y}
        PROVE  Cardinality(P) = (IF x \in P THEN 1 ELSE 0) + (IF y \in P THEN 1 ELSE 0)
    <2>1. P = {} \/ P = {x} \/ P = {y} \/ P = {x, y}
      OBVIOUS
    <2> QED
      BY <1>1, <2>1
  <1>3. ASSUME NEW p PROVE HitBy(p, {x, y}) = Hit(p, x) + Hit(p, y)
    <2>1. PICK P \in SUBSET {x, y} : P = {v \in {x, y} : v.ip \in Ips(p)}
      OBVIOUS
    <2> QED
      BY <1>2, <2>1 DEF HitBy, Hit
  <1>4. ASSUME NEW d PROVE MissedBy(d, {x, y}) = Missed(d, x) + Missed(d, y)
    <2>1. PICK P \in SUBSET {x, y} : P = {v \in {x, y} : Containing(d.pools, v.ip) = {}}
      OBVIOUS
    <2> QED
      BY <1>2, <2>1 DEF MissedBy, Missed
  <1> QED
    BY <1>3, <1>4

LEMMA CountOfOne ==
    ASSUME NEW x
    PROVE  (\A p : HitBy(p, {x}) = Hit(p, x)) /\ (\A d : MissedBy(d, {x}) = Missed(d, x))
  <1>1. Cardinality({}) = 0 /\ Cardinality({x}) = 1
    BY FS_EmptySet, FS_Singleton
  <1>2. ASSUME NEW P \in SUBSET {x}
        PROVE  Cardinality(P) = IF x \in P THEN 1 ELSE 0
    <2>1. P = {} \/ P = {x}
      OBVIOUS
    <2> QED
      BY <1>1, <2>1
  <1>3. ASSUME NEW p PROVE HitBy(p, {x}) = Hit(p, x)
    <2>1. PICK P \in SUBSET {x} : P = {v \in {x} : v.ip \in Ips(p)}
      OBVIOUS
    <2> QED
      BY <1>2, <2>1 DEF HitBy, Hit
  <1>4. ASSUME NEW d PROVE MissedBy(d, {x}) = Missed(d, x)
    <2>1. PICK P \in SUBSET {x} : P = {v \in {x} : Containing(d.pools, v.ip) = {}}
      OBVIOUS
    <2> QED
      BY <1>2, <2>1 DEF MissedBy, Missed
  <1> QED
    BY <1>3, <1>4

LEMMA HitsAreBits ==
    ASSUME NEW p, NEW d, NEW v
    PROVE  Hit(p, v) \in {0, 1} /\ Missed(d, v) \in {0, 1}
  BY DEF Hit, Missed

\* A request leaves rows that the next one finds as it found its own.
LEMMA StaysPlain ==
    ASSUME NEW d, Plain(d), NEW v
    PROVE  Plain(AfterCreate(d, v)) /\ Plain(AfterDelete(d, v))
  <1>0. SUFFICES ASSUME NEW a, a = AfterCreate(d, v), NEW b, b = AfterDelete(d, v)
                 PROVE  Plain(a) /\ Plain(b)
    OBVIOUS
  <1>1. \A p : Hit(p, v) \in 0 .. Word - 1 /\ Missed(d, v) \in 0 .. Word - 1
    BY HitsAreBits, RowsAssumption
  <1>2. /\ HasColumns(a) /\ a.pools = d.pools /\ a.capacity = Plus(d.capacity, Missed(d, v))
        /\ a.poolCapacity = [p \in d.pools |-> Minus(d.poolCapacity[p], Hit(p, v))]
    BY <1>0 DEF AfterCreate, HasColumns
  <1>3. /\ HasColumns(b) /\ b.pools = d.pools /\ b.capacity = Minus(d.capacity, Missed(d, v))
        /\ b.poolCapacity = [p \in d.pools |-> Plus(d.poolCapacity[p], Hit(p, v))]
    BY <1>0 DEF AfterDelete, HasColumns
  <1>4. CapacitiesTyped(a)
    <2>1. a.capacity \in 0 .. Word - 1
      BY <1>1, <1>2, SumsTyped DEF Plain, CapacitiesTyped
    <2>2. \A p \in d.pools : Minus(d.poolCapacity[p], Hit(p, v)) \in 0 .. Word - 1
      BY <1>1, SumsTyped DEF Plain, CapacitiesTyped
    <2> QED
      BY <1>2, <2>1, <2>2 DEF CapacitiesTyped
  <1>5. CapacitiesTyped(b)
    <2>1. b.capacity \in 0 .. Word - 1
      BY <1>1, <1>3, SumsTyped DEF Plain, CapacitiesTyped
    <2>2. \A p \in d.pools : Plus(d.poolCapacity[p], Hit(p, v)) \in 0 .. Word - 1
      BY <1>1, SumsTyped DEF Plain, CapacitiesTyped
    <2> QED
      BY <1>3, <2>1, <2>2 DEF CapacitiesTyped
  <1> QED
    BY <1>2, <1>3, <1>4, <1>5 DEF Plain

\* Two requests in turn add up to the batch of both.
LEMMA TwiceCreated ==
    ASSUME NEW d, Plain(d), NEW x, NEW y, x # y, Open(d, {x, y})
    PROVE  Created(Created(d, y), x) = BatchCreateReservation4s(d, {x, y})
  <1>1. PICK e : e = AfterCreate(d, y)
    OBVIOUS
  <1>2. Plain(e) /\ Created(d, y) = e /\ Created(e, x) = AfterCreate(e, x)
    BY <1>1, StaysPlain, CreatedIs
  <1>3. /\ e.pools = d.pools /\ e.reservedPools = d.reservedPools
        /\ e.reservations = d.reservations \cup {y}
        /\ e.capacity = Plus(d.capacity, Missed(d, y))
        /\ \A p \in d.pools : e.poolCapacity[p] = Minus(d.poolCapacity[p], Hit(p, y))
    BY <1>1 DEF AfterCreate
  <1>4. \A p \in d.pools : Minus(e.poolCapacity[p], Hit(p, x))
                             = Minus(d.poolCapacity[p], HitBy(p, {x, y}))
    <2> SUFFICES ASSUME NEW p \in d.pools
                 PROVE  Minus(e.poolCapacity[p], Hit(p, x))
                          = Minus(d.poolCapacity[p], HitBy(p, {x, y}))
      OBVIOUS
    <2>1. d.poolCapacity[p] \in 0 .. Word - 1
      BY DEF Plain, CapacitiesTyped
    <2>2. HitBy(p, {x, y}) = Hit(p, y) + Hit(p, x)
      BY CountOfTwo, HitsAreBits
    <2> QED
      BY <1>3, <2>1, <2>2, HitsAreBits, TwiceIsTwo
  <1>5. Plus(e.capacity, Missed(e, x)) = Plus(d.capacity, MissedBy(d, {x, y}))
    <2>1. d.capacity \in 0 .. Word - 1 /\ Missed(e, x) = Missed(d, x)
      BY <1>3 DEF Plain, CapacitiesTyped, Missed
    <2>2. MissedBy(d, {x, y}) = Missed(d, y) + Missed(d, x)
      BY CountOfTwo, HitsAreBits
    <2> QED
      BY <1>3, <2>1, <2>2, HitsAreBits, TwiceIsTwo
  <1>6. e.reservations \cup {x} = d.reservations \cup {x, y}
    BY <1>3
  <1>7. PICK vs : vs = {x, y}
    OBVIOUS
  <1>8. BatchCreateReservation4s(d, vs) =
          [pools |-> d.pools,
           poolCapacity |-> [p \in d.pools |-> Minus(d.poolCapacity[p], HitBy(p, vs))],
           reservedPools |-> d.reservedPools, reservations |-> d.reservations \cup vs,
           capacity |-> Plus(d.capacity, MissedBy(d, vs))]
    BY <1>7, BatchIs
  <1> QED
    BY <1>2, <1>3, <1>4, <1>5, <1>6, <1>7, <1>8 DEF AfterCreate

LEMMA TwiceDeleted ==
    ASSUME NEW d, Plain(d), NEW x, NEW y, x # y, Open(d, {x, y})
    PROVE  Deleted(Deleted(d, y), x) = BatchDeleteReservation4s(d, {x, y})
  <1>1. PICK e : e = AfterDelete(d, y)
    OBVIOUS
  <1>2. Plain(e) /\ Deleted(d, y) = e /\ Deleted(e, x) = AfterDelete(e, x)
    BY <1>1, StaysPlain, DeletedIs
  <1>3. /\ e.pools = d.pools /\ e.reservedPools = d.reservedPools
        /\ e.reservations = d.reservations \ {y}
        /\ e.capacity = Minus(d.capacity, Missed(d, y))
        /\ \A p \in d.pools : e.poolCapacity[p] = Plus(d.poolCapacity[p], Hit(p, y))
    BY <1>1 DEF AfterDelete
  <1>4. \A p \in d.pools : Plus(e.poolCapacity[p], Hit(p, x))
                             = Plus(d.poolCapacity[p], HitBy(p, {x, y}))
    <2> SUFFICES ASSUME NEW p \in d.pools
                 PROVE  Plus(e.poolCapacity[p], Hit(p, x))
                          = Plus(d.poolCapacity[p], HitBy(p, {x, y}))
      OBVIOUS
    <2>1. d.poolCapacity[p] \in 0 .. Word - 1
      BY DEF Plain, CapacitiesTyped
    <2>2. HitBy(p, {x, y}) = Hit(p, y) + Hit(p, x)
      BY CountOfTwo, HitsAreBits
    <2> QED
      BY <1>3, <2>1, <2>2, HitsAreBits, TwiceIsTwo
  <1>5. Minus(e.capacity, Missed(e, x)) = Minus(d.capacity, MissedBy(d, {x, y}))
    <2>1. d.capacity \in 0 .. Word - 1 /\ Missed(e, x) = Missed(d, x)
      BY <1>3 DEF Plain, CapacitiesTyped, Missed
    <2>2. MissedBy(d, {x, y}) = Missed(d, y) + Missed(d, x)
      BY CountOfTwo, HitsAreBits
    <2> QED
      BY <1>3, <2>1, <2>2, HitsAreBits, TwiceIsTwo
  <1>6. e.reservations \ {x} = d.reservations \ {x, y}
    BY <1>3
  <1>7. PICK vs : vs = {x, y}
    OBVIOUS
  <1>8. BatchDeleteReservation4s(d, vs) =
          [pools |-> d.pools,
           poolCapacity |-> [p \in d.pools |-> Plus(d.poolCapacity[p], HitBy(p, vs))],
           reservedPools |-> d.reservedPools, reservations |-> d.reservations \ vs,
           capacity |-> Minus(d.capacity, MissedBy(d, vs))]
    BY <1>7, BatchIs
  <1> QED
    BY <1>2, <1>3, <1>4, <1>5, <1>6, <1>7, <1>8 DEF AfterDelete

LEMMA OnceIsBatch ==
    ASSUME NEW d, Plain(d), NEW x, Open(d, {x})
    PROVE  /\ Created(d, x) = BatchCreateReservation4s(d, {x})
           /\ Deleted(d, x) = BatchDeleteReservation4s(d, {x})
  <1>1. PICK vs : vs = {x}
    OBVIOUS
  <1>2. (\A p : HitBy(p, vs) = Hit(p, x)) /\ MissedBy(d, vs) = Missed(d, x)
    BY <1>1, CountOfOne
  <1>3. BatchCreateReservation4s(d, vs) = AfterCreate(d, x)
    <2>1. BatchCreateReservation4s(d, vs) =
            [pools |-> d.pools,
             poolCapacity |-> [p \in d.pools |-> Minus(d.poolCapacity[p], HitBy(p, vs))],
             reservedPools |-> d.reservedPools, reservations |-> d.reservations \cup vs,
             capacity |-> Plus(d.capacity, MissedBy(d, vs))]
      BY <1>1, BatchIs
    <2> QED
      BY <1>1, <1>2, <2>1 DEF AfterCreate
  <1>4. BatchDeleteReservation4s(d, vs) = AfterDelete(d, x)
    <2>1. BatchDeleteReservation4s(d, vs) =
            [pools |-> d.pools,
             poolCapacity |-> [p \in d.pools |-> Plus(d.poolCapacity[p], HitBy(p, vs))],
             reservedPools |-> d.reservedPools, reservations |-> d.reservations \ vs,
             capacity |-> Minus(d.capacity, MissedBy(d, vs))]
      BY <1>1, BatchIs
    <2> QED
      BY <1>1, <1>2, <2>1 DEF AfterDelete
  <1> QED
    BY <1>1, <1>3, <1>4, CreatedIs, DeletedIs

\* From exact books no pool is passed over: one that holds an address that may
\* be reserved still has it to give.
LEMMA ExactIsOpen ==
    ASSUME NEW d, RowsInOrder(d), ExactPools(d), NEW vs, CanBatchCreateReservation4s(d, vs)
    PROVE  Open(d, vs)
  <1> SUFFICES ASSUME NEW v \in vs, NEW p \in Containing(d.pools, v.ip)
               PROVE  d.poolCapacity[p] # 0
    BY DEF Open, ConflictPool
  <1>1. CanCreateReservation4(d, v)
    BY DEF CanBatchCreateReservation4s
  <1>2. p \in d.pools /\ p \in PoolRow /\ v.ip \in Ips(p)
    BY DEF Containing, RowsInOrder
  <1>3. v.ip \in FreeOf(d, p)
    BY <1>1, <1>2 DEF CanCreateReservation4, FreeOf, Free
  <1>4. IsFiniteSet(FreeOf(d, p))
    BY <1>2, FreeOfCount, SubsetCount
  <1>5. Cardinality(FreeOf(d, p)) # 0
    BY <1>3, <1>4, FS_EmptySet
  <1> QED
    BY <1>2, <1>5 DEF ExactPools, FreeOf

LEMMA InOrderIsPlain == ASSUME BatchIInv PROVE Plain(db)
  BY DEF BatchIInv, RowsInOrder, Plain

\* A batch of one or two does what one request after the other does.
LEMMA BatchCreatesInTurn ==
    ASSUME Plain(db), NEW u, NEW v, NEW vs, vs = {u, v}, Open(db, vs)
    PROVE  BatchCreateReservation4s(db, vs)
             = OneByOne(LAMBDA d, w : CreateReservation4(d, d, w), vs)
  <1>1. PICK f : f = OneByOne(LAMBDA d, w : CreateReservation4(d, d, w), vs)
    OBVIOUS
  <1>2. \/ \E x : vs = {x} /\ f = Created(db, x)
        \/ \E x, y : x # y /\ vs = {x, y} /\ f = Created(Created(db, y), x)
    <2>1. f = AllCreated(vs)
      BY <1>1, Zenon DEF AllCreated, OneByOne, FoldSet, MapThenFoldSet, Created, Pick
    <2>2. CreatedEitherWay(vs, AllCreated(vs))
      BY CreatedInTurn
    <2> QED
      BY <2>1, <2>2 DEF CreatedEitherWay
  <1>3. ASSUME NEW x, vs = {x}, f = Created(db, x)
        PROVE  f = BatchCreateReservation4s(db, vs)
    BY <1>3, OnceIsBatch
  <1>4. ASSUME NEW x, NEW y, x # y, vs = {x, y}, f = Created(Created(db, y), x)
        PROVE  f = BatchCreateReservation4s(db, vs)
    BY <1>4, TwiceCreated
  <1> QED
    BY <1>1, <1>2, <1>3, <1>4

LEMMA BatchDeletesInTurn ==
    ASSUME Plain(db), NEW u, NEW v, NEW vs, vs = {u, v}, Open(db, vs)
    PROVE  BatchDeleteReservation4s(db, vs)
             = OneByOne(LAMBDA d, w : DeleteReservation4(d, d, w), vs)
  <1>1. PICK f : f = OneByOne(LAMBDA d, w : DeleteReservation4(d, d, w), vs)
    OBVIOUS
  <1>2. \/ \E x : vs = {x} /\ f = Deleted(db, x)
        \/ \E x, y : x # y /\ vs = {x, y} /\ f = Deleted(Deleted(db, y), x)
    <2>1. f = AllDeleted(vs)
      BY <1>1, Zenon DEF AllDeleted, OneByOne, FoldSet, MapThenFoldSet, Deleted, Pick
    <2>2. DeletedEitherWay(vs, AllDeleted(vs))
      BY DeletedInTurn
    <2> QED
      BY <2>1, <2>2 DEF DeletedEitherWay
  <1>3. ASSUME NEW x, vs = {x}, f = Deleted(db, x)
        PROVE  f = BatchDeleteReservation4s(db, vs)
    BY <1>3, OnceIsBatch
  <1>4. ASSUME NEW x, NEW y, x # y, vs = {x, y}, f = Deleted(Deleted(db, y), x)
        PROVE  f = BatchDeleteReservation4s(db, vs)
    BY <1>4, TwiceDeleted
  <1> QED
    BY <1>1, <1>2, <1>3, <1>4

\* For any addresses, rows and clients, a batch of one or two reservations does
\* to the rows and their capacities what one request after the other would, in
\* either order; when it deletes, unless a pool with one of the addresses is
\* full.
THEOREM BatchesDoMatchSingles == BatchSpec => []BatchesMatchSingles
  <1>1. BatchIInv => BatchesMatchSingles
    <2> SUFFICES ASSUME BatchIInv
                 PROVE  BatchesMatchSingles
      OBVIOUS
    <2>1. Plain(db) /\ RowsInOrder(db)
      BY InOrderIsPlain DEF BatchIInv
    <2>2. ASSUME ExactPools(db), NEW vs \in ReservationBatches(ReservationRow),
                 CanBatchCreateReservation4s(db, vs)
          PROVE  BatchCreateReservation4s(db, vs)
                   = OneByOne(LAMBDA d, v : CreateReservation4(d, d, v), vs)
      <3>1. PICK u, v \in ReservationRow : vs = {u, v}
        BY DEF ReservationBatches
      <3>2. Open(db, vs)
        BY <2>1, <2>2, ExactIsOpen
      <3> QED
        BY <2>1, <3>1, <3>2, BatchCreatesInTurn
    <2>3. ASSUME NEW vs \in ReservationBatches(db.reservations), Open(db, vs)
          PROVE  BatchDeleteReservation4s(db, vs)
                   = OneByOne(LAMBDA d, v : DeleteReservation4(d, d, v), vs)
      <3>1. PICK u, v \in db.reservations : vs = {u, v}
        BY DEF ReservationBatches
      <3> QED
        BY <2>1, <2>3, <3>1, BatchDeletesInTurn
    <2> QED
      BY <2>2, <2>3 DEF BatchesMatchSingles, BooksExact, PoolCapacityExact, Open
  <1> QED
    BY <1>1, BatchInvariant, PTL

\* Whatever single requests, batches and imports have made of a subnet, and for
\* any addresses, rows and clients: as long as its books are exact, its
\* exported line passes the checks of the import and comes back as the same
\* ranges, reservations and capacities.  The checks pass because every handler
\* keeps the rows in order, also those whose books do not stay exact; the
\* capacities agree because the import adds up sizes of disjoint sets.
THEOREM ExportedSubnetsImport == BatchSpec => []ExportedSubnetImports
  <1>1. BatchIInv => ExportedSubnetImports
    <2> SUFFICES ASSUME RowsInOrder(db), ExactPools(db), ExactSubnet(db)
                 PROVE  /\ CanImportSubnet4(Line(db))
                        /\ LET new == ImportSubnet4(Line(db))
                               Sizes(d) == {<<p.begin, p.end, d.poolCapacity[p]>> : p \in d.pools}
                           IN  /\ Line(new) = Line(db)
                               /\ Sizes(new) = Sizes(db)
                               /\ new.capacity = db.capacity
      BY Zenon DEF ExportedSubnetImports, BooksExact, PoolCapacityExact, SubnetCapacityExact,
                   BatchIInv
    <2> QED
      BY LineIsAccepted, LineOfRows, LineReturns, SizesReturn, CapacityReturns
  <1> QED
    BY <1>1, BatchInvariant, PTL

=============================================================================
