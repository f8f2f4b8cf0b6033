--------------------------- MODULE Subnets_proofs ---------------------------
(***************************************************************************)
(* What the checks of requests for the rows of a subnet6 are enough for,   *)
(* and those of requests for shared networks.                              *)
(*                                                                         *)
(* Subnet6, for any mask, lengths, rows and leases: the ranges of the five *)
(* tables stay apart, a subnet that generates addresses has no rows, a row *)
(* is not deleted under its clients, the capacities stay exact, and the    *)
(* line that is exported of the subnet can be imported.                    *)
(*                                                                         *)
(* SharedNetworks4, in HA mode and for any subnets, nodes, networks and    *)
(* requests at a time: shared networks are in order as long as each        *)
(* request commits while what it has checked holds.                        *)
(***************************************************************************)
EXTENDS Subnet6Import, SharedNetworks4, NaturalsInduction, WellFoundedInduction,
        FiniteSetTheorems, TLAPS

-----------------------------------------------------------------------------
(***************************************************************************)
(* Induction, with sets in place of predicates                             *)
(***************************************************************************)
LEMMA LessIsWellFounded ==
    \E R : IsWellFoundedOn(R, Nat) /\ \A m, n \in Nat : <<m, n>> \in R <=> m < n
  <1> DEFINE R == OpToRel(<, Nat)
  <1>1. IsWellFoundedOn(R, Nat)
    BY NatLessThanWellFounded
  <1>2. \A m, n \in Nat : <<m, n>> \in R <=> m < n
    BY DEF OpToRel
  <1> HIDE DEF R
  <1>3. IsWellFoundedOn(R, Nat) /\ \A m, n \in Nat : <<m, n>> \in R <=> m < n
    BY <1>1, <1>2, Zenon
  <1> QED
    BY <1>3, Zenon

LEMMA LeastNumber ==
    ASSUME NEW T \in SUBSET Nat, T # {}
    PROVE  \E m \in T : \A n \in T : m <= n
  <1>1. PICK R : IsWellFoundedOn(R, Nat) /\ \A m, n \in Nat : <<m, n>> \in R <=> m < n
    BY LessIsWellFounded
  <1>2. PICK m \in T : \A n \in T : ~ (<<n, m>> \in R)
    <2>1. IsWellFoundedOn(R, Nat) /\ T \subseteq Nat
      BY <1>1
    <2>2. \E m \in T : \A n \in T : ~ (<<n, m>> \in R)
      BY <2>1, WFMin
    <2> QED
      BY <2>2
  <1>3. ASSUME NEW n \in T PROVE m <= n
    <2>1. <<n, m>> \in R <=> n < m
      BY <1>1
    <2>2. ~(n < m) /\ m \in Nat /\ n \in Nat
      BY <1>2, <2>1
    <2> QED
      BY <2>2
  <1> QED
    BY <1>3

LEMMA Induction ==
    ASSUME NEW T, 0 \in T, \A n \in Nat : n \in T => n + 1 \in T
    PROVE  Nat \subseteq T
  <1> SUFFICES ASSUME Nat \ T # {} PROVE FALSE
    OBVIOUS
  <1>1. PICK m \in Nat \ T : \A n \in Nat \ T : m <= n
    BY LeastNumber
  <1>2. m # 0 /\ m - 1 \in Nat
    BY <1>1
  <1>3. m - 1 \in T
    BY <1>1, <1>2
  <1> QED
    BY <1>1, <1>2, <1>3

-----------------------------------------------------------------------------
(***************************************************************************)
(* Powers of two                                                           *)
(***************************************************************************)
PNat == Nat \ {0}

LEMMA PowersExist ==
    ASSUME NEW N \in Nat
    PROVE  \E f : f = [n \in 0 .. N |-> IF n = 0 THEN 1 ELSE 2 * f[n - 1]]
  <1> DEFINE Powers(n) ==
               {g \in [0 .. n -> Nat] : g[0] = 1 /\ \A i \in 1 .. n : g[i] = 2 * g[i - 1]}
             T == {n \in Nat : Powers(n) # {}}
  <1>1. 0 \in T
    <2>1. [i \in 0 .. 0 |-> 1] \in Powers(0)
      OBVIOUS
    <2> QED
      BY <2>1
  <1>2. ASSUME NEW n \in Nat, n \in T PROVE n + 1 \in T
    <2>1. PICK g \in Powers(n) : TRUE
      BY <1>2
    <2> DEFINE h == [i \in 0 .. n + 1 |-> IF i = n + 1 THEN 2 * g[n] ELSE g[i]]
    <2>2. h \in [0 .. n + 1 -> Nat]
      <3>1. \A i \in 0 .. n + 1 : i # n + 1 => i \in 0 .. n
        OBVIOUS
      <3>2. \A i \in 0 .. n : g[i] \in Nat
        BY <2>1
      <3>3. n \in 0 .. n
        OBVIOUS
      <3> QED
        BY <3>1, <3>2, <3>3
    <2>3. h[0] = 1
      BY <2>1
    <2>4. ASSUME NEW i \in 1 .. n + 1 PROVE h[i] = 2 * h[i - 1]
      BY <2>1
    <2>5. h \in Powers(n + 1)
      BY <2>2, <2>3, <2>4
    <2> HIDE DEF Powers
    <2> QED
      BY <2>5
  <1>3. N \in T
    <2> HIDE DEF T, Powers
    <2>1. Nat \subseteq T
      BY <1>1, <1>2, Induction
    <2> QED
      BY <2>1
  <1>4. PICK g \in Powers(N) : TRUE
    BY <1>3
  <1>5. g = [n \in 0 .. N |-> IF n = 0 THEN 1 ELSE 2 * g[n - 1]]
    BY <1>4
  <1> QED
    BY <1>5

LEMMA TwoToDef == TwoTo = [n \in 0 .. Limit |-> IF n = 0 THEN 1 ELSE 2 * TwoTo[n - 1]]
  <1>1. \E f : f = [n \in 0 .. Limit |-> IF n = 0 THEN 1 ELSE 2 * f[n - 1]]
    BY PowersExist, Rows6Assumption
  <1> QED
    BY <1>1, Zenon DEF TwoTo

LEMMA TwoToStep ==
    /\ TwoTo[0] = 1
    /\ \A n \in Nat : n + 1 <= Limit => TwoTo[n + 1] = 2 * TwoTo[n]
  <1> HIDE DEF TwoTo
  <1>1. Limit \in Nat
    BY Rows6Assumption
  <1> QED
    BY <1>1, TwoToDef

LEMMA TwoToType == \A n \in 0 .. Limit : TwoTo[n] \in PNat
  <1> DEFINE T == {n \in Nat : n <= Limit => TwoTo[n] \in PNat}
  <1>0. Limit \in Nat
    BY Rows6Assumption
  <1>1. 0 \in T
    BY TwoToStep DEF PNat
  <1>2. \A n \in Nat : n \in T => n + 1 \in T
    BY <1>0, TwoToStep DEF PNat
  <1>3. Nat \subseteq T
    <2> HIDE DEF T
    <2> QED
      BY <1>1, <1>2, Induction
  <1> QED
    BY <1>0, <1>3

LEMMA TwoToSum ==
    ASSUME NEW m \in Nat, NEW n \in Nat, m + n <= Limit
    PROVE  TwoTo[m + n] = TwoTo[m] * TwoTo[n]
  <1> DEFINE T == {k \in Nat : k + n <= Limit => TwoTo[k + n] = TwoTo[k] * TwoTo[n]}
  <1>0. Limit \in Nat
    BY Rows6Assumption
  <1>1. 0 \in T
    <2>1. n <= Limit => TwoTo[n] \in PNat
      BY <1>0, TwoToType
    <2> QED
      BY <2>1, TwoToStep DEF PNat
  <1>2. ASSUME NEW k \in Nat, k \in T PROVE k + 1 \in T
    <2> SUFFICES ASSUME k + 1 + n <= Limit PROVE TwoTo[k + 1 + n] = TwoTo[k + 1] * TwoTo[n]
      OBVIOUS
    <2>1. TwoTo[k + 1] = 2 * TwoTo[k] /\ TwoTo[(k + n) + 1] = 2 * TwoTo[k + n]
      BY <1>0, TwoToStep
    <2>2. TwoTo[k] \in PNat /\ TwoTo[n] \in PNat
      BY <1>0, TwoToType
    <2>3. (k + n) + 1 = k + 1 + n /\ TwoTo[k + n] = TwoTo[k] * TwoTo[n]
      BY <1>0, <1>2
    <2>4. \A a, b \in Nat : 2 * (a * b) = (2 * a) * b
      OBVIOUS
    <2> QED
      BY <2>1, <2>2, <2>3, <2>4 DEF PNat
  <1>3. Nat \subseteq T
    <2> HIDE DEF T
    <2> QED
      BY <1>1, <1>2, Induction
  <1> QED
    BY <1>3

LEMMA TwoToGrows ==
    ASSUME NEW m \in 0 .. Limit, NEW n \in 0 .. Limit, m <= n
    PROVE  TwoTo[m] <= TwoTo[n]
  <1>0. Limit \in Nat
    BY Rows6Assumption
  <1>1. n - m \in Nat /\ n - m \in 0 .. Limit /\ (n - m) + m = n
    BY <1>0
  <1>2. TwoTo[n] = TwoTo[n - m] * TwoTo[m]
    BY <1>0, <1>1, TwoToSum
  <1>3. TwoTo[n - m] \in PNat /\ TwoTo[m] \in PNat
    BY <1>1, TwoToType
  <1>4. \A a, b \in PNat : b <= a * b
    BY DEF PNat
  <1> QED
    BY <1>2, <1>3, <1>4 DEF PNat

-----------------------------------------------------------------------------
(***************************************************************************)
(* The prefixes of a pdpool lie in the range its leases are asked for      *)
(***************************************************************************)
LEMMA Division ==
    ASSUME NEW a \in Int, NEW b \in Nat \ {0}
    PROVE  /\ a \div b \in Int /\ b * (a \div b) \in Int
           /\ b * (a \div b) <= a /\ a < b * (a \div b) + b
           /\ a % b = 0 => a = b * (a \div b)
  <1>1. a \div b \in Int /\ b * (a \div b) \in Int
    OBVIOUS
  <1>2. b * (a \div b) <= a
    OBVIOUS
  <1>3. a < b * (a \div b) + b
    OBVIOUS
  <1>4. a % b = 0 => a = b * (a \div b)
    OBVIOUS
  <1> QED
    BY <1>1, <1>2, <1>3, <1>4

\* Multiples less than one step apart from above are in order.
LEMMA Multiples ==
    ASSUME NEW b \in Nat \ {0}, NEW m \in Int, NEW n \in Int
    PROVE  /\ b * m \in Int /\ b * (m + 1) = b * m + b /\ b * (m - 1) = b * m - b
           /\ b * m < b * n + b => m <= n
           /\ m <= n => b * m <= b * n
  <1>1. b * m \in Int /\ b * (m + 1) = b * m + b /\ b * (m - 1) = b * m - b
    OBVIOUS
  <1>2. \A j, k \in Int : j <= k => b * j <= b * k
    OBVIOUS
  <1>3. ASSUME b * m < b * n + b, n + 1 <= m PROVE FALSE
    <2>1. b * (n + 1) <= b * m /\ b * (n + 1) = b * n + b
      BY <1>2, <1>3
    <2>2. b * n \in Int
      OBVIOUS
    <2> QED
      BY <1>1, <1>3, <2>1, <2>2
  <1> QED
    BY <1>1, <1>2, <1>3

\* A product grows with its factors.
LEMMA Products ==
    /\ \A a, b, c \in Int : a <= b /\ c >= 0 => a * c <= b * c
    /\ \A a, b, c \in Int : (a + b) * c = a * c + b * c /\ (a * b) * c = a * (b * c)
    /\ \A a, b \in Int : a * b \in Int
  OBVIOUS

\* The bytes that n bits reach into.
Bytes(n) == (n - 1) \div ByteBits + 1

LEMMA BytesBound ==
    ASSUME NEW n \in 0 .. Limit
    PROVE  /\ Bytes(n) \in Nat /\ n <= ByteBits * Bytes(n) /\ ByteBits * Bytes(n) <= Limit
           /\ \A m \in 0 .. n : Bytes(m) <= Bytes(n)
           /\ n % ByteBits = 0 => ByteBits * Bytes(n) = n
  <1> DEFINE B == ByteBits
             M == Limit \div B
  <1>0. Limit \in Nat /\ B \in Nat \ {0} /\ Limit % B = 0
    BY Rows6Assumption
  <1>1. ASSUME NEW k \in 0 .. Limit
        PROVE  /\ Bytes(k) \in Int /\ B * Bytes(k) \in Int
               /\ k <= B * Bytes(k) /\ B * Bytes(k) < k + B
    <2> DEFINE q == (k - 1) \div B
    <2>1. k - 1 \in Int
      BY <1>0
    <2>2. q \in Int /\ B * q \in Int /\ B * q <= k - 1 /\ k - 1 < B * q + B
      BY <1>0, <2>1, Division
    <2>3. Bytes(k) = q + 1
      BY DEF Bytes
    <2> HIDE DEF q
    <2>4. B * (q + 1) = B * q + B
      BY <1>0, <2>2, Multiples
    <2> QED
      BY <1>0, <2>1, <2>2, <2>3, <2>4
  <1>2. M \in Int /\ Limit = B * M
    BY <1>0, Division
  <1> HIDE DEF M
  <1>3. Bytes(n) >= 0
    <2>1. B * 0 < B * Bytes(n) + B /\ 0 \in Int
      BY <1>0, <1>1
    <2> QED
      BY <1>0, <1>1, <2>1, Multiples
  <1>4. B * Bytes(n) <= Limit
    <2>1. B * Bytes(n) < B * M + B
      BY <1>0, <1>1, <1>2
    <2>2. Bytes(n) <= M
      BY <1>0, <1>1, <1>2, <2>1, Multiples
    <2> QED
      BY <1>0, <1>1, <1>2, <2>2, Multiples
  <1>5. ASSUME NEW m \in 0 .. n PROVE Bytes(m) <= Bytes(n)
    <2>1. m \in 0 .. Limit
      BY <1>0
    <2>2. B * Bytes(m) < B * Bytes(n) + B
      BY <1>0, <1>1, <2>1
    <2> QED
      BY <1>0, <1>1, <2>1, <2>2, Multiples
  <1>6. ASSUME n % B = 0 PROVE B * Bytes(n) = n
    <2> DEFINE d == n \div B
    <2>1. d \in Int /\ n = B * d
      BY <1>0, <1>6, Division
    <2> HIDE DEF d
    <2>2. B * Bytes(n) < B * d + B /\ B * d < B * Bytes(n) + B
      BY <1>0, <1>1, <2>1
    <2>3. Bytes(n) <= d /\ d <= Bytes(n)
      BY <1>0, <1>1, <2>1, <2>2, Multiples
    <2> QED
      BY <1>1, <2>1, <2>3
  <1> QED
    BY <1>1, <1>3, <1>4, <1>5, <1>6

\* Unless the pdpool's prefix ends inside of a byte and delegates longer ones.
LEMMA BlocksInRange ==
    ASSUME NEW mask \in Nat, NEW p \in PdPoolRow(mask), NEW x \in Blocks(p),
           p.prefix.len % ByteBits = 0 \/ p.prefix.len = p.delegated
    PROVE  Base(x) \in Base(p.prefix) .. RangeEnd(p)
  <1> DEFINE len == p.prefix.len
             to == p.delegated
             n == p.prefix.n
             k == TwoTo[to - len]
             unit == TwoTo[Limit - to]
             size == TwoTo[Limit - len]
  <1>0. Limit \in Nat /\ ByteBits \in Nat \ {0}
    BY Rows6Assumption
  <1>1. len \in 0 .. Limit /\ to \in 0 .. Limit /\ len <= to
    <2>1. p.prefix \in PrefixOf(mask) /\ to \in mask .. Limit /\ len <= to
      BY DEF PdPoolRow
    <2>2. len \in mask .. Limit
      BY <2>1 DEF PrefixOf
    <2> QED
      BY <1>0, <2>1, <2>2
  <1>2. n \in Nat
    <2>1. p.prefix \in PrefixOf(mask)
      BY DEF PdPoolRow
    <2>2. PICK l \in mask .. Limit : n \in 0 .. TwoTo[l - mask] - 1
      BY <2>1 DEF PrefixOf
    <2> QED
      BY <2>2
  <1>3. k \in PNat /\ unit \in PNat /\ size \in PNat /\ size = k * unit
    <2>1. /\ to - len \in 0 .. Limit /\ Limit - to \in 0 .. Limit /\ Limit - len \in 0 .. Limit
          /\ (to - len) + (Limit - to) = Limit - len
      BY <1>0, <1>1
    <2>2. TwoTo[(to - len) + (Limit - to)] = k * unit
      BY <1>0, <2>1, TwoToSum
    <2> QED
      BY <2>1, <2>2, TwoToType
  <1>4. x.len = to /\ x.n \in n * k .. n * k + k - 1
    BY DEF Blocks
  <1>5. Base(p.prefix) = n * size /\ Base(x) = x.n * unit
    BY <1>4 DEF Base
  <1> HIDE DEF k, unit, size
  <1>6. x.n \in Int /\ n * k \in Nat /\ n * k <= x.n /\ x.n <= n * k + (k - 1)
    BY <1>2, <1>3, <1>4 DEF PNat
  <1>7. (n * k) * unit <= x.n * unit /\ x.n * unit <= (n * k + (k - 1)) * unit
    BY <1>3, <1>6, Products DEF PNat
  <1>8. (n * k) * unit = n * size /\ (n * k + (k - 1)) * unit = n * size + (size - unit)
    <2>1. (n * k + (k - 1)) * unit = (n * k) * unit + (k - 1) * unit
      BY <1>2, <1>3, <1>6, Products DEF PNat
    <2>2. (k - 1) * unit = k * unit - unit
      BY <1>3 DEF PNat
    <2>3. (n * k) * unit = n * (k * unit)
      BY <1>2, <1>3, Products DEF PNat
    <2> QED
      BY <1>2, <1>3, <2>1, <2>2, <2>3 DEF PNat
  <1>9. Base(x) \in Int /\ Base(p.prefix) \in Int
    BY <1>2, <1>3, <1>5, <1>6 DEF PNat
  <1>10. RangeEnd(p) = Base(p.prefix) +
            IF Bytes(to) - 1 > Bytes(len) - 1
            THEN TwoTo[Limit - ByteBits * Bytes(len)] - TwoTo[Limit - ByteBits * Bytes(to)]
            ELSE 0
    <2>1. (len - 1) \div ByteBits \in Int /\ (to - 1) \div ByteBits \in Int
      BY <1>0, <1>1
    <2>2. (len - 1) \div ByteBits = Bytes(len) - 1 /\ (to - 1) \div ByteBits = Bytes(to) - 1
      BY <2>1 DEF Bytes
    <2>3. ((len - 1) \div ByteBits) + 1 = Bytes(len) /\ ((to - 1) \div ByteBits) + 1 = Bytes(to)
      BY <2>1 DEF Bytes
    <2> QED
      BY <2>2, <2>3 DEF RangeEnd
  <1>11. /\ Bytes(len) \in Nat /\ Bytes(to) \in Nat /\ Bytes(len) <= Bytes(to)
         /\ to <= ByteBits * Bytes(to) /\ ByteBits * Bytes(to) <= Limit
         /\ len <= ByteBits * Bytes(len) /\ ByteBits * Bytes(len) <= Limit
         /\ len % ByteBits = 0 => ByteBits * Bytes(len) = len
    BY <1>0, <1>1, BytesBound
  <1>12. Base(x) <= Base(p.prefix) + (size - unit)
    BY <1>5, <1>7, <1>8
  <1>13. CASE Bytes(to) = Bytes(len)
    <2>1. to = len
      BY <1>1, <1>11, <1>13
    <2>2. size = unit
      BY <2>1 DEF size, unit
    <2>3. RangeEnd(p) = Base(p.prefix)
      BY <1>9, <1>10, <1>11, <1>13
    <2> QED
      BY <1>3, <1>5, <1>7, <1>8, <1>9, <1>12, <2>2, <2>3 DEF PNat
  <1>14. CASE Bytes(to) # Bytes(len)
    <2>1. len # to
      BY <1>14
    <2>2. ByteBits * Bytes(len) = len
      BY <1>11, <2>1
    <2> DEFINE rest == TwoTo[Limit - ByteBits * Bytes(to)]
    <2>3. RangeEnd(p) = Base(p.prefix) + (size - rest)
      BY <1>10, <1>11, <1>14, <2>2 DEF size
    <2>4. rest \in PNat /\ rest <= unit
      <3>1. /\ ByteBits * Bytes(to) \in Int
            /\ Limit - ByteBits * Bytes(to) \in 0 .. Limit /\ Limit - to \in 0 .. Limit
            /\ Limit - ByteBits * Bytes(to) <= Limit - to
        BY <1>0, <1>1, <1>11
      <3> QED
        BY <3>1, TwoToType, TwoToGrows DEF unit
    <2> HIDE DEF rest
    <2> QED
      BY <1>3, <1>5, <1>7, <1>8, <1>9, <1>12, <2>3, <2>4 DEF PNat
  <1> QED
    BY <1>13, <1>14

-----------------------------------------------------------------------------
(***************************************************************************)
(* What the handlers write besides capacities                              *)
(***************************************************************************)
Columns == {"mask", "generates", "capacity", "pools", "reservedPools", "pdpools",
            "reservedPrefixes", "reservations", "capacityOf"}

\* The rows of e are those of d, with other capacities.
SameRows(d, e) ==
    /\ DOMAIN e = Columns
    /\ e.mask = d.mask /\ e.generates = d.generates
    /\ e.pools = d.pools /\ e.reservedPools = d.reservedPools
    /\ e.pdpools = d.pdpools /\ e.reservedPrefixes = d.reservedPrefixes
    /\ e.reservations = d.reservations

IsRecord(d) == DOMAIN d = Columns /\ d = [c \in Columns |-> d[c]]

LEMMA NewCapacities ==
    ASSUME NEW d, IsRecord(d), NEW f, NEW g, NEW n,
           \/ g = [d EXCEPT !.capacityOf = f]
           \/ g = [d EXCEPT !.capacity = n]
           \/ g = [d EXCEPT !.capacityOf = f, !.capacity = n]
    PROVE  IsRecord(g) /\ SameRows(d, g)
  BY DEF IsRecord, SameRows, Columns

LEMMA RowKept ==
    ASSUME NEW d, IsRecord(d), NEW p, NEW n
    PROVE  /\ IsRecord(WithRow(d, p, n)) /\ SameRows(d, WithRow(d, p, n))
           /\ IsRecord(WithoutRow(d, p)) /\ SameRows(d, WithoutRow(d, p))
  BY NewCapacities DEF WithRow, WithoutRow

LEMMA CapacitiesKept ==
    ASSUME NEW d, IsRecord(d), NEW f
    PROVE  IsRecord(WithCapacities(d, f)) /\ SameRows(d, WithCapacities(d, f))
  BY NewCapacities DEF WithCapacities

\* Capacities of rows, and then the subnet's.
LEMMA BothKept ==
    ASSUME NEW d, IsRecord(d), NEW f, NEW n
    PROVE  /\ IsRecord([WithCapacities(d, f) EXCEPT !.capacity = n])
           /\ SameRows(d, [WithCapacities(d, f) EXCEPT !.capacity = n])
  <1> DEFINE e == WithCapacities(d, f)
  <1>1. IsRecord(e) /\ SameRows(d, e)
    BY CapacitiesKept
  <1> HIDE DEF e
  <1>2. IsRecord([e EXCEPT !.capacity = n]) /\ SameRows(e, [e EXCEPT !.capacity = n])
    BY <1>1, NewCapacities
  <1>3. SameRows(d, [e EXCEPT !.capacity = n])
    BY <1>1, <1>2 DEF SameRows
  <1> QED
    BY <1>2, <1>3 DEF e

LEMMA ReservedPoolKept ==
    ASSUME NEW d, IsRecord(d), NEW r, NEW sign
    PROVE  IsRecord(WithReservedPool(d, r, sign)) /\ SameRows(d, WithReservedPool(d, r, sign))
  BY BothKept, Zenon DEF WithReservedPool

LEMMA ReservedPdPoolKept ==
    ASSUME NEW d, IsRecord(d), NEW x, NEW sign, NEW e \in WithReservedPdPool(d, x, sign)
    PROVE  IsRecord(e) /\ SameRows(d, e)
  <1>1. \/ e = d
        \/ \E f, n : e = [WithCapacities(d, f) EXCEPT !.capacity = n]
    BY Zenon DEF WithReservedPdPool
  <1>2. SameRows(d, d)
    BY DEF SameRows, IsRecord
  <1> QED
    BY <1>1, <1>2, BothKept

LEMMA ReservedIpsKept ==
    ASSUME NEW d, IsRecord(d), NEW ips, NEW sign
    PROVE  IsRecord(WithReservedIps(d, ips, sign)) /\ SameRows(d, WithReservedIps(d, ips, sign))
  BY BothKept DEF WithReservedIps

LEMMA ReservedPrefixesKept ==
    ASSUME NEW d, IsRecord(d), NEW xs, NEW sign, NEW e \in WithReservedPrefixes(d, xs, sign)
    PROVE  IsRecord(e) /\ SameRows(d, e)
  <1>1. \E f, n : e = [WithCapacities(d, f) EXCEPT !.capacity = n]
    BY Zenon DEF WithReservedPrefixes
  <1> QED
    BY <1>1, BothKept

LEMMA ReservationsKept ==
    ASSUME NEW d, IsRecord(d), NEW vs, NEW sign, NEW e \in WithReservations(d, vs, sign)
    PROVE  IsRecord(e) /\ SameRows(d, e)
  BY ReservedIpsKept, ReservedPrefixesKept DEF WithReservations, SameRows

-----------------------------------------------------------------------------
(***************************************************************************)
(* The invariant                                                           *)
(***************************************************************************)
Subnet6IInv ==
    /\ IsRecord(db) /\ db.mask \in Masks
    /\ RangesApart
    /\ GeneratedHasNoRows

LEMMA InitSubnet6 == Init => Subnet6IInv
  <1> SUFFICES ASSUME NEW mask \in Masks, NEW generates \in BOOLEAN, Init,
                      db = [mask |-> mask, generates |-> generates,
                            capacity |-> IF generates THEN Generated ELSE 0,
                            pools |-> {}, reservedPools |-> {}, pdpools |-> {},
                            reservedPrefixes |-> {}, reservations |-> {}, capacityOf |-> <<>>]
               PROVE  Subnet6IInv
    BY DEF Init
  <1>1. IsRecord(db)
    BY DEF IsRecord, Columns
  <1>2. /\ db.mask \in Masks /\ db.pools = {} /\ db.reservedPools = {} /\ db.pdpools = {}
        /\ db.reservedPrefixes = {} /\ db.reservations = {}
    OBVIOUS
  <1>3. RangesApart /\ GeneratedHasNoRows
    BY <1>2 DEF RangesApart, GeneratedHasNoRows, Rows
  <1> QED
    BY <1>1, <1>2, <1>3 DEF Subnet6IInv

LEMMA OverlapsBothWays == \A p, q : Overlaps(p, q) <=> Overlaps(q, p)
  BY DEF Overlaps

LEMMA MeetsBothWays == \A x, y : Meets(x, y) <=> Meets(y, x)
  BY Zenon DEF Meets

\* Which rows there are.
RowsAre(d, pools, reservedPools, pdpools, reservedPrefixes, reservations) ==
    /\ IsRecord(d)
    /\ d.pools = pools /\ d.reservedPools = reservedPools
    /\ d.pdpools = pdpools /\ d.reservedPrefixes = reservedPrefixes
    /\ d.reservations = reservations

\* A handler that writes one table leaves the others and the subnet alone.
TableWritten(d) == IsRecord(db') /\ SameRows(d, db')

\* The pools and the pdpools that a step removes.
OnlyLoses(pools, pdpools) ==
    db.pools \ db'.pools \subseteq pools /\ db.pdpools \ db'.pdpools \subseteq pdpools

LEMMA StepRows ==
    ASSUME IsRecord(db), NEW s
    PROVE  /\ IsRecord([db EXCEPT !.pools = s]) /\ IsRecord([db EXCEPT !.reservedPools = s])
           /\ IsRecord([db EXCEPT !.pdpools = s]) /\ IsRecord([db EXCEPT !.reservedPrefixes = s])
           /\ IsRecord([db EXCEPT !.reservations = s])
           /\ TableWritten([db EXCEPT !.pools = s]) =>
                /\ RowsAre(db', s, db.reservedPools, db.pdpools,
                           db.reservedPrefixes, db.reservations)
                /\ db'.mask = db.mask /\ db'.generates = db.generates
           /\ TableWritten([db EXCEPT !.reservedPools = s]) =>
                /\ RowsAre(db', db.pools, s, db.pdpools,
                           db.reservedPrefixes, db.reservations)
                /\ db'.mask = db.mask /\ db'.generates = db.generates
           /\ TableWritten([db EXCEPT !.pdpools = s]) =>
                /\ RowsAre(db', db.pools, db.reservedPools, s,
                           db.reservedPrefixes, db.reservations)
                /\ db'.mask = db.mask /\ db'.generates = db.generates
           /\ TableWritten([db EXCEPT !.reservedPrefixes = s]) =>
                /\ RowsAre(db', db.pools, db.reservedPools, db.pdpools, s, db.reservations)
                /\ db'.mask = db.mask /\ db'.generates = db.generates
           /\ TableWritten([db EXCEPT !.reservations = s]) =>
                /\ RowsAre(db', db.pools, db.reservedPools, db.pdpools,
                           db.reservedPrefixes, s)
                /\ db'.mask = db.mask /\ db'.generates = db.generates
  BY DEF IsRecord, SameRows, Columns, RowsAre, TableWritten

LEMMA FewerRows ==
    ASSUME Subnet6IInv, IsRecord(db)', db'.mask = db.mask, db'.generates = db.generates,
           db'.pools \subseteq db.pools, db'.reservedPools \subseteq db.reservedPools,
           db'.pdpools \subseteq db.pdpools, db'.reservedPrefixes \subseteq db.reservedPrefixes,
           db'.reservations \subseteq db.reservations
    PROVE  Subnet6IInv'
  <1>1. /\ ReservedIps(db') \subseteq ReservedIps(db)
        /\ ReservedPrefixes(db') \subseteq ReservedPrefixes(db)
    BY DEF ReservedIps, ReservedPrefixes
  <1>2. RangesApart'
    BY <1>1 DEF Subnet6IInv, RangesApart
  <1>3. GeneratedHasNoRows'
    BY DEF Subnet6IInv, GeneratedHasNoRows, Rows
  <1> QED
    BY <1>2, <1>3 DEF Subnet6IInv

-----------------------------------------------------------------------------
(***************************************************************************)
(* The handlers                                                            *)
(***************************************************************************)
LEMMA Pool6CreateKeeps ==
    ASSUME Subnet6IInv, NEW p, Pool6Create(p)
    PROVE  Subnet6IInv' /\ OnlyLoses({}, {})
  <1> DEFINE d == [db EXCEPT !.pools = @ \cup {p}]
  <1>0. IsRecord(db) /\ RangesApart /\ db.mask \in Masks
    BY DEF Subnet6IInv
  <1>1. db' = WithRow(d, p, Pool6Capacity(db, p)) /\ ~db.generates
        /\ \A q \in db.pools : ~Overlaps(q, p)
    BY DEF Pool6Create, CanHaveDynamicPools
  <1>2. TableWritten(d)
    <2>1. IsRecord(d)
      BY <1>0, StepRows
    <2> QED
      BY <1>1, <2>1, RowKept DEF TableWritten
  <1>3. /\ RowsAre(db', db.pools \cup {p}, db.reservedPools, db.pdpools,
                   db.reservedPrefixes, db.reservations)
        /\ db'.mask = db.mask /\ db'.generates = db.generates
    BY <1>0, <1>2, StepRows
  <1>4. RangesApart'
    BY <1>0, <1>1, <1>3, OverlapsBothWays
       DEF RangesApart, RowsAre, ReservedIps, ReservedPrefixes
  <1> QED
    BY <1>0, <1>1, <1>3, <1>4 DEF Subnet6IInv, GeneratedHasNoRows, RowsAre, OnlyLoses

LEMMA ReservedPool6CreateKeeps ==
    ASSUME Subnet6IInv, NEW r, ReservedPool6Create(r)
    PROVE  Subnet6IInv' /\ OnlyLoses({}, {})
  <1> DEFINE d == [db EXCEPT !.reservedPools = @ \cup {r}]
  <1>0. IsRecord(db) /\ RangesApart /\ db.mask \in Masks
    BY DEF Subnet6IInv
  <1>1. db' = WithReservedPool(d, r, -1) /\ ~db.generates
        /\ (\A q \in db.reservedPools : ~Overlaps(q, r)) /\ Ips(r) \cap ReservedIps(db) = {}
    BY DEF ReservedPool6Create, CanHaveDynamicPools
  <1>2. TableWritten(d)
    <2>1. IsRecord(d)
      BY <1>0, StepRows
    <2> QED
      BY <1>1, <2>1, ReservedPoolKept DEF TableWritten
  <1>3. /\ RowsAre(db', db.pools, db.reservedPools \cup {r}, db.pdpools,
                   db.reservedPrefixes, db.reservations)
        /\ db'.mask = db.mask /\ db'.generates = db.generates
    BY <1>0, <1>2, StepRows
  <1>4. RangesApart'
    BY <1>0, <1>1, <1>3, OverlapsBothWays
       DEF RangesApart, RowsAre, ReservedIps, ReservedPrefixes
  <1> QED
    BY <1>0, <1>1, <1>3, <1>4 DEF Subnet6IInv, GeneratedHasNoRows, RowsAre, OnlyLoses

LEMMA ReservedPool6BatchCreateKeeps ==
    ASSUME Subnet6IInv, NEW r, ReservedPool6BatchCreate(r)
    PROVE  Subnet6IInv' /\ OnlyLoses({}, {})
  <1>0. IsRecord(db) /\ RangesApart /\ db.mask \in Masks
    BY DEF Subnet6IInv
  <1>1. PICK s \in PoolRow :
           /\ ~Overlaps(r, s)
           /\ \A q \in db.reservedPools : ~Overlaps(q, r) /\ ~Overlaps(q, s)
           /\ (Ips(r) \cup Ips(s)) \cap ReservedIps(db) = {}
           /\ db' = WithReservedPool(WithReservedPool(
                       [db EXCEPT !.reservedPools = @ \cup {r, s}], r, -1), s, -1)
    BY DEF ReservedPool6BatchCreate
  <1> DEFINE d == [db EXCEPT !.reservedPools = @ \cup {r, s}]
             e == WithReservedPool(d, r, -1)
  <1>2. TableWritten(d)
    <2>1. IsRecord(d)
      BY <1>0, StepRows
    <2>2. IsRecord(e) /\ SameRows(d, e)
      BY <2>1, ReservedPoolKept
    <2> HIDE DEF d, e
    <2>3. IsRecord(WithReservedPool(e, s, -1)) /\ SameRows(e, WithReservedPool(e, s, -1))
      BY <2>2, ReservedPoolKept
    <2>4. db' = WithReservedPool(e, s, -1)
      BY <1>1 DEF d, e
    <2> QED
      BY <2>2, <2>3, <2>4 DEF TableWritten, SameRows
  <1>3. /\ RowsAre(db', db.pools, db.reservedPools \cup {r, s}, db.pdpools,
                   db.reservedPrefixes, db.reservations)
        /\ db'.mask = db.mask /\ db'.generates = db.generates
    BY <1>0, <1>2, StepRows
  <1>4. ~db.generates
    BY DEF ReservedPool6BatchCreate, CanHaveDynamicPools
  <1>5. RangesApart'
    <2>1. \A p, q \in db'.reservedPools : p # q => ~Overlaps(p, q)
      BY <1>0, <1>1, <1>3, OverlapsBothWays DEF RangesApart, RowsAre
    <2>2. ReservedIps(db') = ReservedIps(db) /\ ReservedPrefixes(db') = ReservedPrefixes(db)
      BY <1>3 DEF RowsAre, ReservedIps, ReservedPrefixes
    <2>3. \A p \in db'.reservedPools : Ips(p) \cap ReservedIps(db') = {}
      BY <1>0, <1>1, <1>3, <2>2 DEF RangesApart, RowsAre
    <2> QED
      BY <1>0, <1>3, <2>1, <2>2, <2>3 DEF RangesApart, RowsAre
  <1> QED
    BY <1>0, <1>3, <1>4, <1>5 DEF Subnet6IInv, GeneratedHasNoRows, RowsAre, OnlyLoses

LEMMA PdPoolCreateKeeps ==
    ASSUME Subnet6IInv, NEW p, PdPoolCreate(p)
    PROVE  Subnet6IInv' /\ OnlyLoses({}, {})
  <1> DEFINE d == [db EXCEPT !.pdpools = @ \cup {p}]
  <1>0. IsRecord(db) /\ RangesApart /\ db.mask \in Masks
    BY DEF Subnet6IInv
  <1>1. /\ ~db.generates /\ \A q \in db.pdpools : ~Meets(q.prefix, p.prefix)
        /\ \E n : db' = WithRow(d, p, n)
    BY Zenon DEF PdPoolCreate
  <1>2. TableWritten(d)
    <2>1. IsRecord(d)
      BY <1>0, StepRows
    <2> QED
      BY <1>1, <2>1, RowKept DEF TableWritten
  <1>3. /\ RowsAre(db', db.pools, db.reservedPools, db.pdpools \cup {p},
                   db.reservedPrefixes, db.reservations)
        /\ db'.mask = db.mask /\ db'.generates = db.generates
    BY <1>0, <1>2, StepRows
  <1>4. RangesApart'
    BY <1>0, <1>1, <1>3, MeetsBothWays
       DEF RangesApart, RowsAre, ReservedIps, ReservedPrefixes
  <1> QED
    BY <1>0, <1>1, <1>3, <1>4 DEF Subnet6IInv, GeneratedHasNoRows, RowsAre, OnlyLoses

LEMMA ReservedPdPoolCreateKeeps ==
    ASSUME Subnet6IInv, NEW r, ReservedPdPoolCreate(r)
    PROVE  Subnet6IInv' /\ OnlyLoses({}, {})
  <1> DEFINE d == [db EXCEPT !.reservedPrefixes = @ \cup {r}]
  <1>0. IsRecord(db) /\ RangesApart /\ db.mask \in Masks
    BY DEF Subnet6IInv
  <1>1. /\ ~db.generates /\ db' \in WithReservedPdPool(d, r, -1)
        /\ \A y \in ReservedPrefixes(db) \cup db.reservedPrefixes : ~Meets(r, y)
    BY DEF ReservedPdPoolCreate, CanReservePrefix, Reserved
  <1>2. TableWritten(d)
    <2>1. IsRecord(d)
      BY <1>0, StepRows
    <2> QED
      BY <1>1, <2>1, ReservedPdPoolKept DEF TableWritten
  <1>3. /\ RowsAre(db', db.pools, db.reservedPools, db.pdpools,
                   db.reservedPrefixes \cup {r}, db.reservations)
        /\ db'.mask = db.mask /\ db'.generates = db.generates
    BY <1>0, <1>2, StepRows
  <1>4. RangesApart'
    BY <1>0, <1>1, <1>3, MeetsBothWays
       DEF RangesApart, RowsAre, ReservedIps, ReservedPrefixes
  <1> QED
    BY <1>0, <1>1, <1>3, <1>4 DEF Subnet6IInv, GeneratedHasNoRows, RowsAre, OnlyLoses

\* A prefix contains itself.
LEMMA MeetsItself == \A mask \in Nat : \A x \in PrefixOf(mask) : Meets(x, x)
  <1> SUFFICES ASSUME NEW mask \in Nat, NEW x \in PrefixOf(mask) PROVE Meets(x, x)
    OBVIOUS
  <1>1. PICK len \in mask .. Limit : x.len = len /\ x.n \in 0 .. TwoTo[len - mask] - 1
    BY DEF PrefixOf
  <1>2. x.len - x.len = 0 /\ x.len <= x.len /\ x.n \in Int
    BY <1>1, Rows6Assumption
  <1>3. x.n \div 1 = x.n
    BY <1>2
  <1> QED
    BY <1>2, <1>3, TwoToStep DEF Meets

LEMMA ReservationPrefixes ==
    ASSUME NEW mask \in Masks, NEW v \in ReservationsBy[mask], NEW x \in v.prefixes
    PROVE  Meets(x, x)
  <1>1. v \in ReservationRow(mask) /\ mask \in Nat
    BY Subnet6Assumption DEF ReservationsBy
  <1>2. x \in PrefixOf(mask)
    BY <1>1 DEF ReservationRow
  <1> QED
    BY <1>1, <1>2, MeetsItself

LEMMA Reservation6CreateKeeps ==
    ASSUME Subnet6IInv, NEW v \in ReservationsBy[db.mask], Reservation6Create(v)
    PROVE  Subnet6IInv' /\ OnlyLoses({}, {})
  <1> DEFINE d == [db EXCEPT !.reservations = @ \cup {v}]
  <1>0. IsRecord(db) /\ RangesApart /\ db.mask \in Masks
    BY DEF Subnet6IInv
  <1>1. /\ ~db.generates /\ db' \in WithReservations(d, {v}, -1)
        /\ \A u \in db.reservations :
              /\ u.client # v.client
              /\ u.ips \cap v.ips = {}
              /\ \A x \in v.prefixes : \A y \in u.prefixes : ~Meets(x, y)
        /\ \A r \in db.reservedPools : v.ips \cap Ips(r) = {}
        /\ \A r \in db.reservedPrefixes : \A x \in v.prefixes : ~Meets(x, r)
    BY DEF Reservation6Create, NotReserved
  <1>2. TableWritten(d)
    <2>1. IsRecord(d)
      BY <1>0, StepRows
    <2> HIDE DEF d
    <2>2. IsRecord(db') /\ SameRows(d, db')
      BY <1>1, <2>1, ReservationsKept
    <2> QED
      BY <2>2 DEF TableWritten
  <1>3. /\ RowsAre(db', db.pools, db.reservedPools, db.pdpools,
                   db.reservedPrefixes, db.reservations \cup {v})
        /\ db'.mask = db.mask /\ db'.generates = db.generates
    BY <1>0, <1>2, StepRows
  <1>4. \A u \in db.reservations : u.prefixes \cap v.prefixes = {}
    BY <1>0, <1>1, ReservationPrefixes
  <1>5. RangesApart'
    BY <1>0, <1>1, <1>3, <1>4, MeetsBothWays
       DEF RangesApart, RowsAre, ReservedIps, ReservedPrefixes
  <1> QED
    BY <1>0, <1>1, <1>3, <1>5 DEF Subnet6IInv, GeneratedHasNoRows, RowsAre, OnlyLoses

LEMMA Reservation6BatchCreateKeeps ==
    ASSUME Subnet6IInv, NEW v \in ReservationsBy[db.mask], Reservation6BatchCreate(v)
    PROVE  Subnet6IInv' /\ OnlyLoses({}, {})
  <1>0. IsRecord(db) /\ RangesApart /\ db.mask \in Masks
    BY DEF Subnet6IInv
  <1>1. PICK w \in ReservationsBy[db.mask] :
           /\ Distinct6({v, w})
           /\ NotReserved(w)
           /\ db' \in WithReservations([db EXCEPT !.reservations = @ \cup {v, w}], {v, w}, -1)
    BY Zenon DEF Reservation6BatchCreate
  <1> DEFINE d == [db EXCEPT !.reservations = @ \cup {v, w}]
  <1>2. TableWritten(d)
    <2>1. IsRecord(d)
      BY <1>0, StepRows
    <2> HIDE DEF d
    <2>2. IsRecord(db') /\ SameRows(d, db')
      BY <1>1, <2>1, ReservationsKept DEF d
    <2> QED
      BY <2>2 DEF TableWritten
  <1>3. /\ RowsAre(db', db.pools, db.reservedPools, db.pdpools,
                   db.reservedPrefixes, db.reservations \cup {v, w})
        /\ db'.mask = db.mask /\ db'.generates = db.generates
    BY <1>0, <1>2, StepRows
  <1>4. ~db.generates /\ NotReserved(v)
    BY DEF Reservation6BatchCreate
  <1>5. \A s, t \in db'.reservations : s # t =>
            s.client # t.client /\ s.ips \cap t.ips = {} /\ s.prefixes \cap t.prefixes = {}
    BY <1>0, <1>1, <1>3 DEF RangesApart, RowsAre, Distinct6
  <1>6. /\ \A r \in db.reservedPools : Ips(r) \cap ReservedIps(db') = {}
        /\ \A r \in db.reservedPrefixes : \A x \in ReservedPrefixes(db') : ~Meets(r, x)
    <2>1. /\ ReservedIps(db') = ReservedIps(db) \cup v.ips \cup w.ips
          /\ ReservedPrefixes(db') = ReservedPrefixes(db) \cup v.prefixes \cup w.prefixes
      BY <1>3 DEF RowsAre, ReservedIps, ReservedPrefixes
    <2> QED
      BY <1>0, <1>1, <1>4, <2>1, MeetsBothWays DEF RangesApart, NotReserved
  <1>7. RangesApart'
    BY <1>0, <1>3, <1>5, <1>6 DEF RangesApart, RowsAre
  <1> QED
    BY <1>0, <1>3, <1>4, <1>7 DEF Subnet6IInv, GeneratedHasNoRows, RowsAre, OnlyLoses

-----------------------------------------------------------------------------
\* The rows a deletion leaves.
LEMMA Pool6DeleteKeeps ==
    ASSUME Subnet6IInv, NEW p, Pool6Delete(p)
    PROVE  Subnet6IInv' /\ OnlyLoses({p}, {})
  <1> DEFINE d == [db EXCEPT !.pools = @ \ {p}]
  <1>1. IsRecord(db) /\ IsRecord(d) /\ db' = WithoutRow(d, p)
    BY StepRows DEF Subnet6IInv, Pool6Delete
  <1>2. TableWritten(d)
    BY <1>1, RowKept DEF TableWritten
  <1>3. /\ RowsAre(db', db.pools \ {p}, db.reservedPools, db.pdpools,
                   db.reservedPrefixes, db.reservations)
        /\ db'.mask = db.mask /\ db'.generates = db.generates
    BY <1>1, <1>2, StepRows
  <1> QED
    BY <1>3, FewerRows DEF RowsAre, OnlyLoses

LEMMA ReservedPool6DeleteKeeps ==
    ASSUME Subnet6IInv, NEW p, ReservedPool6Delete(p)
    PROVE  Subnet6IInv' /\ OnlyLoses({}, {})
  <1> DEFINE d == [db EXCEPT !.reservedPools = @ \ {p}]
  <1>1. IsRecord(db) /\ IsRecord(d) /\ db' = WithReservedPool(d, p, 1)
    BY StepRows DEF Subnet6IInv, ReservedPool6Delete
  <1>2. TableWritten(d)
    BY <1>1, ReservedPoolKept DEF TableWritten
  <1>3. /\ RowsAre(db', db.pools, db.reservedPools \ {p}, db.pdpools,
                   db.reservedPrefixes, db.reservations)
        /\ db'.mask = db.mask /\ db'.generates = db.generates
    BY <1>1, <1>2, StepRows
  <1> QED
    BY <1>3, FewerRows DEF RowsAre, OnlyLoses

LEMMA PdPoolDeleteKeeps ==
    ASSUME Subnet6IInv, NEW p, PdPoolDelete(p)
    PROVE  Subnet6IInv' /\ OnlyLoses({}, {p})
  <1> DEFINE d == [db EXCEPT !.pdpools = @ \ {p}]
  <1>1. IsRecord(db) /\ IsRecord(d) /\ db' = WithoutRow(d, p)
    BY StepRows DEF Subnet6IInv, PdPoolDelete
  <1>2. TableWritten(d)
    BY <1>1, RowKept DEF TableWritten
  <1>3. /\ RowsAre(db', db.pools, db.reservedPools, db.pdpools \ {p},
                   db.reservedPrefixes, db.reservations)
        /\ db'.mask = db.mask /\ db'.generates = db.generates
    BY <1>1, <1>2, StepRows
  <1> QED
    BY <1>3, FewerRows DEF RowsAre, OnlyLoses

LEMMA ReservedPdPoolDeleteKeeps ==
    ASSUME Subnet6IInv, NEW p, ReservedPdPoolDelete(p)
    PROVE  Subnet6IInv' /\ OnlyLoses({}, {})
  <1> DEFINE d == [db EXCEPT !.reservedPrefixes = @ \ {p}]
  <1>1. IsRecord(db) /\ IsRecord(d) /\ db' \in WithReservedPdPool(d, p, 1)
    BY StepRows DEF Subnet6IInv, ReservedPdPoolDelete
  <1>2. TableWritten(d)
    BY <1>1, ReservedPdPoolKept DEF TableWritten
  <1>3. /\ RowsAre(db', db.pools, db.reservedPools, db.pdpools,
                   db.reservedPrefixes \ {p}, db.reservations)
        /\ db'.mask = db.mask /\ db'.generates = db.generates
    BY <1>1, <1>2, StepRows
  <1> QED
    BY <1>3, FewerRows DEF RowsAre, OnlyLoses

LEMMA ReleaseKeeps ==
    ASSUME Subnet6IInv, NEW vs, Release(vs)
    PROVE  Subnet6IInv' /\ OnlyLoses({}, {})
  <1> DEFINE d == [db EXCEPT !.reservations = @ \ vs]
  <1>1. IsRecord(db) /\ IsRecord(d) /\ db' \in WithReservations(d, vs, 1)
    BY StepRows DEF Subnet6IInv, Release
  <1>2. TableWritten(d)
    BY <1>1, ReservationsKept DEF TableWritten
  <1>3. /\ RowsAre(db', db.pools, db.reservedPools, db.pdpools,
                   db.reservedPrefixes, db.reservations \ vs)
        /\ db'.mask = db.mask /\ db'.generates = db.generates
    BY <1>1, <1>2, StepRows
  <1> QED
    BY <1>3, FewerRows DEF RowsAre, OnlyLoses

LEMMA GenerateKeeps ==
    ASSUME Subnet6IInv, GenerateOn \/ GenerateOff
    PROVE  Subnet6IInv' /\ OnlyLoses({}, {})
  <1>0. IsRecord(db)
    BY DEF Subnet6IInv
  <1>1. PICK b \in BOOLEAN, n \in {Generated, 0} :
           db' = [db EXCEPT !.generates = b, !.capacity = n]
    BY DEF GenerateOn, GenerateOff
  <1>2. /\ RowsAre(db', db.pools, db.reservedPools, db.pdpools,
                   db.reservedPrefixes, db.reservations)
        /\ db'.mask = db.mask
    BY <1>0, <1>1 DEF RowsAre, IsRecord, Columns
  <1>3. RangesApart'
    BY <1>2 DEF Subnet6IInv, RangesApart, RowsAre, ReservedIps, ReservedPrefixes
  <1>4. GeneratedHasNoRows'
    <2>1. CASE GenerateOn
      <3>1. Rows \cup db.reservedPools \cup db.reservedPrefixes = {} /\ db.reservations = {}
        BY <2>1 DEF GenerateOn, HasPools
      <3> QED
        BY <1>2, <3>1 DEF GeneratedHasNoRows, Rows, RowsAre
    <2>2. CASE GenerateOff
      <3>1. db' = [db EXCEPT !.generates = FALSE, !.capacity = 0]
        BY <2>2 DEF GenerateOff
      <3>2. db'.generates = FALSE
        BY <1>0, <3>1 DEF IsRecord, Columns
      <3> QED
        BY <3>2 DEF GeneratedHasNoRows
    <2> QED
      BY <2>1, <2>2
  <1> QED
    BY <1>2, <1>3, <1>4 DEF Subnet6IInv, RowsAre, OnlyLoses

\* What any step removes.
LEMMA NextSubnet6 ==
    ASSUME Subnet6IInv, [Next]_vars
    PROVE  /\ Subnet6IInv'
           /\ \/ OnlyLoses({}, {})
              \/ \E p \in PoolRow : Pool6Delete(p) /\ OnlyLoses({p}, {})
              \/ \E p \in PdPoolsBy[db.mask] : PdPoolDelete(p) /\ OnlyLoses({}, {p})
  <1> DEFINE Kept == Subnet6IInv' /\ OnlyLoses({}, {})
  <1>1. ASSUME db' = db PROVE Kept
    BY <1>1 DEF Subnet6IInv, RangesApart, GeneratedHasNoRows, Rows, OnlyLoses
  <1>2. ASSUME NEW v \in ReservationsBy[db.mask],
               \/ Reservation6Create(v) \/ Reservation6BatchCreate(v)
               \/ Reservation6Delete(v) \/ AutoReservation6Delete(v)
               \/ \E w \in db.reservations : Reservation6BatchDelete(v, w)
        PROVE  Kept
    BY <1>2, Reservation6CreateKeeps, Reservation6BatchCreateKeeps, ReleaseKeeps
       DEF Reservation6Delete, AutoReservation6Delete, Reservation6BatchDelete
  <1>3. ASSUME \/ \E l \in [client: Clients, ip: Ip] : GrantLease(l)
               \/ \E l \in [client: Clients, prefix: PrefixesBy[db.mask]] : Delegate(l)
               \/ EndLeases
               \/ UNCHANGED vars
        PROVE  db' = db
    BY <1>3 DEF GrantLease, Delegate, EndLeases, vars
  <1>4. ASSUME NEW p,
               \/ Pool6Create(p) \/ ReservedPool6Create(p) \/ ReservedPool6BatchCreate(p)
               \/ ReservedPool6Delete(p) \/ PdPoolCreate(p)
               \/ ReservedPdPoolCreate(p) \/ ReservedPdPoolDelete(p)
        PROVE  Kept
    BY <1>4, Pool6CreateKeeps, ReservedPool6CreateKeeps, ReservedPool6BatchCreateKeeps,
       ReservedPool6DeleteKeeps, PdPoolCreateKeeps, ReservedPdPoolCreateKeeps,
       ReservedPdPoolDeleteKeeps
  <1>5. CASE GenerateOn \/ GenerateOff
    BY <1>5, GenerateKeeps
  <1> QED
    BY <1>1, <1>2, <1>3, <1>4, <1>5, Pool6DeleteKeeps, PdPoolDeleteKeeps DEF Next

-----------------------------------------------------------------------------
(***************************************************************************)
(* The theorems                                                            *)
(***************************************************************************)
\* The clients of a row that is removed.
LEMMA LeasedRowStep ==
    ASSUME Subnet6IInv, [Next]_vars
    PROVE  /\ \A p \in db.pools \ db'.pools : db.capacityOf[p] # 0 =>
                \A l \in leases : l.ip \in Ips(p) => l.ip \in ReservedIps(db)
           /\ \A p \in db.pdpools \ db'.pdpools :
                db.capacityOf[p] # 0 /\ (p.prefix.len % ByteBits = 0 \/ p.prefix.len = p.delegated)
                    => \A l \in delegations : l.prefix \in Blocks(p)
                                                => l.prefix \in ReservedPrefixes(db)
  <1>1. CASE OnlyLoses({}, {})
    BY <1>1 DEF OnlyLoses
  <1>2. ASSUME NEW p \in PoolRow, Pool6Delete(p), OnlyLoses({p}, {}), db.capacityOf[p] # 0,
               NEW l \in leases, l.ip \in Ips(p)
        PROVE  l.ip \in ReservedIps(db)
    BY <1>2 DEF Pool6Delete, Pool6Leases
  <1>3. ASSUME NEW p \in PdPoolsBy[db.mask], PdPoolDelete(p), db.capacityOf[p] # 0,
               p.prefix.len % ByteBits = 0 \/ p.prefix.len = p.delegated,
               NEW l \in delegations, l.prefix \in Blocks(p)
        PROVE  l.prefix \in ReservedPrefixes(db)
    <2>1. db.mask \in Nat /\ p \in PdPoolRow(db.mask)
      BY Subnet6Assumption DEF Subnet6IInv, PdPoolsBy
    <2>2. Base(l.prefix) \in Base(p.prefix) .. RangeEnd(p)
      BY <1>3, <2>1, BlocksInRange
    <2>3. PdPoolLeases(p) = {}
      BY <1>3 DEF PdPoolDelete
    <2> QED
      BY <1>3, <2>2, <2>3 DEF PdPoolLeases
  <1> QED
    BY <1>1, <1>2, <1>3, NextSubnet6 DEF OnlyLoses

LEMMA NextKeepsSubnet6 == Subnet6IInv /\ [Next]_vars => Subnet6IInv'
  BY NextSubnet6

\* For any masks, pools, prefixes and reservations: pools, pdpools and reserved
\* ranges of a subnet6 stay apart and nothing is reserved twice, whatever the
\* requests that came before.
THEOREM RangesStayApart == Spec => []RangesApart
  <1>1. Subnet6IInv => RangesApart
    BY DEF Subnet6IInv
  <1> QED
    BY <1>1, InitSubnet6, NextKeepsSubnet6, PTL DEF Spec

\* A subnet6 that generates its addresses never has a pool, a reserved range or a
\* reservation, though the request that turns generation on may only look at
\* the sum of capacities.
THEOREM GeneratedStaysEmpty == Spec => []GeneratedHasNoRows
  <1>1. Subnet6IInv => GeneratedHasNoRows
    BY DEF Subnet6IInv
  <1> QED
    BY <1>1, InitSubnet6, NextKeepsSubnet6, PTL DEF Spec

\* No pool or pdpool goes while a client holds an address or a prefix of it that
\* is not reserved: the range a pdpool's leases are asked for covers all of its
\* prefixes, for any lengths, when its own ends with a byte.
THEOREM LeasedRowsAreKept == Spec => LeasedRowIsKept
  <1> QED
    BY InitSubnet6, NextKeepsSubnet6, LeasedRowStep, PTL DEF Spec, LeasedRowIsKept

-----------------------------------------------------------------------------
(***************************************************************************)
(* Sums                                                                    *)
(***************************************************************************)
\* Induction over the subsets of a finite set: those that are smaller by one
\* element come first.
LEMMA SetInduction ==
    ASSUME NEW S, IsFiniteSet(S), NEW C, {} \in C,
           \A T \in SUBSET S : T # {} /\ (\A x \in T : T \ {x} \in C) => T \in C
    PROVE  SUBSET S \subseteq C
  <1> DEFINE N == {n \in Nat : \A T \in SUBSET S : Cardinality(T) = n => T \in C}
  <1>1. 0 \in N
    <2>1. ASSUME NEW T \in SUBSET S, Cardinality(T) = 0 PROVE T \in C
      BY <2>1, FS_Subset, FS_EmptySet
    <2> QED
      BY <2>1
  <1>2. ASSUME NEW n \in Nat, n \in N PROVE n + 1 \in N
    <2>1. ASSUME NEW T \in SUBSET S, Cardinality(T) = n + 1 PROVE T \in C
      <3>1. IsFiniteSet(T) /\ T # {}
        BY <2>1, FS_Subset, FS_EmptySet
      <3>2. ASSUME NEW x \in T PROVE T \ {x} \in C
        <4>1. Cardinality(T \ {x}) = Cardinality(T) - 1
          BY <3>1, FS_RemoveElement
        <4>2. Cardinality(T \ {x}) = n
          BY <2>1, <4>1
        <4>3. T \ {x} \in SUBSET S
          OBVIOUS
        <4> QED
          BY <1>2, <4>2, <4>3
      <3> QED
        BY <3>1, <3>2
    <2> QED
      BY <2>1
  <1> HIDE DEF N
  <1>3. Nat \subseteq N
    BY <1>1, <1>2, Induction
  <1>4. ASSUME NEW T \in SUBSET S PROVE T \in C
    <2>1. Cardinality(T) \in N
      BY <1>3, FS_Subset, FS_CardinalityType
    <2> QED
      BY <2>1 DEF N
  <1> QED
    BY <1>4

Pick(T) == CHOOSE x \in T : TRUE

\* The functions that add up f over the subsets of S.
AddsUp(f, S, g) ==
    g = [T \in SUBSET S |-> IF T = {} THEN 0 ELSE f[Pick(T)] + g[T \ {Pick(T)}]]

LEMMA SumExists ==
    ASSUME NEW f, NEW S, IsFiniteSet(S)
    PROVE  \E g : AddsUp(f, S, g)
  <1> DEFINE Small(n) == {T \in SUBSET S : Cardinality(T) <= n}
             Step(g, T) == IF T = {} THEN 0 ELSE f[Pick(T)] + g[T \ {Pick(T)}]
             N == {n \in Nat : \E g : g = [T \in Small(n) |-> Step(g, T)]}
  <1>0. ASSUME NEW T \in SUBSET S
        PROVE  /\ Cardinality(T) \in Nat /\ (Cardinality(T) = 0 <=> T = {})
               /\ T # {} => /\ Pick(T) \in T /\ T \ {Pick(T)} \in SUBSET S
                            /\ Cardinality(T \ {Pick(T)}) = Cardinality(T) - 1
    <2>1. IsFiniteSet(T)
      BY FS_Subset
    <2>2. T # {} => Pick(T) \in T
      BY DEF Pick
    <2> QED
      BY <2>1, <2>2, FS_EmptySet, FS_CardinalityType, FS_RemoveElement
  <1>1. 0 \in N
    <2> DEFINE g == [T \in Small(0) |-> 0]
    <2>1. ASSUME NEW T \in Small(0) PROVE T = {}
      <3>1. T \in SUBSET S /\ Cardinality(T) <= 0
        OBVIOUS
      <3>2. Cardinality(T) \in Nat /\ (Cardinality(T) = 0 <=> T = {})
        BY <1>0, <3>1
      <3> QED
        BY <3>1, <3>2
    <2>2. g = [T \in Small(0) |-> Step(g, T)]
      BY <2>1
    <2> HIDE DEF g, Small, Step
    <2> QED
      BY <2>2
  <1>2. ASSUME NEW n \in Nat, n \in N PROVE n + 1 \in N
    <2>1. PICK g : g = [T \in Small(n) |-> Step(g, T)]
      BY <1>2
    <2> DEFINE h == [T \in Small(n + 1) |-> Step(g, T)]
    <2>2. ASSUME NEW T \in Small(n + 1) PROVE h[T] = Step(h, T)
      <3>1. CASE T = {}
        BY <3>1
      <3>2. CASE T # {}
        <4> DEFINE U == T \ {Pick(T)}
        <4>1. U \in Small(n) /\ U \in Small(n + 1)
          <5>1. T \in SUBSET S /\ Cardinality(T) <= n + 1
            BY <2>2
          <5>2. /\ Cardinality(T) \in Nat
                /\ U \in SUBSET S /\ Cardinality(U) = Cardinality(T) - 1
            BY <1>0, <3>2, <5>1
          <5>3. Cardinality(U) <= n /\ Cardinality(U) <= n + 1
            BY <5>1, <5>2
          <5> HIDE DEF U
          <5> QED
            BY <5>2, <5>3
        <4>2. h[U] = g[U]
          <5> HIDE DEF U, Step, Small
          <5>1. h[U] = Step(g, U) /\ g[U] = Step(g, U)
            BY <2>1, <4>1
          <5> QED
            BY <5>1
        <4>3. h[T] = Step(g, T)
          BY <2>2
        <4> QED
          BY <3>2, <4>2, <4>3
      <3> QED
        BY <3>1, <3>2
    <2> HIDE DEF Small, Step
    <2>3. h = [T \in Small(n + 1) |-> Step(h, T)]
      BY <2>2
    <2>4. \E k : k = [T \in Small(n + 1) |-> Step(k, T)]
      <3> HIDE DEF h
      <3> QED
        BY <2>3
    <2> QED
      BY <2>4
  <1> HIDE DEF N
  <1>3. Cardinality(S) \in N
    BY <1>1, <1>2, Induction, FS_CardinalityType
  <1>4. Small(Cardinality(S)) = SUBSET S
    BY FS_Subset, FS_CardinalityType
  <1>5. PICK g : g = [T \in Small(Cardinality(S)) |-> Step(g, T)]
    BY <1>3 DEF N
  <1>6. g = [T \in SUBSET S |-> Step(g, T)]
    BY <1>4, <1>5
  <1> QED
    BY <1>6 DEF AddsUp

LEMMA SumIs ==
    ASSUME NEW f, NEW S, IsFiniteSet(S)
    PROVE  \E g : AddsUp(f, S, g) /\ SumFunctionOnSet(f, S) = g[S]
  <1> DEFINE A(h) == h = [T \in SUBSET S |-> IF T = {} THEN 0 ELSE f[Pick(T)] + h[T \ {Pick(T)}]]
             g == CHOOSE h : A(h)
  <1>1. SumFunctionOnSet(f, S) = g[S]
    BY Zenon DEF SumFunctionOnSet, FoldFunctionOnSet, MapThenFoldSet, Pick
  <1>2. \E h : A(h)
    <2>1. PICK h : AddsUp(f, S, h)
      BY SumExists
    <2>2. A(h)
      BY <2>1 DEF AddsUp
    <2> QED
      BY <2>2
  <1>3. A(g)
    <2> HIDE DEF A
    <2> QED
      BY <1>2
  <1> HIDE DEF g
  <1> QED
    BY <1>1, <1>3 DEF AddsUp

LEMMA SumStep ==
    ASSUME NEW f, NEW S, IsFiniteSet(S)
    PROVE  SumFunctionOnSet(f, S) =
             IF S = {} THEN 0 ELSE f[Pick(S)] + SumFunctionOnSet(f, S \ {Pick(S)})
  <1> DEFINE p == Pick(S)
  <1>1. CASE S = {}
    <2>1. PICK g : AddsUp(f, {}, g) /\ SumFunctionOnSet(f, {}) = g[{}]
      BY <1>1, SumIs
    <2>2. g[{}] = 0
      BY <2>1 DEF AddsUp
    <2> QED
      BY <1>1, <2>1, <2>2
  <1>2. CASE S # {}
    <2>1. p \in S
      BY <1>2 DEF Pick
    <2> HIDE DEF p
    <2>2. IsFiniteSet(S \ {p})
      BY FS_RemoveElement
    <2>3. PICK g : AddsUp(f, S, g) /\ SumFunctionOnSet(f, S) = g[S]
      BY SumIs
    <2>4. PICK h : AddsUp(f, S \ {p}, h) /\ SumFunctionOnSet(f, S \ {p}) = h[S \ {p}]
      BY <2>2, SumIs
    <2> DEFINE C == {T \in SUBSET (S \ {p}) : g[T] = h[T]}
    <2>5. {} \in C
      BY <2>3, <2>4 DEF AddsUp
    <2>6. ASSUME NEW T \in SUBSET (S \ {p}), T # {}, \A x \in T : T \ {x} \in C PROVE T \in C
      <3>1. Pick(T) \in T
        BY <2>6 DEF Pick
      <3>2. T \in SUBSET S /\ T \ {Pick(T)} \in SUBSET S
        OBVIOUS
      <3>3. g[T] = f[Pick(T)] + g[T \ {Pick(T)}] /\ h[T] = f[Pick(T)] + h[T \ {Pick(T)}]
        BY <2>3, <2>4, <2>6, <3>2 DEF AddsUp
      <3> QED
        BY <2>6, <3>1, <3>3
    <2> HIDE DEF C
    <2>7. SUBSET (S \ {p}) \subseteq C
      <3> DEFINE R == S \ {p}
      <3>1. \A T \in SUBSET R : T # {} /\ (\A x \in T : T \ {x} \in C) => T \in C
        BY <2>6
      <3>2. IsFiniteSet(R)
        BY <2>2
      <3> HIDE DEF R
      <3>3. SUBSET R \subseteq C
        BY <2>5, <3>1, <3>2, SetInduction
      <3> QED
        BY <3>3 DEF R
    <2>8. g[S \ {p}] = h[S \ {p}]
      BY <2>7 DEF C
    <2>9. g[S] = f[p] + g[S \ {p}]
      BY <1>2, <2>3 DEF AddsUp, p
    <2> QED
      BY <1>2, <2>3, <2>4, <2>8, <2>9 DEF p
  <1> QED
    BY <1>1, <1>2

LEMMA SumType ==
    ASSUME NEW f, NEW S, IsFiniteSet(S), \A x \in S : f[x] \in Int
    PROVE  SumFunctionOnSet(f, S) \in Int
  <1> DEFINE C == {T \in SUBSET S : SumFunctionOnSet(f, T) \in Int}
  <1>1. {} \in C
    <2>1. SumFunctionOnSet(f, {}) = 0
      BY SumStep, FS_EmptySet
    <2> QED
      BY <2>1
  <1>2. ASSUME NEW T \in SUBSET S, T # {}, \A x \in T : T \ {x} \in C PROVE T \in C
    <2>1. Pick(T) \in T
      BY <1>2 DEF Pick
    <2>2. SumFunctionOnSet(f, T) = f[Pick(T)] + SumFunctionOnSet(f, T \ {Pick(T)})
      BY <1>2, FS_Subset, SumStep
    <2> QED
      BY <1>2, <2>1, <2>2
  <1> HIDE DEF C
  <1>3. SUBSET S \subseteq C
    BY <1>1, <1>2, SetInduction
  <1> QED
    BY <1>3 DEF C

\* A sum may be taken in any order.
LEMMA SumAny ==
    ASSUME NEW f, NEW S, IsFiniteSet(S), \A x \in S : f[x] \in Int
    PROVE  /\ SumFunctionOnSet(f, S) \in Int
           /\ \A x \in S : SumFunctionOnSet(f, S) = f[x] + SumFunctionOnSet(f, S \ {x})
  <1> DEFINE Sum(T) == SumFunctionOnSet(f, T)
             C == {T \in SUBSET S : /\ Sum(T) \in Int
                                    /\ \A x \in T : Sum(T) = f[x] + Sum(T \ {x})}
  <1> HIDE DEF Sum
  <1>0. \A T \in SUBSET S : /\ IsFiniteSet(T) /\ Sum(T) \in Int
                            /\ Sum(T) = IF T = {} THEN 0 ELSE f[Pick(T)] + Sum(T \ {Pick(T)})
    BY SumStep, SumType, FS_Subset DEF Sum
  <1>1. {} \in C
    BY <1>0
  <1>2. ASSUME NEW T \in SUBSET S, T # {}, \A x \in T : T \ {x} \in C PROVE T \in C
    <2> DEFINE p == Pick(T)
    <2>1. p \in T
      BY <1>2 DEF Pick
    <2>2. Sum(T) = f[p] + Sum(T \ {p})
      BY <1>0, <1>2
    <2> HIDE DEF p
    <2>3. Sum(T) \in Int
      BY <1>2, <2>1, <2>2
    <2>4. ASSUME NEW x \in T PROVE Sum(T) = f[x] + Sum(T \ {x})
      <3>1. CASE x = p
        BY <2>2, <3>1
      <3>2. CASE x # p
        <4>1. /\ Sum(T \ {p}) = f[x] + Sum((T \ {p}) \ {x})
              /\ Sum(T \ {x}) = f[p] + Sum((T \ {x}) \ {p})
          BY <1>2, <2>1, <3>2
        <4>2. (T \ {p}) \ {x} = (T \ {x}) \ {p}
          OBVIOUS
        <4>3. Sum((T \ {p}) \ {x}) \in Int
          BY <1>0
        <4>4. f[p] \in Int /\ f[x] \in Int
          BY <2>1
        <4>5. Sum(T) = f[p] + (f[x] + Sum((T \ {p}) \ {x}))
          BY <2>2, <4>1
        <4>6. Sum(T \ {x}) = f[p] + Sum((T \ {p}) \ {x})
          BY <4>1, <4>2
        <4>7. \A a, b, c \in Int : a + (b + c) = b + (a + c)
          OBVIOUS
        <4> QED
          BY <4>3, <4>4, <4>5, <4>6, <4>7
      <3> QED
        BY <3>1, <3>2
    <2> QED
      BY <2>3, <2>4
  <1> HIDE DEF C
  <1>3. SUBSET S \subseteq C
    BY <1>1, <1>2, SetInduction
  <1> QED
    BY <1>3 DEF C, Sum

LEMMA SumEmpty == \A f : SumFunctionOnSet(f, {}) = 0
  BY SumStep, FS_EmptySet

LEMMA SumAdded ==
    ASSUME NEW S, IsFiniteSet(S), NEW f, NEW g, NEW h,
           \A x \in S : f[x] \in Int /\ g[x] \in Int /\ h[x] = f[x] + g[x]
    PROVE  SumFunctionOnSet(h, S) = SumFunctionOnSet(f, S) + SumFunctionOnSet(g, S)
  <1> DEFINE C == {T \in SUBSET S : SumFunctionOnSet(h, T)
                                      = SumFunctionOnSet(f, T) + SumFunctionOnSet(g, T)}
  <1>1. {} \in C
    <2>1. SumFunctionOnSet(h, {}) = 0 /\ SumFunctionOnSet(f, {}) = 0 /\ SumFunctionOnSet(g, {}) = 0
      BY SumEmpty
    <2> QED
      BY <2>1
  <1>2. ASSUME NEW T \in SUBSET S, T # {}, \A x \in T : T \ {x} \in C PROVE T \in C
    <2>1. PICK x \in T : TRUE
      BY <1>2
    <2>2. f[x] \in Int /\ g[x] \in Int /\ h[x] = f[x] + g[x]
      BY <2>1
    <2>3. IsFiniteSet(T) /\ IsFiniteSet(T \ {x})
      BY FS_Subset
    <2>4. /\ SumFunctionOnSet(f, T) = f[x] + SumFunctionOnSet(f, T \ {x})
          /\ SumFunctionOnSet(f, T \ {x}) \in Int
      BY <2>1, <2>3, SumAny, SumType
    <2>5. /\ SumFunctionOnSet(g, T) = g[x] + SumFunctionOnSet(g, T \ {x})
          /\ SumFunctionOnSet(g, T \ {x}) \in Int
      BY <2>1, <2>3, SumAny, SumType
    <2>6. SumFunctionOnSet(h, T) = h[x] + SumFunctionOnSet(h, T \ {x})
      BY <2>1, <2>3, SumAny
    <2>7. SumFunctionOnSet(h, T \ {x}) = SumFunctionOnSet(f, T \ {x}) + SumFunctionOnSet(g, T \ {x})
      BY <1>2, <2>1
    <2>8. SumFunctionOnSet(h, T) = SumFunctionOnSet(f, T) + SumFunctionOnSet(g, T)
      BY <2>2, <2>4, <2>5, <2>6, <2>7
    <2> QED
      BY <2>8
  <1> HIDE DEF C
  <1>3. SUBSET S \subseteq C
    BY <1>1, <1>2, SetInduction
  <1> QED
    BY <1>3 DEF C

LEMMA SumZero ==
    ASSUME NEW S, IsFiniteSet(S), NEW f, \A x \in S : f[x] = 0
    PROVE  SumFunctionOnSet(f, S) = 0
  <1>1. SumFunctionOnSet(f, S) = SumFunctionOnSet(f, S) + SumFunctionOnSet(f, S)
    BY SumAdded
  <1> QED
    BY <1>1, SumType

LEMMA SumEqual ==
    ASSUME NEW S, IsFiniteSet(S), NEW f, NEW g, \A x \in S : f[x] \in Int /\ f[x] = g[x]
    PROVE  SumFunctionOnSet(f, S) = SumFunctionOnSet(g, S)
  <1> DEFINE z == [x \in S |-> 0]
  <1>1. SumFunctionOnSet(g, S) = SumFunctionOnSet(f, S) + SumFunctionOnSet(z, S)
    BY SumAdded
  <1>2. SumFunctionOnSet(z, S) = 0
    BY SumZero
  <1> QED
    BY <1>1, <1>2, SumType

LEMMA SumTimes ==
    ASSUME NEW S, IsFiniteSet(S), NEW k \in Int, NEW f, NEW g,
           \A x \in S : f[x] \in Int /\ g[x] = k * f[x]
    PROVE  SumFunctionOnSet(g, S) = k * SumFunctionOnSet(f, S)
  <1> DEFINE C == {T \in SUBSET S : SumFunctionOnSet(g, T) = k * SumFunctionOnSet(f, T)}
  <1>1. {} \in C
    <2>1. SumFunctionOnSet(f, {}) = 0 /\ SumFunctionOnSet(g, {}) = 0
      BY SumEmpty
    <2> QED
      BY <2>1
  <1>2. ASSUME NEW T \in SUBSET S, T # {}, \A x \in T : T \ {x} \in C PROVE T \in C
    <2>1. PICK x \in T : TRUE
      BY <1>2
    <2>2. f[x] \in Int /\ g[x] = k * f[x]
      BY <2>1
    <2>3. IsFiniteSet(T) /\ IsFiniteSet(T \ {x})
      BY FS_Subset
    <2>4. /\ SumFunctionOnSet(f, T) = f[x] + SumFunctionOnSet(f, T \ {x})
          /\ SumFunctionOnSet(f, T \ {x}) \in Int
      BY <2>1, <2>3, SumAny, SumType
    <2>6. SumFunctionOnSet(g, T) = g[x] + SumFunctionOnSet(g, T \ {x})
      BY <2>1, <2>3, SumAny
    <2>7. SumFunctionOnSet(g, T \ {x}) = k * SumFunctionOnSet(f, T \ {x})
      BY <1>2, <2>1
    <2>8. \A a, b \in Int : k * (a + b) = k * a + k * b
      OBVIOUS
    <2>9. SumFunctionOnSet(g, T) = k * SumFunctionOnSet(f, T)
      BY <2>2, <2>4, <2>6, <2>7, <2>8
    <2> QED
      BY <2>9
  <1> HIDE DEF C
  <1>3. SUBSET S \subseteq C
    BY <1>1, <1>2, SetInduction
  <1> QED
    BY <1>3 DEF C

\* The sum over a part outside of which there is only 0.
LEMMA SumPart ==
    ASSUME NEW S, IsFiniteSet(S), NEW f, \A x \in S : f[x] \in Int,
           NEW P \in SUBSET S, \A x \in S \ P : f[x] = 0
    PROVE  SumFunctionOnSet(f, S) = SumFunctionOnSet(f, P)
  <1> DEFINE C == {T \in SUBSET S : SumFunctionOnSet(f, T) = SumFunctionOnSet(f, T \cap P)}
  <1>1. {} \in C
    <2>1. {} \cap P = {}
      OBVIOUS
    <2> QED
      BY <2>1
  <1>2. ASSUME NEW T \in SUBSET S, T # {}, \A x \in T : T \ {x} \in C PROVE T \in C
    <2>1. PICK x \in T : TRUE
      BY <1>2
    <2>2. f[x] \in Int /\ x \in S
      BY <2>1
    <2>3. IsFiniteSet(T) /\ IsFiniteSet(T \cap P) /\ IsFiniteSet((T \ {x}) \cap P)
      BY FS_Subset
    <2>4. SumFunctionOnSet(f, T) = f[x] + SumFunctionOnSet(f, T \ {x})
      BY <2>1, <2>3, SumAny
    <2>5. SumFunctionOnSet(f, T \ {x}) = SumFunctionOnSet(f, (T \ {x}) \cap P)
      BY <1>2, <2>1
    <2>6. CASE x \in P
      <3>1. SumFunctionOnSet(f, T \cap P) = f[x] + SumFunctionOnSet(f, (T \cap P) \ {x})
        BY <2>1, <2>3, <2>6, SumAny
      <3>2. (T \cap P) \ {x} = (T \ {x}) \cap P
        OBVIOUS
      <3>3. SumFunctionOnSet(f, T) = SumFunctionOnSet(f, T \cap P)
        BY <2>4, <2>5, <3>1, <3>2
      <3> QED
        BY <3>3
    <2>7. CASE x \notin P
      <3>1. (T \ {x}) \cap P = T \cap P
        BY <2>7
      <3>2. SumFunctionOnSet(f, T \cap P) \in Int
        BY <2>3, SumType
      <3>3. f[x] = 0
        BY <2>1, <2>7
      <3>4. SumFunctionOnSet(f, T) = SumFunctionOnSet(f, T \cap P)
        <4>1. SumFunctionOnSet(f, T \ {x}) = SumFunctionOnSet(f, T \cap P)
          BY <2>5, <3>1
        <4>2. SumFunctionOnSet(f, T) = 0 + SumFunctionOnSet(f, T \cap P)
          BY <2>4, <3>3, <4>1
        <4> QED
          BY <3>2, <4>2
      <3> QED
        BY <3>4
    <2> QED
      BY <2>6, <2>7
  <1> HIDE DEF C
  <1>3. SUBSET S \subseteq C
    BY <1>1, <1>2, SetInduction
  <1>4. S \cap P = P
    OBVIOUS
  <1> QED
    BY <1>3, <1>4 DEF C

UnionOf(F, S) == UNION {F[x] : x \in S}

\* The sizes of sets that are apart add up to that of their union.
LEMMA SumSizes ==
    ASSUME NEW S, IsFiniteSet(S), NEW f, NEW F,
           \A x \in S : IsFiniteSet(F[x]) /\ f[x] = Cardinality(F[x]),
           \A x, y \in S : x # y => F[x] \cap F[y] = {}
    PROVE  IsFiniteSet(UnionOf(F, S)) /\ SumFunctionOnSet(f, S) = Cardinality(UnionOf(F, S))
  <1> DEFINE U(T) == UNION {F[x] : x \in T}
             C == {T \in SUBSET S : IsFiniteSet(U(T)) /\ SumFunctionOnSet(f, T) = Cardinality(U(T))}
  <1>1. {} \in C
    <2>1. U({}) = {}
      OBVIOUS
    <2> QED
      BY <2>1, SumEmpty, FS_EmptySet
  <1>2. ASSUME NEW T \in SUBSET S, T # {}, \A x \in T : T \ {x} \in C PROVE T \in C
    <2>1. PICK x \in T : TRUE
      BY <1>2
    <2>2. IsFiniteSet(F[x]) /\ f[x] = Cardinality(F[x]) /\ x \in S
      BY <2>1
    <2>3. IsFiniteSet(T)
      BY FS_Subset
    <2>4. SumFunctionOnSet(f, T) = f[x] + SumFunctionOnSet(f, T \ {x})
      BY <2>1, <2>3, SumAny, FS_CardinalityType
    <2>5. IsFiniteSet(U(T \ {x})) /\ SumFunctionOnSet(f, T \ {x}) = Cardinality(U(T \ {x}))
      BY <1>2, <2>1
    <2>6. U(T) = F[x] \cup U(T \ {x}) /\ F[x] \cap U(T \ {x}) = {}
      BY <2>1
    <2> HIDE DEF U
    <2>7. /\ IsFiniteSet(F[x] \cup U(T \ {x}))
          /\ Cardinality(F[x] \cup U(T \ {x}))
               = Cardinality(F[x]) + Cardinality(U(T \ {x})) - Cardinality(F[x] \cap U(T \ {x}))
      BY <2>2, <2>5, FS_Union
    <2>8. Cardinality(F[x] \cap U(T \ {x})) = 0
      BY <2>6, FS_EmptySet
    <2>9. Cardinality(F[x]) \in Nat /\ Cardinality(U(T \ {x})) \in Nat
      BY <2>2, <2>5, FS_CardinalityType
    <2>10. Cardinality(U(T)) = Cardinality(F[x]) + Cardinality(U(T \ {x}))
      BY <2>6, <2>7, <2>8, <2>9
    <2>11. SumFunctionOnSet(f, T) = Cardinality(U(T))
      BY <2>2, <2>4, <2>5, <2>10
    <2>12. IsFiniteSet(U(T))
      BY <2>6, <2>7
    <2>13. T \in SUBSET S
      OBVIOUS
    <2> QED
      BY <2>11, <2>12, <2>13
  <1> HIDE DEF C
  <1>3. SUBSET S \subseteq C
    BY <1>1, <1>2, SetInduction
  <1> QED
    BY <1>3, Zenon DEF C, UnionOf

-----------------------------------------------------------------------------
(***************************************************************************)
(* The prefixes of a pdpool that meet a given one                          *)
(***************************************************************************)
LEMMA QuotientIs ==
    ASSUME NEW a \in Int, NEW b \in PNat, NEW q \in Int
    PROVE  a \div b = q <=> q * b <= a /\ a <= q * b + (b - 1)
  <1> DEFINE d == a \div b
  <1>0. b \in Nat \ {0} /\ b \in Int /\ b >= 1 /\ b >= 0
    BY DEF PNat
  <1>1. d \in Int /\ b * d \in Int /\ b * d <= a /\ a < b * d + b
    BY <1>0, Division
  <1>2. q * b = b * q /\ b * q \in Int /\ d * b = b * d
    BY <1>0, <1>1
  <1> HIDE DEF d
  <1>3. ASSUME d = q PROVE q * b <= a /\ a <= q * b + (b - 1)
    BY <1>0, <1>1, <1>2, <1>3
  <1>4. ASSUME q * b <= a, a <= q * b + (b - 1) PROVE d = q
    <2>1. b * q < b * d + b /\ b * d < b * q + b
      BY <1>0, <1>1, <1>2, <1>4
    <2>2. q <= d /\ d <= q
      BY <1>0, <1>1, <2>1, Multiples
    <2> QED
      BY <1>1, <2>2
  <1> QED
    BY <1>3, <1>4 DEF d

LEMMA QuotientOfQuotient ==
    ASSUME NEW a \in Int, NEW b \in PNat, NEW c \in PNat
    PROVE  b * c \in PNat /\ a \div b \in Int /\ (a \div b) \div c = a \div (b * c)
  <1> DEFINE q == a \div b
             r == q \div c
  <1>0. b \in Int /\ c \in Int /\ b >= 1 /\ c >= 1 /\ b \in Nat \ {0} /\ c \in Nat \ {0}
    BY DEF PNat
  <1>1. b * c \in PNat
    BY <1>0 DEF PNat
  <1>2. q \in Int
    BY <1>0, Division
  <1>3. q * b <= a /\ a <= q * b + (b - 1)
    BY <1>2, QuotientIs
  <1> HIDE DEF q
  <1>4. r \in Int
    BY <1>0, <1>2, Division
  <1>5. r * c <= q /\ q <= r * c + (c - 1)
    BY <1>2, <1>4, QuotientIs
  <1> HIDE DEF r
  <1>6. r * c \in Int /\ q * b \in Int /\ (r * c) * b \in Int /\ c * b = b * c /\ b * c \in Int
    BY <1>0, <1>2, <1>4
  <1>7. (r * c) * b <= q * b
    BY <1>0, <1>2, <1>5, <1>6, Products
  <1>8. (r * c) * b = r * (b * c)
    BY <1>0, <1>4, <1>6, Products
  <1>9. q * b <= (r * c + (c - 1)) * b
    BY <1>0, <1>2, <1>5, <1>6, Products
  <1>10. (r * c + (c - 1)) * b = (r * c) * b + (c - 1) * b
    BY <1>0, <1>6, Products
  <1>11. (c - 1) * b = b * c - b
    BY <1>0
  <1>12. r * (b * c) <= a /\ a <= r * (b * c) + (b * c - 1)
    BY <1>0, <1>3, <1>6, <1>7, <1>8, <1>9, <1>10, <1>11
  <1>13. a \div (b * c) = r
    BY <1>1, <1>4, <1>12, QuotientIs
  <1> QED
    BY <1>1, <1>2, <1>13 DEF q, r

LEMMA PrefixType ==
    ASSUME NEW mask \in Nat, NEW x \in PrefixOf(mask)
    PROVE  x = [len |-> x.len, n |-> x.n] /\ x.len \in 0 .. Limit /\ x.n \in Nat
  <1>1. PICK l \in mask .. Limit : x \in [len: {l}, n: 0 .. TwoTo[l - mask] - 1]
    BY DEF PrefixOf
  <1>2. x = [len |-> x.len, n |-> x.n] /\ x.len = l /\ x.n \in 0 .. TwoTo[l - mask] - 1
    BY <1>1
  <1>3. Limit \in Nat
    BY Rows6Assumption
  <1>4. l \in 0 .. Limit
    BY <1>3
  <1>5. x.n \in Nat
    BY <1>2
  <1> QED
    BY <1>2, <1>4, <1>5

\* Which of two prefixes may contain the other is a matter of their lengths.
LEMMA MeetsWhen ==
    ASSUME NEW x, NEW y, x.len \in 0 .. Limit, y.len \in 0 .. Limit, x.len <= y.len,
           x.n \in Nat, y.n \in Nat
    PROVE  Meets(x, y) <=> y.n \div TwoTo[y.len - x.len] = x.n
  <1>1. CASE y.len <= x.len
    <2>1. y.len - x.len = 0 /\ x.len - y.len = 0
      BY <1>1
    <2>2. x.n \div 1 = x.n /\ y.n \div 1 = y.n
      OBVIOUS
    <2> QED
      BY <2>1, <2>2, TwoToStep DEF Meets
  <1>2. CASE ~(y.len <= x.len)
    BY <1>2 DEF Meets
  <1> QED
    BY <1>1, <1>2

LEMMA PdPoolType ==
    ASSUME NEW mask \in Nat, NEW p \in PdPoolRow(mask)
    PROVE  /\ p = [prefix |-> p.prefix, delegated |-> p.delegated]
           /\ p.prefix \in PrefixOf(mask)
           /\ p.prefix.len \in 0 .. Limit /\ p.delegated \in 0 .. Limit
           /\ p.prefix.len <= p.delegated /\ p.prefix.n \in Nat
           /\ p.delegated - p.prefix.len \in 0 .. Limit
           /\ TwoTo[p.delegated - p.prefix.len] \in PNat
  <1>1. p.prefix \in PrefixOf(mask) /\ p.delegated \in mask .. Limit /\ p.prefix.len <= p.delegated
        /\ p = [prefix |-> p.prefix, delegated |-> p.delegated]
    BY DEF PdPoolRow
  <1>2. p.prefix.len \in 0 .. Limit /\ p.prefix.n \in Nat
    BY <1>1, PrefixType
  <1>3. Limit \in Nat
    BY Rows6Assumption
  <1>4. p.delegated \in 0 .. Limit /\ p.delegated - p.prefix.len \in 0 .. Limit
    BY <1>1, <1>2, <1>3
  <1> QED
    BY <1>1, <1>2, <1>4, TwoToType

\* Prefixes of one length, in a row.
LEMMA RowOfPrefixes ==
    ASSUME NEW l, NEW a \in Int, NEW b \in Int, a <= b
    PROVE  /\ IsFiniteSet([len: {l}, n: a .. b])
           /\ Cardinality([len: {l}, n: a .. b]) = b - a + 1
  <1> DEFINE R == [len: {l}, n: a .. b]
             f == [i \in a .. b |-> [len |-> l, n |-> i]]
  <1>1. f \in Bijection(a .. b, R)
    <2>1. f \in [a .. b -> R]
      OBVIOUS
    <2>2. \A i, j \in a .. b : f[i] = f[j] => i = j
      OBVIOUS
    <2>3. ASSUME NEW x \in R PROVE \E i \in a .. b : f[i] = x
      <3>1. x = [len |-> l, n |-> x.n] /\ x.n \in a .. b
        OBVIOUS
      <3>2. f[x.n] = x
        BY <3>1
      <3> QED
        BY <3>1, <3>2
    <2> HIDE DEF f, R
    <2>4. IsInjective(f)
      BY <2>1, <2>2 DEF IsInjective
    <2> QED
      BY <2>1, <2>3, <2>4 DEF Bijection, Injection, Surjection
  <1>2. ExistsBijection(a .. b, R)
    <2> HIDE DEF f, R
    <2> QED
      BY <1>1 DEF ExistsBijection
  <1>3. IsFiniteSet(a .. b) /\ Cardinality(a .. b) = b - a + 1
    BY FS_Interval
  <1> HIDE DEF R
  <1>4. IsFiniteSet(R) /\ Cardinality(R) = b - a + 1
    BY <1>2, <1>3, FS_Bijection
  <1> QED
    BY <1>4 DEF R

LEMMA BlocksCount ==
    ASSUME NEW mask \in Nat, NEW p \in PdPoolRow(mask)
    PROVE  /\ IsFiniteSet(Blocks(p))
           /\ Cardinality(Blocks(p)) = TwoTo[p.delegated - p.prefix.len]
  <1> DEFINE k == TwoTo[p.delegated - p.prefix.len]
             n == p.prefix.n
  <1>1. k \in PNat /\ n \in Nat
    BY PdPoolType
  <1>2. Blocks(p) = [len: {p.delegated}, n: n * k .. n * k + k - 1]
    BY DEF Blocks
  <1> HIDE DEF k, n
  <1>3. n * k \in Int /\ n * k + k - 1 \in Int /\ n * k <= n * k + k - 1
        /\ (n * k + k - 1) - n * k + 1 = k
    BY <1>1 DEF PNat
  <1> DEFINE a == n * k
             b == n * k + k - 1
             to == p.delegated
  <1>4. a \in Int /\ b \in Int /\ a <= b /\ b - a + 1 = k
    BY <1>3
  <1>5. Blocks(p) = [len: {to}, n: a .. b]
    BY <1>2
  <1> HIDE DEF a, b, to
  <1>6. /\ IsFiniteSet([len: {to}, n: a .. b])
        /\ Cardinality([len: {to}, n: a .. b]) = b - a + 1
    BY <1>4, RowOfPrefixes
  <1>7. IsFiniteSet(Blocks(p)) /\ Cardinality(Blocks(p)) = k
    BY <1>4, <1>5, <1>6
  <1> QED
    BY <1>7 DEF k

LEMMA BlockIs ==
    ASSUME NEW mask \in Nat, NEW p \in PdPoolRow(mask)
    PROVE  /\ \A m \in Int : [len |-> p.delegated, n |-> m] \in Blocks(p)
                 <=> m \div TwoTo[p.delegated - p.prefix.len] = p.prefix.n
           /\ \A b \in Blocks(p) :
                 /\ b = [len |-> p.delegated, n |-> b.n]
                 /\ b.len = p.delegated /\ b.n \in Nat
                 /\ b.n \div TwoTo[p.delegated - p.prefix.len] = p.prefix.n
  <1> DEFINE k == TwoTo[p.delegated - p.prefix.len]
             n == p.prefix.n
             to == p.delegated
  <1>1. k \in PNat /\ n \in Nat
    BY PdPoolType
  <1>2. Blocks(p) = [len: {to}, n: n * k .. n * k + k - 1]
    BY DEF Blocks
  <1> HIDE DEF k, n, to
  <1>3. n * k \in Nat /\ k \in Int /\ k >= 1
    BY <1>1 DEF PNat
  <1>4. \A m \in Int : m \in n * k .. n * k + k - 1 <=> m \div k = n
    <2>1. \A m \in Int : m \div k = n <=> n * k <= m /\ m <= n * k + (k - 1)
      BY <1>1, QuotientIs
    <2> QED
      BY <1>3, <2>1
  <1>5. ASSUME NEW m \in Int PROVE [len |-> to, n |-> m] \in Blocks(p) <=> m \div k = n
    BY <1>2, <1>4
  <1>6. ASSUME NEW b \in Blocks(p)
        PROVE  b = [len |-> to, n |-> b.n] /\ b.len = to /\ b.n \in Nat /\ b.n \div k = n
    <2>1. b = [len |-> to, n |-> b.n] /\ b.len = to /\ b.n \in n * k .. n * k + k - 1
      BY <1>2
    <2>2. b.n \in Nat /\ b.n \in Int
      BY <1>3, <2>1
    <2> QED
      BY <1>4, <2>1, <2>2
  <1> QED
    BY <1>5, <1>6 DEF k, n, to

MetBlocks(p, x) == {b \in Blocks(p) : Meets(x, b)}

\* getReservedPdPool... : what a reserved prefix takes off a pdpool.
LEMMA MetBlocksCount ==
    ASSUME NEW mask \in Nat, NEW p \in PdPoolRow(mask), NEW x \in PrefixOf(mask)
    PROVE  /\ IsFiniteSet(MetBlocks(p, x))
           /\ ~Meets(p.prefix, x) => MetBlocks(p, x) = {}
           /\ Meets(p.prefix, x) =>
                Cardinality(MetBlocks(p, x)) = PdPoolReservedCount(p, x.len)
           /\ PdPoolReservedCount(p, x.len) \in PNat
  <1> DEFINE len == p.prefix.len
             to == p.delegated
             n == p.prefix.n
             k == TwoTo[to - len]
  <1>0. Limit \in Nat
    BY Rows6Assumption
  <1>1. len \in 0 .. Limit /\ to \in 0 .. Limit /\ len <= to /\ n \in Nat /\ k \in PNat
    BY PdPoolType
  <1>2. x.len \in 0 .. Limit /\ x.n \in Nat
    BY PrefixType
  <1>3. IsFiniteSet(MetBlocks(p, x))
    BY BlocksCount, FS_Subset DEF MetBlocks
  <1>4. \A b \in Blocks(p) : /\ b = [len |-> to, n |-> b.n] /\ b.len = to /\ b.n \in Nat
                             /\ b.n \div k = n
    BY BlockIs
  <1>5. \A m \in Int : [len |-> to, n |-> m] \in Blocks(p) <=> m \div k = n
    BY BlockIs
  <1> HIDE DEF len, to, n, k
  <1>6. CASE x.len <= len
    <2> DEFINE j == TwoTo[len - x.len]
    <2>1. len - x.len \in 0 .. Limit /\ to - len \in 0 .. Limit
          /\ (to - len) + (len - x.len) = to - x.len /\ x.len <= to
      BY <1>0, <1>1, <1>2, <1>6
    <2>2. j \in PNat
      BY <2>1, TwoToType
    <2>3. TwoTo[to - x.len] = k * j
      <3>1. TwoTo[(to - len) + (len - x.len)] = TwoTo[to - len] * TwoTo[len - x.len]
        BY <1>0, <1>1, <1>2, <2>1, TwoToSum
      <3> QED
        BY <2>1, <3>1 DEF k
    <2>4. Meets(x, p.prefix) <=> n \div j = x.n
      BY <1>1, <1>2, <1>6, MeetsWhen DEF len, n
    <2> HIDE DEF j
    <2>5. ASSUME NEW b \in Blocks(p) PROVE Meets(x, b) <=> n \div j = x.n
      <3>1. Meets(x, b) <=> b.n \div TwoTo[to - x.len] = x.n
        BY <1>1, <1>2, <1>4, <2>1, MeetsWhen
      <3>2. b.n \in Int /\ b.n \div k = n
        BY <1>4
      <3>3. (b.n \div k) \div j = b.n \div (k * j)
        BY <1>1, <2>2, <3>2, QuotientOfQuotient
      <3> QED
        BY <2>3, <3>1, <3>2, <3>3
    <2>6. ~Meets(p.prefix, x) => MetBlocks(p, x) = {}
      BY <2>4, <2>5, MeetsBothWays DEF MetBlocks
    <2>7. Meets(p.prefix, x) => MetBlocks(p, x) = Blocks(p)
      BY <2>4, <2>5, MeetsBothWays DEF MetBlocks
    <2>8. PdPoolReservedCount(p, x.len) = k
      BY <1>6 DEF PdPoolReservedCount, k, len, to
    <2>9. Cardinality(Blocks(p)) = k
      BY BlocksCount DEF k, len, to
    <2> QED
      BY <1>1, <1>3, <2>6, <2>7, <2>8, <2>9
  <1>7. CASE len < x.len /\ x.len <= to
    <2> DEFINE i == TwoTo[x.len - len]
               j == TwoTo[to - x.len]
    <2>1. x.len - len \in 0 .. Limit /\ to - x.len \in 0 .. Limit
          /\ (to - x.len) + (x.len - len) = to - len
      BY <1>0, <1>1, <1>2, <1>7
    <2>2. i \in PNat /\ j \in PNat
      BY <2>1, TwoToType
    <2>3. k = j * i
      <3>1. TwoTo[(to - x.len) + (x.len - len)] = TwoTo[to - x.len] * TwoTo[x.len - len]
        BY <1>0, <1>1, <1>2, <2>1, TwoToSum
      <3> QED
        BY <2>1, <3>1 DEF k
    <2>4. Meets(p.prefix, x) <=> x.n \div i = n
      BY <1>1, <1>2, <1>7, MeetsWhen DEF len, n
    <2>5. PdPoolReservedCount(p, x.len) = j
      <3>1. ~(x.len <= len)
        BY <1>1, <1>2, <1>7
      <3>2. CASE x.len >= to
        <4>1. to - x.len = 0
          BY <1>1, <1>2, <1>7, <3>2
        <4>2. j = 1
          BY <4>1, TwoToStep
        <4> QED
          BY <3>1, <3>2, <4>2 DEF PdPoolReservedCount, len, to
      <3>3. CASE ~(x.len >= to)
        BY <3>1, <3>3 DEF PdPoolReservedCount, len, to
      <3> QED
        BY <3>2, <3>3
    <2>6. \A b \in Blocks(p) : Meets(x, b) <=> b.n \div j = x.n
      <3>1. ASSUME NEW b \in Blocks(p) PROVE Meets(x, b) <=> b.n \div TwoTo[to - x.len] = x.n
        BY <1>1, <1>2, <1>4, <1>7, MeetsWhen
      <3> QED
        BY <3>1
    <2> HIDE DEF i, j
    <2>7. \A m \in Int : (m \div j) \div i = m \div k
      BY <2>2, <2>3, QuotientOfQuotient
    <2>8. ASSUME ~Meets(p.prefix, x), NEW b \in Blocks(p), Meets(x, b) PROVE FALSE
      <3>1. b.n \div j = x.n /\ b.n \div k = n /\ b.n \in Int
        BY <1>4, <2>6, <2>8
      <3>2. x.n \div i = n
        BY <2>7, <3>1
      <3> QED
        BY <2>4, <2>8, <3>2
    <2>9. ASSUME Meets(p.prefix, x)
          PROVE  MetBlocks(p, x) = [len: {to}, n: x.n * j .. x.n * j + j - 1]
      <3>1. x.n \div i = n
        BY <2>4, <2>9
      <3>2. \A m \in Int : m \in x.n * j .. x.n * j + j - 1 <=> m \div j = x.n
        <4>1. \A m \in Int : m \div j = x.n <=> x.n * j <= m /\ m <= x.n * j + (j - 1)
          BY <1>2, <2>2, QuotientIs
        <4>2. x.n * j \in Int /\ j \in Int
          BY <1>2, <2>2 DEF PNat
        <4> QED
          BY <4>1, <4>2
      <3>3. ASSUME NEW b \in MetBlocks(p, x)
            PROVE  b \in [len: {to}, n: x.n * j .. x.n * j + j - 1]
        <4>1. b \in Blocks(p) /\ Meets(x, b)
          BY DEF MetBlocks
        <4>2. b = [len |-> to, n |-> b.n] /\ b.n \in Int /\ b.n \div j = x.n
          BY <1>4, <2>6, <4>1
        <4>3. b.n \in x.n * j .. x.n * j + j - 1
          BY <3>2, <4>2
        <4> QED
          BY <4>2, <4>3
      <3>4. ASSUME NEW b \in [len: {to}, n: x.n * j .. x.n * j + j - 1]
            PROVE  b \in MetBlocks(p, x)
        <4>0. x.n * j \in Int /\ j \in Int
          BY <1>2, <2>2 DEF PNat
        <4>1. b = [len |-> to, n |-> b.n] /\ b.n \in x.n * j .. x.n * j + j - 1 /\ b.n \in Int
          BY <4>0
        <4>2. b.n \div j = x.n
          BY <3>2, <4>1
        <4>3. b.n \div k = n
          BY <2>7, <3>1, <4>1, <4>2
        <4>4. b \in Blocks(p)
          BY <1>5, <4>1, <4>3
        <4> QED
          BY <2>6, <4>2, <4>4 DEF MetBlocks
      <3> QED
        BY <3>3, <3>4
    <2>10. Meets(p.prefix, x) => Cardinality(MetBlocks(p, x)) = j
      <3>1. x.n * j \in Int /\ x.n * j + j - 1 \in Int /\ x.n * j <= x.n * j + j - 1
            /\ (x.n * j + j - 1) - x.n * j + 1 = j
        BY <1>2, <2>2 DEF PNat
      <3> DEFINE a == x.n * j
                 b == x.n * j + j - 1
      <3>2. a \in Int /\ b \in Int /\ a <= b /\ b - a + 1 = j
        BY <3>1
      <3>3. Meets(p.prefix, x) => MetBlocks(p, x) = [len: {to}, n: a .. b]
        BY <2>9
      <3> HIDE DEF a, b
      <3> QED
        BY <3>2, <3>3, RowOfPrefixes
    <2> QED
      BY <1>3, <2>2, <2>5, <2>8, <2>10 DEF MetBlocks
  <1>8. CASE to < x.len
    <2> DEFINE i == TwoTo[x.len - to]
               q == x.n \div i
    <2>1. x.len - to \in 0 .. Limit /\ to - len \in 0 .. Limit
          /\ (x.len - to) + (to - len) = x.len - len /\ to <= x.len /\ len <= x.len
          /\ ~(x.len <= len) /\ x.len >= to
      BY <1>0, <1>1, <1>2, <1>8
    <2>2. i \in PNat
      BY <2>1, TwoToType
    <2>3. TwoTo[x.len - len] = i * k
      <3>1. TwoTo[(x.len - to) + (to - len)] = TwoTo[x.len - to] * TwoTo[to - len]
        BY <1>0, <1>1, <1>2, <2>1, TwoToSum
      <3> QED
        BY <2>1, <3>1 DEF k
    <2>4. Meets(p.prefix, x) <=> x.n \div (i * k) = n
      <3>1. Meets(p.prefix, x) <=> x.n \div TwoTo[x.len - len] = n
        BY <1>1, <1>2, <2>1, MeetsWhen DEF len, n
      <3> QED
        BY <2>3, <3>1
    <2>5. PdPoolReservedCount(p, x.len) = 1
      BY <2>1 DEF PdPoolReservedCount, len, to
    <2>6. \A b \in Blocks(p) : Meets(x, b) <=> q = b.n
      <3>1. ASSUME NEW b \in Blocks(p) PROVE Meets(b, x) <=> x.n \div TwoTo[x.len - to] = b.n
        BY <1>1, <1>2, <1>4, <2>1, MeetsWhen
      <3> QED
        BY <3>1, MeetsBothWays
    <2> HIDE DEF i
    <2>7. q \in Int /\ q \div k = x.n \div (i * k)
      BY <1>1, <1>2, <2>2, QuotientOfQuotient
    <2> HIDE DEF q
    <2>8. ASSUME ~Meets(p.prefix, x), NEW b \in Blocks(p), Meets(x, b) PROVE FALSE
      <3>1. q = b.n /\ b.n \div k = n
        BY <1>4, <2>6, <2>8
      <3> QED
        BY <2>4, <2>7, <2>8, <3>1
    <2>9. ASSUME Meets(p.prefix, x) PROVE MetBlocks(p, x) = {[len |-> to, n |-> q]}
      <3>1. q \div k = n
        BY <2>4, <2>7, <2>9
      <3>2. [len |-> to, n |-> q] \in Blocks(p)
        BY <1>5, <2>7, <3>1
      <3>3. [len |-> to, n |-> q] \in MetBlocks(p, x)
        <4>1. [len |-> to, n |-> q].n = q
          OBVIOUS
        <4> QED
          BY <2>6, <3>2, <4>1 DEF MetBlocks
      <3>4. ASSUME NEW b \in MetBlocks(p, x) PROVE b = [len |-> to, n |-> q]
        <4>1. b \in Blocks(p) /\ Meets(x, b)
          BY DEF MetBlocks
        <4>2. b.n = q /\ b = [len |-> to, n |-> b.n]
          BY <1>4, <2>6, <4>1
        <4> QED
          BY <4>2
      <3> QED
        BY <3>3, <3>4
    <2>10. Meets(p.prefix, x) => Cardinality(MetBlocks(p, x)) = 1
      BY <2>9, FS_Singleton
    <2>11. 1 \in PNat
      BY DEF PNat
    <2> QED
      BY <1>3, <2>5, <2>8, <2>10, <2>11 DEF MetBlocks
  <1>9. x.len <= len \/ (len < x.len /\ x.len <= to) \/ to < x.len
    BY <1>1, <1>2
  <1> QED
    BY <1>6, <1>7, <1>8, <1>9

-----------------------------------------------------------------------------
(***************************************************************************)
(* What the loops over reserved prefixes leave                             *)
(***************************************************************************)
\* The part T of the prefixes has been taken off n.
Left(p, n, T, g) ==
    IF T = {} THEN {n}
    ELSE UNION {{IF m = 0 /\ T # {x} THEN 0 ELSE m - PdPoolReservedCount(p, x.len)
                    : m \in g[T \ {x}]} : x \in T}

IsLeft(p, n, S, g) == g = [T \in SUBSET S |-> Left(p, n, T, g)]

LEMMA LeftFrom ==
    ASSUME NEW p, NEW n, NEW T, NEW g, NEW h, \A x \in T : g[T \ {x}] = h[T \ {x}]
    PROVE  Left(p, n, T, g) = Left(p, n, T, h)
  BY Zenon DEF Left

LEMMA LeftExists ==
    ASSUME NEW p, NEW n, NEW S, IsFiniteSet(S)
    PROVE  \E g : IsLeft(p, n, S, g)
  <1> DEFINE Small(k) == {T \in SUBSET S : Cardinality(T) <= k}
             N == {k \in Nat : \E g : g = [T \in Small(k) |-> Left(p, n, T, g)]}
  <1>0. ASSUME NEW T \in SUBSET S
        PROVE  /\ Cardinality(T) \in Nat /\ (Cardinality(T) = 0 <=> T = {})
               /\ \A x \in T : /\ T \ {x} \in SUBSET S
                               /\ Cardinality(T \ {x}) = Cardinality(T) - 1
    <2>1. IsFiniteSet(T)
      BY FS_Subset
    <2> QED
      BY <2>1, FS_EmptySet, FS_CardinalityType, FS_RemoveElement
  <1>1. 0 \in N
    <2> DEFINE g == [T \in Small(0) |-> {n}]
    <2>1. ASSUME NEW T \in Small(0) PROVE Left(p, n, T, g) = {n}
      <3>1. T \in SUBSET S /\ Cardinality(T) <= 0
        OBVIOUS
      <3>2. Cardinality(T) \in Nat /\ (Cardinality(T) = 0 <=> T = {})
        BY <1>0, <3>1
      <3>3. T = {}
        BY <3>1, <3>2
      <3> QED
        BY <3>3 DEF Left
    <2>2. g = [T \in Small(0) |-> Left(p, n, T, g)]
      BY <2>1
    <2> HIDE DEF g, Small
    <2> QED
      BY <2>2
  <1>2. ASSUME NEW k \in Nat, k \in N PROVE k + 1 \in N
    <2>1. PICK g : g = [T \in Small(k) |-> Left(p, n, T, g)]
      BY <1>2
    <2> DEFINE h == [T \in Small(k + 1) |-> Left(p, n, T, g)]
    <2>2. ASSUME NEW T \in Small(k + 1) PROVE h[T] = Left(p, n, T, h)
      <3>1. ASSUME NEW x \in T PROVE g[T \ {x}] = h[T \ {x}]
        <4> DEFINE U == T \ {x}
        <4>1. U \in Small(k) /\ U \in Small(k + 1)
          <5>1. T \in SUBSET S /\ Cardinality(T) <= k + 1
            BY <2>2
          <5>2. /\ Cardinality(T) \in Nat
                /\ U \in SUBSET S /\ Cardinality(U) = Cardinality(T) - 1
            BY <1>0, <3>1, <5>1
          <5>3. Cardinality(U) <= k /\ Cardinality(U) <= k + 1
            BY <5>1, <5>2
          <5> HIDE DEF U
          <5> QED
            BY <5>2, <5>3
        <4> HIDE DEF U, Small
        <4>2. h[U] = Left(p, n, U, g) /\ g[U] = Left(p, n, U, g)
          BY <2>1, <4>1
        <4> QED
          BY <4>2 DEF U
      <3>2. h[T] = Left(p, n, T, g)
        BY <2>2
      <3> HIDE DEF h, Small
      <3> QED
        BY <3>1, <3>2, LeftFrom
    <2> HIDE DEF Small
    <2>3. h = [T \in Small(k + 1) |-> Left(p, n, T, h)]
      BY <2>2
    <2>4. \E f : f = [T \in Small(k + 1) |-> Left(p, n, T, f)]
      <3> HIDE DEF h
      <3> QED
        BY <2>3
    <2> QED
      BY <2>4
  <1> HIDE DEF N
  <1>3. Cardinality(S) \in N
    BY <1>1, <1>2, Induction, FS_CardinalityType
  <1>4. Small(Cardinality(S)) = SUBSET S
    BY FS_Subset, FS_CardinalityType
  <1>5. PICK g : g = [T \in Small(Cardinality(S)) |-> Left(p, n, T, g)]
    BY <1>3 DEF N
  <1>6. g = [T \in SUBSET S |-> Left(p, n, T, g)]
    BY <1>4, <1>5
  <1> QED
    BY <1>6 DEF IsLeft

LEMMA LeftIs ==
    ASSUME NEW p, NEW n, NEW S, IsFiniteSet(S)
    PROVE  \E g : IsLeft(p, n, S, g) /\ LeftAfter(p, n, S) = g[S]
  <1> DEFINE A(h) == h = [T \in SUBSET S |->
                            IF T = {} THEN {n}
                            ELSE UNION {{IF m = 0 /\ T # {x} THEN 0
                                         ELSE m - PdPoolReservedCount(p, x.len)
                                            : m \in h[T \ {x}]} : x \in T}]
             g == CHOOSE h : A(h)
  <1>1. LeftAfter(p, n, S) = g[S]
    BY Zenon DEF LeftAfter
  <1>2. \E h : A(h)
    <2>1. PICK h : IsLeft(p, n, S, h)
      BY LeftExists
    <2>2. A(h)
      BY <2>1, Zenon DEF Left, IsLeft
    <2> QED
      BY <2>2
  <1>3. A(g)
    <2> HIDE DEF A
    <2> QED
      BY <1>2
  <1>4. IsLeft(p, n, S, g)
    <2> HIDE DEF g
    <2> QED
      BY <1>3, Zenon DEF Left, IsLeft
  <1> HIDE DEF g
  <1> QED
    BY <1>1, <1>4

LEMMA LeftType ==
    ASSUME NEW p, NEW n \in Int, NEW S, IsFiniteSet(S),
           \A x \in S : PdPoolReservedCount(p, x.len) \in Int
    PROVE  LeftAfter(p, n, S) \subseteq Int
  <1>1. PICK g : IsLeft(p, n, S, g) /\ LeftAfter(p, n, S) = g[S]
    BY LeftIs
  <1> DEFINE C == {T \in SUBSET S : g[T] \subseteq Int}
  <1>2. {} \in C
    <2>1. g[{}] = {n}
      BY <1>1 DEF Left, IsLeft
    <2> QED
      BY <2>1
  <1>3. ASSUME NEW T \in SUBSET S, T # {}, \A x \in T : T \ {x} \in C PROVE T \in C
    <2>1. g[T] = Left(p, n, T, g)
      BY <1>1 DEF IsLeft
    <2>2. ASSUME NEW y \in g[T] PROVE y \in Int
      <3>1. PICK x \in T : y \in {IF m = 0 /\ T # {x} THEN 0
                                  ELSE m - PdPoolReservedCount(p, x.len) : m \in g[T \ {x}]}
        BY <1>3, <2>1 DEF Left
      <3>2. PICK m \in g[T \ {x}] : y = IF m = 0 /\ T # {x} THEN 0
                                        ELSE m - PdPoolReservedCount(p, x.len)
        BY <3>1
      <3>3. m \in Int /\ PdPoolReservedCount(p, x.len) \in Int
        BY <1>3
      <3> QED
        BY <3>2, <3>3
    <2> QED
      BY <2>2
  <1> HIDE DEF C
  <1>4. SUBSET S \subseteq C
    BY <1>2, <1>3, SetInduction
  <1> QED
    BY <1>1, <1>4 DEF C

\* The loop does not end early as long as the prefixes fit in.
LEMMA LeftExact ==
    ASSUME NEW p, NEW n \in Int, NEW S, IsFiniteSet(S), NEW c,
           \A x \in S : c[x] = PdPoolReservedCount(p, x.len) /\ c[x] \in PNat,
           SumFunctionOnSet(c, S) <= n
    PROVE  LeftAfter(p, n, S) = {n - SumFunctionOnSet(c, S)}
  <1>1. PICK g : IsLeft(p, n, S, g) /\ LeftAfter(p, n, S) = g[S]
    BY LeftIs
  <1>0. \A T \in SUBSET S : IsFiniteSet(T)
    BY FS_Subset
  <1>00. \A x \in S : c[x] \in Int
    BY DEF PNat
  <1> DEFINE Sum(T) == SumFunctionOnSet(c, T)
             C == {T \in SUBSET S : Sum(T) <= n => g[T] = {n - Sum(T)}}
  <1>2. {} \in C
    <2>1. g[{}] = {n}
      BY <1>1 DEF Left, IsLeft
    <2>2. Sum({}) = 0
      BY SumEmpty
    <2> QED
      BY <2>1, <2>2
  <1>3. ASSUME NEW T \in SUBSET S, T # {}, \A x \in T : T \ {x} \in C PROVE T \in C
    <2> SUFFICES ASSUME Sum(T) <= n PROVE g[T] = {n - Sum(T)}
      BY <1>3
    <2>1. g[T] = UNION {{IF m = 0 /\ T # {x} THEN 0 ELSE m - PdPoolReservedCount(p, x.len)
                          : m \in g[T \ {x}]} : x \in T}
      <3>1. g[T] = Left(p, n, T, g)
        BY <1>1 DEF IsLeft
      <3> QED
        BY <1>3, <3>1 DEF Left
    <2>2. ASSUME NEW x \in T
          PROVE  /\ g[T \ {x}] = {n - Sum(T \ {x})}
                 /\ n - Sum(T \ {x}) # 0
                 /\ (n - Sum(T \ {x})) - PdPoolReservedCount(p, x.len) = n - Sum(T)
      <3>1. Sum(T) = c[x] + Sum(T \ {x}) /\ Sum(T) \in Int
        <4>1. IsFiniteSet(T) /\ \A y \in T : c[y] \in Int
          BY <1>0, <1>00
        <4> QED
          BY <4>1, SumAny
      <3>2. c[x] \in Int /\ c[x] >= 1 /\ c[x] = PdPoolReservedCount(p, x.len)
        BY DEF PNat
      <3>3. Sum(T \ {x}) \in Int
        <4>1. T \ {x} \in SUBSET S
          OBVIOUS
        <4>2. IsFiniteSet(T \ {x}) /\ \A y \in T \ {x} : c[y] \in Int
          BY <1>0, <1>00, <4>1
        <4> QED
          BY <4>2, SumType
      <3>4. T \ {x} \in C
        BY <1>3
      <3> HIDE DEF Sum
      <3>5. Sum(T \ {x}) <= n
        BY <3>1, <3>2, <3>3
      <3>6. g[T \ {x}] = {n - Sum(T \ {x})}
        BY <3>4, <3>5
      <3>7. n - Sum(T \ {x}) # 0
        BY <3>1, <3>2, <3>3
      <3>8. (n - Sum(T \ {x})) - PdPoolReservedCount(p, x.len) = n - Sum(T)
        BY <3>1, <3>2, <3>3
      <3> QED
        BY <3>6, <3>7, <3>8
    <2> HIDE DEF Sum
    <2> DEFINE E(x) == {IF m = 0 /\ T # {x} THEN 0 ELSE m - PdPoolReservedCount(p, x.len)
                          : m \in g[T \ {x}]}
    <2>3. \A x \in T : E(x) = {n - Sum(T)}
      BY <2>2
    <2>4. g[T] = UNION {E(x) : x \in T}
      BY <2>1
    <2> HIDE DEF E
    <2> QED
      BY <1>3, <2>3, <2>4
  <1> HIDE DEF C
  <1>4. SUBSET S \subseteq C
    BY <1>2, <1>3, SetInduction
  <1> QED
    BY <1>1, <1>4 DEF C

-----------------------------------------------------------------------------
(***************************************************************************)
(* What is left of a pool and of a pdpool                                  *)
(***************************************************************************)
\* The addresses that no pool may give away.
Taken(d) == ReservedIps(d) \cup UNION {Ips(r) : r \in d.reservedPools}

\* The prefixes that a pdpool delegates.
FreeBlocks(p, xs) == {b \in Blocks(p) : \A x \in xs : ~Meets(x, b)}

LEMMA PoolType ==
    ASSUME NEW p \in PoolRow
    PROVE  /\ p = [begin |-> p.begin, end |-> p.end]
           /\ p.begin \in Int /\ p.end \in Int /\ p.begin <= p.end
           /\ IsFiniteSet(Ips(p)) /\ Size(p) \in Int /\ Cardinality(Ips(p)) = Size(p)
           /\ Overlaps(p, p)
  <1>1. /\ p = [begin |-> p.begin, end |-> p.end]
        /\ p.begin \in Int /\ p.end \in Int /\ p.begin <= p.end
    BY Rows6Assumption DEF PoolRow
  <1>2. Size(p) = p.end - p.begin + 1 /\ Ips(p) = p.begin .. p.end
    BY DEF Size, Ips
  <1>3. IsFiniteSet(Ips(p)) /\ Cardinality(Ips(p)) = Size(p)
    BY <1>1, <1>2, FS_Interval
  <1>4. Size(p) \in Int
    BY <1>1, <1>2
  <1>5. Overlaps(p, p)
    BY <1>1 DEF Overlaps
  <1> QED
    BY <1>1, <1>3, <1>4, <1>5

LEMMA SharedIps ==
    ASSUME NEW p \in PoolRow, NEW r \in PoolRow
    PROVE  /\ IsFiniteSet(Ips(p) \cap Ips(r)) /\ Cardinality(Ips(p) \cap Ips(r)) \in Nat
           /\ PoolReservedCount(p, r) \in Int
           /\ Overlaps(p, r) => Cardinality(Ips(p) \cap Ips(r)) = PoolReservedCount(p, r)
           /\ ~Overlaps(p, r) => Ips(p) \cap Ips(r) = {}
  <1> DEFINE a == IF r.begin > p.begin THEN r.begin ELSE p.begin
             b == IF r.end < p.end THEN r.end ELSE p.end
  <1>1. /\ p.begin \in Int /\ p.end \in Int /\ r.begin \in Int /\ r.end \in Int
        /\ IsFiniteSet(Ips(p)) /\ p.begin <= p.end /\ r.begin <= r.end
    BY PoolType
  <1>2. IsFiniteSet(Ips(p) \cap Ips(r)) /\ Cardinality(Ips(p) \cap Ips(r)) \in Nat
    BY <1>1, FS_Intersection, FS_CardinalityType
  <1>3. a \in Int /\ b \in Int
    BY <1>1
  <1>4. PoolReservedCount(p, r) = b - a + 1
    BY DEF PoolReservedCount
  <1>5. Ips(p) \cap Ips(r) = a .. b
    BY <1>1 DEF Ips
  <1>6. Overlaps(p, r) => a <= b
    BY <1>1 DEF Overlaps
  <1>7. ~Overlaps(p, r) => Ips(p) \cap Ips(r) = {}
    BY <1>1 DEF Overlaps, Ips
  <1> HIDE DEF a, b
  <1>8. Overlaps(p, r) => Cardinality(a .. b) = b - a + 1
    BY <1>3, <1>6, FS_Interval
  <1>9. Cardinality(Ips(p) \cap Ips(r)) = Cardinality(a .. b)
    BY <1>5, Zenon
  <1>10. Overlaps(p, r) => Cardinality(Ips(p) \cap Ips(r)) = PoolReservedCount(p, r)
    BY <1>4, <1>8, <1>9
  <1>11. PoolReservedCount(p, r) \in Int
    BY <1>3, <1>4
  <1> QED
    BY <1>2, <1>7, <1>10, <1>11

\* Taking addresses that are free off a set of addresses.
LEMMA IpsTaken ==
    ASSUME NEW P, IsFiniteSet(P), NEW A, NEW X, A \cap X = {}
    PROVE  /\ Cardinality(P \ A) \in Nat /\ Cardinality(P \ (A \cup X)) \in Nat
           /\ Cardinality(P \cap X) \in Nat
           /\ Cardinality(P \ A) = Cardinality(P \ (A \cup X)) + Cardinality(P \cap X)
  <1> DEFINE U == P \ (A \cup X)
             V == P \cap X
  <1>1. IsFiniteSet(U) /\ IsFiniteSet(V) /\ IsFiniteSet(P \ A)
    BY FS_Difference, FS_Intersection
  <1>2. U \cup V = P \ A /\ U \cap V = {}
    OBVIOUS
  <1> HIDE DEF U, V
  <1>3. Cardinality(U \cup V) = Cardinality(U) + Cardinality(V) - Cardinality(U \cap V)
    BY <1>1, FS_Union
  <1>4. Cardinality(U \cap V) = 0
    BY <1>2, FS_EmptySet
  <1>5. Cardinality(U) \in Nat /\ Cardinality(V) \in Nat /\ Cardinality(P \ A) \in Nat
    BY <1>1, FS_CardinalityType
  <1>6. Cardinality(P \ A) = Cardinality(U) + Cardinality(V)
    <2>1. Cardinality(U \cup V) = Cardinality(P \ A)
      BY <1>2, Zenon
    <2> QED
      BY <1>3, <1>4, <1>5, <2>1
  <1> QED
    BY <1>5, <1>6 DEF U, V

\* recalculatePool6Capacity counts the addresses that are left.
LEMMA PoolCount ==
    ASSUME NEW d, NEW p \in PoolRow,
           d.reservedPools \subseteq PoolRow, IsFiniteSet(d.reservedPools),
           \A q, r \in d.reservedPools : q # r => ~Overlaps(q, r),
           \A r \in d.reservedPools : Ips(r) \cap ReservedIps(d) = {}
    PROVE  /\ Pool6Capacity(d, p) \in Int
           /\ Pool6Capacity(d, p) = Cardinality(Ips(p) \ Taken(d))
  <1> DEFINE S == {s \in d.reservedPools : Overlaps(s, p)}
             f == [r \in S |-> PoolReservedCount(p, r)]
             F == [r \in S |-> Ips(p) \cap Ips(r)]
             A == ReservedIps(d)
             X == UNION {Ips(r) : r \in d.reservedPools}
             P == Ips(p)
  <1>1. IsFiniteSet(S)
    BY FS_Subset
  <1>2. \A r \in S : IsFiniteSet(F[r]) /\ f[r] = Cardinality(F[r])
    BY SharedIps, OverlapsBothWays
  <1>3. \A q, r \in S : q # r => F[q] \cap F[r] = {}
    <2> SUFFICES ASSUME NEW q \in S, NEW r \in S, q # r PROVE F[q] \cap F[r] = {}
      OBVIOUS
    <2>1. ~Overlaps(q, r) /\ q \in PoolRow /\ r \in PoolRow
      OBVIOUS
    <2>2. Ips(q) \cap Ips(r) = {}
      BY <2>1, SharedIps
    <2> QED
      BY <2>2
  <1>4. UNION {F[r] : r \in S} = P \cap X
    <2>1. ASSUME NEW ip \in P, NEW r \in d.reservedPools, ip \in Ips(r)
          PROVE  \E q \in S : ip \in F[q]
      <3>1. r \in PoolRow /\ Ips(p) \cap Ips(r) # {}
        BY <2>1
      <3>2. Overlaps(r, p)
        BY <3>1, SharedIps, OverlapsBothWays
      <3> QED
        BY <2>1, <3>2
    <2> QED
      BY <2>1
  <1>5. Pool6Capacity(d, p) = (Size(p) - Cardinality(A \cap P)) - SumFunctionOnSet(f, S)
    <2>1. DOMAIN f = S
      OBVIOUS
    <2>2. SumFunction(f) = SumFunctionOnSet(f, S)
      BY <2>1, Zenon DEF SumFunction
    <2> QED
      BY <2>2, Zenon DEF Pool6Capacity
  <1> HIDE DEF f, F
  <1>6. SumFunctionOnSet(f, S) = Cardinality(P \cap X)
    <2> HIDE DEF S
    <2>1. SumFunctionOnSet(f, S) = Cardinality(UnionOf(F, S))
      BY <1>1, <1>2, <1>3, SumSizes
    <2>2. UnionOf(F, S) = P \cap X
      BY <1>4 DEF UnionOf
    <2> HIDE DEF P, X
    <2> QED
      BY <2>1, <2>2, Zenon
  <1>7. IsFiniteSet(P) /\ Cardinality(P) = Size(p)
    BY PoolType
  <1>8. A \cap X = {}
    OBVIOUS
  <1>9. P \ {} = P /\ {} \cup A = A /\ A \cap P = P \cap A /\ {} \cap A = {}
    OBVIOUS
  <1>14. Cardinality(A \cap P) = Cardinality(P \cap A)
    BY <1>9, Zenon
  <1>10. Taken(d) = A \cup X
    BY DEF Taken
  <1> HIDE DEF A, X, P
  <1>11. /\ Cardinality(P) = Cardinality(P \ A) + Cardinality(P \cap A)
         /\ Cardinality(P \ A) \in Nat /\ Cardinality(P \cap A) \in Nat
    <2> DEFINE E == {}
    <2>1. /\ Cardinality(P \ E) = Cardinality(P \ (E \cup A)) + Cardinality(P \cap A)
          /\ Cardinality(P \ (E \cup A)) \in Nat /\ Cardinality(P \cap A) \in Nat
      <3>1. E \cap A = {}
        OBVIOUS
      <3> HIDE DEF E
      <3> QED
        BY <1>7, <3>1, IpsTaken
    <2>2. P \ E = P /\ E \cup A = A
      OBVIOUS
    <2> HIDE DEF E
    <2> QED
      BY <2>1, <2>2, Zenon
  <1>12. /\ Cardinality(P \ A) = Cardinality(P \ (A \cup X)) + Cardinality(P \cap X)
         /\ Cardinality(P \ (A \cup X)) \in Nat /\ Cardinality(P \cap X) \in Nat
    BY <1>7, <1>8, IpsTaken
  <1>13. Pool6Capacity(d, p) = Cardinality(P \ (A \cup X))
    BY <1>5, <1>6, <1>7, <1>11, <1>12, <1>14
  <1> QED
    BY <1>10, <1>12, <1>13 DEF P

\* Unless the pdpool is crowded, each prefix xs takes what is counted for it.
\* xs are reserved after ys, which makes zs; met are the ones p delegates from.
TakesBlocks(mask, p, xs, ys, zs, met, c) ==
    /\ mask \in Nat /\ p \in PdPoolRow(mask) /\ xs \in SUBSET PrefixOf(mask) /\ IsFiniteSet(xs)
    /\ xs \cap ys = {} /\ zs = ys \cup xs /\ ~Crowded(p, zs)
    /\ met = {x \in xs : Meets(p.prefix, x)}
    /\ \A x \in met : c[x] = PdPoolReservedCount(p, x.len)

LEMMA BlocksAreTaken ==
    ASSUME NEW mask, NEW p, NEW xs, NEW ys, NEW zs, NEW met, NEW c,
           TakesBlocks(mask, p, xs, ys, zs, met, c)
    PROVE  /\ SumFunctionOnSet(c, met) \in Nat
           /\ Cardinality(FreeBlocks(p, ys)) \in Nat /\ Cardinality(FreeBlocks(p, zs)) \in Nat
           /\ Cardinality(FreeBlocks(p, ys))
                = Cardinality(FreeBlocks(p, zs)) + SumFunctionOnSet(c, met)
  <1> DEFINE F == [x \in met |-> MetBlocks(p, x)]
             X == UnionOf(F, met)
  <1>a. /\ mask \in Nat /\ p \in PdPoolRow(mask) /\ xs \in SUBSET PrefixOf(mask)
        /\ IsFiniteSet(xs) /\ xs \cap ys = {} /\ zs = ys \cup xs /\ ~Crowded(p, zs)
        /\ \A x : x \in met <=> x \in xs /\ Meets(p.prefix, x)
        /\ \A x \in met : c[x] = PdPoolReservedCount(p, x.len)
    BY DEF TakesBlocks
  <1>1. IsFiniteSet(met)
    BY <1>a, FS_Subset
  <1>2. \A x \in met : IsFiniteSet(F[x]) /\ c[x] = Cardinality(F[x])
    BY <1>a, MetBlocksCount
  <1>3. \A x, y \in met : x # y => F[x] \cap F[y] = {}
    BY <1>a DEF Crowded, MetBlocks
  <1>4. IsFiniteSet(X) /\ SumFunctionOnSet(c, met) = Cardinality(X)
    <2> HIDE DEF F
    <2> QED
      BY <1>1, <1>2, <1>3, SumSizes
  <1>0. X = UNION {MetBlocks(p, x) : x \in met}
    BY DEF UnionOf
  <1> HIDE DEF X
  <1>5. X \subseteq FreeBlocks(p, ys)
    <2> SUFFICES ASSUME NEW x \in met, NEW b \in MetBlocks(p, x), NEW y \in ys, Meets(y, b)
                 PROVE  FALSE
      BY <1>0 DEF FreeBlocks, MetBlocks
    <2>1. x # y /\ b \in Blocks(p) /\ Meets(x, b) /\ x \in zs /\ y \in zs
      BY <1>a DEF MetBlocks
    <2> QED
      BY <1>a, <2>1 DEF Crowded
  <1>6. FreeBlocks(p, zs) = FreeBlocks(p, ys) \ X
    <2>1. ASSUME NEW b \in FreeBlocks(p, zs) PROVE b \in FreeBlocks(p, ys) \ X
      BY <1>a, <1>0 DEF FreeBlocks, MetBlocks
    <2>2. ASSUME NEW b \in FreeBlocks(p, ys) \ X PROVE b \in FreeBlocks(p, zs)
      <3>1. ASSUME NEW x \in xs, Meets(x, b) PROVE FALSE
        <4>1. b \in MetBlocks(p, x)
          BY <2>2, <3>1 DEF FreeBlocks, MetBlocks
        <4>2. Meets(p.prefix, x)
          BY <1>a, <4>1, MetBlocksCount
        <4> QED
          BY <1>a, <1>0, <2>2, <3>1, <4>1, <4>2
      <3> QED
        BY <1>a, <2>2, <3>1 DEF FreeBlocks
    <2> QED
      BY <2>1, <2>2
  <1>7. IsFiniteSet(FreeBlocks(p, ys))
    BY <1>a, BlocksCount, FS_Subset DEF FreeBlocks
  <1>8. Cardinality(FreeBlocks(p, ys) \ X)
          = Cardinality(FreeBlocks(p, ys)) - Cardinality(FreeBlocks(p, ys) \cap X)
    BY <1>7, FS_Difference
  <1>9. FreeBlocks(p, ys) \cap X = X
    BY <1>5
  <1>10. IsFiniteSet(FreeBlocks(p, ys) \ X)
    BY <1>7, FS_Difference
  <1>11. /\ Cardinality(X) \in Nat /\ Cardinality(FreeBlocks(p, ys)) \in Nat
         /\ Cardinality(FreeBlocks(p, ys) \ X) \in Nat
    BY <1>4, <1>7, <1>10, FS_CardinalityType
  <1>12. /\ Cardinality(FreeBlocks(p, ys) \cap X) = Cardinality(X)
         /\ Cardinality(FreeBlocks(p, zs)) = Cardinality(FreeBlocks(p, ys) \ X)
    BY <1>6, <1>9, Zenon
  <1> QED
    BY <1>4, <1>8, <1>11, <1>12

-----------------------------------------------------------------------------
(***************************************************************************)
(* What the handlers write to capacities                                   *)
(***************************************************************************)
RowsOf(d) == d.pools \cup d.pdpools

\* The rows of d are of their tables and have numbers for capacities.
Counted(d) ==
    /\ IsRecord(d) /\ d.mask \in Nat
    /\ d.pools \subseteq PoolRow /\ d.pdpools \subseteq PdPoolRow(d.mask)
    /\ IsFiniteSet(d.pools) /\ IsFiniteSet(d.pdpools)
    /\ DOMAIN d.capacityOf = RowsOf(d)
    /\ \A q \in RowsOf(d) : d.capacityOf[q] \in Int
    /\ d.capacity \in Int

\* What the subnet counts besides its pools and pdpools.
Besides(d) == d.capacity - SumFunctionOnSet(d.capacityOf, RowsOf(d))

LEMMA PoolsDiffer == \A mask : PoolRow \cap PdPoolRow(mask) = {}
  <1> SUFFICES ASSUME NEW mask, NEW p \in PoolRow, p \in PdPoolRow(mask) PROVE FALSE
    OBVIOUS
  <1>1. DOMAIN p = {"begin", "end"}
    BY DEF PoolRow
  <1>2. DOMAIN p = {"prefix", "delegated"}
    BY DEF PdPoolRow
  <1>3. "begin" \in {"begin", "end"} /\ "begin" \notin {"prefix", "delegated"}
    OBVIOUS
  <1> QED
    BY <1>1, <1>2, <1>3

LEMMA SumOne == \A f, x : f[x] \in Int => SumFunctionOnSet(f, {x}) = f[x]
  <1> SUFFICES ASSUME NEW f, NEW x, f[x] \in Int PROVE SumFunctionOnSet(f, {x}) = f[x]
    OBVIOUS
  <1> DEFINE S == {x}
  <1>1. IsFiniteSet(S) /\ x \in S /\ \A y \in S : f[y] \in Int
    BY FS_Singleton
  <1>2. S \ {x} = {}
    OBVIOUS
  <1> HIDE DEF S
  <1>3. SumFunctionOnSet(f, S) = f[x] + SumFunctionOnSet(f, S \ {x})
    BY <1>1, SumAny
  <1>4. SumFunctionOnSet(f, S \ {x}) = 0
    BY <1>2, SumEmpty
  <1>5. SumFunctionOnSet(f, S) = f[x]
    BY <1>3, <1>4
  <1> QED
    BY <1>5 DEF S

\* Adding s to a part of the numbers.
LEMMA SumChanged ==
    ASSUME NEW S, IsFiniteSet(S), NEW f, \A x \in S : f[x] \in Int,
           NEW P \in SUBSET S, NEW s, \A x \in P : s[x] \in Int,
           NEW g, \A x \in S : g[x] = IF x \in P THEN f[x] + s[x] ELSE f[x]
    PROVE  /\ SumFunctionOnSet(f, S) \in Int /\ SumFunctionOnSet(s, P) \in Int
           /\ SumFunctionOnSet(g, S) = SumFunctionOnSet(f, S) + SumFunctionOnSet(s, P)
  <1> DEFINE h == [x \in S |-> IF x \in P THEN s[x] ELSE 0]
  <1>1. \A x \in S : f[x] \in Int /\ h[x] \in Int /\ g[x] = f[x] + h[x]
    OBVIOUS
  <1>2. \A x \in S : h[x] \in Int
    BY <1>1
  <1>3. \A x \in S \ P : h[x] = 0
    OBVIOUS
  <1>4. \A x \in P : s[x] \in Int /\ s[x] = h[x]
    OBVIOUS
  <1>5. IsFiniteSet(P)
    BY FS_Subset
  <1> HIDE DEF h
  <1>6. SumFunctionOnSet(g, S) = SumFunctionOnSet(f, S) + SumFunctionOnSet(h, S)
    BY <1>1, SumAdded
  <1>7. SumFunctionOnSet(h, S) = SumFunctionOnSet(h, P)
    BY <1>2, <1>3, SumPart
  <1>8. SumFunctionOnSet(s, P) = SumFunctionOnSet(h, P)
    BY <1>4, <1>5, SumEqual
  <1>9. SumFunctionOnSet(f, S) \in Int
    BY SumType
  <1>10. SumFunctionOnSet(s, P) \in Int
    BY <1>5, SumType
  <1> QED
    BY <1>6, <1>7, <1>8, <1>9, <1>10

LEMMA CapacityKept ==
    ASSUME NEW d, IsRecord(d), NEW f
    PROVE  /\ WithCapacities(d, f).capacity = d.capacity
           /\ WithCapacities(d, f).capacityOf =
                [q \in DOMAIN d.capacityOf |-> IF q \in DOMAIN f THEN f[q] ELSE d.capacityOf[q]]
  <1> DEFINE g == [q \in DOMAIN d.capacityOf |-> IF q \in DOMAIN f THEN f[q] ELSE d.capacityOf[q]]
  <1>1. WithCapacities(d, f) = [d EXCEPT !.capacityOf = g]
    BY DEF WithCapacities
  <1>2. "capacity" \in DOMAIN d /\ "capacityOf" \in DOMAIN d
    BY DEF IsRecord, Columns
  <1> HIDE DEF g
  <1>3. WithCapacities(d, f).capacity = d.capacity /\ WithCapacities(d, f).capacityOf = g
    BY <1>1, <1>2
  <1> QED
    BY <1>3 DEF g

\* Capacities of rows, and the subnet's.
Credited(d, f, n) == [WithCapacities(d, f) EXCEPT !.capacity = n]

\* The rows P of d are given their shares s, and the subnet these and k.
Shares(d, P, s, k, f, n, e) ==
    /\ Counted(d) /\ P \subseteq RowsOf(d) /\ k \in Int
    /\ \A q \in P : s[q] \in Int
    /\ DOMAIN f = P /\ \A q \in P : f[q] = d.capacityOf[q] + s[q]
    /\ n = d.capacity + SumFunctionOnSet(s, P) + k
    /\ e = Credited(d, f, n)

LEMMA SharesAdded ==
    ASSUME NEW d, NEW P, NEW s, NEW k, NEW f, NEW n, NEW e, Shares(d, P, s, k, f, n, e)
    PROVE  /\ Counted(e) /\ SameRows(d, e)
           /\ Besides(d) \in Int /\ Besides(e) = Besides(d) + k
           /\ \A q \in RowsOf(d) :
                e.capacityOf[q] = IF q \in P THEN d.capacityOf[q] + s[q] ELSE d.capacityOf[q]
  <1> DEFINE c == WithCapacities(d, f)
             R == RowsOf(d)
  <1>00. /\ Counted(d) /\ P \subseteq R /\ k \in Int
         /\ (\A q \in P : s[q] \in Int)
         /\ DOMAIN f = P /\ (\A q \in P : f[q] = d.capacityOf[q] + s[q])
         /\ n = d.capacity + SumFunctionOnSet(s, P) + k
         /\ e = Credited(d, f, n)
    BY DEF Shares
  <1>0. IsRecord(d) /\ DOMAIN d.capacityOf = R /\ d.capacity \in Int
        /\ \A q \in R : d.capacityOf[q] \in Int
    BY <1>00 DEF Counted
  <1>1. e = [c EXCEPT !.capacity = n]
    BY <1>00 DEF Credited
  <1>2. /\ c.capacity = d.capacity
        /\ c.capacityOf = [q \in R |-> IF q \in P THEN f[q] ELSE d.capacityOf[q]]
        /\ IsRecord(c) /\ SameRows(d, c)
    <2>1. IsRecord(c) /\ SameRows(d, c)
      BY <1>0, CapacitiesKept
    <2>2. c.capacity = d.capacity
          /\ c.capacityOf = [q \in DOMAIN d.capacityOf |->
                               IF q \in DOMAIN f THEN f[q] ELSE d.capacityOf[q]]
      BY <1>0, CapacityKept
    <2> HIDE DEF c
    <2> QED
      BY <1>0, <1>00, <2>1, <2>2
  <1> HIDE DEF c
  <1>3. IsRecord(e) /\ SameRows(c, e) /\ e.capacity = n /\ e.capacityOf = c.capacityOf
    <2>1. IsRecord(e) /\ SameRows(c, e)
      BY <1>1, <1>2, NewCapacities
    <2>2. "capacity" \in DOMAIN c /\ "capacityOf" \in DOMAIN c
      BY <1>2 DEF IsRecord, Columns
    <2> QED
      BY <1>1, <2>1, <2>2
  <1>4. SameRows(d, e)
    BY <1>2, <1>3 DEF SameRows
  <1>5. RowsOf(e) = R /\ e.mask = d.mask /\ e.pools = d.pools /\ e.pdpools = d.pdpools
    BY <1>4 DEF SameRows, RowsOf
  <1>6. \A q \in R : e.capacityOf[q] = IF q \in P THEN d.capacityOf[q] + s[q] ELSE d.capacityOf[q]
    BY <1>00, <1>2, <1>3
  <1>7. IsFiniteSet(R)
    BY <1>00, FS_Union DEF Counted, RowsOf
  <1>8. DOMAIN e.capacityOf = R
    BY <1>2, <1>3
  <1> HIDE DEF R
  <1>9. /\ SumFunctionOnSet(d.capacityOf, R) \in Int /\ SumFunctionOnSet(s, P) \in Int
        /\ SumFunctionOnSet(e.capacityOf, R)
             = SumFunctionOnSet(d.capacityOf, R) + SumFunctionOnSet(s, P)
    <2>1. P \in SUBSET R /\ \A q \in P : s[q] \in Int
      BY <1>00
    <2> DEFINE a == d.capacityOf
               b == e.capacityOf
    <2>2. (\A q \in R : a[q] \in Int) /\ \A q \in R : b[q] = IF q \in P THEN a[q] + s[q] ELSE a[q]
      BY <1>0, <1>6
    <2> HIDE DEF a, b
    <2>3. /\ SumFunctionOnSet(a, R) \in Int /\ SumFunctionOnSet(s, P) \in Int
          /\ SumFunctionOnSet(b, R) = SumFunctionOnSet(a, R) + SumFunctionOnSet(s, P)
      BY <1>7, <2>1, <2>2, SumChanged
    <2> QED
      BY <2>3 DEF a, b
  <1>10. \A q \in R : e.capacityOf[q] \in Int
    BY <1>0, <1>00, <1>6
  <1>11. e.capacity = d.capacity + SumFunctionOnSet(s, P) + k
    BY <1>00, <1>2, <1>3
  <1>12. e.capacity \in Int
    BY <1>0, <1>00, <1>9, <1>11
  <1>13. Counted(e)
    BY <1>00, <1>3, <1>5, <1>8, <1>10, <1>12 DEF Counted
  <1>14. Besides(e) = e.capacity - SumFunctionOnSet(e.capacityOf, R)
         /\ Besides(d) = d.capacity - SumFunctionOnSet(d.capacityOf, R)
    BY <1>5, Zenon DEF Besides, R
  <1>15. Besides(d) \in Int /\ Besides(e) = Besides(d) + k
    BY <1>0, <1>00, <1>9, <1>11, <1>14
  <1> QED
    BY <1>4, <1>6, <1>13, <1>15 DEF R

LEMMA ReservedPoolCounts ==
    ASSUME NEW d, Counted(d), NEW r \in PoolRow, NEW sign \in Int,
           NEW e, e = WithReservedPool(d, r, sign)
    PROVE  /\ Counted(e) /\ SameRows(d, e) /\ Besides(e) = Besides(d)
           /\ \A p \in d.pools :
                e.capacityOf[p] = d.capacityOf[p] + sign * Cardinality(Ips(p) \cap Ips(r))
           /\ \A p \in d.pdpools : e.capacityOf[p] = d.capacityOf[p]
  <1> DEFINE hit == {p \in d.pools : Overlaps(p, r)}
             share == [p \in hit |-> sign * PoolReservedCount(p, r)]
             f == [p \in hit |-> d.capacityOf[p] + share[p]]
  <1>0. /\ d.pools \subseteq PoolRow /\ d.pdpools \subseteq PdPoolRow(d.mask) /\ d.capacity \in Int
        /\ \A q \in d.pools \cup d.pdpools : d.capacityOf[q] \in Int
    BY DEF Counted, RowsOf
  <1>1. /\ hit \in SUBSET RowsOf(d) /\ DOMAIN f = hit /\ DOMAIN share = hit
        /\ (\A q \in hit : f[q] = d.capacityOf[q] + share[q])
        /\ \A q \in hit : share[q] = sign * PoolReservedCount(q, r)
    BY DEF RowsOf
  <1>2. \A q \in hit : share[q] \in Int /\ share[q] = sign * Cardinality(Ips(q) \cap Ips(r))
    <2> SUFFICES ASSUME NEW q \in hit
                 PROVE  share[q] \in Int /\ share[q] = sign * Cardinality(Ips(q) \cap Ips(r))
      OBVIOUS
    <2>1. q \in PoolRow /\ Overlaps(q, r)
      BY <1>0
    <2>2. PoolReservedCount(q, r) \in Int
          /\ Cardinality(Ips(q) \cap Ips(r)) = PoolReservedCount(q, r)
      BY <2>1, SharedIps
    <2> QED
      BY <1>1, <2>2
  <1>3. e = [WithCapacities(d, f) EXCEPT !.capacity = @ + SumFunction(share)]
    BY Zenon DEF WithReservedPool
  <1>8. IsFiniteSet(hit)
    BY FS_Subset DEF Counted
  <1>9. \A p \in d.pools : p \notin hit => sign * Cardinality(Ips(p) \cap Ips(r)) = 0
    <2> SUFFICES ASSUME NEW p \in d.pools, p \notin hit
                 PROVE  sign * Cardinality(Ips(p) \cap Ips(r)) = 0
      OBVIOUS
    <2>1. Ips(p) \cap Ips(r) = {}
      BY <1>0, SharedIps
    <2>2. Cardinality(Ips(p) \cap Ips(r)) = 0
      BY <2>1, FS_EmptySet
    <2> QED
      BY <2>2
  <1>10. hit \subseteq d.pools
    OBVIOUS
  <1> HIDE DEF hit, share, f
  <1>4. SumFunction(share) = SumFunctionOnSet(share, hit)
    BY <1>1, Zenon DEF SumFunction
  <1>5. SumFunctionOnSet(share, hit) \in Int
    BY <1>2, <1>8, SumType
  <1> DEFINE k == 0
             n == d.capacity + SumFunctionOnSet(share, hit) + k
  <1>6. e = Credited(d, f, n)
    <2>1. WithCapacities(d, f).capacity = d.capacity
      BY CapacityKept DEF Counted
    <2>2. d.capacity + SumFunction(share) = n
      BY <1>0, <1>4, <1>5
    <2> QED
      BY <1>3, <2>1, <2>2, Zenon DEF Credited
  <1>7. n = d.capacity + SumFunctionOnSet(share, hit) + k /\ k \in Int
    OBVIOUS
  <1> HIDE DEF n, k
  <1>15. Shares(d, hit, share, k, f, n, e)
    BY <1>1, <1>2, <1>6, <1>7 DEF Shares
  <1>11. /\ Counted(e) /\ SameRows(d, e) /\ Besides(d) \in Int /\ Besides(e) = Besides(d) + k
         /\ \A q \in RowsOf(d) : e.capacityOf[q] = IF q \in hit THEN d.capacityOf[q] + share[q]
                                                   ELSE d.capacityOf[q]
    BY <1>15, SharesAdded
  <1>12. ASSUME NEW p \in d.pools
         PROVE  e.capacityOf[p] = d.capacityOf[p] + sign * Cardinality(Ips(p) \cap Ips(r))
    <2>1. p \in RowsOf(d) /\ d.capacityOf[p] \in Int
      BY <1>0 DEF RowsOf
    <2>2. CASE p \in hit
      BY <1>2, <1>11, <2>1, <2>2
    <2>3. CASE p \notin hit
      BY <1>9, <1>11, <2>1, <2>3
    <2> QED
      BY <2>2, <2>3
  <1>13. \A p \in d.pdpools : e.capacityOf[p] = d.capacityOf[p]
    <2>1. \A p \in d.pdpools : p \notin hit
      BY <1>0, <1>10, PoolsDiffer
    <2> QED
      BY <1>11, <2>1 DEF RowsOf
  <1>14. Besides(e) = Besides(d)
    BY <1>11 DEF k
  <1> QED
    BY <1>11, <1>12, <1>13, <1>14

LEMMA ReservedPdPoolCounts ==
    ASSUME NEW d, Counted(d), NEW x \in PrefixOf(d.mask), NEW sign \in Int,
           NEW e \in WithReservedPdPool(d, x, sign)
    PROVE  /\ Counted(e) /\ SameRows(d, e) /\ Besides(e) = Besides(d)
           /\ \A p \in d.pools : e.capacityOf[p] = d.capacityOf[p]
           /\ \/ /\ \A q \in d.pdpools : ~Meets(q.prefix, x)
                 /\ e = d
              \/ \E p \in d.pdpools :
                    /\ Meets(p.prefix, x)
                    /\ \A q \in d.pdpools :
                         e.capacityOf[q] = IF q = p
                                           THEN d.capacityOf[q] + sign * PdPoolReservedCount(q, x.len)
                                           ELSE d.capacityOf[q]
  <1> DEFINE hit == {p \in d.pdpools : Meets(p.prefix, x)}
  <1>0. /\ IsRecord(d) /\ d.mask \in Nat /\ d.pools \subseteq PoolRow
        /\ d.pdpools \subseteq PdPoolRow(d.mask)
        /\ d.capacity \in Int /\ \A q \in d.pools \cup d.pdpools : d.capacityOf[q] \in Int
    BY DEF Counted, RowsOf
  <1>1. CASE hit = {}
    <2>1. e = d
      BY <1>1, Zenon DEF WithReservedPdPool
    <2>2. SameRows(d, d)
      BY <1>0 DEF SameRows, IsRecord
    <2> QED
      BY <1>1, <2>1, <2>2
  <1>2. CASE hit # {}
    <2> DEFINE Share(p) == sign * PdPoolReservedCount(p, x.len)
    <2>1. \E p \in hit : e = [WithCapacities(d, [q \in {p} |-> d.capacityOf[p] + Share(p)])
                                EXCEPT !.capacity = @ + Share(p)]
      BY <1>2, Zenon DEF WithReservedPdPool
    <2>2. PICK p \in hit : e = [WithCapacities(d, [q \in {p} |-> d.capacityOf[p] + Share(p)])
                                  EXCEPT !.capacity = @ + Share(p)]
      BY <2>1
    <2> DEFINE P == {p}
               s == [q \in P |-> Share(p)]
               f == [q \in P |-> d.capacityOf[p] + Share(p)]
               k == 0
               n == d.capacity + SumFunctionOnSet(s, P) + k
    <2>3. p \in PdPoolRow(d.mask) /\ p \in d.pdpools
      BY <1>0
    <2>4. PdPoolReservedCount(p, x.len) \in PNat
      BY <1>0, <2>3, MetBlocksCount
    <2>5. Share(p) \in Int
      BY <2>4 DEF PNat
    <2>6. /\ P \subseteq RowsOf(d) /\ k \in Int /\ (\A q \in P : s[q] \in Int)
          /\ DOMAIN f = P /\ (\A q \in P : f[q] = d.capacityOf[q] + s[q])
      BY <2>3, <2>5 DEF RowsOf
    <2>7. s[p] = Share(p) /\ \A q \in P : s[q] = Share(p)
      OBVIOUS
    <2>8. e = [WithCapacities(d, f) EXCEPT !.capacity = @ + Share(p)]
      BY <2>2
    <2> HIDE DEF s, f
    <2>9. SumFunctionOnSet(s, P) = Share(p)
      BY <2>5, <2>7, SumOne
    <2>10. WithCapacities(d, f).capacity = d.capacity
      BY <1>0, CapacityKept
    <2>11. n = d.capacity + Share(p)
      BY <1>0, <2>5, <2>9
    <2>12. e = Credited(d, f, n)
      BY <2>8, <2>10, <2>11, Zenon DEF Credited
    <2>13. Shares(d, P, s, k, f, n, e)
      <3>1. n = d.capacity + SumFunctionOnSet(s, P) + k
        OBVIOUS
      <3> HIDE DEF n, P, k
      <3> QED
        BY <2>6, <2>12, <3>1 DEF Shares
    <2>14. /\ Counted(e) /\ SameRows(d, e) /\ Besides(d) \in Int /\ Besides(e) = Besides(d) + 0
           /\ \A q \in RowsOf(d) : e.capacityOf[q] = IF q \in P THEN d.capacityOf[q] + s[q]
                                                     ELSE d.capacityOf[q]
      <3> DEFINE j == k
      <3> HIDE DEF n, P, j
      <3> QED
        BY <2>13, SharesAdded
    <2>15. ASSUME NEW q \in d.pools PROVE e.capacityOf[q] = d.capacityOf[q]
      <3>1. q \notin P
        BY <1>0, <2>3, PoolsDiffer
      <3> QED
        BY <2>14, <3>1 DEF RowsOf
    <2>16. ASSUME NEW q \in d.pdpools
           PROVE  e.capacityOf[q] = IF q = p
                                    THEN d.capacityOf[q] + sign * PdPoolReservedCount(q, x.len)
                                    ELSE d.capacityOf[q]
      BY <2>7, <2>14 DEF RowsOf
    <2>17. Meets(p.prefix, x)
      OBVIOUS
    <2> QED
      BY <2>3, <2>14, <2>15, <2>16, <2>17
  <1> QED
    BY <1>1, <1>2

PoolsApart(d) == \A p, q \in d.pools : p # q => ~Overlaps(p, q)

IpsCounted(d, ips, sign, e) ==
    /\ Counted(e) /\ SameRows(d, e)
    /\ Besides(e) = Besides(d) - sign * Cardinality(ips)
    /\ \A p \in d.pools :
         e.capacityOf[p] = IF d.capacityOf[p] # 0
                           THEN d.capacityOf[p] + sign * Cardinality(ips \cap Ips(p))
                           ELSE d.capacityOf[p]
    /\ \A p \in d.pdpools : e.capacityOf[p] = d.capacityOf[p]

LEMMA ReservedIpsCounts ==
    ASSUME NEW d, Counted(d), PoolsApart(d), NEW ips, IsFiniteSet(ips), NEW sign \in Int
    PROVE  IpsCounted(d, ips, sign, WithReservedIps(d, ips, sign))
  <1> DEFINE hit == {p \in d.pools : d.capacityOf[p] # 0}
             F == [p \in hit |-> ips \cap Ips(p)]
             t == [p \in hit |-> Cardinality(ips \cap Ips(p))]
             s == [p \in hit |-> sign * Cardinality(ips \cap Ips(p))]
             f == [p \in hit |-> d.capacityOf[p] + sign * Cardinality(ips \cap Ips(p))]
             X == UNION {ips \cap Ips(p) : p \in hit}
             k == - (sign * Cardinality(ips))
             n == d.capacity + SumFunctionOnSet(s, hit) + k
             e == WithReservedIps(d, ips, sign)
  <1>0. /\ IsRecord(d) /\ d.mask \in Nat /\ d.pools \subseteq PoolRow
        /\ d.pdpools \subseteq PdPoolRow(d.mask) /\ IsFiniteSet(d.pools)
        /\ d.capacity \in Int /\ \A q \in d.pools \cup d.pdpools : d.capacityOf[q] \in Int
    BY DEF Counted, RowsOf
  <1>1. e = [WithCapacities(d, f) EXCEPT !.capacity = @ - sign * Cardinality(ips \ X)]
    BY Zenon DEF WithReservedIps
  <1>2. IsFiniteSet(hit) /\ hit \subseteq d.pools
    BY <1>0, FS_Subset
  <1>3. \A p : IsFiniteSet(ips \cap Ips(p)) /\ Cardinality(ips \cap Ips(p)) \in Nat
    BY FS_Intersection, FS_CardinalityType
  <1>4. \A p \in hit : /\ F[p] = ips \cap Ips(p) /\ t[p] = Cardinality(ips \cap Ips(p))
                       /\ s[p] = sign * Cardinality(ips \cap Ips(p))
                       /\ f[p] = d.capacityOf[p] + s[p]
    OBVIOUS
  <1>5. DOMAIN f = hit
    OBVIOUS
  <1>6. UnionOf(F, hit) = X
    BY DEF UnionOf
  <1>7. X \subseteq ips
    OBVIOUS
  <1> HIDE DEF F, t, s, f, X, e
  <1>8. \A p, q \in hit : p # q => F[p] \cap F[q] = {}
    <2> SUFFICES ASSUME NEW p \in hit, NEW q \in hit, p # q PROVE F[p] \cap F[q] = {}
      OBVIOUS
    <2>1. p \in PoolRow /\ q \in PoolRow /\ ~Overlaps(p, q)
      BY <1>0 DEF PoolsApart
    <2>2. Ips(p) \cap Ips(q) = {}
      BY <2>1, SharedIps
    <2> QED
      BY <1>4, <2>2
  <1>9. \A p \in hit : IsFiniteSet(F[p]) /\ t[p] = Cardinality(F[p]) /\ t[p] \in Int
    <2> SUFFICES ASSUME NEW p \in hit
                 PROVE  IsFiniteSet(F[p]) /\ t[p] = Cardinality(F[p]) /\ t[p] \in Int
      OBVIOUS
    <2>1. F[p] = ips \cap Ips(p) /\ t[p] = Cardinality(ips \cap Ips(p))
      BY <1>4
    <2>2. Cardinality(F[p]) = Cardinality(ips \cap Ips(p)) /\ IsFiniteSet(F[p])
      BY <1>3, <2>1, Zenon
    <2> QED
      BY <1>3, <2>1, <2>2
  <1>10. SumFunctionOnSet(t, hit) = Cardinality(X)
    <2> HIDE DEF hit
    <2>1. SumFunctionOnSet(t, hit) = Cardinality(UnionOf(F, hit))
      BY <1>2, <1>8, <1>9, SumSizes
    <2> QED
      BY <1>6, <2>1, Zenon
  <1>11. SumFunctionOnSet(s, hit) = sign * Cardinality(X)
    <2>1. \A p \in hit : t[p] \in Int /\ s[p] = sign * t[p]
      BY <1>4, <1>9
    <2> HIDE DEF hit
    <2>2. SumFunctionOnSet(s, hit) = sign * SumFunctionOnSet(t, hit)
      BY <1>2, <2>1, SumTimes
    <2> QED
      BY <1>10, <2>2
  <1>12. /\ Cardinality(ips) \in Nat /\ Cardinality(X) \in Nat /\ Cardinality(ips \ X) \in Nat
         /\ Cardinality(ips) = Cardinality(ips \ X) + Cardinality(X)
    <2>1. Cardinality(ips \ X) = Cardinality(ips) - Cardinality(ips \cap X)
          /\ IsFiniteSet(ips \ X)
      BY FS_Difference
    <2>2. ips \cap X = X
      BY <1>7
    <2>3. Cardinality(ips \cap X) = Cardinality(X) /\ IsFiniteSet(X)
      <3>1. IsFiniteSet(ips \cap X)
        BY FS_Intersection
      <3> QED
        BY <2>2, <3>1, Zenon
    <2> QED
      BY <2>1, <2>3, FS_CardinalityType
  <1>13. n = d.capacity - sign * Cardinality(ips \ X) /\ k \in Int
    <2> DEFINE a == Cardinality(ips \ X)
               b == Cardinality(X)
    <2>1. sign * (a + b) = sign * a + sign * b /\ a \in Int /\ b \in Int
          /\ sign * a \in Int /\ sign * b \in Int
      BY <1>12
    <2>2. n = d.capacity + sign * b + -(sign * (a + b))
      BY <1>11, <1>12
    <2> QED
      BY <1>0, <1>12, <2>1, <2>2
  <1>14. e = Credited(d, f, n)
    <2>1. WithCapacities(d, f).capacity = d.capacity
      BY <1>0, CapacityKept
    <2> HIDE DEF n
    <2> QED
      BY <1>1, <1>13, <2>1, Zenon DEF Credited
  <1>15. Shares(d, hit, s, k, f, n, e)
    <2>1. n = d.capacity + SumFunctionOnSet(s, hit) + k
      OBVIOUS
    <2>2. hit \subseteq RowsOf(d)
      BY DEF RowsOf
    <2>3. ASSUME NEW q \in hit PROVE s[q] \in Int
      <3>1. s[q] = sign * Cardinality(ips \cap Ips(q)) /\ Cardinality(ips \cap Ips(q)) \in Nat
        BY <1>3, <1>4
      <3> QED
        BY <3>1
    <2> HIDE DEF n, k, hit
    <2> QED
      BY <1>4, <1>5, <1>13, <1>14, <2>1, <2>2, <2>3 DEF Shares
  <1>16. /\ Counted(e) /\ SameRows(d, e) /\ Besides(d) \in Int /\ Besides(e) = Besides(d) + k
         /\ \A q \in RowsOf(d) : e.capacityOf[q] = IF q \in hit THEN d.capacityOf[q] + s[q]
                                                   ELSE d.capacityOf[q]
    <2> HIDE DEF n, k, hit
    <2> QED
      BY <1>15, SharesAdded
  <1>17. Besides(e) = Besides(d) - sign * Cardinality(ips)
    BY <1>12, <1>16
  <1>18. ASSUME NEW p \in d.pools
         PROVE  e.capacityOf[p] = IF d.capacityOf[p] # 0
                                  THEN d.capacityOf[p] + sign * Cardinality(ips \cap Ips(p))
                                  ELSE d.capacityOf[p]
    BY <1>4, <1>16 DEF RowsOf
  <1>19. ASSUME NEW p \in d.pdpools PROVE e.capacityOf[p] = d.capacityOf[p]
    <2>1. p \notin hit
      BY <1>0, PoolsDiffer
    <2> QED
      BY <1>16, <2>1 DEF RowsOf
  <1> QED
    BY <1>16, <1>17, <1>18, <1>19 DEF IpsCounted, e

\* The reserved prefixes that are counted on q, for the picks f.
On(f, q) == {y \in DOMAIN f : f[y] = q}

Counts(f, q) == [x \in On(f, q) |-> PdPoolReservedCount(q, x.len)]

PrefixesCounted(d, xs, sign, e) ==
    /\ Counted(e) /\ SameRows(d, e)
    /\ Besides(e) = Besides(d) - sign * Cardinality(xs)
    /\ \A p \in d.pools : e.capacityOf[p] = d.capacityOf[p]
    /\ \E f : /\ DOMAIN f = {x \in xs : \E p \in d.pdpools : Meets(p.prefix, x)}
              /\ \A x \in DOMAIN f : f[x] \in d.pdpools /\ Meets(f[x].prefix, x)
              /\ \A q \in d.pdpools :
                   e.capacityOf[q] = d.capacityOf[q]
                      + sign * SumFunctionOnSet(Counts(f, q), On(f, q))

LEMMA ReservedPrefixesCounts ==
    ASSUME NEW d, Counted(d), NEW xs, xs \subseteq PrefixOf(d.mask), IsFiniteSet(xs),
           NEW sign \in Int, NEW e \in WithReservedPrefixes(d, xs, sign)
    PROVE  PrefixesCounted(d, xs, sign, e)
  <1> DEFINE met == {x \in xs : \E p \in d.pdpools : Meets(p.prefix, x)}
             picks == {g \in [met -> d.pdpools] : \A x \in met : Meets(g[x].prefix, x)}
             Amounts(g) == [p \in d.pdpools |->
                              SumFunction([x \in {y \in met : g[y] = p} |->
                                              PdPoolReservedCount(p, x.len)])]
  <1>0. /\ IsRecord(d) /\ d.mask \in Nat /\ d.pools \subseteq PoolRow
        /\ d.pdpools \subseteq PdPoolRow(d.mask) /\ IsFiniteSet(d.pdpools)
        /\ d.capacity \in Int /\ \A q \in d.pools \cup d.pdpools : d.capacityOf[q] \in Int
    BY DEF Counted, RowsOf
  <1>1. \E g \in picks :
           e = [WithCapacities(d, [p \in d.pdpools |-> d.capacityOf[p] + sign * Amounts(g)[p]])
                  EXCEPT !.capacity = @ + sign * SumFunction(Amounts(g)) - sign * Cardinality(xs)]
    BY Zenon DEF WithReservedPrefixes
  <1>2. PICK g \in picks :
           e = [WithCapacities(d, [p \in d.pdpools |-> d.capacityOf[p] + sign * Amounts(g)[p]])
                  EXCEPT !.capacity = @ + sign * SumFunction(Amounts(g)) - sign * Cardinality(xs)]
    BY <1>1, Zenon
  <1>3. DOMAIN g = met /\ \A x \in met : g[x] \in d.pdpools /\ Meets(g[x].prefix, x)
    OBVIOUS
  <1> DEFINE P == d.pdpools
             t == Amounts(g)
             s == [p \in P |-> sign * t[p]]
             f == [p \in P |-> d.capacityOf[p] + sign * t[p]]
             k == - (sign * Cardinality(xs))
             n == d.capacity + SumFunctionOnSet(s, P) + k
  <1>4. e = [WithCapacities(d, f)
               EXCEPT !.capacity = @ + sign * SumFunction(t) - sign * Cardinality(xs)]
    BY <1>2, Zenon
  <1>5. \A p \in P : t[p] = SumFunction(Counts(g, p))
    <2> SUFFICES ASSUME NEW p \in P PROVE t[p] = SumFunction(Counts(g, p))
      OBVIOUS
    <2>1. On(g, p) = {y \in met : g[y] = p}
      BY <1>3 DEF On
    <2>2. Counts(g, p) = [x \in {y \in met : g[y] = p} |-> PdPoolReservedCount(p, x.len)]
      BY <2>1, Zenon DEF Counts
    <2>3. t[p] = SumFunction([x \in {y \in met : g[y] = p} |-> PdPoolReservedCount(p, x.len)])
      BY Zenon
    <2> QED
      BY <2>2, <2>3, Zenon
  <1>6. DOMAIN t = P /\ DOMAIN f = P /\ \A p \in P : s[p] = sign * t[p]
                                                     /\ f[p] = d.capacityOf[p] + s[p]
    BY Zenon
  <1>7. \A p \in P : t[p] = SumFunctionOnSet(Counts(g, p), On(g, p)) /\ t[p] \in Int
    <2> SUFFICES ASSUME NEW p \in P
                 PROVE  t[p] = SumFunctionOnSet(Counts(g, p), On(g, p)) /\ t[p] \in Int
      OBVIOUS
    <2>1. DOMAIN Counts(g, p) = On(g, p)
      BY DEF Counts
    <2>2. t[p] = SumFunctionOnSet(Counts(g, p), On(g, p))
      BY <1>5, <2>1, Zenon DEF SumFunction
    <2>3. On(g, p) \subseteq xs
      BY <1>3 DEF On
    <2>4. IsFiniteSet(On(g, p))
      BY <2>3, FS_Subset
    <2>5. \A x \in On(g, p) : Counts(g, p)[x] \in Int
      <3> SUFFICES ASSUME NEW x \in On(g, p) PROVE Counts(g, p)[x] \in Int
        OBVIOUS
      <3>1. x \in PrefixOf(d.mask) /\ p \in PdPoolRow(d.mask)
        BY <1>0, <2>3
      <3>2. PdPoolReservedCount(p, x.len) \in PNat
        BY <1>0, <3>1, MetBlocksCount
      <3> QED
        BY <3>2 DEF Counts, PNat
    <2> HIDE DEF t
    <2> QED
      BY <2>2, <2>4, <2>5, SumType
  <1> HIDE DEF t, f, s
  <1>8. SumFunctionOnSet(s, P) = sign * SumFunctionOnSet(t, P) /\ SumFunctionOnSet(t, P) \in Int
    <2>1. IsFiniteSet(P) /\ \A p \in P : t[p] \in Int /\ s[p] = sign * t[p]
      BY <1>0, <1>6, <1>7
    <2> HIDE DEF P
    <2> QED
      BY <2>1, SumTimes, SumType
  <1>9. SumFunction(t) = SumFunctionOnSet(t, P)
    BY <1>6, Zenon DEF SumFunction
  <1>10. Cardinality(xs) \in Nat /\ k \in Int
    BY FS_CardinalityType
  <1>11. n = d.capacity + sign * SumFunction(t) - sign * Cardinality(xs)
    BY <1>0, <1>8, <1>9, <1>10
  <1>12. e = Credited(d, f, n)
    <2>1. WithCapacities(d, f).capacity = d.capacity
      BY <1>0, CapacityKept
    <2> HIDE DEF n
    <2> QED
      BY <1>4, <1>11, <2>1, Zenon DEF Credited
  <1>13. Shares(d, P, s, k, f, n, e)
    <2>1. n = d.capacity + SumFunctionOnSet(s, P) + k
      OBVIOUS
    <2>2. P \subseteq RowsOf(d)
      BY DEF RowsOf
    <2>3. \A q \in P : s[q] \in Int
      BY <1>6, <1>7
    <2> HIDE DEF n, k, P
    <2> QED
      BY <1>6, <1>10, <1>12, <2>1, <2>2, <2>3 DEF Shares
  <1>14. /\ Counted(e) /\ SameRows(d, e) /\ Besides(d) \in Int /\ Besides(e) = Besides(d) + k
         /\ \A q \in RowsOf(d) : e.capacityOf[q] = IF q \in P THEN d.capacityOf[q] + s[q]
                                                   ELSE d.capacityOf[q]
    <2> HIDE DEF n, k, P
    <2> QED
      BY <1>13, SharesAdded
  <1>15. Besides(e) = Besides(d) - sign * Cardinality(xs)
    BY <1>10, <1>14
  <1>16. ASSUME NEW p \in d.pools PROVE e.capacityOf[p] = d.capacityOf[p]
    <2>1. p \notin P
      BY <1>0, PoolsDiffer
    <2> QED
      BY <1>14, <2>1 DEF RowsOf
  <1>17. \A q \in d.pdpools : e.capacityOf[q] = d.capacityOf[q]
                                + sign * SumFunctionOnSet(Counts(g, q), On(g, q))
    BY <1>6, <1>7, <1>14 DEF RowsOf
  <1> QED
    BY <1>3, <1>14, <1>15, <1>16, <1>17 DEF PrefixesCounted

\* Another table of the subnet than those with capacities is written.
LEMMA TableCounts ==
    ASSUME NEW d, Counted(d), NEW g, IsRecord(g), g.mask = d.mask, g.pools = d.pools,
           g.pdpools = d.pdpools, g.capacity = d.capacity, g.capacityOf = d.capacityOf
    PROVE  Counted(g) /\ Besides(g) = Besides(d)
  BY DEF Counted, Besides, RowsOf

LEMMA BesidesType ==
    ASSUME NEW d, Counted(d)
    PROVE  /\ IsFiniteSet(RowsOf(d)) /\ Besides(d) \in Int
           /\ SumFunctionOnSet(d.capacityOf, RowsOf(d)) \in Int
           /\ d.capacity = SumFunctionOnSet(d.capacityOf, RowsOf(d)) + Besides(d)
  <1>1. IsFiniteSet(RowsOf(d)) /\ \A q \in RowsOf(d) : d.capacityOf[q] \in Int
    BY FS_Union DEF Counted, RowsOf
  <1>2. SumFunctionOnSet(d.capacityOf, RowsOf(d)) \in Int
    BY <1>1, SumType
  <1>3. d.capacity \in Int
    BY DEF Counted
  <1> QED
    BY <1>1, <1>2, <1>3 DEF Besides

\* A row p is added, or removed: the tables of g are already those after it.
LEMMA RowAdded ==
    ASSUME NEW d, Counted(d), NEW p, p \notin RowsOf(d), NEW g, IsRecord(g), g.mask = d.mask,
           g.capacity = d.capacity, g.capacityOf = d.capacityOf,
           RowsOf(g) = RowsOf(d) \cup {p}, IsFiniteSet(g.pools), IsFiniteSet(g.pdpools),
           g.pools \subseteq PoolRow, g.pdpools \subseteq PdPoolRow(d.mask),
           NEW n \in Int, NEW e, e = WithRow(g, p, n)
    PROVE  /\ Counted(e) /\ SameRows(g, e) /\ Besides(e) = Besides(d)
           /\ e.capacityOf[p] = n
           /\ \A q \in RowsOf(d) : e.capacityOf[q] = d.capacityOf[q]
  <1> DEFINE R == RowsOf(d)
             S == R \cup {p}
             f == [q \in S |-> IF q = p THEN n ELSE d.capacityOf[q]]
  <1>0. IsRecord(d) /\ DOMAIN d.capacityOf = R /\ d.capacity \in Int /\ d.mask \in Nat
        /\ \A q \in R : d.capacityOf[q] \in Int
    BY DEF Counted
  <1>1. IsFiniteSet(R)
    BY BesidesType
  <1>2. e = [g EXCEPT !.capacityOf = f, !.capacity = d.capacity + n]
    BY <1>0 DEF WithRow
  <1>3. IsRecord(e) /\ SameRows(g, e)
    BY RowKept
  <1>4. e.capacityOf = f /\ e.capacity = d.capacity + n
    <2>1. "capacity" \in DOMAIN g /\ "capacityOf" \in DOMAIN g
      BY DEF IsRecord, Columns
    <2> HIDE DEF f
    <2> QED
      BY <1>2, <2>1
  <1>5. RowsOf(e) = S /\ e.mask = d.mask /\ e.pools = g.pools /\ e.pdpools = g.pdpools
    BY <1>3 DEF SameRows, RowsOf
  <1>6. p \notin R /\ p \in S /\ S \ {p} = R
    OBVIOUS
  <1>7. DOMAIN f = S /\ f[p] = n /\ (\A q \in R : f[q] = d.capacityOf[q])
        /\ \A q \in S : f[q] \in Int
    BY <1>0, <1>6
  <1>8. IsFiniteSet(S)
    BY <1>1, FS_AddElement
  <1> HIDE DEF R, S, f
  <1>9. SumFunctionOnSet(f, S) = n + SumFunctionOnSet(f, R)
    <2>1. SumFunctionOnSet(f, S) = f[p] + SumFunctionOnSet(f, S \ {p})
      BY <1>6, <1>7, <1>8, SumAny
    <2> QED
      BY <1>6, <1>7, <2>1
  <1>10. SumFunctionOnSet(d.capacityOf, R) = SumFunctionOnSet(f, R)
    <2> DEFINE a == d.capacityOf
    <2>1. \A q \in R : a[q] \in Int /\ a[q] = f[q]
      BY <1>0, <1>7
    <2> HIDE DEF a
    <2>2. SumFunctionOnSet(a, R) = SumFunctionOnSet(f, R)
      BY <1>1, <2>1, SumEqual
    <2> QED
      BY <2>2 DEF a
  <1>11. SumFunctionOnSet(d.capacityOf, R) \in Int
    BY BesidesType DEF R
  <1>12. Counted(e)
    BY <1>0, <1>3, <1>4, <1>5, <1>7 DEF Counted
  <1>13. Besides(e) = (d.capacity + n) - SumFunctionOnSet(f, S)
         /\ Besides(d) = d.capacity - SumFunctionOnSet(d.capacityOf, R)
    BY <1>4, <1>5, Zenon DEF Besides, R
  <1>14. Besides(e) = Besides(d)
    BY <1>0, <1>9, <1>10, <1>11, <1>13
  <1> QED
    BY <1>3, <1>4, <1>7, <1>12, <1>14 DEF R

LEMMA RowRemoved ==
    ASSUME NEW d, Counted(d), NEW p \in RowsOf(d), NEW g, IsRecord(g), g.mask = d.mask,
           g.capacity = d.capacity, g.capacityOf = d.capacityOf,
           RowsOf(g) = RowsOf(d) \ {p}, IsFiniteSet(g.pools), IsFiniteSet(g.pdpools),
           g.pools \subseteq PoolRow, g.pdpools \subseteq PdPoolRow(d.mask),
           NEW e, e = WithoutRow(g, p)
    PROVE  /\ Counted(e) /\ SameRows(g, e) /\ Besides(e) = Besides(d)
           /\ \A q \in RowsOf(d) \ {p} : e.capacityOf[q] = d.capacityOf[q]
  <1> DEFINE R == RowsOf(d)
             S == R \ {p}
             f == [q \in S |-> d.capacityOf[q]]
             n == d.capacityOf[p]
  <1>0. IsRecord(d) /\ DOMAIN d.capacityOf = R /\ d.capacity \in Int /\ d.mask \in Nat
        /\ \A q \in R : d.capacityOf[q] \in Int
    BY DEF Counted
  <1>1. IsFiniteSet(R) /\ IsFiniteSet(S)
    BY BesidesType, FS_RemoveElement
  <1>2. e = [g EXCEPT !.capacityOf = f, !.capacity = d.capacity - n]
    BY <1>0 DEF WithoutRow
  <1>3. IsRecord(e) /\ SameRows(g, e)
    BY RowKept
  <1>4. e.capacityOf = f /\ e.capacity = d.capacity - n
    <2>1. "capacity" \in DOMAIN g /\ "capacityOf" \in DOMAIN g
      BY DEF IsRecord, Columns
    <2> HIDE DEF f, n
    <2> QED
      BY <1>2, <2>1
  <1>5. RowsOf(e) = S /\ e.mask = d.mask /\ e.pools = g.pools /\ e.pdpools = g.pdpools
    BY <1>3 DEF SameRows, RowsOf
  <1>6. p \in R /\ n \in Int
    BY <1>0
  <1>7. DOMAIN f = S /\ (\A q \in S : f[q] = d.capacityOf[q]) /\ \A q \in S : f[q] \in Int
    BY <1>0
  <1>70. S \subseteq R
    OBVIOUS
  <1> HIDE DEF f
  <1>8. SumFunctionOnSet(d.capacityOf, R) = n + SumFunctionOnSet(d.capacityOf, S)
    <2> DEFINE a == d.capacityOf
    <2>1. \A q \in R : a[q] \in Int
      BY <1>0
    <2> HIDE DEF a, R
    <2>2. SumFunctionOnSet(a, R) = a[p] + SumFunctionOnSet(a, R \ {p})
      BY <1>1, <1>6, <2>1, SumAny
    <2> QED
      BY <2>2 DEF a
  <1> HIDE DEF R, S, n
  <1>9. SumFunctionOnSet(d.capacityOf, S) = SumFunctionOnSet(f, S)
        /\ SumFunctionOnSet(f, S) \in Int
    <2> DEFINE a == d.capacityOf
    <2>1. \A q \in S : a[q] \in Int /\ a[q] = f[q]
      BY <1>0, <1>7, <1>70
    <2> HIDE DEF a
    <2>2. SumFunctionOnSet(a, S) = SumFunctionOnSet(f, S)
      BY <1>1, <2>1, SumEqual
    <2>3. SumFunctionOnSet(f, S) \in Int
      BY <1>1, <1>7, SumType
    <2> QED
      BY <2>2, <2>3 DEF a
  <1>10. e.capacity \in Int
    BY <1>0, <1>4, <1>6
  <1>11. Counted(e)
    BY <1>0, <1>3, <1>4, <1>5, <1>7, <1>10 DEF Counted
  <1>12. Besides(e) = (d.capacity - n) - SumFunctionOnSet(f, S)
         /\ Besides(d) = d.capacity - SumFunctionOnSet(d.capacityOf, R)
    BY <1>4, <1>5, Zenon DEF Besides, R
  <1>13. Besides(e) = Besides(d)
    BY <1>0, <1>6, <1>8, <1>9, <1>12
  <1> QED
    BY <1>3, <1>4, <1>7, <1>11, <1>13 DEF R, S

-----------------------------------------------------------------------------
(***************************************************************************)
(* Reservations                                                            *)
(***************************************************************************)
LEMMA PrefixesFinite == \A mask \in Nat : IsFiniteSet(PrefixOf(mask))
  <1> SUFFICES ASSUME NEW mask \in Nat PROVE IsFiniteSet(PrefixOf(mask))
    OBVIOUS
  <1> DEFINE S == mask .. Limit
             F == [l \in S |-> [len: {l}, n: 0 .. TwoTo[l - mask] - 1]]
             f == [l \in S |-> Cardinality(F[l])]
  <1>0. Limit \in Nat
    BY Rows6Assumption
  <1>1. IsFiniteSet(S)
    BY <1>0, FS_Interval
  <1>2. \A l \in S : IsFiniteSet(F[l]) /\ f[l] = Cardinality(F[l])
    <2> SUFFICES ASSUME NEW l \in S PROVE IsFiniteSet(F[l])
      OBVIOUS
    <2> DEFINE a == 0
               b == TwoTo[l - mask] - 1
    <2>1. l - mask \in 0 .. Limit
      BY <1>0
    <2>2. a \in Int /\ b \in Int /\ a <= b
      BY <2>1, TwoToType DEF PNat
    <2>3. F[l] = [len: {l}, n: a .. b]
      OBVIOUS
    <2> HIDE DEF a, b, F
    <2>4. IsFiniteSet([len: {l}, n: a .. b])
      BY <2>2, RowOfPrefixes
    <2> QED
      BY <2>3, <2>4
  <1>3. \A l, m \in S : l # m => F[l] \cap F[m] = {}
    <2> SUFFICES ASSUME NEW l \in S, NEW m \in S, NEW x \in F[l], x \in F[m] PROVE l = m
      OBVIOUS
    <2>1. x.len = l /\ x.len = m
      OBVIOUS
    <2> QED
      BY <2>1
  <1>4. UnionOf(F, S) = PrefixOf(mask)
    BY DEF UnionOf, PrefixOf
  <1> HIDE DEF F, f, S
  <1>5. IsFiniteSet(UnionOf(F, S))
    BY <1>1, <1>2, <1>3, SumSizes
  <1> QED
    BY <1>4, <1>5

LEMMA ReservationType ==
    ASSUME NEW mask \in Masks, NEW v \in ReservationsBy[mask]
    PROVE  /\ v.ips \subseteq Ip /\ v.prefixes \subseteq PrefixOf(mask)
           /\ IsFiniteSet(v.ips) /\ IsFiniteSet(v.prefixes)
  <1>1. v \in ReservationRow(mask) /\ mask \in Nat
    BY Subnet6Assumption DEF ReservationsBy
  <1>2. v.ips \subseteq Ip /\ v.prefixes \subseteq PrefixOf(mask)
    BY <1>1 DEF ReservationRow
  <1>3. IsFiniteSet(Ip) /\ IsFiniteSet(PrefixOf(mask))
    BY <1>1, Rows6Assumption, PrefixesFinite
  <1> QED
    BY <1>2, <1>3, FS_Subset

LEMMA SumUnion ==
    ASSUME NEW R, IsFiniteSet(R), NEW V, IsFiniteSet(V), R \cap V = {},
           NEW f, \A x \in R \cup V : f[x] \in Int
    PROVE  SumFunctionOnSet(f, R \cup V) = SumFunctionOnSet(f, R) + SumFunctionOnSet(f, V)
  <1> DEFINE S == R \cup V
             g == [x \in S |-> IF x \in R THEN f[x] ELSE 0]
             h == [x \in S |-> IF x \in V THEN f[x] ELSE 0]
  <1>1. IsFiniteSet(S)
    BY FS_Union
  <1>2. \A x \in S : g[x] \in Int /\ h[x] \in Int /\ f[x] = g[x] + h[x]
    OBVIOUS
  <1>3. (\A x \in S \ R : g[x] = 0) /\ (\A x \in S \ V : h[x] = 0)
    OBVIOUS
  <1>4. (\A x \in R : g[x] = f[x]) /\ (\A x \in V : h[x] = f[x])
    OBVIOUS
  <1>5. R \in SUBSET S /\ V \in SUBSET S
    OBVIOUS
  <1> HIDE DEF g, h, S
  <1>6. SumFunctionOnSet(f, S) = SumFunctionOnSet(g, S) + SumFunctionOnSet(h, S)
    BY <1>1, <1>2, SumAdded
  <1>7. SumFunctionOnSet(g, S) = SumFunctionOnSet(g, R)
    BY <1>1, <1>2, <1>3, <1>5, SumPart
  <1>8. SumFunctionOnSet(h, S) = SumFunctionOnSet(h, V)
    BY <1>1, <1>2, <1>3, <1>5, SumPart
  <1>9. SumFunctionOnSet(g, R) = SumFunctionOnSet(f, R)
    <2>1. \A x \in R : g[x] \in Int /\ g[x] = f[x]
      BY <1>2, <1>4, <1>5
    <2> QED
      BY <2>1, SumEqual
  <1>10. SumFunctionOnSet(h, V) = SumFunctionOnSet(f, V)
    <2>1. \A x \in V : h[x] \in Int /\ h[x] = f[x]
      BY <1>2, <1>4, <1>5
    <2> QED
      BY <2>1, SumEqual
  <1> QED
    BY <1>6, <1>7, <1>8, <1>9, <1>10 DEF S

\* What the subnet counts for its reservations.
Total(R) == SumFunction([v \in R |-> Cardinality(v.ips) + Cardinality(v.prefixes)])

IpsOf(vs) == UNION {v.ips : v \in vs}

PrefixesOf(vs) == UNION {v.prefixes : v \in vs}

LEMMA TotalAdded ==
    ASSUME NEW R, IsFiniteSet(R), NEW V, IsFiniteSet(V), R \cap V = {},
           \A v \in R \cup V : IsFiniteSet(v.ips) /\ IsFiniteSet(v.prefixes),
           \A u, v \in V : u # v => u.ips \cap v.ips = {} /\ u.prefixes \cap v.prefixes = {}
    PROVE  /\ IsFiniteSet(IpsOf(V)) /\ IsFiniteSet(PrefixesOf(V))
           /\ Total(R) \in Int /\ Total(R \cup V) \in Int
           /\ Total(R \cup V) = Total(R) + (Cardinality(IpsOf(V)) + Cardinality(PrefixesOf(V)))
  <1> DEFINE S == R \cup V
             f == [v \in S |-> Cardinality(v.ips) + Cardinality(v.prefixes)]
             r == [v \in R |-> Cardinality(v.ips) + Cardinality(v.prefixes)]
             F == [v \in V |-> v.ips]
             G == [v \in V |-> v.prefixes]
             a == [v \in V |-> Cardinality(v.ips)]
             b == [v \in V |-> Cardinality(v.prefixes)]
  <1>1. \A v \in S : Cardinality(v.ips) \in Nat /\ Cardinality(v.prefixes) \in Nat
    BY FS_CardinalityType
  <1>2. /\ DOMAIN f = S /\ DOMAIN r = R /\ (\A v \in S : f[v] \in Int)
        /\ (\A v \in R : r[v] \in Int /\ r[v] = f[v])
        /\ \A v \in V : f[v] = a[v] + b[v] /\ a[v] \in Int /\ b[v] \in Int
    BY <1>1
  <1>3. \A v \in V : /\ IsFiniteSet(F[v]) /\ a[v] = Cardinality(F[v])
                     /\ IsFiniteSet(G[v]) /\ b[v] = Cardinality(G[v])
    OBVIOUS
  <1>4. \A u, v \in V : u # v => F[u] \cap F[v] = {} /\ G[u] \cap G[v] = {}
    OBVIOUS
  <1>5. UnionOf(F, V) = IpsOf(V) /\ UnionOf(G, V) = PrefixesOf(V)
    BY DEF UnionOf, IpsOf, PrefixesOf
  <1>6. Total(S) = SumFunctionOnSet(f, S) /\ Total(R) = SumFunctionOnSet(r, R)
    <2>1. Total(S) = SumFunction(f) /\ Total(R) = SumFunction(r)
      BY Zenon DEF Total
    <2> HIDE DEF f, r
    <2> QED
      BY <1>2, <2>1, Zenon DEF SumFunction
  <1> HIDE DEF f, r, F, G, a, b
  <1>7. IsFiniteSet(UnionOf(F, V)) /\ SumFunctionOnSet(a, V) = Cardinality(UnionOf(F, V))
    BY <1>3, <1>4, SumSizes
  <1>8. IsFiniteSet(UnionOf(G, V)) /\ SumFunctionOnSet(b, V) = Cardinality(UnionOf(G, V))
    BY <1>3, <1>4, SumSizes
  <1>9. SumFunctionOnSet(f, V) = SumFunctionOnSet(a, V) + SumFunctionOnSet(b, V)
    BY <1>2, SumAdded
  <1>10. SumFunctionOnSet(f, R \cup V) = SumFunctionOnSet(f, R) + SumFunctionOnSet(f, V)
    BY <1>2, SumUnion
  <1>11. SumFunctionOnSet(r, R) = SumFunctionOnSet(f, R) /\ SumFunctionOnSet(r, R) \in Int
    BY <1>2, SumEqual, SumType
  <1>12. IsFiniteSet(IpsOf(V)) /\ SumFunctionOnSet(a, V) = Cardinality(IpsOf(V))
    BY <1>5, <1>7, Zenon
  <1>13. IsFiniteSet(PrefixesOf(V)) /\ SumFunctionOnSet(b, V) = Cardinality(PrefixesOf(V))
    BY <1>5, <1>8, Zenon
  <1>14. Cardinality(IpsOf(V)) \in Nat /\ Cardinality(PrefixesOf(V)) \in Nat
    BY <1>12, <1>13, FS_CardinalityType
  <1>15. Total(R \cup V) = Total(R) + (Cardinality(IpsOf(V)) + Cardinality(PrefixesOf(V)))
    BY <1>6, <1>9, <1>10, <1>11, <1>12, <1>13
  <1>16. Total(R) \in Int /\ Total(R \cup V) \in Int
    BY <1>6, <1>11, <1>14, <1>15
  <1> QED
    BY <1>12, <1>13, <1>15, <1>16

\* q is the only pdpool that the prefixes xs may change.
Alone(d, q, xs) ==
    \A x \in xs : Meets(q.prefix, x) => \A p \in d.pdpools \ {q} : ~Meets(p.prefix, x)

\* What a write of the addresses X and the prefixes Y does to the capacities.
ReservationsCounted(d, X, Y, sign, e) ==
    /\ Counted(e) /\ SameRows(d, e)
    /\ Besides(e) = Besides(d) - sign * (Cardinality(X) + Cardinality(Y))
    /\ \A p \in d.pools :
         e.capacityOf[p] = IF d.capacityOf[p] # 0
                           THEN d.capacityOf[p] + sign * Cardinality(X \cap Ips(p))
                           ELSE d.capacityOf[p]
    /\ \A q \in d.pdpools : Alone(d, q, Y) =>
         \E c : /\ \A x \in {y \in Y : Meets(q.prefix, y)} : c[x] = PdPoolReservedCount(q, x.len)
                /\ e.capacityOf[q] = d.capacityOf[q]
                     + sign * SumFunctionOnSet(c, {y \in Y : Meets(q.prefix, y)})

LEMMA ReservationsCounts ==
    ASSUME NEW d, Counted(d), PoolsApart(d), NEW vs, IsFiniteSet(IpsOf(vs)), IsFiniteSet(PrefixesOf(vs)),
           PrefixesOf(vs) \subseteq PrefixOf(d.mask),
           NEW sign \in Int, NEW e \in WithReservations(d, vs, sign)
    PROVE  ReservationsCounted(d, IpsOf(vs), PrefixesOf(vs), sign, e)
  <1> DEFINE ips == IpsOf(vs)
             xs == PrefixesOf(vs)
             m == WithReservedIps(d, ips, sign)
  <1>1. e \in WithReservedPrefixes(m, xs, sign)
    BY Zenon DEF WithReservations, IpsOf, PrefixesOf
  <1> HIDE DEF ips, xs
  <1>0. IsFiniteSet(ips) /\ IsFiniteSet(xs) /\ xs \subseteq PrefixOf(d.mask)
    BY DEF ips, xs
  <1>2. /\ Counted(m) /\ SameRows(d, m)
        /\ Besides(m) = Besides(d) - sign * Cardinality(ips)
        /\ (\A p \in d.pools :
                m.capacityOf[p] = IF d.capacityOf[p] # 0
                                  THEN d.capacityOf[p] + sign * Cardinality(ips \cap Ips(p))
                                  ELSE d.capacityOf[p])
        /\ \A p \in d.pdpools : m.capacityOf[p] = d.capacityOf[p]
    <2>1. IpsCounted(d, ips, sign, m)
      BY <1>0, ReservedIpsCounts
    <2> HIDE DEF m
    <2> QED
      BY <2>1 DEF IpsCounted
  <1> HIDE DEF m
  <1>3. m.mask = d.mask /\ m.pools = d.pools /\ m.pdpools = d.pdpools
    BY <1>2 DEF SameRows
  <1>4. /\ Counted(e) /\ SameRows(m, e)
        /\ Besides(e) = Besides(m) - sign * Cardinality(xs)
        /\ \A p \in m.pools : e.capacityOf[p] = m.capacityOf[p]
        /\ \E f : /\ DOMAIN f = {x \in xs : \E p \in m.pdpools : Meets(p.prefix, x)}
                  /\ \A x \in DOMAIN f : f[x] \in m.pdpools /\ Meets(f[x].prefix, x)
                  /\ \A q \in m.pdpools :
                       e.capacityOf[q] = m.capacityOf[q]
                          + sign * SumFunctionOnSet(Counts(f, q), On(f, q))
    <2>1. xs \subseteq PrefixOf(m.mask) /\ IsFiniteSet(xs) /\ Counted(m)
      BY <1>0, <1>2, <1>3
    <2>2. PrefixesCounted(m, xs, sign, e)
      BY <1>1, <2>1, ReservedPrefixesCounts
    <2> QED
      BY <2>2 DEF PrefixesCounted
  <1>5. SameRows(d, e)
    BY <1>2, <1>4 DEF SameRows
  <1>6. Besides(e) = Besides(d) - sign * (Cardinality(ips) + Cardinality(xs))
    <2>1. Cardinality(ips) \in Nat /\ Cardinality(xs) \in Nat /\ Besides(d) \in Int
      BY <1>0, FS_CardinalityType, BesidesType
    <2>2. \A a, b \in Nat : sign * (a + b) = sign * a + sign * b /\ sign * a \in Int
                            /\ sign * b \in Int
      OBVIOUS
    <2> QED
      BY <1>2, <1>4, <2>1, <2>2
  <1>7. PICK f : /\ DOMAIN f = {x \in xs : \E p \in d.pdpools : Meets(p.prefix, x)}
                 /\ \A x \in DOMAIN f : f[x] \in d.pdpools /\ Meets(f[x].prefix, x)
                 /\ \A q \in d.pdpools :
                      e.capacityOf[q] = d.capacityOf[q]
                         + sign * SumFunctionOnSet(Counts(f, q), On(f, q))
    BY <1>2, <1>3, <1>4
  <1>8. ASSUME NEW q \in d.pdpools, Alone(d, q, xs)
        PROVE  \E c : /\ \A x \in {y \in xs : Meets(q.prefix, y)} :
                             c[x] = PdPoolReservedCount(q, x.len)
                      /\ e.capacityOf[q] = d.capacityOf[q] + sign *
                            SumFunctionOnSet(c, {y \in xs : Meets(q.prefix, y)})
    <2>1. On(f, q) = {y \in xs : Meets(q.prefix, y)}
      BY <1>7, <1>8 DEF On, Alone
    <2>2. \A x \in On(f, q) : Counts(f, q)[x] = PdPoolReservedCount(q, x.len)
      BY DEF Counts
    <2> DEFINE c == Counts(f, q)
               K == {y \in xs : Meets(q.prefix, y)}
    <2>3. \A x \in K : c[x] = PdPoolReservedCount(q, x.len)
      BY <2>1, <2>2
    <2>4. e.capacityOf[q] = d.capacityOf[q] + sign * SumFunctionOnSet(c, K)
      <3>1. e.capacityOf[q] = d.capacityOf[q] + sign * SumFunctionOnSet(c, On(f, q))
        BY <1>7
      <3> HIDE DEF c
      <3> QED
        BY <2>1, <3>1, Zenon
    <2> HIDE DEF c
    <2> QED
      BY <2>3, <2>4
  <1>9. \A p \in d.pools :
                e.capacityOf[p] = IF d.capacityOf[p] # 0
                                  THEN d.capacityOf[p] + sign * Cardinality(ips \cap Ips(p))
                                  ELSE d.capacityOf[p]
    BY <1>2, <1>3, <1>4
  <1>10. Counted(e)
    BY <1>4
  <1>11. ReservationsCounted(d, ips, xs, sign, e)
    BY <1>5, <1>6, <1>8, <1>9, <1>10, Zenon DEF ReservationsCounted
  <1> QED
    BY <1>11 DEF ips, xs

-----------------------------------------------------------------------------
(***************************************************************************)
(* The books                                                               *)
(***************************************************************************)
Typed(d) ==
    /\ d.mask \in Masks /\ d.generates \in BOOLEAN
    /\ d.reservedPools \subseteq PoolRow /\ IsFiniteSet(d.reservedPools)
    /\ d.reservedPrefixes \subseteq PrefixOf(d.mask) /\ IsFiniteSet(d.reservedPrefixes)
    /\ d.reservations \subseteq ReservationsBy[d.mask] /\ IsFiniteSet(d.reservations)

\* The rows outside of sk have the capacities that are left of them.
Exact(d, sk) ==
    /\ \A p \in d.pools \ sk : d.capacityOf[p] = Cardinality(Ips(p) \ Taken(d))
    /\ \A p \in d.pdpools \ sk : d.capacityOf[p] = Cardinality(FreeBlocks(p, Reserved(d)))
    /\ ~d.generates => Besides(d) = Total(d.reservations)

Books(d, sk) == Counted(d) /\ Typed(d) /\ sk \subseteq RowsOf(d) /\ Exact(d, sk)

BooksIInv == Subnet6IInv /\ Books(db, skewed)

\* g is d with another table.
Differs(d, g, pools, reservedPools, pdpools, reservedPrefixes, reservations) ==
    /\ RowsAre(g, pools, reservedPools, pdpools, reservedPrefixes, reservations)
    /\ g.mask = d.mask /\ g.generates = d.generates
    /\ g.capacity = d.capacity /\ g.capacityOf = d.capacityOf

LEMMA TableFields ==
    ASSUME NEW d, IsRecord(d), NEW s
    PROVE  /\ Differs(d, [d EXCEPT !.pools = s], s, d.reservedPools, d.pdpools,
                      d.reservedPrefixes, d.reservations)
           /\ Differs(d, [d EXCEPT !.reservedPools = s], d.pools, s, d.pdpools,
                      d.reservedPrefixes, d.reservations)
           /\ Differs(d, [d EXCEPT !.pdpools = s], d.pools, d.reservedPools, s,
                      d.reservedPrefixes, d.reservations)
           /\ Differs(d, [d EXCEPT !.reservedPrefixes = s], d.pools, d.reservedPools, d.pdpools,
                      s, d.reservations)
           /\ Differs(d, [d EXCEPT !.reservations = s], d.pools, d.reservedPools, d.pdpools,
                      d.reservedPrefixes, s)
  BY DEF IsRecord, Columns, RowsAre, Differs

LEMMA RowsThrough ==
    ASSUME NEW g, NEW e, IsRecord(e), SameRows(g, e),
           NEW a, NEW b, NEW p, NEW x, NEW v, RowsAre(g, a, b, p, x, v)
    PROVE  /\ RowsAre(e, a, b, p, x, v) /\ e.mask = g.mask /\ e.generates = g.generates
           /\ RowsOf(e) = a \cup p
  BY DEF RowsAre, SameRows, RowsOf

LEMMA SameTaken ==
    ASSUME NEW d, NEW e
    PROVE  /\ e.reservations = d.reservations /\ e.reservedPools = d.reservedPools
                => Taken(e) = Taken(d)
           /\ e.reservations = d.reservations /\ e.reservedPrefixes = d.reservedPrefixes
                => Reserved(e) = Reserved(d)
  BY DEF Taken, Reserved, ReservedIps, ReservedPrefixes

LEMMA BooksFacts ==
    ASSUME BooksIInv
    PROVE  /\ IsRecord(db) /\ db.mask \in Masks /\ db.mask \in Nat
           /\ RangesApart /\ GeneratedHasNoRows /\ PoolsApart(db)
           /\ Counted(db) /\ Typed(db) /\ skewed \subseteq RowsOf(db) /\ Exact(db, skewed)
           /\ db.pools \subseteq PoolRow /\ db.pdpools \subseteq PdPoolRow(db.mask)
           /\ IsFiniteSet(db.pools) /\ IsFiniteSet(db.pdpools)
           /\ PdPoolsBy[db.mask] = PdPoolRow(db.mask)
           /\ PrefixesBy[db.mask] = PrefixOf(db.mask)
           /\ \A p \in RowsOf(db) : db.capacityOf[p] \in Int
  BY Subnet6Assumption
     DEF BooksIInv, Books, Subnet6IInv, Counted, RangesApart, PoolsApart, PdPoolsBy, PrefixesBy

\* e is d with the row p, of the capacity n, where g already names it.
AddsRow(d, p, g, n, e) ==
    /\ Counted(d) /\ p \notin RowsOf(d) /\ IsRecord(g) /\ g.mask = d.mask
    /\ g.capacity = d.capacity /\ g.capacityOf = d.capacityOf
    /\ RowsOf(g) = RowsOf(d) \cup {p} /\ IsFiniteSet(g.pools) /\ IsFiniteSet(g.pdpools)
    /\ g.pools \subseteq PoolRow /\ g.pdpools \subseteq PdPoolRow(d.mask)
    /\ n \in Int /\ e = WithRow(g, p, n)

LEMMA RowIsAdded ==
    ASSUME NEW d, NEW p, NEW g, NEW n, NEW e, AddsRow(d, p, g, n, e)
    PROVE  /\ Counted(e) /\ SameRows(g, e) /\ Besides(e) = Besides(d)
           /\ e.capacityOf[p] = n
           /\ \A q \in RowsOf(d) : e.capacityOf[q] = d.capacityOf[q]
  BY RowAdded DEF AddsRow

-----------------------------------------------------------------------------
(***************************************************************************)
(* Pools and reserved pools                                                *)
(***************************************************************************)
LEMMA Pool6CreateBooks ==
    ASSUME BooksIInv, NEW p \in PoolRow, Pool6Create(p)
    PROVE  Books(db', skewed')
  <1> DEFINE d == [db EXCEPT !.pools = @ \cup {p}]
             n == Pool6Capacity(db, p)
  <1>0. BooksIInv /\ IsRecord(db) /\ Counted(db) /\ Typed(db) /\ Exact(db, skewed)
        /\ skewed \subseteq RowsOf(db)
    BY BooksFacts
  <1>1. db' = WithRow(d, p, n) /\ skewed' = skewed /\ \A q \in db.pools : ~Overlaps(q, p)
    BY DEF Pool6Create
  <1>2. Differs(db, d, db.pools \cup {p}, db.reservedPools, db.pdpools,
                db.reservedPrefixes, db.reservations)
    BY <1>0, TableFields
  <1>3. p \notin db.pools /\ p \notin db.pdpools /\ p \notin RowsOf(db)
    <2>1. p \notin db.pools
      BY <1>1, PoolType
    <2>2. p \notin db.pdpools
      BY BooksFacts, PoolsDiffer
    <2> QED
      BY <2>1, <2>2 DEF RowsOf
  <1>4. n \in Int /\ n = Cardinality(Ips(p) \ Taken(db))
    <2>1. db.reservedPools \subseteq PoolRow /\ IsFiniteSet(db.reservedPools)
      BY <1>0 DEF Typed
    <2>2. /\ \A q, r \in db.reservedPools : q # r => ~Overlaps(q, r)
          /\ \A r \in db.reservedPools : Ips(r) \cap ReservedIps(db) = {}
      BY BooksFacts DEF RangesApart
    <2> QED
      BY <2>1, <2>2, PoolCount
  <1>11. db' = WithRow(d, p, n)
    BY <1>1
  <1> HIDE DEF d, n
  <1>5. /\ Counted(db') /\ SameRows(d, db') /\ Besides(db') = Besides(db)
        /\ db'.capacityOf[p] = n
        /\ \A q \in RowsOf(db) : db'.capacityOf[q] = db.capacityOf[q]
    <2>1. /\ IsRecord(d) /\ d.mask = db.mask /\ d.capacity = db.capacity
          /\ d.capacityOf = db.capacityOf /\ d.pools = db.pools \cup {p}
          /\ d.pdpools = db.pdpools
      BY <1>2 DEF Differs, RowsAre
    <2>2. RowsOf(d) = RowsOf(db) \cup {p}
      BY <2>1 DEF RowsOf
    <2>3. IsFiniteSet(d.pools) /\ d.pools \subseteq PoolRow /\ IsFiniteSet(d.pdpools)
          /\ d.pdpools \subseteq PdPoolRow(db.mask)
      BY <2>1, BooksFacts, FS_AddElement
    <2>4. AddsRow(db, p, d, n, db')
      BY <1>0, <1>1, <1>3, <1>4, <2>1, <2>2, <2>3, <1>11 DEF AddsRow
    <2> QED
      BY <2>4, RowIsAdded
  <1>6. /\ RowsAre(db', db.pools \cup {p}, db.reservedPools, db.pdpools,
                   db.reservedPrefixes, db.reservations)
        /\ db'.mask = db.mask /\ db'.generates = db.generates
        /\ RowsOf(db') = (db.pools \cup {p}) \cup db.pdpools
    <2>1. IsRecord(db')
      BY <1>5 DEF Counted
    <2> QED
      BY <1>2, <1>5, <2>1, RowsThrough DEF Differs
  <1>7. Typed(db') /\ skewed' \subseteq RowsOf(db')
    BY <1>0, <1>1, <1>6 DEF Typed, RowsAre, RowsOf
  <1>8. Taken(db') = Taken(db) /\ Reserved(db') = Reserved(db)
    BY <1>6, SameTaken DEF RowsAre
  <1>9. Exact(db', skewed')
    <2>1. ASSUME NEW q \in db'.pools \ skewed'
          PROVE  db'.capacityOf[q] = Cardinality(Ips(q) \ Taken(db'))
      <3>1. CASE q = p
        BY <1>4, <1>5, <1>8, <3>1
      <3>2. CASE q # p
        BY <1>0, <1>1, <1>5, <1>6, <1>8, <3>2 DEF Exact, RowsAre, RowsOf
      <3> QED
        BY <3>1, <3>2
    <2>2. ASSUME NEW q \in db'.pdpools \ skewed'
          PROVE  db'.capacityOf[q] = Cardinality(FreeBlocks(q, Reserved(db')))
      BY <1>0, <1>1, <1>5, <1>6, <1>8 DEF Exact, RowsAre, RowsOf
    <2>3. ~db'.generates => Besides(db') = Total(db'.reservations)
      BY <1>0, <1>5, <1>6 DEF Exact, RowsAre
    <2> QED
      BY <2>1, <2>2, <2>3 DEF Exact
  <1> QED
    BY <1>5, <1>7, <1>9 DEF Books

\* Pool6Delete and PdPoolDelete.
LEMMA RowDeleteBooks ==
    ASSUME BooksIInv, NEW p \in RowsOf(db), NEW d,
           \/ d = [db EXCEPT !.pools = @ \ {p}] /\ p \in db.pools
           \/ d = [db EXCEPT !.pdpools = @ \ {p}] /\ p \in db.pdpools,
           db' = WithoutRow(d, p), skewed' = skewed \ {p}
    PROVE  Books(db', skewed')
  <1>0. IsRecord(db) /\ Counted(db) /\ Typed(db) /\ Exact(db, skewed)
        /\ skewed \subseteq RowsOf(db)
        /\ db.pools \subseteq PoolRow /\ db.pdpools \subseteq PdPoolRow(db.mask)
        /\ IsFiniteSet(db.pools) /\ IsFiniteSet(db.pdpools)
    BY BooksFacts
  <1>1. PICK a, b : /\ Differs(db, d, a, db.reservedPools, b,
                               db.reservedPrefixes, db.reservations)
                    /\ a \subseteq db.pools /\ b \subseteq db.pdpools
                    /\ a \cup b = RowsOf(db) \ {p}
    <2>1. CASE d = [db EXCEPT !.pools = @ \ {p}] /\ p \in db.pools
      <3>1. Differs(db, d, db.pools \ {p}, db.reservedPools, db.pdpools,
                    db.reservedPrefixes, db.reservations)
        BY <1>0, <2>1, TableFields
      <3>2. p \notin db.pdpools
        BY <1>0, <2>1, PoolsDiffer
      <3>3. (db.pools \ {p}) \cup db.pdpools = RowsOf(db) \ {p}
        BY <3>2 DEF RowsOf
      <3> QED
        BY <3>1, <3>3
    <2>2. CASE d = [db EXCEPT !.pdpools = @ \ {p}] /\ p \in db.pdpools
      <3>1. Differs(db, d, db.pools, db.reservedPools, db.pdpools \ {p},
                    db.reservedPrefixes, db.reservations)
        BY <1>0, <2>2, TableFields
      <3>2. p \notin db.pools
        BY <1>0, <2>2, PoolsDiffer
      <3>3. db.pools \cup (db.pdpools \ {p}) = RowsOf(db) \ {p}
        BY <3>2 DEF RowsOf
      <3> QED
        BY <3>1, <3>3
    <2> QED
      BY <2>1, <2>2
  <1>2. /\ Counted(db') /\ SameRows(d, db') /\ Besides(db') = Besides(db)
        /\ \A q \in RowsOf(db) \ {p} : db'.capacityOf[q] = db.capacityOf[q]
    <2>1. /\ IsRecord(d) /\ d.mask = db.mask /\ d.capacity = db.capacity
          /\ d.capacityOf = db.capacityOf /\ d.pools = a /\ d.pdpools = b
      BY <1>1 DEF Differs, RowsAre
    <2>2. RowsOf(d) = RowsOf(db) \ {p}
      BY <1>1, <2>1 DEF RowsOf
    <2>3. IsFiniteSet(d.pools) /\ d.pools \subseteq PoolRow /\ IsFiniteSet(d.pdpools)
          /\ d.pdpools \subseteq PdPoolRow(db.mask)
      BY <1>0, <1>1, <2>1, FS_Subset
    <2> QED
      BY <1>0, <2>1, <2>2, <2>3, RowRemoved
  <1>3. /\ RowsAre(db', a, db.reservedPools, b, db.reservedPrefixes, db.reservations)
        /\ db'.mask = db.mask /\ db'.generates = db.generates
        /\ RowsOf(db') = a \cup b
    <2>1. IsRecord(db')
      BY <1>2 DEF Counted
    <2> QED
      BY <1>1, <1>2, <2>1, RowsThrough DEF Differs
  <1>4. Typed(db') /\ skewed' \subseteq RowsOf(db')
    BY <1>0, <1>1, <1>3 DEF Typed, RowsAre
  <1>5. Taken(db') = Taken(db) /\ Reserved(db') = Reserved(db)
    BY <1>3, SameTaken DEF RowsAre
  <1>6. \A q \in (a \cup b) \ skewed' : q \notin skewed /\ q \in RowsOf(db) \ {p}
    BY <1>1
  <1>7. Exact(db', skewed')
    <2>1. ASSUME NEW q \in db'.pools \ skewed'
          PROVE  db'.capacityOf[q] = Cardinality(Ips(q) \ Taken(db'))
      BY <1>0, <1>1, <1>2, <1>3, <1>5, <1>6 DEF Exact, RowsAre
    <2>2. ASSUME NEW q \in db'.pdpools \ skewed'
          PROVE  db'.capacityOf[q] = Cardinality(FreeBlocks(q, Reserved(db')))
      BY <1>0, <1>1, <1>2, <1>3, <1>5, <1>6 DEF Exact, RowsAre
    <2>3. ~db'.generates => Besides(db') = Total(db'.reservations)
      BY <1>0, <1>2, <1>3 DEF Exact, RowsAre
    <2> QED
      BY <2>1, <2>2, <2>3 DEF Exact
  <1> QED
    BY <1>2, <1>4, <1>7 DEF Books

\* Reserved pools are made, or removed: X are their addresses.
LEMMA ReservedPoolsBooks ==
    ASSUME BooksIInv, NEW s, NEW X, NEW sign \in {1, -1}, skewed' = skewed,
           s \subseteq PoolRow, IsFiniteSet(s),
           Counted(db'), SameRows([db EXCEPT !.reservedPools = s], db'), Besides(db') = Besides(db),
           \A p \in db.pools :
              db'.capacityOf[p] = db.capacityOf[p] + sign * Cardinality(Ips(p) \cap X),
           \A p \in db.pdpools : db'.capacityOf[p] = db.capacityOf[p],
           \/ /\ sign = -1 /\ X \cap Taken(db) = {}
              /\ UNION {Ips(r) : r \in s} = (UNION {Ips(r) : r \in db.reservedPools}) \cup X
           \/ /\ sign = 1 /\ X \cap ReservedIps(db) = {} /\ X \cap (UNION {Ips(r) : r \in s}) = {}
              /\ UNION {Ips(r) : r \in db.reservedPools} = (UNION {Ips(r) : r \in s}) \cup X
    PROVE  Books(db', skewed')
  <1> DEFINE d == [db EXCEPT !.reservedPools = s]
  <1>0. IsRecord(db) /\ Counted(db) /\ Typed(db) /\ Exact(db, skewed)
        /\ skewed \subseteq RowsOf(db) /\ db.pools \subseteq PoolRow
        /\ \A p \in RowsOf(db) : db.capacityOf[p] \in Int
    BY BooksFacts
  <1>1. Differs(db, d, db.pools, s, db.pdpools, db.reservedPrefixes, db.reservations)
    BY <1>0, TableFields
  <1>2. SameRows(d, db') /\ IsRecord(db')
    BY DEF Counted
  <1> HIDE DEF d
  <1>3. /\ RowsAre(db', db.pools, s, db.pdpools, db.reservedPrefixes, db.reservations)
        /\ db'.mask = db.mask /\ db'.generates = db.generates
        /\ RowsOf(db') = db.pools \cup db.pdpools
    BY <1>1, <1>2, RowsThrough DEF Differs
  <1>4. Typed(db') /\ skewed' \subseteq RowsOf(db')
    BY <1>0, <1>3 DEF Typed, RowsAre, RowsOf
  <1>5. Reserved(db') = Reserved(db) /\ ReservedIps(db') = ReservedIps(db)
    BY <1>3, SameTaken DEF RowsAre, ReservedIps
  <1>6. \/ sign = -1 /\ X \cap Taken(db) = {} /\ Taken(db') = Taken(db) \cup X
        \/ sign = 1 /\ X \cap Taken(db') = {} /\ Taken(db) = Taken(db') \cup X
    <2> DEFINE A == UNION {Ips(r) : r \in s}
               B == UNION {Ips(r) : r \in db.reservedPools}
    <2>1. db'.reservedPools = s
      BY <1>3 DEF RowsAre
    <2>2. Taken(db') = ReservedIps(db) \cup A /\ Taken(db) = ReservedIps(db) \cup B
      BY <1>5, <2>1 DEF Taken
    <2>3. \/ sign = -1 /\ X \cap Taken(db) = {} /\ A = B \cup X
          \/ sign = 1 /\ X \cap ReservedIps(db) = {} /\ X \cap A = {} /\ B = A \cup X
      OBVIOUS
    <2> HIDE DEF A, B
    <2> QED
      BY <2>2, <2>3
  <1>7. ASSUME NEW p \in db'.pools \ skewed'
        PROVE  db'.capacityOf[p] = Cardinality(Ips(p) \ Taken(db'))
    <2>1. p \in db.pools \ skewed /\ p \in PoolRow /\ IsFiniteSet(Ips(p))
      BY <1>0, <1>3, PoolType DEF RowsAre
    <2>2. db.capacityOf[p] = Cardinality(Ips(p) \ Taken(db))
      BY <1>0, <2>1 DEF Exact
    <2>3. db'.capacityOf[p] = db.capacityOf[p] + sign * Cardinality(Ips(p) \cap X)
      BY <2>1
    <2> DEFINE A == Taken(db)
               B == Taken(db')
    <2>4. CASE sign = -1 /\ X \cap A = {} /\ B = A \cup X
      <3> HIDE DEF A, B
      <3>1. A \cap X = {}
        BY <2>4
      <3>2. /\ Cardinality(Ips(p) \ A) \in Nat /\ Cardinality(Ips(p) \ (A \cup X)) \in Nat
            /\ Cardinality(Ips(p) \cap X) \in Nat
            /\ Cardinality(Ips(p) \ A)
                  = Cardinality(Ips(p) \ (A \cup X)) + Cardinality(Ips(p) \cap X)
        BY <2>1, <3>1, IpsTaken
      <3>3. Cardinality(Ips(p) \ (A \cup X)) = Cardinality(Ips(p) \ B)
        BY <2>4, Zenon
      <3>4. db.capacityOf[p] = Cardinality(Ips(p) \ A)
        BY <2>2 DEF A
      <3>5. db'.capacityOf[p] = Cardinality(Ips(p) \ B)
        BY <2>3, <2>4, <3>2, <3>3, <3>4
      <3> QED
        BY <3>5 DEF B
    <2>5. CASE sign = 1 /\ X \cap B = {} /\ A = B \cup X
      <3> HIDE DEF A, B
      <3>1. B \cap X = {}
        BY <2>5
      <3>2. /\ Cardinality(Ips(p) \ B) \in Nat /\ Cardinality(Ips(p) \ (B \cup X)) \in Nat
            /\ Cardinality(Ips(p) \cap X) \in Nat
            /\ Cardinality(Ips(p) \ B)
                  = Cardinality(Ips(p) \ (B \cup X)) + Cardinality(Ips(p) \cap X)
        BY <2>1, <3>1, IpsTaken
      <3>3. Cardinality(Ips(p) \ (B \cup X)) = Cardinality(Ips(p) \ A)
        BY <2>5, Zenon
      <3>4. db.capacityOf[p] = Cardinality(Ips(p) \ A)
        BY <2>2 DEF A
      <3>5. db'.capacityOf[p] = Cardinality(Ips(p) \ B)
        BY <2>3, <2>5, <3>2, <3>3, <3>4
      <3> QED
        BY <3>5 DEF B
    <2> QED
      BY <1>6, <2>4, <2>5
  <1>8. ASSUME NEW q \in db'.pdpools \ skewed'
        PROVE  db'.capacityOf[q] = Cardinality(FreeBlocks(q, Reserved(db')))
    BY <1>0, <1>3, <1>5 DEF Exact, RowsAre
  <1>9. ~db'.generates => Besides(db') = Total(db'.reservations)
    BY <1>0, <1>3 DEF Exact, RowsAre
  <1>10. Exact(db', skewed')
    BY <1>7, <1>8, <1>9 DEF Exact
  <1> QED
    BY <1>4, <1>10 DEF Books

PoolCounted(d, r, sign, e) ==
    /\ Counted(e) /\ SameRows(d, e) /\ Besides(e) = Besides(d)
    /\ \A p \in d.pools :
         e.capacityOf[p] = d.capacityOf[p] + sign * Cardinality(Ips(p) \cap Ips(r))
    /\ \A p \in d.pdpools : e.capacityOf[p] = d.capacityOf[p]

LEMMA PoolIsCounted ==
    ASSUME NEW d, Counted(d), NEW r \in PoolRow, NEW sign \in Int
    PROVE  PoolCounted(d, r, sign, WithReservedPool(d, r, sign))
  BY ReservedPoolCounts DEF PoolCounted

LEMMA ReservedPool6CreateBooks ==
    ASSUME BooksIInv, NEW r \in PoolRow, ReservedPool6Create(r)
    PROVE  Books(db', skewed')
  <1> DEFINE s == db.reservedPools \cup {r}
             d == [db EXCEPT !.reservedPools = s]
  <1>1. /\ db' = WithReservedPool(d, r, -1) /\ skewed' = skewed
        /\ \A q \in db.reservedPools : ~Overlaps(q, r)
        /\ Ips(r) \cap ReservedIps(db) = {}
    BY DEF ReservedPool6Create
  <1>2. Counted(db) /\ IsRecord(db) /\ Typed(db)
    BY BooksFacts
  <1>3. s \subseteq PoolRow /\ IsFiniteSet(s)
    BY <1>2, FS_AddElement DEF Typed
  <1>4. Differs(db, d, db.pools, s, db.pdpools, db.reservedPrefixes, db.reservations)
    BY <1>2, TableFields
  <1>5. UNION {Ips(q) : q \in s} = (UNION {Ips(q) : q \in db.reservedPools}) \cup Ips(r)
    OBVIOUS
  <1>6. \A q \in db.reservedPools : Ips(q) \cap Ips(r) = {}
    BY <1>1, <1>2, SharedIps DEF Typed
  <1>7. Ips(r) \cap Taken(db) = {}
    BY <1>1, <1>6 DEF Taken
  <1> DEFINE X == Ips(r)
  <1>8. Counted(d) /\ Besides(d) = Besides(db) /\ d.pools = db.pools /\ d.pdpools = db.pdpools
        /\ d.capacityOf = db.capacityOf
    BY <1>2, <1>4, TableCounts DEF Differs, RowsAre
  <1>9. /\ Counted(db') /\ SameRows(d, db') /\ Besides(db') = Besides(d)
        /\ \A p \in d.pools :
              db'.capacityOf[p] = d.capacityOf[p] + (-1) * Cardinality(Ips(p) \cap X)
        /\ \A p \in d.pdpools : db'.capacityOf[p] = d.capacityOf[p]
    <2> HIDE DEF d
    <2> QED
      BY <1>1, <1>8, ReservedPoolCounts
  <1>10. SameRows([db EXCEPT !.reservedPools = s], db')
    BY <1>9
  <1>11. /\ \A p \in db.pools :
              db'.capacityOf[p] = db.capacityOf[p] + (-1) * Cardinality(Ips(p) \cap X)
         /\ \A p \in db.pdpools : db'.capacityOf[p] = db.capacityOf[p]
         /\ Besides(db') = Besides(db)
    <2> HIDE DEF d, X
    <2> QED
      BY <1>8, <1>9
  <1> HIDE DEF d, s, X
  <1>12. X \cap Taken(db) = {}
    BY <1>7 DEF X
  <1>13. UNION {Ips(q) : q \in s} = (UNION {Ips(q) : q \in db.reservedPools}) \cup X
    BY <1>5 DEF X
  <1>14. Counted(db')
    BY <1>9
  <1> QED
    BY <1>1, <1>3, <1>10, <1>11, <1>12, <1>13, <1>14, ReservedPoolsBooks

LEMMA ReservedPool6DeleteBooks ==
    ASSUME BooksIInv, NEW r \in PoolRow, ReservedPool6Delete(r)
    PROVE  Books(db', skewed')
  <1> DEFINE s == db.reservedPools \ {r}
             d == [db EXCEPT !.reservedPools = s]
             X == Ips(r)
  <1>1. db' = WithReservedPool(d, r, 1) /\ skewed' = skewed /\ r \in db.reservedPools
    BY DEF ReservedPool6Delete
  <1>2. Counted(db) /\ IsRecord(db) /\ Typed(db)
    BY BooksFacts
  <1>3. s \subseteq PoolRow /\ IsFiniteSet(s)
    BY <1>2, FS_RemoveElement DEF Typed
  <1>4. Differs(db, d, db.pools, s, db.pdpools, db.reservedPrefixes, db.reservations)
    BY <1>2, TableFields
  <1>5. UNION {Ips(q) : q \in db.reservedPools} = (UNION {Ips(q) : q \in s}) \cup X
    BY <1>1
  <1>6. \A q \in s : X \cap Ips(q) = {}
    <2>1. \A q \in s : ~Overlaps(q, r)
      BY <1>1, BooksFacts DEF RangesApart
    <2> QED
      BY <1>3, <2>1, SharedIps
  <1>7. X \cap ReservedIps(db) = {}
    BY <1>1, BooksFacts DEF RangesApart
  <1>8. X \cap (UNION {Ips(q) : q \in s}) = {}
    BY <1>6
  <1>9. Counted(d) /\ Besides(d) = Besides(db) /\ d.pools = db.pools /\ d.pdpools = db.pdpools
        /\ d.capacityOf = db.capacityOf
    BY <1>2, <1>4, TableCounts DEF Differs, RowsAre
  <1>10. /\ Counted(db') /\ SameRows(d, db') /\ Besides(db') = Besides(d)
         /\ \A p \in d.pools :
              db'.capacityOf[p] = d.capacityOf[p] + 1 * Cardinality(Ips(p) \cap X)
         /\ \A p \in d.pdpools : db'.capacityOf[p] = d.capacityOf[p]
    <2> HIDE DEF d
    <2> QED
      BY <1>1, <1>9, ReservedPoolCounts
  <1>11. SameRows([db EXCEPT !.reservedPools = s], db') /\ Counted(db')
    BY <1>10
  <1>12. /\ \A p \in db.pools :
              db'.capacityOf[p] = db.capacityOf[p] + 1 * Cardinality(Ips(p) \cap X)
         /\ \A p \in db.pdpools : db'.capacityOf[p] = db.capacityOf[p]
         /\ Besides(db') = Besides(db)
    <2> HIDE DEF d, X
    <2> QED
      BY <1>9, <1>10
  <1> HIDE DEF d, s, X
  <1> QED
    BY <1>1, <1>3, <1>5, <1>7, <1>8, <1>11, <1>12, ReservedPoolsBooks

LEMMA ReservedPool6BatchCreateBooks ==
    ASSUME BooksIInv, NEW r \in PoolRow, ReservedPool6BatchCreate(r)
    PROVE  Books(db', skewed')
  <1>1. PICK t \in PoolRow :
            /\ ~Overlaps(r, t)
            /\ \A q \in db.reservedPools : ~Overlaps(q, r) /\ ~Overlaps(q, t)
            /\ (Ips(r) \cup Ips(t)) \cap ReservedIps(db) = {}
            /\ db' = WithReservedPool(WithReservedPool(
                         [db EXCEPT !.reservedPools = @ \cup {r, t}], r, -1), t, -1)
            /\ skewed' = skewed
    BY DEF ReservedPool6BatchCreate
  <1> DEFINE s == db.reservedPools \cup {r, t}
             d == [db EXCEPT !.reservedPools = s]
             X == Ips(r) \cup Ips(t)
  <1>2. Counted(db) /\ IsRecord(db) /\ Typed(db)
    BY BooksFacts
  <1>3. s \subseteq PoolRow /\ IsFiniteSet(s)
    <2>1. s = (db.reservedPools \cup {r}) \cup {t}
      OBVIOUS
    <2>2. IsFiniteSet(db.reservedPools)
      BY <1>2 DEF Typed
    <2>3. IsFiniteSet((db.reservedPools \cup {r}) \cup {t})
      BY <2>2, FS_AddElement
    <2>4. db.reservedPools \subseteq PoolRow
      BY <1>2 DEF Typed
    <2> QED
      BY <2>1, <2>3, <2>4
  <1>4. Differs(db, d, db.pools, s, db.pdpools, db.reservedPrefixes, db.reservations)
    BY <1>2, TableFields
  <1>5. UNION {Ips(q) : q \in s} = (UNION {Ips(q) : q \in db.reservedPools}) \cup X
    OBVIOUS
  <1>6. \A q \in db.reservedPools : Ips(q) \cap Ips(r) = {} /\ Ips(q) \cap Ips(t) = {}
    BY <1>1, <1>2, SharedIps DEF Typed
  <1>7. X \cap Taken(db) = {}
    BY <1>1, <1>6 DEF Taken
  <1>8. Counted(d) /\ Besides(d) = Besides(db) /\ d.pools = db.pools /\ d.pdpools = db.pdpools
        /\ d.capacityOf = db.capacityOf
    BY <1>2, <1>4, TableCounts DEF Differs, RowsAre
  <1>15. PICK e : e = WithReservedPool(d, r, -1)
    OBVIOUS
  <1>9. /\ Counted(e) /\ SameRows(d, e) /\ Besides(e) = Besides(d)
        /\ \A p \in d.pools :
              e.capacityOf[p] = d.capacityOf[p] + (-1) * Cardinality(Ips(p) \cap Ips(r))
        /\ \A p \in d.pdpools : e.capacityOf[p] = d.capacityOf[p]
    <2> HIDE DEF d
    <2>1. PoolCounted(d, r, -1, e)
      BY <1>8, <1>15, PoolIsCounted
    <2> QED
      BY <2>1 DEF PoolCounted
  <1>10. /\ Counted(db') /\ SameRows(e, db') /\ Besides(db') = Besides(e)
         /\ \A p \in e.pools :
              db'.capacityOf[p] = e.capacityOf[p] + (-1) * Cardinality(Ips(p) \cap Ips(t))
         /\ \A p \in e.pdpools : db'.capacityOf[p] = e.capacityOf[p]
    <2>1. db' = WithReservedPool(e, t, -1)
      BY <1>1, <1>15
    <2> QED
      BY <1>9, <2>1, ReservedPoolCounts
  <1>11. SameRows(d, db') /\ Counted(db')
    <2> HIDE DEF d
    <2> QED
      BY <1>9, <1>10 DEF SameRows
  <1>12. SameRows([db EXCEPT !.reservedPools = s], db')
    BY <1>11
  <1>13. ASSUME NEW p \in db.pools
         PROVE  db'.capacityOf[p] = db.capacityOf[p] + (-1) * Cardinality(Ips(p) \cap X)
    <2>1. p \in PoolRow /\ db.capacityOf[p] \in Int
      BY BooksFacts DEF RowsOf
    <2>2. db'.capacityOf[p] = (db.capacityOf[p] + (-1) * Cardinality(Ips(p) \cap Ips(r)))
                                + (-1) * Cardinality(Ips(p) \cap Ips(t))
      <3> HIDE DEF d
      <3> QED
        BY <1>8, <1>9, <1>10 DEF SameRows
    <2>3. Cardinality(Ips(p) \cap X)
            = Cardinality(Ips(p) \cap Ips(r)) + Cardinality(Ips(p) \cap Ips(t))
      <3> DEFINE A == Ips(p) \cap Ips(r)
                 B == Ips(p) \cap Ips(t)
      <3>1. A \cap B = {}
        BY <1>1, SharedIps
      <3>2. IsFiniteSet(A) /\ IsFiniteSet(B)
        BY <2>1, SharedIps
      <3>3. Ips(p) \cap X = A \cup B
        OBVIOUS
      <3> HIDE DEF A, B, X
      <3>4. Cardinality(A \cup B) = Cardinality(A) + Cardinality(B)
        <4>1. Cardinality(A \cup B) = Cardinality(A) + Cardinality(B) - Cardinality(A \cap B)
          BY <3>2, FS_Union
        <4>2. Cardinality(A \cap B) = 0
          BY <3>1, FS_EmptySet, Zenon
        <4>3. Cardinality(A) \in Nat /\ Cardinality(B) \in Nat
          BY <3>2, FS_CardinalityType
        <4> QED
          BY <4>1, <4>2, <4>3
      <3>5. Cardinality(Ips(p) \cap X) = Cardinality(A \cup B)
        BY <3>3, Zenon
      <3> QED
        BY <3>4, <3>5 DEF A, B
    <2>4. Cardinality(Ips(p) \cap Ips(r)) \in Nat /\ Cardinality(Ips(p) \cap Ips(t)) \in Nat
      BY <2>1, SharedIps
    <2> HIDE DEF X
    <2> QED
      BY <2>1, <2>2, <2>3, <2>4
  <1>14. (\A p \in db.pdpools : db'.capacityOf[p] = db.capacityOf[p])
         /\ Besides(db') = Besides(db)
    <2> HIDE DEF d
    <2> QED
      BY <1>8, <1>9, <1>10 DEF SameRows
  <1> HIDE DEF d, s, X
  <1> QED
    BY <1>1, <1>3, <1>5, <1>7, <1>11, <1>12, <1>13, <1>14, ReservedPoolsBooks

-----------------------------------------------------------------------------
(***************************************************************************)
(* Pdpools and reserved prefixes                                           *)
(***************************************************************************)
LEMMA CrowdedGrows ==
    ASSUME NEW p, NEW xs, NEW ys, xs \subseteq ys, Crowded(p, xs)
    PROVE  Crowded(p, ys)
  BY DEF Crowded

LEMMA ReservedFacts ==
    ASSUME BooksIInv
    PROVE  /\ ReservedPrefixes(db) \subseteq PrefixOf(db.mask) /\ IsFiniteSet(ReservedPrefixes(db))
           /\ db.reservedPrefixes \subseteq PrefixOf(db.mask) /\ IsFiniteSet(db.reservedPrefixes)
           /\ ReservedPrefixes(db) \cap db.reservedPrefixes = {}
           /\ Reserved(db) = ReservedPrefixes(db) \cup db.reservedPrefixes
  <1>0. db.mask \in Masks /\ db.mask \in Nat /\ Typed(db) /\ RangesApart
    BY BooksFacts
  <1>1. ReservedPrefixes(db) \subseteq PrefixOf(db.mask)
    <2> SUFFICES ASSUME NEW v \in db.reservations PROVE v.prefixes \subseteq PrefixOf(db.mask)
      BY DEF ReservedPrefixes
    <2>1. v \in ReservationsBy[db.mask]
      BY <1>0 DEF Typed
    <2> QED
      BY <1>0, <2>1, ReservationType
  <1>2. IsFiniteSet(ReservedPrefixes(db))
    BY <1>0, <1>1, PrefixesFinite, FS_Subset
  <1>3. db.reservedPrefixes \subseteq PrefixOf(db.mask) /\ IsFiniteSet(db.reservedPrefixes)
    BY <1>0 DEF Typed
  <1>4. ReservedPrefixes(db) \cap db.reservedPrefixes = {}
    <2> SUFFICES ASSUME NEW x \in db.reservedPrefixes, x \in ReservedPrefixes(db) PROVE FALSE
      OBVIOUS
    <2>1. ~Meets(x, x)
      BY <1>0 DEF RangesApart
    <2> QED
      BY <1>0, <1>3, <2>1, MeetsItself
  <1> QED
    BY <1>1, <1>2, <1>3, <1>4 DEF Reserved

\* The two loops over what is reserved leave the free prefixes, unless two
\* prefixes are reserved inside of one.
LEMMA PdPoolCount ==
    ASSUME NEW d, d.mask \in Nat, NEW p \in PdPoolRow(d.mask),
           ReservedPrefixes(d) \subseteq PrefixOf(d.mask), IsFiniteSet(ReservedPrefixes(d)),
           d.reservedPrefixes \subseteq PrefixOf(d.mask), IsFiniteSet(d.reservedPrefixes),
           ReservedPrefixes(d) \cap d.reservedPrefixes = {}
    PROVE  /\ PdPoolCapacities(d, p) \subseteq Int
           /\ ~Crowded(p, Reserved(d)) =>
                PdPoolCapacities(d, p) = {Cardinality(FreeBlocks(p, Reserved(d)))}
  <1> DEFINE A == ReservedPrefixes(d)
             B == d.reservedPrefixes
             MA == {x \in A : Meets(p.prefix, x)}
             MB == {x \in B : Meets(p.prefix, x)}
             n == TwoTo[p.delegated - p.prefix.len]
             c == [x \in A \cup B |-> PdPoolReservedCount(p, x.len)]
  <1>1. PdPoolCapacities(d, p) = UNION {LeftAfter(p, m, MB) : m \in LeftAfter(p, n, MA)}
    BY Zenon DEF PdPoolCapacities
  <1>2. A \in SUBSET PrefixOf(d.mask) /\ IsFiniteSet(A) /\ B \in SUBSET PrefixOf(d.mask)
        /\ IsFiniteSet(B) /\ A \cap B = {} /\ Reserved(d) = A \cup B
    BY DEF Reserved
  <1>3. IsFiniteSet(MA) /\ IsFiniteSet(MB) /\ MA \subseteq A /\ MB \subseteq B
    BY <1>2, FS_Subset
  <1>4. n \in PNat /\ n = Cardinality(Blocks(p))
    BY PdPoolType, BlocksCount
  <1>5. \A x \in A \cup B : PdPoolReservedCount(p, x.len) \in PNat
    BY <1>2, MetBlocksCount
  <1>6. \A x \in A \cup B : c[x] = PdPoolReservedCount(p, x.len)
    OBVIOUS
  <1>60. MA = {x \in A : Meets(p.prefix, x)} /\ MB = {x \in B : Meets(p.prefix, x)}
    OBVIOUS
  <1>61. FreeBlocks(p, {}) = Blocks(p)
    BY DEF FreeBlocks
  <1> HIDE DEF A, B, MA, MB, n, c
  <1>7. LeftAfter(p, n, MA) \subseteq Int
    <2>1. \A x \in MA : PdPoolReservedCount(p, x.len) \in Int
      BY <1>3, <1>5 DEF PNat
    <2>2. n \in Int
      BY <1>4 DEF PNat
    <2> QED
      BY <1>3, <2>1, <2>2, LeftType
  <1>8. \A m \in Int : LeftAfter(p, m, MB) \subseteq Int
    <2>1. \A x \in MB : PdPoolReservedCount(p, x.len) \in Int
      BY <1>3, <1>5 DEF PNat
    <2> QED
      BY <1>3, <2>1, LeftType
  <1>9. ASSUME ~Crowded(p, Reserved(d))
        PROVE  PdPoolCapacities(d, p) = {Cardinality(FreeBlocks(p, Reserved(d)))}
    <2> DEFINE k == Cardinality(FreeBlocks(p, A))
               l == Cardinality(FreeBlocks(p, A \cup B))
    <2>1. /\ SumFunctionOnSet(c, MA) \in Nat /\ k \in Nat
          /\ n = k + SumFunctionOnSet(c, MA)
      <3>1. TakesBlocks(d.mask, p, A, {}, A, MA, c)
        <4>1. ~Crowded(p, A)
          BY <1>2, <1>9, CrowdedGrows
        <4>2. \A x \in MA : c[x] = PdPoolReservedCount(p, x.len)
          BY <1>3, <1>6
        <4> QED
          BY <1>2, <1>60, <4>1, <4>2 DEF TakesBlocks
      <3>2. Cardinality(FreeBlocks(p, {})) = n
        BY <1>4, <1>61, Zenon
      <3> QED
        BY <3>1, <3>2, BlocksAreTaken
    <2>2. /\ SumFunctionOnSet(c, MB) \in Nat /\ l \in Nat
          /\ k = l + SumFunctionOnSet(c, MB)
      <3>1. TakesBlocks(d.mask, p, B, A, A \cup B, MB, c)
        <4>1. ~Crowded(p, A \cup B)
          BY <1>2, <1>9
        <4>2. \A x \in MB : c[x] = PdPoolReservedCount(p, x.len)
          BY <1>3, <1>6
        <4> QED
          BY <1>2, <1>60, <4>1, <4>2 DEF TakesBlocks
      <3> QED
        BY <3>1, BlocksAreTaken
    <2> HIDE DEF k, l
    <2>3. LeftAfter(p, n, MA) = {k}
      <3>1. \A x \in MA : c[x] = PdPoolReservedCount(p, x.len) /\ c[x] \in PNat
        BY <1>3, <1>5, <1>6
      <3>2. SumFunctionOnSet(c, MA) <= n /\ n \in Int /\ n - SumFunctionOnSet(c, MA) = k
        BY <2>1
      <3>3. LeftAfter(p, n, MA) = {n - SumFunctionOnSet(c, MA)}
        BY <1>3, <3>1, <3>2, LeftExact
      <3> QED
        BY <3>2, <3>3
    <2>4. LeftAfter(p, k, MB) = {l}
      <3>1. \A x \in MB : c[x] = PdPoolReservedCount(p, x.len) /\ c[x] \in PNat
        BY <1>3, <1>5, <1>6
      <3>2. SumFunctionOnSet(c, MB) <= k /\ k \in Int /\ k - SumFunctionOnSet(c, MB) = l
        BY <2>1, <2>2
      <3>3. LeftAfter(p, k, MB) = {k - SumFunctionOnSet(c, MB)}
        BY <1>3, <3>1, <3>2, LeftExact
      <3> QED
        BY <3>2, <3>3
    <2>5. PdPoolCapacities(d, p) = {l}
      BY <1>1, <2>3, <2>4
    <2>6. Cardinality(FreeBlocks(p, Reserved(d))) = l
      BY <1>2, Zenon DEF l
    <2> QED
      BY <2>5, <2>6
  <1>10. PdPoolCapacities(d, p) \subseteq Int
    BY <1>1, <1>7, <1>8
  <1> QED
    BY <1>9, <1>10

LEMMA PdPoolCreateBooks ==
    ASSUME BooksIInv, NEW p \in PdPoolRow(db.mask), PdPoolCreate(p)
    PROVE  Books(db', skewed')
  <1> DEFINE d == [db EXCEPT !.pdpools = @ \cup {p}]
  <1>0. BooksIInv /\ IsRecord(db) /\ Counted(db) /\ Typed(db) /\ Exact(db, skewed)
        /\ skewed \subseteq RowsOf(db) /\ db.mask \in Nat
    BY BooksFacts
  <1>1. PICK n \in PdPoolCapacities(db, p) : db' = WithRow(d, p, n)
    BY DEF PdPoolCreate
  <1>2. /\ skewed' = skewed \cup {q \in {p} : Crowded(q, Reserved(db))}
        /\ \A q \in db.pdpools : ~Meets(q.prefix, p.prefix)
    BY DEF PdPoolCreate
  <1>3. Differs(db, d, db.pools, db.reservedPools, db.pdpools \cup {p},
                db.reservedPrefixes, db.reservations)
    BY <1>0, TableFields
  <1>4. p \notin db.pools /\ p \notin db.pdpools /\ p \notin RowsOf(db)
    <2>1. Meets(p.prefix, p.prefix)
      BY <1>0, PdPoolType, MeetsItself
    <2>2. p \notin db.pdpools
      BY <1>2, <2>1
    <2>3. p \notin db.pools
      BY BooksFacts, PoolsDiffer
    <2> QED
      BY <2>2, <2>3 DEF RowsOf
  <1>5. n \in Int /\ (~Crowded(p, Reserved(db)) =>
                        n = Cardinality(FreeBlocks(p, Reserved(db))))
    <2>1. PdPoolCapacities(db, p) \subseteq Int
          /\ (~Crowded(p, Reserved(db)) =>
                PdPoolCapacities(db, p) = {Cardinality(FreeBlocks(p, Reserved(db)))})
      BY <1>0, ReservedFacts, PdPoolCount
    <2> QED
      BY <1>1, <2>1
  <1> HIDE DEF d
  <1>6. /\ Counted(db') /\ SameRows(d, db') /\ Besides(db') = Besides(db)
        /\ db'.capacityOf[p] = n
        /\ \A q \in RowsOf(db) : db'.capacityOf[q] = db.capacityOf[q]
    <2>1. /\ IsRecord(d) /\ d.mask = db.mask /\ d.capacity = db.capacity
          /\ d.capacityOf = db.capacityOf /\ d.pools = db.pools
          /\ d.pdpools = db.pdpools \cup {p}
      BY <1>3 DEF Differs, RowsAre
    <2>2. RowsOf(d) = RowsOf(db) \cup {p}
      BY <2>1 DEF RowsOf
    <2>3. IsFiniteSet(d.pools) /\ d.pools \subseteq PoolRow /\ IsFiniteSet(d.pdpools)
          /\ d.pdpools \subseteq PdPoolRow(db.mask)
      BY <2>1, BooksFacts, FS_AddElement
    <2>4. AddsRow(db, p, d, n, db')
      BY <1>0, <1>1, <1>4, <1>5, <2>1, <2>2, <2>3 DEF AddsRow
    <2> QED
      BY <2>4, RowIsAdded
  <1>7. /\ RowsAre(db', db.pools, db.reservedPools, db.pdpools \cup {p},
                   db.reservedPrefixes, db.reservations)
        /\ db'.mask = db.mask /\ db'.generates = db.generates
        /\ RowsOf(db') = db.pools \cup (db.pdpools \cup {p})
    <2>1. IsRecord(db')
      BY <1>6 DEF Counted
    <2> QED
      BY <1>3, <1>6, <2>1, RowsThrough DEF Differs
  <1>8. Typed(db') /\ skewed' \subseteq RowsOf(db')
    BY <1>0, <1>2, <1>7 DEF Typed, RowsAre, RowsOf
  <1>9. Taken(db') = Taken(db) /\ Reserved(db') = Reserved(db)
    BY <1>7, SameTaken DEF RowsAre
  <1>10. Exact(db', skewed')
    <2>1. ASSUME NEW q \in db'.pools \ skewed'
          PROVE  db'.capacityOf[q] = Cardinality(Ips(q) \ Taken(db'))
      BY <1>0, <1>2, <1>6, <1>7, <1>9 DEF Exact, RowsAre, RowsOf
    <2>2. ASSUME NEW q \in db'.pdpools \ skewed'
          PROVE  db'.capacityOf[q] = Cardinality(FreeBlocks(q, Reserved(db')))
      <3>1. CASE q = p
        BY <1>2, <1>5, <1>6, <1>9, <3>1
      <3>2. CASE q # p
        BY <1>0, <1>2, <1>6, <1>7, <1>9, <3>2 DEF Exact, RowsAre, RowsOf
      <3> QED
        BY <3>1, <3>2
    <2>3. ~db'.generates => Besides(db') = Total(db'.reservations)
      BY <1>0, <1>6, <1>7 DEF Exact, RowsAre
    <2> QED
      BY <2>1, <2>2, <2>3 DEF Exact
  <1> QED
    BY <1>6, <1>8, <1>10 DEF Books

LEMMA OneBlockTaken ==
    ASSUME NEW mask \in Nat, NEW p \in PdPoolRow(mask), NEW r \in PrefixOf(mask),
           NEW small, r \notin small, NEW big, big = small \cup {r}, ~Crowded(p, big)
    PROVE  /\ Cardinality(FreeBlocks(p, small)) \in Nat /\ Cardinality(FreeBlocks(p, big)) \in Nat
           /\ PdPoolReservedCount(p, r.len) \in Int
           /\ Cardinality(FreeBlocks(p, small))
                = IF Meets(p.prefix, r)
                  THEN Cardinality(FreeBlocks(p, big)) + PdPoolReservedCount(p, r.len)
                  ELSE Cardinality(FreeBlocks(p, big))
  <1> DEFINE met == {x \in {r} : Meets(p.prefix, x)}
             c == [x \in {r} |-> PdPoolReservedCount(p, x.len)]
  <1>1. TakesBlocks(mask, p, {r}, small, big, met, c)
    BY FS_Singleton DEF TakesBlocks
  <1>2. c[r] = PdPoolReservedCount(p, r.len) /\ c[r] \in Int
    BY MetBlocksCount DEF PNat
  <1>3. (Meets(p.prefix, r) => met = {r}) /\ (~Meets(p.prefix, r) => met = {})
    OBVIOUS
  <1> HIDE DEF met, c
  <1>4. /\ Cardinality(FreeBlocks(p, small)) \in Nat /\ Cardinality(FreeBlocks(p, big)) \in Nat
        /\ Cardinality(FreeBlocks(p, small))
             = Cardinality(FreeBlocks(p, big)) + SumFunctionOnSet(c, met)
    BY <1>1, BlocksAreTaken
  <1>5. CASE Meets(p.prefix, r)
    <2>1. SumFunctionOnSet(c, met) = c[r]
      BY <1>2, <1>3, <1>5, SumOne
    <2> QED
      BY <1>2, <1>4, <1>5, <2>1
  <1>6. CASE ~Meets(p.prefix, r)
    <2>1. SumFunctionOnSet(c, met) = 0
      BY <1>3, <1>6, SumEmpty
    <2> QED
      BY <1>2, <1>4, <1>6, <2>1
  <1> QED
    BY <1>5, <1>6

\* A reserved pdpool is made, or removed.
LEMMA ReservedPdPoolBooks ==
    ASSUME BooksIInv, NEW r \in PrefixOf(db.mask), NEW s, NEW sign \in {1, -1},
           db' \in WithReservedPdPool([db EXCEPT !.reservedPrefixes = s], r, sign),
           skewed' = skewed \cup SkewedBy(db, {r}),
           \/ sign = -1 /\ s = db.reservedPrefixes \cup {r} /\ r \notin Reserved(db)
           \/ sign = 1 /\ s = db.reservedPrefixes \ {r} /\ r \in db.reservedPrefixes
    PROVE  Books(db', skewed')
  <1> DEFINE d == [db EXCEPT !.reservedPrefixes = s]
  <1>0. IsRecord(db) /\ Counted(db) /\ Typed(db) /\ Exact(db, skewed)
        /\ skewed \subseteq RowsOf(db) /\ db.mask \in Nat /\ db.pdpools \subseteq PdPoolRow(db.mask)
        /\ \A p \in RowsOf(db) : db.capacityOf[p] \in Int
    BY BooksFacts
  <1>1. Differs(db, d, db.pools, db.reservedPools, db.pdpools, s, db.reservations)
    BY <1>0, TableFields
  <1>2. db' \in WithReservedPdPool(d, r, sign)
    OBVIOUS
  <1> HIDE DEF d
  <1>3. Counted(d) /\ Besides(d) = Besides(db) /\ d.mask = db.mask /\ d.pools = db.pools
        /\ d.pdpools = db.pdpools /\ d.capacityOf = db.capacityOf
    BY <1>0, <1>1, TableCounts DEF Differs, RowsAre
  <1>4. /\ Counted(db') /\ SameRows(d, db') /\ Besides(db') = Besides(d)
        /\ \A p \in d.pools : db'.capacityOf[p] = d.capacityOf[p]
        /\ \/ /\ \A q \in d.pdpools : ~Meets(q.prefix, r)
              /\ db' = d
           \/ \E p \in d.pdpools :
                 /\ Meets(p.prefix, r)
                 /\ \A q \in d.pdpools :
                      db'.capacityOf[q] = IF q = p
                                          THEN d.capacityOf[q] + sign * PdPoolReservedCount(q, r.len)
                                          ELSE d.capacityOf[q]
    <2>1. sign \in Int /\ r \in PrefixOf(d.mask)
      BY <1>3
    <2> QED
      BY <1>2, <1>3, <2>1, ReservedPdPoolCounts
  <1>5. /\ RowsAre(db', db.pools, db.reservedPools, db.pdpools, s, db.reservations)
        /\ db'.mask = db.mask /\ db'.generates = db.generates
        /\ RowsOf(db') = db.pools \cup db.pdpools
    <2>1. IsRecord(db')
      BY <1>4 DEF Counted
    <2> QED
      BY <1>1, <1>4, <2>1, RowsThrough DEF Differs
  <1>6. s \subseteq PrefixOf(db.mask) /\ IsFiniteSet(s)
    <2>1. db.reservedPrefixes \subseteq PrefixOf(db.mask)
      BY <1>0 DEF Typed
    <2>2. s \subseteq PrefixOf(db.mask)
      BY <2>1
    <2> QED
      BY <1>0, <2>2, PrefixesFinite, FS_Subset
  <1>7. Typed(db') /\ skewed' \subseteq RowsOf(db')
    BY <1>0, <1>5, <1>6 DEF Typed, RowsAre, RowsOf, SkewedBy
  <1>8. Taken(db') = Taken(db) /\ Reserved(db') = ReservedPrefixes(db) \cup s
    <2>1. ReservedPrefixes(db') = ReservedPrefixes(db)
      BY <1>5 DEF RowsAre, ReservedPrefixes
    <2> QED
      BY <1>5, <2>1, SameTaken DEF RowsAre, Reserved
  <1>9. \/ sign = -1 /\ r \notin Reserved(db) /\ Reserved(db') = Reserved(db) \cup {r}
        \/ sign = 1 /\ r \notin Reserved(db') /\ Reserved(db) = Reserved(db') \cup {r}
    <2>1. ReservedPrefixes(db) \cap db.reservedPrefixes = {}
          /\ Reserved(db) = ReservedPrefixes(db) \cup db.reservedPrefixes
      BY ReservedFacts
    <2> QED
      BY <1>8, <2>1
  <1>10. ASSUME NEW p \in db'.pdpools \ skewed'
         PROVE  db'.capacityOf[p] = Cardinality(FreeBlocks(p, Reserved(db')))
    <2>1. p \in db.pdpools /\ p \in PdPoolRow(db.mask) /\ p \notin skewed
          /\ p \notin SkewedBy(db, {r}) /\ db.capacityOf[p] \in Int
      BY <1>0, <1>5 DEF RowsAre, RowsOf
    <2>2. db.capacityOf[p] = Cardinality(FreeBlocks(p, Reserved(db)))
      BY <1>0, <2>1 DEF Exact
    <2>3. ~Crowded(p, Reserved(db) \cup {r})
          /\ (Meets(p.prefix, r) => \A q \in db.pdpools \ {p} : ~Meets(q.prefix, r))
      BY <2>1 DEF SkewedBy
    <2>4. db'.capacityOf[p] = IF Meets(p.prefix, r)
                              THEN db.capacityOf[p] + sign * PdPoolReservedCount(p, r.len)
                              ELSE db.capacityOf[p]
      BY <1>3, <1>4, <2>1, <2>3
    <2> DEFINE A == Reserved(db)
               B == Reserved(db')
    <2>5. CASE sign = -1 /\ r \notin A /\ B = A \cup {r}
      <3>1. ~Crowded(p, B)
        BY <2>3, <2>5
      <3> HIDE DEF A, B
      <3>2. /\ Cardinality(FreeBlocks(p, A)) \in Nat /\ Cardinality(FreeBlocks(p, B)) \in Nat
            /\ PdPoolReservedCount(p, r.len) \in Int
            /\ Cardinality(FreeBlocks(p, A))
                 = IF Meets(p.prefix, r)
                   THEN Cardinality(FreeBlocks(p, B)) + PdPoolReservedCount(p, r.len)
                   ELSE Cardinality(FreeBlocks(p, B))
        BY <1>0, <2>1, <2>5, <3>1, OneBlockTaken
      <3>3. db.capacityOf[p] = Cardinality(FreeBlocks(p, A))
        BY <2>2 DEF A
      <3>4. db'.capacityOf[p] = Cardinality(FreeBlocks(p, B))
        BY <2>4, <2>5, <3>2, <3>3
      <3> QED
        BY <3>4 DEF B
    <2>6. CASE sign = 1 /\ r \notin B /\ A = B \cup {r}
      <3>1. ~Crowded(p, A)
        <4>1. Reserved(db) \cup {r} = A
          BY <2>6
        <4> QED
          BY <2>3, <4>1
      <3> HIDE DEF A, B
      <3>2. /\ Cardinality(FreeBlocks(p, B)) \in Nat /\ Cardinality(FreeBlocks(p, A)) \in Nat
            /\ PdPoolReservedCount(p, r.len) \in Int
            /\ Cardinality(FreeBlocks(p, B))
                 = IF Meets(p.prefix, r)
                   THEN Cardinality(FreeBlocks(p, A)) + PdPoolReservedCount(p, r.len)
                   ELSE Cardinality(FreeBlocks(p, A))
        BY <1>0, <2>1, <2>6, <3>1, OneBlockTaken
      <3>3. db.capacityOf[p] = Cardinality(FreeBlocks(p, A))
        BY <2>2 DEF A
      <3>4. db'.capacityOf[p] = Cardinality(FreeBlocks(p, B))
        BY <2>4, <2>6, <3>2, <3>3
      <3> QED
        BY <3>4 DEF B
    <2> QED
      BY <1>9, <2>5, <2>6
  <1>11. \A p \in db'.pools \ skewed' : db'.capacityOf[p] = Cardinality(Ips(p) \ Taken(db'))
    BY <1>0, <1>3, <1>4, <1>5, <1>8 DEF Exact, RowsAre
  <1>12. ~db'.generates => Besides(db') = Total(db'.reservations)
    BY <1>0, <1>3, <1>4, <1>5 DEF Exact, RowsAre
  <1>13. Exact(db', skewed')
    BY <1>10, <1>11, <1>12 DEF Exact
  <1> QED
    BY <1>4, <1>7, <1>13 DEF Books

LEMMA ReservedPdPoolCreateBooks ==
    ASSUME BooksIInv, NEW r \in PrefixOf(db.mask), ReservedPdPoolCreate(r)
    PROVE  Books(db', skewed')
  <1>1. r \notin Reserved(db)
    <2>1. Meets(r, r)
      BY BooksFacts, MeetsItself
    <2> QED
      BY <2>1 DEF ReservedPdPoolCreate, CanReservePrefix
  <1>2. db' \in WithReservedPdPool([db EXCEPT !.reservedPrefixes = db.reservedPrefixes \cup {r}], r, -1)
        /\ skewed' = skewed \cup SkewedBy(db, {r})
    BY DEF ReservedPdPoolCreate
  <1> QED
    BY <1>1, <1>2, ReservedPdPoolBooks

LEMMA ReservedPdPoolDeleteBooks ==
    ASSUME BooksIInv, NEW r \in PrefixOf(db.mask), ReservedPdPoolDelete(r)
    PROVE  Books(db', skewed')
  <1>1. r \in db.reservedPrefixes
        /\ db' \in WithReservedPdPool([db EXCEPT !.reservedPrefixes = db.reservedPrefixes \ {r}], r, 1)
        /\ skewed' = skewed \cup SkewedBy(db, {r})
    BY DEF ReservedPdPoolDelete
  <1> QED
    BY <1>1, ReservedPdPoolBooks

-----------------------------------------------------------------------------
(***************************************************************************)
(* Reservations are made, or released                                      *)
(***************************************************************************)
\* small and big are what is reserved without and with vs.
Splits(small, big, vs) ==
    /\ big = small \cup vs /\ small \cap vs = {}
    /\ \A u \in small : \A v \in vs : u.ips \cap v.ips = {} /\ u.prefixes \cap v.prefixes = {}
    /\ \A u, v \in vs : u # v => u.ips \cap v.ips = {} /\ u.prefixes \cap v.prefixes = {}

LEMMA SplitTotals ==
    ASSUME BooksIInv, NEW small, NEW big, NEW vs, Splits(small, big, vs),
           small \subseteq ReservationsBy[db.mask], IsFiniteSet(small),
           vs \subseteq ReservationsBy[db.mask], IsFiniteSet(vs)
    PROVE  /\ IsFiniteSet(IpsOf(vs)) /\ IsFiniteSet(PrefixesOf(vs))
           /\ PrefixesOf(vs) \subseteq PrefixOf(db.mask)
           /\ Cardinality(IpsOf(vs)) \in Nat /\ Cardinality(PrefixesOf(vs)) \in Nat
           /\ Total(small) \in Int
           /\ Total(big) = Total(small) + (Cardinality(IpsOf(vs)) + Cardinality(PrefixesOf(vs)))
           /\ IpsOf(vs) \cap UNION {v.ips : v \in small} = {}
           /\ PrefixesOf(vs) \cap UNION {v.prefixes : v \in small} = {}
           /\ UNION {v.ips : v \in big} = (UNION {v.ips : v \in small}) \cup IpsOf(vs)
           /\ UNION {v.prefixes : v \in big} = (UNION {v.prefixes : v \in small}) \cup PrefixesOf(vs)
  <1>1. db.mask \in Masks
    BY BooksFacts
  <1>2. \A v \in small \cup vs : /\ IsFiniteSet(v.ips) /\ IsFiniteSet(v.prefixes)
                                 /\ v.prefixes \subseteq PrefixOf(db.mask)
    BY <1>1, ReservationType
  <1>3. /\ big = small \cup vs /\ small \cap vs = {}
        /\ \A u \in small : \A v \in vs : u.ips \cap v.ips = {} /\ u.prefixes \cap v.prefixes = {}
        /\ \A u, v \in vs : u # v => u.ips \cap v.ips = {} /\ u.prefixes \cap v.prefixes = {}
    BY Zenon DEF Splits
  <1>4. /\ IsFiniteSet(IpsOf(vs)) /\ IsFiniteSet(PrefixesOf(vs))
        /\ Total(small) \in Int /\ Total(small \cup vs) \in Int
        /\ Total(small \cup vs) = Total(small) + (Cardinality(IpsOf(vs)) + Cardinality(PrefixesOf(vs)))
    BY <1>2, <1>3, TotalAdded
  <1>5. Total(small \cup vs) = Total(big)
    BY <1>3, Zenon
  <1>6. PrefixesOf(vs) \subseteq PrefixOf(db.mask)
    BY <1>2 DEF PrefixesOf
  <1>7. Cardinality(IpsOf(vs)) \in Nat /\ Cardinality(PrefixesOf(vs)) \in Nat
    BY <1>4, FS_CardinalityType
  <1>8. /\ IpsOf(vs) \cap UNION {v.ips : v \in small} = {}
        /\ PrefixesOf(vs) \cap UNION {v.prefixes : v \in small} = {}
    BY <1>3 DEF IpsOf, PrefixesOf
  <1>9. /\ UNION {v.ips : v \in big} = (UNION {v.ips : v \in small}) \cup IpsOf(vs)
        /\ UNION {v.prefixes : v \in big} = (UNION {v.prefixes : v \in small}) \cup PrefixesOf(vs)
    BY <1>3 DEF IpsOf, PrefixesOf
  <1> QED
    BY <1>4, <1>5, <1>6, <1>7, <1>8, <1>9

\* vs are reserved (sign -1) or released (sign 1), where small and big are the
\* reservations without and with them.
Moves(small, big, vs, s, sign) ==
    /\ Splits(small, big, vs)
    /\ small \subseteq ReservationsBy[db.mask] /\ IsFiniteSet(small)
    /\ vs \subseteq ReservationsBy[db.mask] /\ IsFiniteSet(vs)
    /\ \A r \in db.reservedPools : Ips(r) \cap IpsOf(vs) = {}
    /\ PrefixesOf(vs) \cap db.reservedPrefixes = {}
    /\ \/ sign = -1 /\ small = db.reservations /\ big = s
       \/ sign = 1 /\ small = s /\ big = db.reservations

\* The rows that become inexact.
Skews(vs, sign) ==
    /\ skewed \cup SkewedBy(db, PrefixesOf(vs)) \subseteq skewed'
    /\ sign = 1 => PassedOver(IpsOf(vs)) \subseteq skewed'
    /\ skewed' \subseteq RowsOf(db)

PoolMoves(P, A, B, X, k, l, sign) ==
    /\ IsFiniteSet(P)
    /\ \/ sign = -1 /\ B = A \cup X /\ A \cap X = {}
       \/ sign = 1 /\ A = B \cup X /\ B \cap X = {} /\ (k = 0 => X \cap P = {})
    /\ k = Cardinality(P \ A)
    /\ l = IF k # 0 THEN k + sign * Cardinality(X \cap P) ELSE k

LEMMA PoolMoved ==
    ASSUME NEW P, NEW A, NEW B, NEW X, NEW k, NEW l, NEW sign, PoolMoves(P, A, B, X, k, l, sign)
    PROVE  l = Cardinality(P \ B)
  <1>a. IsFiniteSet(P) /\ k = Cardinality(P \ A)
        /\ l = IF k # 0 THEN k + sign * Cardinality(X \cap P) ELSE k
    BY Zenon DEF PoolMoves
  <1>b. \/ sign = -1 /\ B = A \cup X /\ A \cap X = {}
        \/ sign = 1 /\ A = B \cup X /\ B \cap X = {} /\ (k = 0 => X \cap P = {})
    BY Zenon DEF PoolMoves
  <1>0. /\ Cardinality(X \cap P) = Cardinality(P \cap X)
        /\ (X \cap P = {} => Cardinality(P \cap X) = 0)
    <2>1. X \cap P = P \cap X
      OBVIOUS
    <2>2. Cardinality(X \cap P) = Cardinality(P \cap X)
      BY <2>1, Zenon
    <2> QED
      BY <2>2, FS_EmptySet, Zenon
  <1>1. CASE sign = -1 /\ B = A \cup X /\ A \cap X = {}
    <2>1. /\ Cardinality(P \ A) \in Nat /\ Cardinality(P \ (A \cup X)) \in Nat
          /\ Cardinality(P \cap X) \in Nat
          /\ Cardinality(P \ A) = Cardinality(P \ (A \cup X)) + Cardinality(P \cap X)
      <3>1. A \cap X = {}
        BY <1>1
      <3> QED
        BY <1>a, <3>1, IpsTaken
    <2>2. Cardinality(P \ (A \cup X)) = Cardinality(P \ B)
      BY <1>1, Zenon
    <2> QED
      BY <1>0, <1>a, <1>1, <2>1, <2>2
  <1>2. CASE sign = 1 /\ A = B \cup X /\ B \cap X = {} /\ (k = 0 => X \cap P = {})
    <2>1. /\ Cardinality(P \ B) \in Nat /\ Cardinality(P \ (B \cup X)) \in Nat
          /\ Cardinality(P \cap X) \in Nat
          /\ Cardinality(P \ B) = Cardinality(P \ (B \cup X)) + Cardinality(P \cap X)
      <3>1. B \cap X = {}
        BY <1>2
      <3> QED
        BY <1>a, <3>1, IpsTaken
    <2>2. Cardinality(P \ (B \cup X)) = Cardinality(P \ A)
      BY <1>2, Zenon
    <2>3. k = 0 => Cardinality(P \cap X) = 0
      BY <1>0, <1>2
    <2> QED
      BY <1>0, <1>a, <1>2, <2>1, <2>2, <2>3
  <1> QED
    BY <1>b, <1>1, <1>2

LEMMA PdPoolMoved ==
    ASSUME NEW mask \in Nat, NEW p \in PdPoolRow(mask), NEW Y \in SUBSET PrefixOf(mask),
           IsFiniteSet(Y), NEW A, NEW B, NEW k, NEW l, NEW sign, NEW c, NEW met,
           met = {y \in Y : Meets(p.prefix, y)},
           \A x \in met : c[x] = PdPoolReservedCount(p, x.len),
           ~Crowded(p, A \cup Y),
           \/ sign = -1 /\ B = A \cup Y /\ A \cap Y = {}
           \/ sign = 1 /\ A = B \cup Y /\ B \cap Y = {},
           k = Cardinality(FreeBlocks(p, A)),
           l = k + sign * SumFunctionOnSet(c, met)
    PROVE  l = Cardinality(FreeBlocks(p, B))
  <1>1. CASE sign = -1 /\ B = A \cup Y /\ A \cap Y = {}
    <2>1. TakesBlocks(mask, p, Y, A, B, met, c)
      <3>1. Y \cap A = {} /\ ~Crowded(p, B)
        BY <1>1
      <3> QED
        BY <1>1, <3>1, Zenon DEF TakesBlocks
    <2>2. /\ SumFunctionOnSet(c, met) \in Nat
          /\ Cardinality(FreeBlocks(p, A)) \in Nat /\ Cardinality(FreeBlocks(p, B)) \in Nat
          /\ Cardinality(FreeBlocks(p, A))
                = Cardinality(FreeBlocks(p, B)) + SumFunctionOnSet(c, met)
      BY <2>1, BlocksAreTaken
    <2> QED
      BY <1>1, <2>2
  <1>2. CASE sign = 1 /\ A = B \cup Y /\ B \cap Y = {}
    <2>1. TakesBlocks(mask, p, Y, B, A, met, c)
      <3>1. Y \cap B = {} /\ ~Crowded(p, A)
        <4>1. A \cup Y = A
          BY <1>2
        <4> QED
          BY <1>2, <4>1
      <3> QED
        BY <1>2, <3>1, Zenon DEF TakesBlocks
    <2>2. /\ SumFunctionOnSet(c, met) \in Nat
          /\ Cardinality(FreeBlocks(p, B)) \in Nat /\ Cardinality(FreeBlocks(p, A)) \in Nat
          /\ Cardinality(FreeBlocks(p, B))
                = Cardinality(FreeBlocks(p, A)) + SumFunctionOnSet(c, met)
      BY <2>1, BlocksAreTaken
    <2> QED
      BY <1>2, <2>2
  <1> QED
    BY <1>1, <1>2

LEMMA ReservationBooks ==
    ASSUME BooksIInv, NEW small, NEW big, NEW vs, NEW s, NEW sign,
           Moves(small, big, vs, s, sign), Skews(vs, sign),
           db' \in WithReservations([db EXCEPT !.reservations = s], vs, sign)
    PROVE  Books(db', skewed')
  <1> DEFINE d == [db EXCEPT !.reservations = s]
             X == IpsOf(vs)
             Y == PrefixesOf(vs)
  <1>0. IsRecord(db) /\ Counted(db) /\ Typed(db) /\ Exact(db, skewed) /\ PoolsApart(db)
        /\ skewed \subseteq RowsOf(db) /\ db.mask \in Nat /\ db.mask \in Masks
        /\ db.pools \subseteq PoolRow /\ db.pdpools \subseteq PdPoolRow(db.mask)
        /\ \A p \in RowsOf(db) : db.capacityOf[p] \in Int
    BY BooksFacts
  <1>1. Differs(db, d, db.pools, db.reservedPools, db.pdpools, db.reservedPrefixes, s)
    BY <1>0, TableFields
  <1>2. db' \in WithReservations(d, vs, sign)
    OBVIOUS
  <1> HIDE DEF d
  <1>3. Counted(d) /\ Besides(d) = Besides(db) /\ d.mask = db.mask /\ d.pools = db.pools
        /\ d.pdpools = db.pdpools /\ d.capacityOf = db.capacityOf
    BY <1>0, <1>1, TableCounts DEF Differs, RowsAre
  <1>4. /\ Splits(small, big, vs)
        /\ small \subseteq ReservationsBy[db.mask] /\ IsFiniteSet(small)
        /\ vs \subseteq ReservationsBy[db.mask] /\ IsFiniteSet(vs)
        /\ \A r \in db.reservedPools : Ips(r) \cap X = {}
        /\ Y \cap db.reservedPrefixes = {}
        /\ \/ sign = -1 /\ small = db.reservations /\ big = s
           \/ sign = 1 /\ small = s /\ big = db.reservations
    BY DEF Moves
  <1>5. sign \in Int /\ sign \in {1, -1}
    BY <1>4
  <1>6. /\ IsFiniteSet(X) /\ IsFiniteSet(Y) /\ Y \subseteq PrefixOf(db.mask)
        /\ Cardinality(X) \in Nat /\ Cardinality(Y) \in Nat /\ Total(small) \in Int
        /\ Total(big) = Total(small) + (Cardinality(X) + Cardinality(Y))
        /\ X \cap UNION {v.ips : v \in small} = {}
        /\ Y \cap UNION {v.prefixes : v \in small} = {}
        /\ UNION {v.ips : v \in big} = (UNION {v.ips : v \in small}) \cup X
        /\ UNION {v.prefixes : v \in big} = (UNION {v.prefixes : v \in small}) \cup Y
    BY <1>4, SplitTotals
  <1>7. ReservationsCounted(d, X, Y, sign, db')
    <2>1. PoolsApart(d)
      BY <1>0, <1>3 DEF PoolsApart
    <2>2. IsFiniteSet(IpsOf(vs)) /\ IsFiniteSet(PrefixesOf(vs))
          /\ PrefixesOf(vs) \subseteq PrefixOf(d.mask)
      BY <1>3, <1>6
    <2> QED
      BY <1>2, <1>3, <1>5, <2>1, <2>2, ReservationsCounts
  <1> HIDE DEF X, Y
  <1>8. Counted(db') /\ SameRows(d, db')
    BY <1>7 DEF ReservationsCounted
  <1>9. /\ RowsAre(db', db.pools, db.reservedPools, db.pdpools, db.reservedPrefixes, s)
        /\ db'.mask = db.mask /\ db'.generates = db.generates
        /\ RowsOf(db') = db.pools \cup db.pdpools
    <2>1. IsRecord(db')
      BY <1>8 DEF Counted
    <2> QED
      BY <1>1, <1>8, <2>1, RowsThrough DEF Differs
  <1>10. s \subseteq ReservationsBy[db.mask] /\ IsFiniteSet(s)
    <2>1. big = small \cup vs
      BY <1>4 DEF Splits
    <2>2. big \subseteq ReservationsBy[db.mask]
      BY <1>4, <2>1
    <2>3. IsFiniteSet(small \cup vs)
      BY <1>4, FS_Union
    <2>4. IsFiniteSet(big)
      BY <2>1, <2>3, Zenon
    <2> QED
      BY <1>4, <2>2, <2>4
  <1>11. Typed(db') /\ skewed' \subseteq RowsOf(db')
    <2>1. skewed' \subseteq RowsOf(db)
      BY DEF Skews
    <2> QED
      BY <1>0, <1>9, <1>10, <2>1 DEF Typed, RowsAre, RowsOf
  <1>12. /\ ReservedIps(db) = UNION {v.ips : v \in db.reservations}
         /\ ReservedIps(db') = UNION {v.ips : v \in s}
         /\ ReservedPrefixes(db) = UNION {v.prefixes : v \in db.reservations}
         /\ ReservedPrefixes(db') = UNION {v.prefixes : v \in s}
         /\ db'.reservedPools = db.reservedPools /\ db'.reservedPrefixes = db.reservedPrefixes
    BY <1>9 DEF ReservedIps, ReservedPrefixes, RowsAre
  <1>13. \/ sign = -1 /\ Taken(db') = Taken(db) \cup X /\ Taken(db) \cap X = {}
         \/ sign = 1 /\ Taken(db) = Taken(db') \cup X /\ Taken(db') \cap X = {}
    <2> DEFINE U == UNION {Ips(r) : r \in db.reservedPools}
               I == UNION {v.ips : v \in small}
               J == UNION {v.ips : v \in big}
    <2>1. U \cap X = {}
      BY <1>4
    <2>2. I \cap X = {} /\ J = I \cup X
      BY <1>6
    <2>3. \/ sign = -1 /\ ReservedIps(db) = I /\ ReservedIps(db') = J
          \/ sign = 1 /\ ReservedIps(db) = J /\ ReservedIps(db') = I
      BY <1>4, <1>12
    <2>4. Taken(db) = ReservedIps(db) \cup U /\ Taken(db') = ReservedIps(db') \cup U
      BY <1>12 DEF Taken
    <2> HIDE DEF U, I, J
    <2> QED
      BY <2>1, <2>2, <2>3, <2>4
  <1>14. \/ sign = -1 /\ Reserved(db') = Reserved(db) \cup Y /\ Reserved(db) \cap Y = {}
         \/ sign = 1 /\ Reserved(db) = Reserved(db') \cup Y /\ Reserved(db') \cap Y = {}
    <2> DEFINE U == db.reservedPrefixes
               I == UNION {v.prefixes : v \in small}
               J == UNION {v.prefixes : v \in big}
    <2>1. U \cap Y = {}
      BY <1>4
    <2>2. I \cap Y = {} /\ J = I \cup Y
      BY <1>6
    <2>3. \/ sign = -1 /\ ReservedPrefixes(db) = I /\ ReservedPrefixes(db') = J
          \/ sign = 1 /\ ReservedPrefixes(db) = J /\ ReservedPrefixes(db') = I
      BY <1>4, <1>12
    <2>4. Reserved(db) = ReservedPrefixes(db) \cup U /\ Reserved(db') = ReservedPrefixes(db') \cup U
      BY <1>12 DEF Reserved
    <2> HIDE DEF U, I, J
    <2> QED
      BY <2>1, <2>2, <2>3, <2>4
  <1>15. ASSUME NEW p \in db'.pools \ skewed'
         PROVE  db'.capacityOf[p] = Cardinality(Ips(p) \ Taken(db'))
    <2>1. p \in db.pools /\ p \in PoolRow /\ p \notin skewed /\ IsFiniteSet(Ips(p))
      BY <1>0, <1>9, PoolType DEF RowsAre, Skews
    <2>2. db.capacityOf[p] = Cardinality(Ips(p) \ Taken(db))
      BY <1>0, <2>1 DEF Exact
    <2>3. db'.capacityOf[p] = IF db.capacityOf[p] # 0
                              THEN db.capacityOf[p] + sign * Cardinality(X \cap Ips(p))
                              ELSE db.capacityOf[p]
      BY <1>3, <1>7, <2>1 DEF ReservationsCounted
    <2>4. sign = 1 => (db.capacityOf[p] = 0 => X \cap Ips(p) = {})
      BY <2>1 DEF Skews, PassedOver, X
    <2> DEFINE A == Taken(db)
               B == Taken(db')
               P == Ips(p)
               k == db.capacityOf[p]
               l == db'.capacityOf[p]
    <2>5. \/ sign = -1 /\ B = A \cup X /\ A \cap X = {}
          \/ sign = 1 /\ A = B \cup X /\ B \cap X = {} /\ (k = 0 => X \cap P = {})
      BY <1>13, <2>4
    <2>6. k = Cardinality(P \ A) /\ l = (IF k # 0 THEN k + sign * Cardinality(X \cap P) ELSE k)
          /\ IsFiniteSet(P)
      BY <2>1, <2>2, <2>3
    <2> HIDE DEF A, B, P, k, l
    <2>7. PoolMoves(P, A, B, X, k, l, sign)
      BY <2>5, <2>6 DEF PoolMoves
    <2>8. l = Cardinality(P \ B)
      BY <2>7, PoolMoved
    <2> QED
      BY <2>8 DEF B, P, l
  <1>16. ASSUME NEW p \in db'.pdpools \ skewed'
         PROVE  db'.capacityOf[p] = Cardinality(FreeBlocks(p, Reserved(db')))
    <2>1. p \in db.pdpools /\ p \in PdPoolRow(db.mask) /\ p \notin skewed
          /\ p \notin SkewedBy(db, Y)
      BY <1>0, <1>9 DEF RowsAre, Skews, Y
    <2>2. db.capacityOf[p] = Cardinality(FreeBlocks(p, Reserved(db)))
      BY <1>0, <2>1 DEF Exact
    <2>3. ~Crowded(p, Reserved(db) \cup Y) /\ Alone(db, p, Y)
      BY <2>1 DEF SkewedBy, Alone
    <2>4. Alone(d, p, Y) /\ p \in d.pdpools
      BY <1>3, <2>1, <2>3 DEF Alone
    <2> DEFINE met == {y \in Y : Meets(p.prefix, y)}
    <2>5. PICK c : /\ \A x \in met : c[x] = PdPoolReservedCount(p, x.len)
                   /\ db'.capacityOf[p] = db.capacityOf[p] + sign * SumFunctionOnSet(c, met)
      BY <1>3, <1>7, <2>4, Zenon DEF ReservationsCounted
    <2> DEFINE A == Reserved(db)
               B == Reserved(db')
               k == db.capacityOf[p]
               l == db'.capacityOf[p]
    <2>6. \/ sign = -1 /\ B = A \cup Y /\ A \cap Y = {}
          \/ sign = 1 /\ A = B \cup Y /\ B \cap Y = {}
      BY <1>14
    <2>7. k = Cardinality(FreeBlocks(p, A)) /\ l = k + sign * SumFunctionOnSet(c, met)
          /\ ~Crowded(p, A \cup Y)
      BY <2>2, <2>3, <2>5
    <2>8. Y \in SUBSET PrefixOf(db.mask) /\ db.mask \in Nat /\ IsFiniteSet(Y)
      BY <1>0, <1>6
    <2>9. met = {y \in Y : Meets(p.prefix, y)}
      OBVIOUS
    <2> HIDE DEF A, B, k, l, met
    <2>10. l = Cardinality(FreeBlocks(p, B))
      BY <2>1, <2>5, <2>6, <2>7, <2>8, <2>9, PdPoolMoved
    <2> QED
      BY <2>10 DEF B, l
  <1>17. ~db'.generates => Besides(db') = Total(db'.reservations)
    <2> SUFFICES ASSUME ~db.generates PROVE Besides(db') = Total(db'.reservations)
      BY <1>9
    <2>1. Besides(db') = Besides(db) - sign * (Cardinality(X) + Cardinality(Y))
      BY <1>3, <1>7 DEF ReservationsCounted
    <2>2. Besides(db) = Total(db.reservations)
      BY <1>0 DEF Exact
    <2>3. db'.reservations = s
      BY <1>9 DEF RowsAre
    <2> QED
      BY <1>4, <1>6, <2>1, <2>2, <2>3
  <1>18. Exact(db', skewed')
    BY <1>15, <1>16, <1>17 DEF Exact
  <1> QED
    BY <1>8, <1>11, <1>18 DEF Books

LEMMA SkewedAreRows == \A xs : SkewedBy(db, xs) \subseteq db.pdpools
  BY DEF SkewedBy

\* Reservations that no address and no prefix of the subnet is reserved by yet.
LEMMA NewReservations ==
    ASSUME BooksIInv, NEW vs, IsFiniteSet(vs), vs \subseteq ReservationsBy[db.mask],
           db.reservations \cap vs = {},
           \A u \in db.reservations : \A v \in vs :
              u.ips \cap v.ips = {} /\ u.prefixes \cap v.prefixes = {},
           \A u, v \in vs : u # v => u.ips \cap v.ips = {} /\ u.prefixes \cap v.prefixes = {},
           \A v \in vs : NotReserved(v),
           db' \in WithReservations([db EXCEPT !.reservations = @ \cup vs], vs, -1),
           skewed' = skewed \cup SkewedBy(db, PrefixesOf(vs))
    PROVE  Books(db', skewed')
  <1> DEFINE s == db.reservations \cup vs
  <1>1. Typed(db) /\ db.mask \in Masks /\ skewed \subseteq RowsOf(db)
    BY BooksFacts
  <1>2. Splits(db.reservations, s, vs)
    BY DEF Splits
  <1>3. \A r \in db.reservedPools : Ips(r) \cap IpsOf(vs) = {}
    BY DEF NotReserved, IpsOf
  <1>4. PrefixesOf(vs) \cap db.reservedPrefixes = {}
    <2> SUFFICES ASSUME NEW v \in vs, NEW x \in v.prefixes, x \in db.reservedPrefixes
                 PROVE  FALSE
      BY DEF PrefixesOf
    <2>1. ~Meets(x, x)
      BY DEF NotReserved
    <2>2. v \in ReservationsBy[db.mask]
      OBVIOUS
    <2> QED
      BY <1>1, <2>1, <2>2, ReservationPrefixes
  <1>5. db.reservations \subseteq ReservationsBy[db.mask] /\ IsFiniteSet(db.reservations)
    BY <1>1 DEF Typed
  <1>6. Moves(db.reservations, s, vs, s, -1)
    <2> HIDE DEF s
    <2> QED
      BY <1>2, <1>3, <1>4, <1>5 DEF Moves
  <1>7. Skews(vs, -1)
    BY <1>1, SkewedAreRows DEF Skews, RowsOf
  <1>8. db' \in WithReservations([db EXCEPT !.reservations = s], vs, -1)
    OBVIOUS
  <1> HIDE DEF s
  <1> QED
    BY <1>6, <1>7, <1>8, ReservationBooks

LEMMA Reservation6CreateBooks ==
    ASSUME BooksIInv, NEW v \in ReservationsBy[db.mask], Reservation6Create(v)
    PROVE  Books(db', skewed')
  <1> DEFINE vs == {v}
  <1>1. IsFiniteSet(vs) /\ vs \subseteq ReservationsBy[db.mask]
    BY FS_Singleton
  <1>2. \A u \in db.reservations :
          /\ u.client # v.client
          /\ u.ips \cap v.ips = {}
          /\ \A x \in v.prefixes : \A y \in u.prefixes : ~Meets(x, y)
    BY DEF Reservation6Create
  <1>3. \A u \in db.reservations : u.prefixes \cap v.prefixes = {}
    <2> SUFFICES ASSUME NEW u \in db.reservations, NEW x \in v.prefixes, x \in u.prefixes
                 PROVE  FALSE
      OBVIOUS
    <2>1. ~Meets(x, x)
      BY <1>2
    <2>2. db.mask \in Masks
      BY BooksFacts
    <2> QED
      BY <2>1, <2>2, ReservationPrefixes
  <1>4. PrefixesOf(vs) = v.prefixes
    BY DEF PrefixesOf
  <1>5. /\ NotReserved(v)
        /\ db' \in WithReservations([db EXCEPT !.reservations = @ \cup vs], vs, -1)
        /\ skewed' = skewed \cup SkewedBy(db, v.prefixes)
    BY DEF Reservation6Create
  <1>6. /\ db.reservations \cap vs = {}
        /\ \A u \in db.reservations : \A w \in vs :
              u.ips \cap w.ips = {} /\ u.prefixes \cap w.prefixes = {}
        /\ \A u, w \in vs : u # w => u.ips \cap w.ips = {} /\ u.prefixes \cap w.prefixes = {}
        /\ \A w \in vs : NotReserved(w)
    BY <1>2, <1>3, <1>5
  <1>7. skewed' = skewed \cup SkewedBy(db, PrefixesOf(vs))
    BY <1>4, <1>5
  <1> HIDE DEF vs
  <1> QED
    BY <1>1, <1>5, <1>6, <1>7, NewReservations

LEMMA Reservation6BatchCreateBooks ==
    ASSUME BooksIInv, NEW v \in ReservationsBy[db.mask], Reservation6BatchCreate(v)
    PROVE  Books(db', skewed')
  <1>1. PICK w \in ReservationsBy[db.mask] \ {v} :
          /\ Distinct6({v, w}) /\ NotReserved(w)
          /\ db' \in WithReservations([db EXCEPT !.reservations = @ \cup {v, w}], {v, w}, -1)
          /\ skewed' = skewed \cup SkewedBy(db, v.prefixes \cup w.prefixes)
    BY DEF Reservation6BatchCreate
  <1> DEFINE vs == {v, w}
  <1>2. IsFiniteSet(vs) /\ vs \subseteq ReservationsBy[db.mask]
    <2>1. vs = {v} \cup {w}
      OBVIOUS
    <2>2. IsFiniteSet({v} \cup {w})
      BY FS_Singleton, FS_AddElement
    <2> QED
      BY <2>1, <2>2
  <1>3. NotReserved(v) /\ NotReserved(w)
    BY <1>1 DEF Reservation6BatchCreate
  <1>4. PrefixesOf(vs) = v.prefixes \cup w.prefixes
    BY DEF PrefixesOf
  <1>5. /\ vs \cap db.reservations = {}
        /\ \A u \in db.reservations \cup vs : \A x \in vs :
              u # x => u.ips \cap x.ips = {} /\ u.prefixes \cap x.prefixes = {}
    BY <1>1 DEF Distinct6
  <1>6. db.reservations \cap vs = {} /\ \A x \in vs : NotReserved(x)
    BY <1>3, <1>5
  <1>7. skewed' = skewed \cup SkewedBy(db, PrefixesOf(vs))
    BY <1>1, <1>4
  <1>8. db' \in WithReservations([db EXCEPT !.reservations = @ \cup vs], vs, -1)
    BY <1>1
  <1> HIDE DEF vs
  <1>9. /\ \A u \in db.reservations : \A x \in vs :
              u.ips \cap x.ips = {} /\ u.prefixes \cap x.prefixes = {}
        /\ \A u, x \in vs : u # x => u.ips \cap x.ips = {} /\ u.prefixes \cap x.prefixes = {}
    <2>1. \A u \in db.reservations : \A x \in vs : u # x
      BY <1>6
    <2> QED
      BY <1>5, <2>1
  <1> QED
    BY <1>2, <1>6, <1>7, <1>8, <1>9, NewReservations

LEMMA ReleaseBooks ==
    ASSUME BooksIInv, NEW vs, IsFiniteSet(vs), vs \subseteq db.reservations, Release(vs)
    PROVE  Books(db', skewed')
  <1> DEFINE s == db.reservations \ vs
  <1>1. Typed(db) /\ db.mask \in Masks /\ skewed \subseteq RowsOf(db) /\ RangesApart
    BY BooksFacts
  <1>2. /\ db' \in WithReservations([db EXCEPT !.reservations = s], vs, 1)
        /\ skewed' = skewed \cup PassedOver(IpsOf(vs)) \cup SkewedBy(db, PrefixesOf(vs))
    BY DEF Release, IpsOf, PrefixesOf
  <1>3. Splits(s, db.reservations, vs)
    <2>1. db.reservations = s \cup vs /\ s \cap vs = {}
      OBVIOUS
    <2>2. \A u, v \in db.reservations : u # v =>
             u.ips \cap v.ips = {} /\ u.prefixes \cap v.prefixes = {}
      BY <1>1 DEF RangesApart
    <2>3. \A u \in s : \A v \in vs : u \in db.reservations /\ v \in db.reservations /\ u # v
      OBVIOUS
    <2> HIDE DEF s
    <2> QED
      BY <2>1, <2>2, <2>3 DEF Splits
  <1>4. \A r \in db.reservedPools : Ips(r) \cap IpsOf(vs) = {}
    <2>1. IpsOf(vs) \subseteq ReservedIps(db)
      BY DEF IpsOf, ReservedIps
    <2>2. \A r \in db.reservedPools : Ips(r) \cap ReservedIps(db) = {}
      BY <1>1 DEF RangesApart
    <2> QED
      BY <2>1, <2>2
  <1>5. PrefixesOf(vs) \cap db.reservedPrefixes = {}
    <2>1. PrefixesOf(vs) \subseteq ReservedPrefixes(db)
      BY DEF PrefixesOf, ReservedPrefixes
    <2> QED
      BY <2>1, ReservedFacts
  <1>6. /\ s \subseteq ReservationsBy[db.mask] /\ IsFiniteSet(s)
        /\ vs \subseteq ReservationsBy[db.mask]
    <2>1. db.reservations \subseteq ReservationsBy[db.mask] /\ IsFiniteSet(db.reservations)
      BY <1>1 DEF Typed
    <2> QED
      BY <2>1, FS_Subset
  <1> HIDE DEF s
  <1>7. Moves(s, db.reservations, vs, s, 1)
    BY <1>3, <1>4, <1>5, <1>6 DEF Moves
  <1>8. Skews(vs, 1)
    BY <1>1, <1>2, SkewedAreRows DEF Skews, RowsOf, PassedOver
  <1> QED
    BY <1>2, <1>7, <1>8, ReservationBooks

LEMMA NoTotal == Total({}) = 0
  <1> DEFINE f == [v \in {} |-> Cardinality(v.ips) + Cardinality(v.prefixes)]
  <1>1. DOMAIN f = {}
    OBVIOUS
  <1>2. Total({}) = SumFunction(f)
    BY Zenon DEF Total
  <1> HIDE DEF f
  <1>3. SumFunction(f) = SumFunctionOnSet(f, {})
    BY <1>1, Zenon DEF SumFunction
  <1> QED
    BY <1>2, <1>3, SumEmpty

\* A subnet without rows.
LEMMA NoRowsBooks ==
    ASSUME NEW d, IsRecord(d), d.mask \in Masks, d.generates \in BOOLEAN,
           d.pools = {}, d.reservedPools = {}, d.pdpools = {}, d.reservedPrefixes = {},
           d.reservations = {}, DOMAIN d.capacityOf = {}, d.capacity \in Int,
           ~d.generates => d.capacity = 0
    PROVE  Books(d, {})
  <1>1. RowsOf(d) = {}
    BY DEF RowsOf
  <1>2. IsFiniteSet({}) /\ d.mask \in Nat
    BY FS_EmptySet, Subnet6Assumption
  <1>3. Counted(d)
    BY <1>1, <1>2 DEF Counted
  <1>4. Typed(d)
    BY <1>2 DEF Typed
  <1>5. ~d.generates => Besides(d) = Total(d.reservations)
    <2>1. SumFunctionOnSet(d.capacityOf, RowsOf(d)) = 0
      BY <1>1, SumEmpty
    <2>2. Total(d.reservations) = 0
      BY NoTotal
    <2> QED
      BY <2>1, <2>2 DEF Besides
  <1>6. Exact(d, {})
    BY <1>5 DEF Exact
  <1> QED
    BY <1>3, <1>4, <1>6 DEF Books

LEMMA GenerateBooks ==
    ASSUME BooksIInv, GenerateOn \/ GenerateOff
    PROVE  Books(db', skewed')
  <1>0. IsRecord(db) /\ Counted(db) /\ Typed(db) /\ skewed \subseteq RowsOf(db)
        /\ GeneratedHasNoRows
    BY BooksFacts
  <1>1. db.pools = {} /\ db.pdpools = {} /\ db.reservedPools = {} /\ db.reservedPrefixes = {}
        /\ db.reservations = {} /\ skewed' = skewed
    BY <1>0 DEF GenerateOn, GenerateOff, HasPools, GeneratedHasNoRows, Rows
  <1>2. RowsOf(db) = {}
    BY <1>1 DEF RowsOf
  <1>3. DOMAIN db.capacityOf = {} /\ skewed' = {}
    BY <1>0, <1>1, <1>2 DEF Counted
  <1>4. PICK b \in BOOLEAN, n \in {Generated, 0} :
           db' = [db EXCEPT !.generates = b, !.capacity = n] /\ (~b => n = 0)
    BY DEF GenerateOn, GenerateOff
  <1>5. /\ IsRecord(db') /\ db'.mask = db.mask /\ db'.generates = b /\ db'.capacity = n
        /\ db'.pools = {} /\ db'.pdpools = {} /\ db'.reservedPools = {}
        /\ db'.reservedPrefixes = {} /\ db'.reservations = {}
        /\ db'.capacityOf = db.capacityOf
    BY <1>0, <1>1, <1>4 DEF IsRecord, Columns
  <1>6. n \in Int
    BY Subnet6Assumption
  <1>7. db'.mask \in Masks
    BY <1>0, <1>5 DEF Typed
  <1>8. Books(db', {})
    BY <1>3, <1>4, <1>5, <1>6, <1>7, NoRowsBooks
  <1> QED
    BY <1>3, <1>8

LEMMA InitBooks == Init => BooksIInv
  <1> SUFFICES ASSUME NEW mask \in Masks, NEW generates \in BOOLEAN, Init,
                      db = [mask |-> mask, generates |-> generates,
                            capacity |-> IF generates THEN Generated ELSE 0,
                            pools |-> {}, reservedPools |-> {}, pdpools |-> {},
                            reservedPrefixes |-> {}, reservations |-> {}, capacityOf |-> <<>>]
               PROVE  Books(db, skewed)
    BY InitSubnet6 DEF Init, BooksIInv
  <1>1. IsRecord(db)
    BY DEF IsRecord, Columns
  <1>2. /\ db.mask \in Masks /\ db.generates \in BOOLEAN
        /\ db.pools = {} /\ db.reservedPools = {} /\ db.pdpools = {}
        /\ db.reservedPrefixes = {} /\ db.reservations = {} /\ db.capacityOf = <<>>
        /\ db.capacity = IF db.generates THEN Generated ELSE 0
    OBVIOUS
  <1>3. db.capacity \in Int /\ (~db.generates => db.capacity = 0)
    BY <1>2, Subnet6Assumption
  <1>4. DOMAIN db.capacityOf = {}
    BY <1>2
  <1>5. Books(db, {})
    BY <1>1, <1>2, <1>3, <1>4, NoRowsBooks
  <1>6. skewed = {}
    BY DEF Init
  <1> QED
    BY <1>5, <1>6

LEMMA NextKeepsBooks == BooksIInv /\ [Next]_vars => BooksIInv'
  <1> SUFFICES ASSUME BooksIInv, [Next]_vars PROVE Books(db', skewed')
    BY NextKeepsSubnet6 DEF BooksIInv
  <1>0. /\ PdPoolsBy[db.mask] = PdPoolRow(db.mask) /\ PrefixesBy[db.mask] = PrefixOf(db.mask)
        /\ Books(db, skewed)
    BY BooksFacts DEF BooksIInv
  <1>1. ASSUME NEW p \in PoolRow,
               \/ Pool6Create(p) \/ ReservedPool6Create(p)
               \/ ReservedPool6BatchCreate(p) \/ ReservedPool6Delete(p)
        PROVE  Books(db', skewed')
    BY <1>1, Pool6CreateBooks, ReservedPool6CreateBooks, ReservedPool6BatchCreateBooks,
       ReservedPool6DeleteBooks
  <1>2. ASSUME NEW p, Pool6Delete(p) \/ PdPoolDelete(p)
        PROVE  Books(db', skewed')
    <2>1. PICK d : /\ db' = WithoutRow(d, p) /\ skewed' = skewed \ {p}
                   /\ \/ d = [db EXCEPT !.pools = @ \ {p}] /\ p \in db.pools
                      \/ d = [db EXCEPT !.pdpools = @ \ {p}] /\ p \in db.pdpools
      BY <1>2 DEF Pool6Delete, PdPoolDelete
    <2>2. p \in RowsOf(db)
      BY <2>1 DEF RowsOf
    <2> QED
      BY <2>1, <2>2, RowDeleteBooks
  <1>3. ASSUME NEW p \in PdPoolRow(db.mask), PdPoolCreate(p)
        PROVE  Books(db', skewed')
    BY <1>3, PdPoolCreateBooks
  <1>4. ASSUME NEW x \in PrefixOf(db.mask), ReservedPdPoolCreate(x) \/ ReservedPdPoolDelete(x)
        PROVE  Books(db', skewed')
    BY <1>4, ReservedPdPoolCreateBooks, ReservedPdPoolDeleteBooks
  <1>5. ASSUME NEW v \in ReservationsBy[db.mask],
               Reservation6Create(v) \/ Reservation6BatchCreate(v)
        PROVE  Books(db', skewed')
    BY <1>5, Reservation6CreateBooks, Reservation6BatchCreateBooks
  <1>6. ASSUME NEW v, NEW w, {v, w} \subseteq db.reservations, Release({v, w})
        PROVE  Books(db', skewed')
    <2>1. {v, w} = {v} \cup {w}
      OBVIOUS
    <2>2. IsFiniteSet({v} \cup {w})
      BY FS_Singleton, FS_AddElement
    <2>3. IsFiniteSet({v, w})
      BY <2>1, <2>2
    <2> QED
      BY <1>6, <2>3, ReleaseBooks
  <1>7. ASSUME NEW v, \/ Reservation6Delete(v) \/ AutoReservation6Delete(v)
                      \/ \E w \in db.reservations : Reservation6BatchDelete(v, w)
        PROVE  Books(db', skewed')
    <2>1. ASSUME v \in db.reservations, Release({v}) PROVE Books(db', skewed')
      <3>1. {v, v} = {v}
        OBVIOUS
      <3>2. {v, v} \subseteq db.reservations /\ Release({v, v})
        BY <2>1, <3>1
      <3> QED
        BY <1>6, <3>2
    <2>2. ASSUME NEW w \in db.reservations, Reservation6BatchDelete(v, w)
          PROVE  Books(db', skewed')
      <3>1. {v, w} \subseteq db.reservations /\ Release({v, w})
        BY <2>2 DEF Reservation6BatchDelete
      <3> QED
        BY <1>6, <3>1
    <2>3. Reservation6Delete(v) \/ AutoReservation6Delete(v)
             => v \in db.reservations /\ Release({v})
      BY Zenon DEF Reservation6Delete, AutoReservation6Delete
    <2> QED
      BY <1>7, <2>1, <2>2, <2>3
  <1>8. CASE GenerateOn \/ GenerateOff
    BY <1>8, GenerateBooks
  <1>9. ASSUME \/ \E l \in [client: Clients, ip: Ip] : GrantLease(l)
               \/ \E l \in [client: Clients, prefix: PrefixesBy[db.mask]] : Delegate(l)
               \/ EndLeases
               \/ UNCHANGED vars
        PROVE  Books(db', skewed')
    <2>1. db' = db /\ skewed' = skewed
      BY <1>9 DEF GrantLease, Delegate, EndLeases, vars
    <2> QED
      BY <1>0, <2>1
  <1> QED
    BY <1>0, <1>1, <1>2, <1>3, <1>4, <1>5, <1>7, <1>8, <1>9 DEF Next

LEMMA BooksAreExact ==
    ASSUME BooksIInv
    PROVE  UnskewedBooksExact
  <1>0. Counted(db) /\ Exact(db, skewed) /\ Rows = RowsOf(db)
    BY BooksFacts DEF Rows, RowsOf
  <1>1. ASSUME NEW p \in db.pools \ skewed
        PROVE  db.capacityOf[p] = Cardinality({ip \in Ips(p) : AddressType(db, ip) = "dynamic"})
    <2>1. ASSUME NEW ip \in Ips(p)
          PROVE  AddressType(db, ip) = "dynamic" <=> ip \notin Taken(db)
      BY DEF AddressType, Taken
    <2>2. {ip \in Ips(p) : AddressType(db, ip) = "dynamic"} = Ips(p) \ Taken(db)
      BY <2>1
    <2>3. Cardinality({ip \in Ips(p) : AddressType(db, ip) = "dynamic"})
            = Cardinality(Ips(p) \ Taken(db))
      BY <2>2, Zenon
    <2>4. db.capacityOf[p] = Cardinality(Ips(p) \ Taken(db))
      BY <1>0 DEF Exact
    <2> QED
      BY <2>3, <2>4, Zenon
  <1>2. ASSUME NEW p \in db.pdpools \ skewed
        PROVE  db.capacityOf[p] = Cardinality({b \in Blocks(p) :
                                                \A x \in Reserved(db) : ~Meets(x, b)})
    BY <1>0, Zenon DEF Exact, FreeBlocks
  <1>3. ~db.generates => db.capacity = SumFunctionOnSet(db.capacityOf, Rows)
            + SumFunction([v \in db.reservations |-> Cardinality(v.ips) + Cardinality(v.prefixes)])
    <2>1. db.capacity = SumFunctionOnSet(db.capacityOf, Rows) + Besides(db)
      BY <1>0, BesidesType
    <2>2. ~db.generates => Besides(db) = Total(db.reservations)
      BY <1>0 DEF Exact
    <2>3. Total(db.reservations) =
            SumFunction([v \in db.reservations |-> Cardinality(v.ips) + Cardinality(v.prefixes)])
      BY Zenon DEF Total
    <2> QED
      BY <2>1, <2>2, <2>3, Zenon
  <1> QED
    BY <1>1, <1>2, <1>3, Zenon DEF UnskewedBooksExact

LEMMA BooksAreTyped ==
    ASSUME BooksIInv
    PROVE  TypeOK
  BY BooksFacts DEF TypeOK, Counted, Typed, RowsOf, Rows

\* For any masks, pools, prefixes and reservations the capacities stay exact:
\* after every sequence of requests a row that no shortcut has touched has the
\* number of addresses, or of prefixes, that nothing reserves, and the capacity
\* of the subnet is the sum of its rows' and its reservations', touched or not.
THEOREM BooksStayExact == Spec => []UnskewedBooksExact
  <1>1. BooksIInv => UnskewedBooksExact
    BY BooksAreExact
  <1> QED
    BY <1>1, InitBooks, NextKeepsBooks, PTL DEF Spec

\* Rows keep to the ranges that the mask of the subnet allows, and exactly the
\* pools and pdpools have a capacity, whatever the requests that came before.
THEOREM Subnet6Typed == Spec => []TypeOK
  <1>1. BooksIInv => TypeOK
    BY BooksAreTyped
  <1> QED
    BY <1>1, InitBooks, NextKeepsBooks, PTL DEF Spec

-----------------------------------------------------------------------------
(***************************************************************************)
(* Exported lines                                                          *)
(***************************************************************************)
\* What the import looks at, besides the ranges and the books.
Ordinary(d, sk) ==
    /\ d.pools \cup d.reservedPools # {} => d.mask >= Limit
    /\ \A v \in d.reservations : Valid(v)
    /\ \A p \in d.pdpools \ sk : ~Crowded(p, Reserved(d))
    /\ d.generates => d.capacity = Generated

ImportIInv == BooksIInv /\ Ordinary(db, skewed)

\* A request that writes the rows of a subnet that does not generate addresses.
WritesRows(pools, reservedPools, pdpools, reservedPrefixes, reservations) ==
    /\ ~db.generates /\ db'.mask = db.mask /\ db'.generates = db.generates
    /\ RowsAre(db', pools, reservedPools, pdpools, reservedPrefixes, reservations)

LEMMA WrittenOrdinary ==
    ASSUME Ordinary(db, skewed), NEW a, NEW b, NEW p, NEW x, NEW v, WritesRows(a, b, p, x, v),
           a \cup b \subseteq db.pools \cup db.reservedPools \/ db.mask >= Limit,
           \A u \in v : u \in db.reservations \/ Valid(u),
           \A q \in p \ skewed' : ~Crowded(q, (UNION {u.prefixes : u \in v}) \cup x)
    PROVE  Ordinary(db', skewed')
  <1>1. /\ db'.pools = a /\ db'.reservedPools = b /\ db'.pdpools = p
        /\ db'.reservedPrefixes = x /\ db'.reservations = v
        /\ db'.mask = db.mask /\ ~db'.generates
    BY DEF WritesRows, RowsAre
  <1>2. Reserved(db') = (UNION {u.prefixes : u \in v}) \cup x
    BY <1>1 DEF Reserved, ReservedPrefixes
  <1> QED
    BY <1>1, <1>2 DEF Ordinary

LEMMA NotCrowded ==
    ASSUME NEW d, NEW sk, Ordinary(d, sk), NEW q \in d.pdpools \ sk, NEW xs, xs \subseteq Reserved(d)
    PROVE  ~Crowded(q, xs)
  BY CrowdedGrows DEF Ordinary

\* Pools and reserved pools.
LEMMA PoolsOrdinary ==
    ASSUME ImportIInv, NEW p \in PoolRow,
           \/ Pool6Create(p) \/ Pool6Delete(p) \/ ReservedPool6Create(p)
           \/ ReservedPool6BatchCreate(p) \/ ReservedPool6Delete(p)
    PROVE  Ordinary(db', skewed')
  <1>0. IsRecord(db) /\ Ordinary(db, skewed) /\ GeneratedHasNoRows
    BY BooksFacts DEF ImportIInv
  <1>1. PICK a, b : /\ \/ TableWritten([db EXCEPT !.pools = a]) /\ b = db.reservedPools
                       \/ TableWritten([db EXCEPT !.reservedPools = b]) /\ a = db.pools
                    /\ a \cup b \subseteq db.pools \cup db.reservedPools \/ db.mask >= Limit
    <2>1. CASE Pool6Create(p)
      <3>1. db' = WithRow([db EXCEPT !.pools = db.pools \cup {p}], p, Pool6Capacity(db, p))
            /\ db.mask >= Limit
        BY <2>1 DEF Pool6Create, CanHaveDynamicPools
      <3>2. TableWritten([db EXCEPT !.pools = db.pools \cup {p}])
        BY <1>0, <3>1, StepRows, RowKept DEF TableWritten
      <3> QED
        BY <3>1, <3>2
    <2>2. CASE Pool6Delete(p)
      <3>1. db' = WithoutRow([db EXCEPT !.pools = db.pools \ {p}], p)
        BY <2>2 DEF Pool6Delete
      <3>2. TableWritten([db EXCEPT !.pools = db.pools \ {p}])
        BY <1>0, <3>1, StepRows, RowKept DEF TableWritten
      <3>3. (db.pools \ {p}) \cup db.reservedPools \subseteq db.pools \cup db.reservedPools
        OBVIOUS
      <3> QED
        BY <3>2, <3>3
    <2>3. CASE ReservedPool6Create(p)
      <3>1. db' = WithReservedPool([db EXCEPT !.reservedPools = db.reservedPools \cup {p}], p, -1)
            /\ db.mask >= Limit
        BY <2>3 DEF ReservedPool6Create, CanHaveDynamicPools
      <3>2. TableWritten([db EXCEPT !.reservedPools = db.reservedPools \cup {p}])
        BY <1>0, <3>1, StepRows, ReservedPoolKept DEF TableWritten
      <3> QED
        BY <3>1, <3>2
    <2>4. CASE ReservedPool6BatchCreate(p)
      <3>1. PICK s : db' = WithReservedPool(WithReservedPool(
                        [db EXCEPT !.reservedPools = db.reservedPools \cup {p, s}], p, -1), s, -1)
        BY <2>4 DEF ReservedPool6BatchCreate
      <3>2. db.mask >= Limit
        BY <2>4 DEF ReservedPool6BatchCreate, CanHaveDynamicPools
      <3> DEFINE b == db.reservedPools \cup {p, s}
                 d == [db EXCEPT !.reservedPools = b]
                 e == WithReservedPool(d, p, -1)
      <3>3. IsRecord(e) /\ SameRows(d, e)
        BY <1>0, StepRows, ReservedPoolKept
      <3>4. IsRecord(db') /\ SameRows(e, db')
        <4>1. db' = WithReservedPool(e, s, -1)
          BY <3>1
        <4> HIDE DEF e
        <4> QED
          BY <3>3, <4>1, ReservedPoolKept
      <3> HIDE DEF e
      <3>5. TableWritten(d)
        BY <3>3, <3>4 DEF TableWritten, SameRows
      <3> QED
        BY <3>2, <3>5
    <2>5. CASE ReservedPool6Delete(p)
      <3>1. db' = WithReservedPool([db EXCEPT !.reservedPools = db.reservedPools \ {p}], p, 1)
        BY <2>5 DEF ReservedPool6Delete
      <3>2. TableWritten([db EXCEPT !.reservedPools = db.reservedPools \ {p}])
        BY <1>0, <3>1, StepRows, ReservedPoolKept DEF TableWritten
      <3>3. db.pools \cup (db.reservedPools \ {p}) \subseteq db.pools \cup db.reservedPools
        OBVIOUS
      <3> QED
        BY <3>2, <3>3
    <2> QED
      BY <2>1, <2>2, <2>3, <2>4, <2>5
  <1>2. ~db.generates
    BY <1>0 DEF Pool6Create, Pool6Delete, ReservedPool6Create, ReservedPool6BatchCreate,
       ReservedPool6Delete, CanHaveDynamicPools, GeneratedHasNoRows, Rows
  <1>3. WritesRows(a, b, db.pdpools, db.reservedPrefixes, db.reservations)
    BY <1>0, <1>1, <1>2, StepRows DEF WritesRows
  <1>4. skewed \cap db.pdpools \subseteq skewed'
    <2>1. Pool6Delete(p) => skewed' = skewed \ {p} /\ p \in db.pools
      BY DEF Pool6Delete
    <2>2. \/ Pool6Delete(p)
          \/ skewed' = skewed
      BY DEF Pool6Create, ReservedPool6Create, ReservedPool6BatchCreate, ReservedPool6Delete
    <2>3. db.pools \cap db.pdpools = {}
      BY BooksFacts, PoolsDiffer DEF ImportIInv
    <2> QED
      BY <2>1, <2>2, <2>3
  <1>5. \A q \in db.pdpools \ skewed' :
           ~Crowded(q, (UNION {u.prefixes : u \in db.reservations}) \cup db.reservedPrefixes)
    <2> SUFFICES ASSUME NEW q \in db.pdpools \ skewed'
                 PROVE  ~Crowded(q, (UNION {u.prefixes : u \in db.reservations})
                                       \cup db.reservedPrefixes)
      OBVIOUS
    <2>1. q \in db.pdpools \ skewed
      BY <1>4
    <2>2. Reserved(db) = (UNION {u.prefixes : u \in db.reservations}) \cup db.reservedPrefixes
      BY DEF Reserved, ReservedPrefixes
    <2> QED
      BY <1>0, <2>1, <2>2 DEF Ordinary
  <1> QED
    BY <1>0, <1>1, <1>3, <1>5, WrittenOrdinary

\* Pdpools and reserved prefixes.
LEMMA PdPoolsOrdinary ==
    ASSUME ImportIInv, NEW p,
           \/ PdPoolCreate(p) \/ PdPoolDelete(p)
           \/ ReservedPdPoolCreate(p) \/ ReservedPdPoolDelete(p)
    PROVE  Ordinary(db', skewed')
  <1> DEFINE R == ReservedPrefixes(db)
  <1>0. IsRecord(db) /\ Ordinary(db, skewed) /\ GeneratedHasNoRows
    BY BooksFacts DEF ImportIInv
  <1>1. PICK c, x : /\ \/ TableWritten([db EXCEPT !.pdpools = c]) /\ x = db.reservedPrefixes
                       \/ TableWritten([db EXCEPT !.reservedPrefixes = x]) /\ c = db.pdpools
                    /\ \A q \in c \ skewed' : ~Crowded(q, R \cup x)
    <2>1. CASE PdPoolCreate(p)
      <3>1. PICK n : db' = WithRow([db EXCEPT !.pdpools = db.pdpools \cup {p}], p, n)
        BY <2>1 DEF PdPoolCreate
      <3>2. TableWritten([db EXCEPT !.pdpools = db.pdpools \cup {p}])
        BY <1>0, <3>1, StepRows, RowKept DEF TableWritten
      <3>3. skewed' = skewed \cup {q \in {p} : Crowded(q, Reserved(db))}
        BY <2>1 DEF PdPoolCreate
      <3>4. \A q \in (db.pdpools \cup {p}) \ skewed' : ~Crowded(q, R \cup db.reservedPrefixes)
        BY <1>0, <3>3 DEF Ordinary, Reserved
      <3> QED
        BY <3>2, <3>4
    <2>2. CASE PdPoolDelete(p)
      <3>1. db' = WithoutRow([db EXCEPT !.pdpools = db.pdpools \ {p}], p) /\ skewed' = skewed \ {p}
        BY <2>2 DEF PdPoolDelete
      <3>2. TableWritten([db EXCEPT !.pdpools = db.pdpools \ {p}])
        BY <1>0, <3>1, StepRows, RowKept DEF TableWritten
      <3>3. \A q \in (db.pdpools \ {p}) \ skewed' : ~Crowded(q, R \cup db.reservedPrefixes)
        BY <1>0, <3>1 DEF Ordinary, Reserved
      <3> QED
        BY <3>2, <3>3
    <2>3. CASE ReservedPdPoolCreate(p)
      <3>1. db' \in WithReservedPdPool([db EXCEPT !.reservedPrefixes = db.reservedPrefixes \cup {p}], p, -1)
            /\ skewed' = skewed \cup SkewedBy(db, {p})
        BY <2>3 DEF ReservedPdPoolCreate
      <3>2. TableWritten([db EXCEPT !.reservedPrefixes = db.reservedPrefixes \cup {p}])
        BY <1>0, <3>1, StepRows, ReservedPdPoolKept DEF TableWritten
      <3>3. \A q \in db.pdpools \ skewed' : ~Crowded(q, Reserved(db) \cup {p})
        BY <3>1 DEF SkewedBy
      <3>4. Reserved(db) \cup {p} = R \cup (db.reservedPrefixes \cup {p})
        BY DEF Reserved
      <3> QED
        BY <3>2, <3>3, <3>4
    <2>4. CASE ReservedPdPoolDelete(p)
      <3>1. db' \in WithReservedPdPool([db EXCEPT !.reservedPrefixes = db.reservedPrefixes \ {p}], p, 1)
            /\ skewed' = skewed \cup SkewedBy(db, {p})
        BY <2>4 DEF ReservedPdPoolDelete
      <3>2. TableWritten([db EXCEPT !.reservedPrefixes = db.reservedPrefixes \ {p}])
        BY <1>0, <3>1, StepRows, ReservedPdPoolKept DEF TableWritten
      <3>3. R \cup (db.reservedPrefixes \ {p}) \subseteq Reserved(db)
        BY DEF Reserved
      <3>4. \A q \in db.pdpools \ skewed' : ~Crowded(q, R \cup (db.reservedPrefixes \ {p}))
        <4> SUFFICES ASSUME NEW q \in db.pdpools \ skewed'
                     PROVE  ~Crowded(q, R \cup (db.reservedPrefixes \ {p}))
          OBVIOUS
        <4>1. q \in db.pdpools \ skewed
          BY <3>1
        <4> QED
          BY <1>0, <3>3, <4>1, NotCrowded
      <3> QED
        BY <3>2, <3>4
    <2> QED
      BY <2>1, <2>2, <2>3, <2>4
  <1>2. ~db.generates
    BY <1>0 DEF PdPoolCreate, PdPoolDelete, ReservedPdPoolCreate, ReservedPdPoolDelete,
       GeneratedHasNoRows, Rows
  <1>3. WritesRows(db.pools, db.reservedPools, c, x, db.reservations)
    BY <1>0, <1>1, <1>2, StepRows DEF WritesRows
  <1>4. \A q \in c \ skewed' : ~Crowded(q, (UNION {u.prefixes : u \in db.reservations}) \cup x)
    BY <1>1 DEF ReservedPrefixes
  <1>5. \A u \in db.reservations : u \in db.reservations \/ Valid(u)
    OBVIOUS
  <1> QED
    BY <1>0, <1>3, <1>4, <1>5, WrittenOrdinary

\* Reservations.
LEMMA ReservationsOrdinary ==
    ASSUME ImportIInv, NEW vs, NEW sign,
           \/ sign = -1 /\ ~db.generates /\ (\A v \in vs : Valid(v))
              /\ db' \in WithReservations([db EXCEPT !.reservations = @ \cup vs], vs, sign)
           \/ sign = 1 /\ vs \subseteq db.reservations /\ vs # {}
              /\ db' \in WithReservations([db EXCEPT !.reservations = @ \ vs], vs, sign),
           skewed \cup SkewedBy(db, PrefixesOf(vs)) \subseteq skewed'
    PROVE  Ordinary(db', skewed')
  <1>0. IsRecord(db) /\ Ordinary(db, skewed) /\ GeneratedHasNoRows
    BY BooksFacts DEF ImportIInv
  <1>1. PICK s : /\ TableWritten([db EXCEPT !.reservations = s])
                 /\ s \subseteq db.reservations \cup vs
                 /\ \A v \in s : v \in db.reservations \/ Valid(v)
                 /\ ~db.generates
    <2>1. CASE sign = -1 /\ ~db.generates /\ (\A v \in vs : Valid(v))
               /\ db' \in WithReservations([db EXCEPT !.reservations = db.reservations \cup vs], vs, sign)
      <3>1. TableWritten([db EXCEPT !.reservations = db.reservations \cup vs])
        BY <1>0, <2>1, StepRows, ReservationsKept DEF TableWritten
      <3> QED
        BY <2>1, <3>1
    <2>2. CASE sign = 1 /\ vs \subseteq db.reservations /\ vs # {}
               /\ db' \in WithReservations([db EXCEPT !.reservations = db.reservations \ vs], vs, sign)
      <3>1. TableWritten([db EXCEPT !.reservations = db.reservations \ vs])
        BY <1>0, <2>2, StepRows, ReservationsKept DEF TableWritten
      <3>2. ~db.generates
        BY <1>0, <2>2 DEF GeneratedHasNoRows
      <3> QED
        BY <3>1, <3>2
    <2> QED
      BY <2>1, <2>2
  <1>2. WritesRows(db.pools, db.reservedPools, db.pdpools, db.reservedPrefixes, s)
    BY <1>0, <1>1, StepRows DEF WritesRows
  <1>3. \A q \in db.pdpools \ skewed' :
           ~Crowded(q, (UNION {u.prefixes : u \in s}) \cup db.reservedPrefixes)
    <2> SUFFICES ASSUME NEW q \in db.pdpools \ skewed'
                 PROVE  ~Crowded(q, (UNION {u.prefixes : u \in s}) \cup db.reservedPrefixes)
      OBVIOUS
    <2>1. q \notin SkewedBy(db, PrefixesOf(vs))
      OBVIOUS
    <2>2. ~Crowded(q, Reserved(db) \cup PrefixesOf(vs))
      BY <2>1 DEF SkewedBy
    <2>3. (UNION {u.prefixes : u \in s}) \cup db.reservedPrefixes
             \subseteq Reserved(db) \cup PrefixesOf(vs)
      BY <1>1 DEF Reserved, ReservedPrefixes, PrefixesOf
    <2> QED
      BY <2>2, <2>3, CrowdedGrows
  <1>4. db.pools \cup db.reservedPools \subseteq db.pools \cup db.reservedPools
    OBVIOUS
  <1> QED
    BY <1>0, <1>1, <1>2, <1>3, <1>4, WrittenOrdinary

LEMMA ReleaseOrdinary ==
    ASSUME ImportIInv, NEW vs, vs \subseteq db.reservations, vs # {}, Release(vs)
    PROVE  Ordinary(db', skewed')
  <1>1. /\ db' \in WithReservations([db EXCEPT !.reservations = @ \ vs], vs, 1)
        /\ skewed' = skewed \cup PassedOver(IpsOf(vs)) \cup SkewedBy(db, PrefixesOf(vs))
    BY DEF Release, IpsOf, PrefixesOf
  <1>2. skewed \cup SkewedBy(db, PrefixesOf(vs)) \subseteq skewed'
    BY <1>1
  <1> QED
    BY <1>1, <1>2, ReservationsOrdinary

LEMMA ReservationOrdinary ==
    ASSUME ImportIInv, NEW v, Reservation6Create(v) \/ Reservation6BatchCreate(v)
    PROVE  Ordinary(db', skewed')
  <1>1. PICK vs : /\ \A w \in vs : Valid(w)
                  /\ db' \in WithReservations([db EXCEPT !.reservations = @ \cup vs], vs, -1)
                  /\ skewed \cup SkewedBy(db, PrefixesOf(vs)) \subseteq skewed'
    <2>1. CASE Reservation6Create(v)
      <3>1. PrefixesOf({v}) = v.prefixes
        BY DEF PrefixesOf
      <3>2. /\ Valid(v)
            /\ db' \in WithReservations([db EXCEPT !.reservations = @ \cup {v}], {v}, -1)
            /\ skewed' = skewed \cup SkewedBy(db, v.prefixes)
        BY <2>1 DEF Reservation6Create
      <3>3. skewed \cup SkewedBy(db, PrefixesOf({v})) \subseteq skewed'
        BY <3>1, <3>2
      <3>4. \A w \in {v} : Valid(w)
        BY <3>2
      <3> QED
        BY <3>2, <3>3, <3>4
    <2>2. CASE Reservation6BatchCreate(v)
      <3>1. PICK w : /\ Valid(w)
                     /\ db' \in WithReservations([db EXCEPT !.reservations = @ \cup {v, w}], {v, w}, -1)
                     /\ skewed' = skewed \cup SkewedBy(db, v.prefixes \cup w.prefixes)
        BY <2>2 DEF Reservation6BatchCreate
      <3>2. Valid(v)
        BY <2>2 DEF Reservation6BatchCreate
      <3>3. PrefixesOf({v, w}) = v.prefixes \cup w.prefixes
        BY DEF PrefixesOf
      <3>4. skewed \cup SkewedBy(db, PrefixesOf({v, w})) \subseteq skewed'
        BY <3>1, <3>3
      <3>5. \A u \in {v, w} : Valid(u)
        BY <3>1, <3>2
      <3> QED
        BY <3>1, <3>4, <3>5
    <2> QED
      BY <2>1, <2>2
  <1>2. ~db.generates
    BY DEF Reservation6Create, Reservation6BatchCreate
  <1> QED
    BY <1>1, <1>2, ReservationsOrdinary

LEMMA GenerateOrdinary ==
    ASSUME ImportIInv, GenerateOn \/ GenerateOff
    PROVE  Ordinary(db', skewed')
  <1>0. IsRecord(db) /\ Ordinary(db, skewed) /\ GeneratedHasNoRows
    BY BooksFacts DEF ImportIInv
  <1>1. PICK b \in BOOLEAN, n \in {Generated, 0} :
           db' = [db EXCEPT !.generates = b, !.capacity = n] /\ (b => n = Generated)
    BY DEF GenerateOn, GenerateOff
  <1>2. /\ db'.mask = db.mask /\ db'.generates = b /\ db'.capacity = n
        /\ db'.pools = db.pools /\ db'.pdpools = db.pdpools
        /\ db'.reservedPools = db.reservedPools
        /\ db'.reservedPrefixes = db.reservedPrefixes /\ db'.reservations = db.reservations
    BY <1>0, <1>1 DEF IsRecord, Columns
  <1>3. Reserved(db') = Reserved(db) /\ skewed' = skewed
    BY <1>2 DEF Reserved, ReservedPrefixes, GenerateOn, GenerateOff
  <1> QED
    BY <1>0, <1>1, <1>2, <1>3 DEF Ordinary

LEMMA InitOrdinary == Init => ImportIInv
  <1> SUFFICES ASSUME Init PROVE Ordinary(db, skewed)
    BY InitBooks DEF ImportIInv
  <1>1. /\ db.pools = {} /\ db.reservedPools = {} /\ db.pdpools = {} /\ db.reservations = {}
        /\ (db.generates => db.capacity = Generated)
    BY DEF Init
  <1> QED
    BY <1>1 DEF Ordinary

LEMMA NextKeepsOrdinary == ImportIInv /\ [Next]_vars => ImportIInv'
  <1> SUFFICES ASSUME ImportIInv, [Next]_vars PROVE Ordinary(db', skewed')
    BY NextKeepsBooks DEF ImportIInv
  <1>0. Ordinary(db, skewed)
    BY DEF ImportIInv
  <1>1. ASSUME NEW v, \/ Reservation6Delete(v) \/ AutoReservation6Delete(v)
                      \/ \E w \in db.reservations : Reservation6BatchDelete(v, w)
        PROVE  Ordinary(db', skewed')
    <2>1. PICK vs : vs \subseteq db.reservations /\ vs # {} /\ Release(vs)
      <3>1. CASE Reservation6Delete(v) \/ AutoReservation6Delete(v)
        <4>1. v \in db.reservations /\ Release({v})
          BY <3>1, Zenon DEF Reservation6Delete, AutoReservation6Delete
        <4>2. {v} \subseteq db.reservations /\ {v} # {}
          BY <4>1
        <4> QED
          BY <4>1, <4>2
      <3>2. ASSUME NEW w \in db.reservations, Reservation6BatchDelete(v, w)
            PROVE  \E vs : vs \subseteq db.reservations /\ vs # {} /\ Release(vs)
        <4>1. {v, w} \subseteq db.reservations /\ Release({v, w})
          BY <3>2 DEF Reservation6BatchDelete
        <4>2. {v, w} # {}
          OBVIOUS
        <4> QED
          BY <4>1, <4>2
      <3> QED
        BY <1>1, <3>1, <3>2
    <2> QED
      BY <2>1, ReleaseOrdinary
  <1>2. ASSUME \/ \E l \in [client: Clients, ip: Ip] : GrantLease(l)
               \/ \E l \in [client: Clients, prefix: PrefixesBy[db.mask]] : Delegate(l)
               \/ EndLeases
               \/ UNCHANGED vars
        PROVE  Ordinary(db', skewed')
    <2>1. db' = db /\ skewed' = skewed
      BY <1>2 DEF GrantLease, Delegate, EndLeases, vars
    <2> QED
      BY <1>0, <2>1
  <1>3. ASSUME NEW p \in PoolRow,
               \/ Pool6Create(p) \/ Pool6Delete(p) \/ ReservedPool6Create(p)
               \/ ReservedPool6BatchCreate(p) \/ ReservedPool6Delete(p)
        PROVE  Ordinary(db', skewed')
    BY <1>3, PoolsOrdinary
  <1>4. ASSUME NEW p, \/ PdPoolCreate(p) \/ PdPoolDelete(p)
                      \/ ReservedPdPoolCreate(p) \/ ReservedPdPoolDelete(p)
        PROVE  Ordinary(db', skewed')
    BY <1>4, PdPoolsOrdinary
  <1>5. ASSUME NEW v, Reservation6Create(v) \/ Reservation6BatchCreate(v)
        PROVE  Ordinary(db', skewed')
    BY <1>5, ReservationOrdinary
  <1>6. CASE GenerateOn \/ GenerateOff
    BY <1>6, GenerateOrdinary
  <1> QED
    BY <1>1, <1>2, <1>3, <1>4, <1>5, <1>6 DEF Next

-----------------------------------------------------------------------------
(***************************************************************************)
(* The line of a subnet, and its import                                    *)
(***************************************************************************)
\* A reservation as a line has it.
Plain(v) == [v EXCEPT !.auto = FALSE]

LEMMA AutoChanged ==
    ASSUME NEW v, NEW w, NEW b, w = [v EXCEPT !.auto = b],
           DOMAIN v = {"client", "ips", "prefixes", "auto"}
    PROVE  /\ w.client = v.client /\ w.ips = v.ips /\ w.prefixes = v.prefixes
           /\ [w EXCEPT !.auto = b] = w
  OBVIOUS

LEMMA PlainReservation ==
    ASSUME NEW mask \in Masks, NEW v \in ReservationsBy[mask]
    PROVE  /\ Plain(v).client = v.client /\ Plain(v).ips = v.ips
           /\ Plain(v).prefixes = v.prefixes
           /\ Plain(Plain(v)) = Plain(v) /\ (Valid(Plain(v)) <=> Valid(v))
  <1>1. v \in ReservationRow(mask)
    BY DEF ReservationsBy
  <1>2. DOMAIN v = {"client", "ips", "prefixes", "auto"}
    BY <1>1 DEF ReservationRow
  <1>3. PICK w : w = [v EXCEPT !.auto = FALSE]
    BY Zenon
  <1>4. /\ w.client = v.client /\ w.ips = v.ips /\ w.prefixes = v.prefixes
        /\ [w EXCEPT !.auto = FALSE] = w
    BY <1>2, <1>3, AutoChanged, Zenon
  <1>5. Plain(v) = w /\ Plain(w) = w
    BY <1>3, <1>4, Zenon DEF Plain
  <1> QED
    BY <1>4, <1>5 DEF Valid

\* What a line has of the subnet.
IsLine(line) ==
    /\ line.mask = db.mask /\ line.generates = db.generates
    /\ line.pools = db.pools /\ line.reservedPools = db.reservedPools
    /\ line.pdpools = db.pdpools
    /\ line.reservations = {Plain(v) : v \in db.reservations}

LEMMA LineFields == IsLine(Line6(db))
  BY DEF IsLine, Line6, Plain

LEMMA LineReservations ==
    ASSUME BooksIInv, NEW line, IsLine(line)
    PROVE  /\ IsFiniteSet(line.reservations)
           /\ \A u \in line.reservations : \E v \in db.reservations :
                /\ u = Plain(v) /\ u.client = v.client /\ u.ips = v.ips
                /\ u.prefixes = v.prefixes /\ Plain(u) = u /\ (Valid(u) <=> Valid(v))
           /\ {Plain(u) : u \in line.reservations} = line.reservations
           /\ IpsOf(line.reservations) = IpsOf(db.reservations)
           /\ PrefixesOf(line.reservations) = PrefixesOf(db.reservations)
  <1> DEFINE V == db.reservations
             F == [v \in V |-> Plain(v)]
  <1>0. IsFiniteSet(V) /\ V \subseteq ReservationsBy[db.mask] /\ db.mask \in Masks
    BY BooksFacts DEF Typed
  <1>1. line.reservations = {Plain(v) : v \in V}
    BY DEF IsLine
  <1>2. F \in Surjection(V, line.reservations)
    BY <1>1 DEF Surjection
  <1>3. IsFiniteSet(line.reservations)
    BY <1>0, <1>2, FS_Surjection
  <1>4. ASSUME NEW v \in V
        PROVE  /\ Plain(v).client = v.client /\ Plain(v).ips = v.ips
               /\ Plain(v).prefixes = v.prefixes
               /\ Plain(Plain(v)) = Plain(v) /\ (Valid(Plain(v)) <=> Valid(v))
    BY <1>0, PlainReservation
  <1> HIDE DEF F
  <1>5. \A u \in line.reservations : \E v \in V :
                /\ u = Plain(v) /\ u.client = v.client /\ u.ips = v.ips
                /\ u.prefixes = v.prefixes /\ Plain(u) = u /\ (Valid(u) <=> Valid(v))
    BY <1>1, <1>4
  <1>6. {Plain(u) : u \in line.reservations} = line.reservations
    BY <1>5
  <1>7. \A v \in V : Plain(v) \in line.reservations
    BY <1>1
  <1>8. IpsOf(line.reservations) = IpsOf(V)
    BY <1>4, <1>5, <1>7 DEF IpsOf
  <1>9. PrefixesOf(line.reservations) = PrefixesOf(V)
    BY <1>4, <1>5, <1>7 DEF PrefixesOf
  <1> QED
    BY <1>3, <1>5, <1>6, <1>8, <1>9

LEMMA LineCounts ==
    ASSUME BooksIInv, NEW line, IsLine(line)
    PROVE  /\ ReservedIps(line) = ReservedIps(db)
           /\ ReservedPrefixes(line) = ReservedPrefixes(db)
           /\ Taken(line) = Taken(db)
           /\ Total(line.reservations) = Total(db.reservations)
           /\ Total(db.reservations) \in Int
  <1> DEFINE V == db.reservations
             W == line.reservations
  <1>0. /\ IsFiniteSet(V) /\ V \subseteq ReservationsBy[db.mask] /\ db.mask \in Masks
        /\ RangesApart
    BY BooksFacts DEF Typed
  <1>1. /\ IsFiniteSet(W) /\ IpsOf(W) = IpsOf(V) /\ PrefixesOf(W) = PrefixesOf(V)
        /\ \A u \in W : \E v \in V :
             u = Plain(v) /\ u.ips = v.ips /\ u.prefixes = v.prefixes
    BY LineReservations
  <1>2. ReservedIps(line) = ReservedIps(db) /\ ReservedPrefixes(line) = ReservedPrefixes(db)
    BY <1>1 DEF ReservedIps, ReservedPrefixes, IpsOf, PrefixesOf
  <1>3. Taken(line) = Taken(db)
    BY <1>2, Zenon DEF Taken, IsLine
  <1>4. \A v \in V : IsFiniteSet(v.ips) /\ IsFiniteSet(v.prefixes)
    BY <1>0, ReservationType
  <1>5. \A u, v \in V : u # v => u.ips \cap v.ips = {} /\ u.prefixes \cap v.prefixes = {}
    BY <1>0 DEF RangesApart
  <1>6. \A v \in W : IsFiniteSet(v.ips) /\ IsFiniteSet(v.prefixes)
    BY <1>1, <1>4
  <1>7. \A u, v \in W : u # v => u.ips \cap v.ips = {} /\ u.prefixes \cap v.prefixes = {}
    <2> SUFFICES ASSUME NEW u \in W, NEW v \in W, u # v
                 PROVE  u.ips \cap v.ips = {} /\ u.prefixes \cap v.prefixes = {}
      OBVIOUS
    <2>1. PICK a \in V : u = Plain(a) /\ u.ips = a.ips /\ u.prefixes = a.prefixes
      BY <1>1
    <2>2. PICK b \in V : v = Plain(b) /\ v.ips = b.ips /\ v.prefixes = b.prefixes
      BY <1>1
    <2>3. a # b
      BY <2>1, <2>2
    <2> QED
      BY <1>5, <2>1, <2>2, <2>3
  <1> HIDE DEF V, W
  <1> DEFINE E == {}
  <1>8. E \cup V = V /\ E \cup W = W /\ E \cap V = {} /\ E \cap W = {} /\ IsFiniteSet(E)
    BY FS_EmptySet
  <1>9. Total(E) = 0
    BY NoTotal
  <1> HIDE DEF E
  <1>10. /\ Total(V) = Cardinality(IpsOf(V)) + Cardinality(PrefixesOf(V))
         /\ Total(V) \in Int
    <2>1. /\ IsFiniteSet(IpsOf(V)) /\ IsFiniteSet(PrefixesOf(V)) /\ Total(E \cup V) \in Int
          /\ Total(E \cup V) = Total(E) + (Cardinality(IpsOf(V)) + Cardinality(PrefixesOf(V)))
      BY <1>0, <1>4, <1>5, <1>8, TotalAdded DEF V
    <2>2. Cardinality(IpsOf(V)) \in Nat /\ Cardinality(PrefixesOf(V)) \in Nat
      BY <2>1, FS_CardinalityType
    <2>3. Total(E \cup V) = Total(V)
      BY <1>8, Zenon
    <2> QED
      BY <1>9, <2>1, <2>2, <2>3
  <1>11. Total(W) = Cardinality(IpsOf(W)) + Cardinality(PrefixesOf(W))
    <2>1. /\ IsFiniteSet(IpsOf(W)) /\ IsFiniteSet(PrefixesOf(W))
          /\ Total(E \cup W) = Total(E) + (Cardinality(IpsOf(W)) + Cardinality(PrefixesOf(W)))
      BY <1>1, <1>6, <1>7, <1>8, TotalAdded
    <2>2. Cardinality(IpsOf(W)) \in Nat /\ Cardinality(PrefixesOf(W)) \in Nat
      BY <2>1, FS_CardinalityType
    <2>3. Total(E \cup W) = Total(W)
      BY <1>8, Zenon
    <2> QED
      BY <1>9, <2>1, <2>2, <2>3
  <1>12. Total(W) = Total(V)
    BY <1>1, <1>10, <1>11, Zenon
  <1> QED
    BY <1>2, <1>3, <1>10, <1>12 DEF V, W

\* The import refuses no exported line.
LEMMA LineIsAccepted ==
    ASSUME ImportIInv, NEW line, IsLine(line)
    PROVE  CanImportSubnet6(line)
  <1>0. BooksIInv /\ RangesApart /\ GeneratedHasNoRows /\ Ordinary(db, skewed)
    BY BooksFacts DEF ImportIInv
  <1>1. /\ ReservedIps(line) = ReservedIps(db)
        /\ \A u \in line.reservations : \E v \in db.reservations :
             /\ u = Plain(v) /\ u.client = v.client /\ u.ips = v.ips
             /\ u.prefixes = v.prefixes /\ (Valid(u) <=> Valid(v))
    BY <1>0, LineReservations, LineCounts
  <1>2. /\ line.mask = db.mask /\ line.generates = db.generates
        /\ line.pools = db.pools /\ line.reservedPools = db.reservedPools
        /\ line.pdpools = db.pdpools
    BY DEF IsLine
  <1>3. db.generates => /\ db.pools = {} /\ db.pdpools = {} /\ db.reservedPools = {}
                        /\ db.reservations = {}
    BY <1>0 DEF GeneratedHasNoRows, Rows
  <1>4. CanImportReservation6s(line)
    <2>1. line.reservations # {} => ~line.generates
      BY <1>1, <1>2, <1>3
    <2>2. \A v \in line.reservations : Valid(v)
      BY <1>0, <1>1 DEF Ordinary
    <2>3. ASSUME NEW u \in line.reservations, NEW v \in line.reservations, u # v
          PROVE  u.client # v.client /\ u.ips \cap v.ips = {} /\ u.prefixes \cap v.prefixes = {}
      <3>1. PICK a \in db.reservations : /\ u = Plain(a) /\ u.client = a.client
                                         /\ u.ips = a.ips /\ u.prefixes = a.prefixes
        BY <1>1
      <3>2. PICK b \in db.reservations : /\ v = Plain(b) /\ v.client = b.client
                                         /\ v.ips = b.ips /\ v.prefixes = b.prefixes
        BY <1>1
      <3>3. a # b
        BY <2>3, <3>1, <3>2
      <3> QED
        BY <1>0, <3>1, <3>2, <3>3 DEF RangesApart
    <2> QED
      BY <2>1, <2>2, <2>3 DEF CanImportReservation6s
  <1>5. CanImportReservedPool6s(line)
    BY <1>0, <1>1, <1>2, <1>3 DEF CanImportReservedPool6s, Ordinary, RangesApart
  <1>6. CanImportPool6s(line)
    BY <1>0, <1>2, <1>3 DEF CanImportPool6s, Ordinary, RangesApart
  <1>7. CanImportPdPools(line)
    BY <1>0, <1>2, <1>3 DEF CanImportPdPools, RangesApart
  <1> QED
    BY <1>4, <1>5, <1>6, <1>7 DEF CanImportSubnet6

\* The loop over reserved prefixes always ends with some number.
LEMMA LeftSome ==
    ASSUME NEW p, NEW n, NEW S, IsFiniteSet(S)
    PROVE  LeftAfter(p, n, S) # {}
  <1>1. PICK g : IsLeft(p, n, S, g) /\ LeftAfter(p, n, S) = g[S]
    BY LeftIs
  <1> DEFINE C == {T \in SUBSET S : g[T] # {}}
  <1>2. {} \in C
    <2>1. g[{}] = {n}
      BY <1>1 DEF Left, IsLeft
    <2> QED
      BY <2>1
  <1>3. ASSUME NEW T \in SUBSET S, T # {}, \A x \in T : T \ {x} \in C PROVE T \in C
    <2>1. g[T] = Left(p, n, T, g)
      BY <1>1 DEF IsLeft
    <2>2. PICK x \in T : T \ {x} \in C
      BY <1>3
    <2>3. PICK m : m \in g[T \ {x}]
      BY <2>2
    <2> DEFINE Less(y, k) == IF k = 0 /\ T # {y} THEN 0 ELSE k - PdPoolReservedCount(p, y.len)
    <2>4. Left(p, n, T, g) = UNION {{Less(y, k) : k \in g[T \ {y}]} : y \in T}
      BY <1>3, Zenon DEF Left
    <2> HIDE DEF Less
    <2>5. Less(x, m) \in Left(p, n, T, g)
      <3> DEFINE X == {Less(x, k) : k \in g[T \ {x}]}
      <3>1. Less(x, m) \in X
        BY <2>3, Zenon
      <3>2. X \in {{Less(y, k) : k \in g[T \ {y}]} : y \in T}
        BY <2>2, Zenon
      <3> QED
        BY <2>4, <3>1, <3>2, Zenon
    <2> QED
      BY <2>1, <2>5
  <1> HIDE DEF C
  <1>4. SUBSET S \subseteq C
    BY <1>2, <1>3, SetInduction
  <1> QED
    BY <1>1, <1>4 DEF C

\* No shortcut has touched the row, and no reserved prefix pool, which files
\* leave out, meets it.
Carried(p) ==
    p \notin skewed /\ (p \in db.pdpools => \A x \in db.reservedPrefixes : ~Meets(p.prefix, x))

LEMMA PoolImported ==
    ASSUME BooksIInv, NEW line, IsLine(line), NEW p \in db.pools
    PROVE  /\ ImportedPool6Capacity(line, p) \in Int
           /\ p \notin skewed => ImportedPool6Capacity(line, p) = db.capacityOf[p]
  <1>0. /\ db.pools \subseteq PoolRow /\ Typed(db) /\ RangesApart /\ Exact(db, skewed)
    BY BooksFacts
  <1>1. /\ line.reservedPools = db.reservedPools /\ ReservedIps(line) = ReservedIps(db)
        /\ Taken(line) = Taken(db)
    BY LineCounts DEF IsLine
  <1>2. /\ line.reservedPools \subseteq PoolRow /\ IsFiniteSet(line.reservedPools)
        /\ \A q, r \in line.reservedPools : q # r => ~Overlaps(q, r)
        /\ \A r \in line.reservedPools : Ips(r) \cap ReservedIps(line) = {}
    BY <1>0, <1>1 DEF Typed, RangesApart
  <1>3. p \in PoolRow
    BY <1>0
  <1>4. /\ Pool6Capacity(line, p) \in Int
        /\ Pool6Capacity(line, p) = Cardinality(Ips(p) \ Taken(line))
    BY <1>2, <1>3, PoolCount
  <1>5. Pool6Capacity(line, p) = Cardinality(Ips(p) \ Taken(db))
    BY <1>1, <1>4, Zenon
  <1>6. p \notin skewed => db.capacityOf[p] = Cardinality(Ips(p) \ Taken(db))
    BY <1>0 DEF Exact
  <1> QED
    BY <1>4, <1>5, <1>6, Zenon DEF ImportedPool6Capacity

LEMMA PdPoolImported ==
    ASSUME ImportIInv, NEW line, IsLine(line), NEW p \in db.pdpools
    PROVE  /\ ImportedPdPoolCapacities(line, p) # {}
           /\ ImportedPdPoolCapacities(line, p) \subseteq Int
           /\ Carried(p) => ImportedPdPoolCapacities(line, p) = {db.capacityOf[p]}
  <1> DEFINE A == ReservedPrefixes(db)
             M == {x \in A : Meets(p.prefix, x)}
             n == TwoTo[p.delegated - p.prefix.len]
             c == [x \in A |-> PdPoolReservedCount(p, x.len)]
             k == Cardinality(FreeBlocks(p, A))
  <1>0. /\ BooksIInv /\ db.mask \in Nat /\ p \in PdPoolRow(db.mask) /\ Exact(db, skewed)
        /\ Ordinary(db, skewed)
    BY BooksFacts DEF ImportIInv
  <1>1. /\ A \in SUBSET PrefixOf(db.mask) /\ IsFiniteSet(A)
        /\ db.reservedPrefixes \subseteq PrefixOf(db.mask)
        /\ Reserved(db) = A \cup db.reservedPrefixes
    BY <1>0, ReservedFacts
  <1>2. ImportedPdPoolCapacities(line, p) = LeftAfter(p, n, M)
    <2>1. ReservedPrefixes(line) = A
      BY <1>0, LineCounts
    <2> QED
      BY <2>1, Zenon DEF ImportedPdPoolCapacities
  <1>3. IsFiniteSet(M) /\ M \subseteq A
    BY <1>1, FS_Subset
  <1>4. n \in PNat /\ n \in Int /\ n = Cardinality(Blocks(p))
    BY <1>0, PdPoolType, BlocksCount DEF PNat
  <1>5. \A x \in A : PdPoolReservedCount(p, x.len) \in PNat /\ c[x] = PdPoolReservedCount(p, x.len)
    BY <1>0, <1>1, MetBlocksCount
  <1>6. M = {x \in A : Meets(p.prefix, x)}
    OBVIOUS
  <1>7. FreeBlocks(p, {}) = Blocks(p)
    BY DEF FreeBlocks
  <1> HIDE DEF A, M, n, c
  <1>8. LeftAfter(p, n, M) \subseteq Int
    <2>1. \A x \in M : PdPoolReservedCount(p, x.len) \in Int
      BY <1>3, <1>5 DEF PNat
    <2> QED
      BY <1>3, <1>4, <2>1, LeftType
  <1>9. LeftAfter(p, n, M) # {}
    BY <1>3, LeftSome
  <1>10. ASSUME Carried(p) PROVE LeftAfter(p, n, M) = {db.capacityOf[p]}
    <2>1. ~Crowded(p, A)
      <3>1. ~Crowded(p, Reserved(db))
        BY <1>0, <1>10 DEF Carried, Ordinary
      <3> QED
        BY <1>1, <3>1, CrowdedGrows
    <2>2. SumFunctionOnSet(c, M) \in Nat /\ k \in Nat /\ n = k + SumFunctionOnSet(c, M)
      <3>1. TakesBlocks(db.mask, p, A, {}, A, M, c)
        BY <1>0, <1>1, <1>3, <1>5, <1>6, <2>1 DEF TakesBlocks
      <3>2. Cardinality(FreeBlocks(p, {})) = n
        BY <1>4, <1>7, Zenon
      <3> QED
        BY <3>1, <3>2, BlocksAreTaken
    <2>3. FreeBlocks(p, A) = FreeBlocks(p, Reserved(db))
      <3>1. ASSUME NEW x \in db.reservedPrefixes, NEW b \in Blocks(p) PROVE ~Meets(x, b)
        <4>1. ~Meets(p.prefix, x)
          BY <1>10 DEF Carried
        <4>2. MetBlocks(p, x) = {}
          BY <1>0, <1>1, <4>1, MetBlocksCount
        <4> QED
          BY <4>2 DEF MetBlocks
      <3> QED
        BY <1>1, <3>1 DEF FreeBlocks
    <2>4. db.capacityOf[p] = k
      <3>1. db.capacityOf[p] = Cardinality(FreeBlocks(p, Reserved(db)))
        BY <1>0, <1>10 DEF Exact, Carried
      <3> QED
        BY <2>3, <3>1, Zenon
    <2> HIDE DEF k
    <2>5. LeftAfter(p, n, M) = {n - SumFunctionOnSet(c, M)}
      <3>1. \A x \in M : c[x] = PdPoolReservedCount(p, x.len) /\ c[x] \in PNat
        BY <1>3, <1>5
      <3>2. SumFunctionOnSet(c, M) <= n
        BY <2>2
      <3> QED
        BY <1>3, <1>4, <3>1, <3>2, LeftExact
    <2>6. n - SumFunctionOnSet(c, M) = k
      BY <2>2
    <2> QED
      BY <2>4, <2>5, <2>6
  <1> QED
    BY <1>2, <1>8, <1>9, <1>10

\* The capacities that the import may give a row.
CapacitiesOf(line, p) ==
    IF p \in line.pools THEN {ImportedPool6Capacity(line, p)}
    ELSE ImportedPdPoolCapacities(line, p)

LEMMA RowImported ==
    ASSUME ImportIInv, NEW line, IsLine(line), NEW p \in Rows
    PROVE  /\ CapacitiesOf(line, p) # {} /\ CapacitiesOf(line, p) \subseteq Int
           /\ Carried(p) => CapacitiesOf(line, p) = {db.capacityOf[p]}
  <1>0. BooksIInv /\ line.pools = db.pools
    BY DEF ImportIInv, IsLine
  <1>1. CASE p \in db.pools
    <2>1. CapacitiesOf(line, p) = {ImportedPool6Capacity(line, p)}
      BY <1>0, <1>1 DEF CapacitiesOf
    <2>2. /\ ImportedPool6Capacity(line, p) \in Int
          /\ p \notin skewed => ImportedPool6Capacity(line, p) = db.capacityOf[p]
      BY <1>0, <1>1, PoolImported
    <2> QED
      BY <2>1, <2>2 DEF Carried
  <1>2. CASE p \notin db.pools
    <2>1. CapacitiesOf(line, p) = ImportedPdPoolCapacities(line, p) /\ p \in db.pdpools
      BY <1>0, <1>2 DEF CapacitiesOf, Rows
    <2> QED
      BY <2>1, PdPoolImported
  <1> QED
    BY <1>1, <1>2

\* A subnet that the import of a line makes.
Makes(line, f, new) ==
    /\ DOMAIN f = line.pools \cup line.pdpools
    /\ \A p \in line.pools \cup line.pdpools : f[p] \in CapacitiesOf(line, p)
    /\ new.mask = line.mask /\ new.generates = line.generates
    /\ new.pools = line.pools /\ new.reservedPools = line.reservedPools
    /\ new.pdpools = line.pdpools /\ new.reservations = line.reservations
    /\ new.capacityOf = f
    /\ new.capacity = IF line.generates THEN Generated
                      ELSE Total(line.reservations) + SumFunction(f)

LEMMA ImportMakes ==
    ASSUME NEW line, NEW new \in ImportSubnet6(line)
    PROVE  \E f : Makes(line, f, new)
  <1> DEFINE rows == line.pools \cup line.pdpools
             New(f, n) == [mask |-> line.mask, generates |-> line.generates,
                           pools |-> line.pools, reservedPools |-> line.reservedPools,
                           pdpools |-> line.pdpools, reservedPrefixes |-> {},
                           reservations |-> line.reservations, capacityOf |-> f,
                           capacity |-> IF line.generates THEN Generated ELSE n]
  <1>1. PICK f \in [rows -> UNION {CapacitiesOf(line, p) : p \in rows}] :
           /\ \A p \in rows : f[p] \in CapacitiesOf(line, p)
           /\ new = New(f, Total(line.reservations) + SumFunction(f))
    BY Zenon DEF ImportSubnet6, CapacitiesOf, Total
  <1>2. DOMAIN f = rows
    OBVIOUS
  <1>3. PICK n : n = Total(line.reservations) + SumFunction(f)
    OBVIOUS
  <1> HIDE DEF rows
  <1> QED
    BY <1>1, <1>2, <1>3 DEF Makes, rows

LEMMA ImportSome ==
    ASSUME NEW line, \A p \in line.pools \cup line.pdpools : CapacitiesOf(line, p) # {}
    PROVE  ImportSubnet6(line) # {}
  <1> DEFINE rows == line.pools \cup line.pdpools
             f == [p \in rows |-> CHOOSE c \in CapacitiesOf(line, p) : TRUE]
  <1>1. \A p \in rows : f[p] \in CapacitiesOf(line, p)
    OBVIOUS
  <1>2. f \in [rows -> UNION {CapacitiesOf(line, p) : p \in rows}]
    OBVIOUS
  <1> HIDE DEF f
  <1> QED
    BY <1>1, <1>2 DEF ImportSubnet6, CapacitiesOf

LEMMA LineReturns ==
    ASSUME ImportIInv
    PROVE  ExportedSubnet6Imports
  <1> DEFINE line == Line6(db)
  <1>0. BooksIInv /\ IsLine(line) /\ Ordinary(db, skewed) /\ Counted(db) /\ Exact(db, skewed)
    BY LineFields, BooksFacts DEF ImportIInv
  <1>1. CanImportSubnet6(line)
    BY <1>0, LineIsAccepted
  <1>2. line.pools \cup line.pdpools = Rows
    BY <1>0 DEF IsLine, Rows
  <1>3. ImportSubnet6(line) # {}
    <2> HIDE DEF line
    <2> QED
      BY <1>0, <1>2, RowImported, ImportSome
  <1>4. ASSUME NEW new \in ImportSubnet6(line)
        PROVE  /\ Line6(new) = line
               /\ \A p \in Rows : Carried(p) => new.capacityOf[p] = db.capacityOf[p]
               /\ (\A p \in Rows : Carried(p)) => new.capacity = db.capacity
    <2>1. PICK f : Makes(line, f, new)
      BY <1>4, ImportMakes, Zenon
    <2>2. Line6(new) = line
      <3>1. {Plain(u) : u \in new.reservations} = line.reservations
        <4>1. {Plain(u) : u \in line.reservations} = line.reservations
          BY <1>0, LineReservations
        <4> QED
          BY <2>1, <4>1, Zenon DEF Makes
      <3>2. {[v EXCEPT !.auto = FALSE] : v \in new.reservations} = line.reservations
        BY <3>1, Zenon DEF Plain
      <3>3. line = [mask |-> line.mask, generates |-> line.generates,
                    pools |-> line.pools, reservedPools |-> line.reservedPools,
                    pdpools |-> line.pdpools, reservations |-> line.reservations]
        BY DEF Line6
      <3> HIDE DEF line
      <3>4. Line6(new) = [mask |-> line.mask, generates |-> line.generates,
                    pools |-> line.pools, reservedPools |-> line.reservedPools,
                    pdpools |-> line.pdpools, reservations |-> line.reservations]
        BY <2>1, <3>2, Zenon DEF Line6, Makes
      <3> QED
        BY <3>3, <3>4, Zenon
    <2> HIDE DEF line
    <2>3. ASSUME NEW p \in Rows PROVE f[p] \in Int /\ (Carried(p) => f[p] = db.capacityOf[p])
      <3>1. f[p] \in CapacitiesOf(line, p)
        BY <1>2, <2>1 DEF Makes
      <3> QED
        BY <1>0, <3>1, RowImported
    <2>4. \A p \in Rows : Carried(p) => new.capacityOf[p] = db.capacityOf[p]
      BY <2>1, <2>3 DEF Makes
    <2>5. ASSUME \A p \in Rows : Carried(p), db.generates PROVE new.capacity = db.capacity
      BY <1>0, <2>1, <2>5 DEF Makes, IsLine, Ordinary
    <2>6. ASSUME \A p \in Rows : Carried(p), ~db.generates PROVE new.capacity = db.capacity
      <3>1. new.capacity = Total(line.reservations) + SumFunction(f) /\ DOMAIN f = Rows
        BY <1>0, <1>2, <2>1, <2>6 DEF Makes, IsLine
      <3>2. SumFunction(f) = SumFunctionOnSet(f, Rows)
        BY <3>1, Zenon DEF SumFunction
      <3>3. IsFiniteSet(Rows) /\ Rows = RowsOf(db)
        BY <1>0, BesidesType DEF Rows, RowsOf
      <3>4. SumFunctionOnSet(f, Rows) = SumFunctionOnSet(db.capacityOf, Rows)
        BY <2>3, <2>6, <3>3, SumEqual
      <3>5. /\ db.capacity = SumFunctionOnSet(db.capacityOf, Rows) + Besides(db)
            /\ SumFunctionOnSet(db.capacityOf, Rows) \in Int
        BY <1>0, <3>3, BesidesType
      <3>6. Besides(db) = Total(db.reservations)
        BY <1>0, <2>6 DEF Exact
      <3>7. Total(line.reservations) = Total(db.reservations) /\ Total(db.reservations) \in Int
        BY <1>0, LineCounts
      <3> QED
        BY <3>1, <3>2, <3>4, <3>5, <3>6, <3>7
    <2> QED
      BY <2>2, <2>4, <2>5, <2>6
  <1> QED
    BY <1>1, <1>3, <1>4, Zenon DEF ExportedSubnet6Imports, Carried

\* For any masks and ranges the exported line of a subnet, whatever requests
\* have made of it, passes the checks of the import, which makes a subnet of
\* the same line, with the capacities that the handlers have kept for the rows
\* that no shortcut has touched and no reserved prefix pool lies in.
THEOREM ExportedSubnet6sImport == Spec => []ExportedSubnet6Imports
  <1>1. ImportIInv => ExportedSubnet6Imports
    BY LineReturns
  <1> QED
    BY <1>1, InitOrdinary, NextKeepsOrdinary, PTL DEF Spec

-----------------------------------------------------------------------------
(***************************************************************************)
(* Shared networks                                                         *)
(***************************************************************************)
\* The nodes that a request gives to a subnet are nodes.
Proper(q) == q.op \in {"SubnetCreate", "UpdateNodes"} => q.nodes \in SUBSET Nodes

Types ==
    /\ \A s \in DOMAIN subnets : subnets[s] \in SUBSET Nodes
    /\ req = [w \in Workers |-> req[w]]
    /\ \A w \in Workers : Proper(req[w])
    /\ raced \in BOOLEAN

\* Sets of subnets, and the nodes that serve them.
SharesNode(ids, f) == \E node \in Nodes : \A s \in ids \cap DOMAIN f : node \in f[s]

InOrder(f, g) ==
    /\ \A n \in DOMAIN g : g[n] \subseteq DOMAIN f
    /\ \A m, n \in DOMAIN g : m # n => g[m] \cap g[n] = {}
    /\ \A n \in DOMAIN g : SharesNode(g[n], f)

NetworksIInv == Types /\ (HA /\ ~raced => InOrder(subnets, networks))

-----------------------------------------------------------------------------
(***************************************************************************)
(* What each commit does to subnets and networks in order                  *)
(***************************************************************************)
\* A new subnet is in no network, as networks have only subnets that exist.
LEMMA CreateInOrder ==
    ASSUME NEW f, NEW g, NEW h, InOrder(f, g),
           DOMAIN f \subseteq DOMAIN h, \A s \in DOMAIN f : h[s] = f[s]
    PROVE  InOrder(h, g)
  <1>1. ASSUME NEW n \in DOMAIN g
        PROVE  SharesNode(g[n], h)
    <2>1. g[n] \subseteq DOMAIN f /\ SharesNode(g[n], f)
      BY DEF InOrder
    <2> QED
      BY <2>1 DEF SharesNode
  <1> QED
    BY <1>1 DEF InOrder

\* Subnets that no network uses may go, or change.
LEMMA UnusedInOrder ==
    ASSUME NEW f, NEW g, NEW h, NEW k, InOrder(f, g), \A n \in DOMAIN g : k \notin g[n],
           DOMAIN f \ {k} \subseteq DOMAIN h, \A s \in DOMAIN f \ {k} : h[s] = f[s]
    PROVE  InOrder(h, g)
  <1>1. ASSUME NEW n \in DOMAIN g
        PROVE  g[n] \subseteq DOMAIN h /\ SharesNode(g[n], h)
    <2>1. g[n] \subseteq DOMAIN f \ {k} /\ SharesNode(g[n], f)
      BY DEF InOrder
    <2> QED
      BY <2>1 DEF SharesNode
  <1> QED
    BY <1>1 DEF InOrder

LEMMA NetworkInOrder ==
    ASSUME NEW f, NEW g, NEW h, NEW k, NEW ids, InOrder(f, g),
           ids \subseteq DOMAIN f, SharesNode(ids, f),
           \A m \in DOMAIN g \ {k} : g[m] \cap ids = {},
           DOMAIN h \subseteq DOMAIN g \cup {k}, k \in DOMAIN h => h[k] = ids,
           \A m \in DOMAIN h \ {k} : h[m] = g[m]
    PROVE  InOrder(f, h)
  <1>1. ASSUME NEW n \in DOMAIN h
        PROVE  h[n] \subseteq DOMAIN f /\ SharesNode(h[n], f)
    <2>1. CASE n = k
      BY <2>1
    <2>2. CASE n # k
      BY <2>2 DEF InOrder
    <2> QED
      BY <2>1, <2>2
  <1>2. ASSUME NEW m \in DOMAIN h, NEW n \in DOMAIN h, m # n
        PROVE  h[m] \cap h[n] = {}
    BY <1>2 DEF InOrder
  <1> QED
    BY <1>1, <1>2 DEF InOrder

\* Whether the common nodes of two subnets are their union or intersection, each
\* of them serves all subnets that contain it.
LEMMA ValidateShares ==
    ASSUME Types, NEW n, NEW ids, Validate(n, ids)
    PROVE  SharesNode(ids, subnets)
  <1>1. PICK s \in ids, t \in ids :
           \E common \in CommonNodes(subnets[s], subnets[t]) \ {{}} :
              \A u \in ids : subnets[u] # {} /\ common \subseteq subnets[u]
    BY DEF Validate, HaveCommonNodes
  <1>2. PICK common \in CommonNodes(subnets[s], subnets[t]) \ {{}} :
           \A u \in ids : subnets[u] # {} /\ common \subseteq subnets[u]
    BY <1>1
  <1>3. subnets[s] \subseteq Nodes /\ subnets[t] \subseteq Nodes
    BY DEF Validate, Types
  <1>4. PICK node \in common : node \in Nodes
    BY <1>2, <1>3 DEF CommonNodes
  <1> QED
    BY <1>2, <1>4 DEF SharesNode

-----------------------------------------------------------------------------
(***************************************************************************)
(* The invariant                                                           *)
(***************************************************************************)
LEMMA IdleIsProper == Proper(Idle)
  BY DEF Proper, Idle

LEMMA InitNetworksIInv == NetworksInit => NetworksIInv
  BY IdleIsProper DEF NetworksInit, NetworksIInv, Types, InOrder, SharesNode

\* A request begins.
LEMMA BeginKeeps ==
    ASSUME NetworksIInv, NEW w \in Workers, NEW q, Proper(q), Begin(w, q)
    PROVE  NetworksIInv'
  BY DEF Begin, NetworksIInv, Types, InOrder, SharesNode

LEMMA ReqKeeps ==
    ASSUME Types, NEW w \in Workers, NEW still \in BOOLEAN, Commit(w, still)
    PROVE  /\ req' = [v \in Workers |-> req'[v]]
           /\ \A v \in Workers : Proper(req'[v])
           /\ raced' \in BOOLEAN
           /\ ~raced' => ~raced /\ still
  BY IdleIsProper DEF Commit, Types

LEMMA SubnetCreateKeeps ==
    ASSUME NetworksIInv, NEW w \in Workers, SubnetCreateCommit(w)
    PROVE  NetworksIInv'
  <1>1. /\ Commit(w, TRUE) /\ Proper(req[w]) /\ req[w].op = "SubnetCreate"
        /\ networks' = networks
        /\ subnets' = IF req[w].id \in DOMAIN subnets THEN subnets
                      ELSE Put(subnets, req[w].id, req[w].nodes)
    BY DEF SubnetCreateCommit, NetworksIInv, Types
  <1>2. Types'
    BY <1>1, ReqKeeps DEF Put, Without, NetworksIInv, Types, Proper
  <1>3. DOMAIN subnets \subseteq DOMAIN subnets' /\ \A s \in DOMAIN subnets : subnets'[s] = subnets[s]
    BY <1>1 DEF Put, Without, NetworksIInv, Types
  <1>4. InOrder(subnets, networks) => InOrder(subnets', networks')
    BY <1>1, <1>3, CreateInOrder
  <1>5. ~raced' => ~raced
    BY <1>1, ReqKeeps DEF NetworksIInv
  <1> QED
    BY <1>2, <1>4, <1>5 DEF NetworksIInv, InOrder, SharesNode

LEMMA SubnetDeleteKeeps ==
    ASSUME NetworksIInv, NEW w \in Workers, SubnetDeleteCommit(w)
    PROVE  NetworksIInv'
  <1> DEFINE k == req[w].id
  <1>1. /\ Commit(w, CanLoseNodes(k)) /\ networks' = networks
        /\ subnets' = Without(subnets, k)
    BY DEF SubnetDeleteCommit
  <1>2. CanLoseNodes(k) \in BOOLEAN
    BY DEF CanLoseNodes
  <1>3. Types'
    BY <1>1, <1>2, ReqKeeps DEF Put, Without, NetworksIInv, Types
  <1>4. /\ DOMAIN subnets \ {k} \subseteq DOMAIN subnets'
        /\ \A s \in DOMAIN subnets \ {k} : subnets'[s] = subnets[s]
    BY <1>1 DEF Put, Without, NetworksIInv, Types
  <1>5. ~raced' => ~raced /\ \A n \in DOMAIN networks : k \notin networks[n]
    BY <1>1, <1>2, ReqKeeps DEF NetworksIInv, CanLoseNodes, UsedByNetwork
  <1> HIDE DEF k
  <1>6. InOrder(subnets, networks) /\ ~raced' => InOrder(subnets', networks')
    BY <1>1, <1>4, <1>5, UnusedInOrder
  <1> QED
    BY <1>3, <1>5, <1>6 DEF NetworksIInv, InOrder, SharesNode

\* A subnet that a network uses has nodes, and in HA mode keeps them.
LEMMA UpdateNodesKeeps ==
    ASSUME NetworksIInv, NEW w \in Workers, UpdateNodesCommit(w)
    PROVE  NetworksIInv'
  <1> DEFINE k == req[w].id
             nodes == req[w].nodes
             still == k \in DOMAIN subnets => CanUpdateNodes(k, nodes)
  <1>1. /\ Commit(w, still) /\ networks' = networks
        /\ subnets' = [s \in DOMAIN subnets |-> IF s = k THEN nodes ELSE subnets[s]]
    BY DEF UpdateNodesCommit
  <1>2. still \in BOOLEAN /\ nodes \in SUBSET Nodes
    BY DEF UpdateNodesCommit, NetworksIInv, Types, Proper
  <1>3. Types'
    BY <1>1, <1>2, ReqKeeps DEF NetworksIInv, Types
  <1>4. ~raced' => ~raced /\ still
    BY <1>1, <1>2, ReqKeeps DEF NetworksIInv
  <1>5. ASSUME HA, still, k \in DOMAIN subnets, nodes # subnets[k], InOrder(subnets, networks),
               NEW n \in DOMAIN networks
        PROVE  k \notin networks[n]
    <2>1. subnets[k] = {} \/ CanLoseNodes(k)
      BY <1>5 DEF CanUpdateNodes
    <2>2. CASE CanLoseNodes(k)
      BY <2>2 DEF CanLoseNodes, UsedByNetwork
    <2>3. CASE subnets[k] = {}
      BY <1>5, <2>3 DEF InOrder, SharesNode
    <2> QED
      BY <2>1, <2>2, <2>3
  <1>6. ASSUME HA, still, InOrder(subnets, networks)
        PROVE  InOrder(subnets', networks')
    <2>1. CASE k \in DOMAIN subnets /\ nodes # subnets[k]
      <3>1. /\ \A n \in DOMAIN networks : k \notin networks[n]
            /\ DOMAIN subnets \ {k} \subseteq DOMAIN subnets'
            /\ \A s \in DOMAIN subnets \ {k} : subnets'[s] = subnets[s]
        BY <1>1, <1>5, <1>6, <2>1
      <3> HIDE DEF k
      <3> QED
        BY <1>1, <1>6, <3>1, UnusedInOrder
    <2>2. CASE ~(k \in DOMAIN subnets /\ nodes # subnets[k])
      <3>1. DOMAIN subnets' = DOMAIN subnets /\ \A s \in DOMAIN subnets : subnets'[s] = subnets[s]
        BY <1>1, <2>2
      <3> QED
        BY <1>1, <1>6, <3>1, CreateInOrder
    <2> QED
      BY <2>1, <2>2
  <1> HIDE DEF still
  <1> QED
    BY <1>3, <1>4, <1>6 DEF NetworksIInv, InOrder, SharesNode

LEMMA NetworkKeeps ==
    ASSUME NetworksIInv, NEW w \in Workers, NetworkCreateCommit(w) \/ NetworkUpdateCommit(w)
    PROVE  NetworksIInv'
  <1> DEFINE n == req[w].network
             ids == req[w].ids
  <1>1. /\ Commit(w, Validate(n, ids)) /\ subnets' = subnets
        /\ \/ networks' = networks
           \/ networks' = Put(networks, n, ids)
    BY DEF NetworkCreateCommit, NetworkUpdateCommit
  <1>2. Validate(n, ids) \in BOOLEAN
    BY DEF Validate
  <1>3. Types'
    BY <1>1, <1>2, ReqKeeps DEF Put, Without, NetworksIInv, Types
  <1>4. ~raced' => ~raced /\ Validate(n, ids)
    BY <1>1, <1>2, ReqKeeps DEF NetworksIInv
  <1> HIDE DEF n, ids
  <1>5. ASSUME Validate(n, ids), InOrder(subnets, networks), networks' = Put(networks, n, ids)
        PROVE  InOrder(subnets, networks')
    <2>1. SharesNode(ids, subnets)
      BY <1>5, ValidateShares DEF NetworksIInv
    <2>2. ids \subseteq DOMAIN subnets /\ \A m \in DOMAIN networks \ {n} : networks[m] \cap ids = {}
      BY <1>5 DEF Validate
    <2>3. /\ DOMAIN networks' = DOMAIN networks \cup {n} /\ networks'[n] = ids
          /\ \A m \in DOMAIN networks' \ {n} : networks'[m] = networks[m]
      BY <1>5 DEF Put, Without, NetworksIInv, Types
    <2> QED
      BY <1>5, <2>1, <2>2, <2>3, NetworkInOrder
  <1>6. InOrder(subnets, networks) /\ ~raced' => InOrder(subnets', networks')
    BY <1>1, <1>4, <1>5
  <1> QED
    BY <1>3, <1>4, <1>6 DEF NetworksIInv, InOrder, SharesNode

LEMMA NetworkDeleteKeeps ==
    ASSUME NetworksIInv, NEW w \in Workers, NetworkDeleteCommit(w)
    PROVE  NetworksIInv'
  <1>1. /\ Commit(w, TRUE) /\ subnets' = subnets
        /\ networks' = Without(networks, req[w].network)
    BY DEF NetworkDeleteCommit
  <1>2. Types'
    BY <1>1, ReqKeeps DEF Put, Without, NetworksIInv, Types
  <1>3. DOMAIN networks' \subseteq DOMAIN networks /\ \A n \in DOMAIN networks' : networks'[n] = networks[n]
    BY <1>1 DEF Put, Without, NetworksIInv, Types
  <1>4. ~raced' => ~raced
    BY <1>1, ReqKeeps DEF NetworksIInv
  <1> QED
    BY <1>1, <1>2, <1>3, <1>4 DEF NetworksIInv, InOrder, SharesNode

LEMMA NextNetworksIInv == NetworksIInv /\ [NetworksNext]_networksVars => NetworksIInv'
  <1> SUFFICES ASSUME NetworksIInv, [NetworksNext]_networksVars PROVE NetworksIInv'
    OBVIOUS
  <1>1. ASSUME NEW w \in Workers,
               \/ \E nodes \in SUBSET Nodes : SubnetCreate(w, nodes)
               \/ \E s \in DOMAIN subnets, nodes \in SUBSET Nodes : UpdateNodes(w, s, nodes)
        PROVE  NetworksIInv'
    <2>1. PICK q : Proper(q) /\ Begin(w, q)
      BY <1>1 DEF SubnetCreate, UpdateNodes, Proper
    <2> QED
      BY <2>1, BeginKeeps
  <1>2. ASSUME NEW w \in Workers,
               \/ \E s \in DOMAIN subnets : SubnetDelete(w, s)
               \/ \E n \in Networks, ids \in SUBSET SubnetIds :
                      NetworkCreate(w, n, ids) \/ NetworkUpdate(w, n, ids)
               \/ \E n \in Networks : NetworkDelete(w, n)
        PROVE  NetworksIInv'
    <2>1. PICK q : Proper(q) /\ Begin(w, q)
      BY <1>2 DEF SubnetDelete, NetworkCreate, NetworkUpdate, NetworkDelete, Proper
    <2> QED
      BY <2>1, BeginKeeps
  <1>3. ASSUME NEW w \in Workers, Abort(w)
        PROVE  NetworksIInv'
    BY <1>3, IdleIsProper DEF Abort, NetworksIInv, Types, InOrder, SharesNode
  <1>4. ASSUME NEW s \in DOMAIN subnets, LeasesChange(s)
        PROVE  NetworksIInv'
    BY <1>4 DEF LeasesChange, NetworksIInv, Types, InOrder, SharesNode
  <1>5. CASE UNCHANGED networksVars
    BY <1>5 DEF networksVars, NetworksIInv, Types, InOrder, SharesNode
  <1> QED
    BY <1>1, <1>2, <1>3, <1>4, <1>5, SubnetCreateKeeps, SubnetDeleteKeeps, UpdateNodesKeeps,
       NetworkKeeps, NetworkDeleteKeeps DEF NetworksNext

\* In HA mode the subnets of a shared network exist, are in no other and have a
\* node in common, unless a request has committed after its checks had ceased to
\* hold: nothing but such a race can break them.
THEOREM UnracedNetworksStayInOrder == NetworksSpec => []UnracedNetworks
  <1>1. NetworksIInv => UnracedNetworks
    BY DEF NetworksIInv, InOrder, SharesNode, UnracedNetworks, NetworksHaveSubnets,
           NetworksExclusive, NetworksShareNodes
  <1> QED
    BY <1>1, InitNetworksIInv, NextNetworksIInv, PTL DEF NetworksSpec

=============================================================================
