---------------------------- MODULE Subnet4Batch ----------------------------
(***************************************************************************)
(* The batch handlers of one subnet4, beside the single handlers of        *)
(* Subnet4: BatchCreateReservedPool4s and BatchCreateReservation4s, which  *)
(* the gRPC interface, the Excel import and the conversion of dynamic      *)
(* leases call, and BatchDeleteReservation4s.  A batch reads the rows      *)
(* once, computes every change in memory and writes the sums.              *)
(***************************************************************************)
EXTENDS Subnet4, SequencesExt

\* An import numbers its rows with uuids, of which there are finitely many.
ASSUME BatchAssumption == IsFiniteSet(Ids)

-----------------------------------------------------------------------------
(***************************************************************************)
(* BatchCreateReservedPool4s, on a sequence of rows                        *)
(***************************************************************************)

CanBatchCreateReservedPool4s(d, rs) ==
    /\ \A i, j \in DOMAIN rs : i # j => ~Overlaps(rs[i], rs[j])
    /\ \A i \in DOMAIN rs : CanCreateReservedPool4(d, rs[i])

\* The indices of the rows that change the capacity of p.  The rows are set
\* against every pool of the subnet, also against those they do not overlap.
Touching(p, rs) == {i \in DOMAIN rs : ReservedCount(p, rs[i]) # 0}

\* Each row writes poolsCapacity[p] from the capacity read, so the last wins.
BatchCreateReservedPool4s(d, rs) ==
    LET last(p) == Max(Touching(p, rs))
        rest == [p \in {q \in d.pools : Touching(q, rs) # {}} |->
                    Minus(d.poolCapacity[p], ReservedCount(p, rs[last(p)]))]
        taken == MapThenSumSet(LAMBDA x : ReservedCount(x[1], rs[x[2]]),
                               d.pools \X DOMAIN rs)
    IN  [WithPoolCapacity(d, rest) EXCEPT
            !.reservedPools = @ \cup ToSet(rs),
            !.capacity = (@ - taken) % Word]

-----------------------------------------------------------------------------
(***************************************************************************)
(* batchCreateReservation4s and BatchDeleteReservation4s, on a set of rows *)
(***************************************************************************)

CanBatchCreateReservation4s(d, vs) ==
    /\ \A v \in vs : CanCreateReservation4(d, v)
    /\ \A u, v \in vs : u # v => u.client # v.client /\ u.ip # v.ip

\* The pool that recalculateSubnetAndPoolsCapacityWithReservation4 charges: a
\* pool whose capacity was 0 when it was read is passed over.
ConflictPool(d, v) == {p \in Containing(d.pools, v.ip) : d.poolCapacity[p] # 0}

Inside(d, vs) == {v \in vs : ConflictPool(d, v) # {}}

BatchCreateReservation4s(d, vs) ==
    LET hit == UNION {ConflictPool(d, v) : v \in vs}
        rest == [p \in hit |->
                    Minus(d.poolCapacity[p],
                          Cardinality({v \in vs : p \in ConflictPool(d, v)}))]
    IN  [WithPoolCapacity(d, rest) EXCEPT
            !.reservations = @ \cup vs,
            !.capacity = Plus(@, Cardinality(vs \ Inside(d, vs)))]

CanBatchDeleteReservation4s(d, vs, held) ==
    \A v \in vs : CanDeleteReservation4(d, v, held)

\* Mutant: the pools of the batch get one address each back.
BatchDeleteReservation4sOncePerPool(d, vs) ==
    LET hit == UNION {ConflictPool(d, v) : v \in vs}
        rest == [p \in hit |-> Plus(d.poolCapacity[p], 1)]
    IN  [WithPoolCapacity(d, rest) EXCEPT
            !.reservations = @ \ vs,
            !.capacity = Minus(@, Cardinality(vs \ Inside(d, vs)))]

BatchDeleteReservation4s(d, vs) ==
    LET hit == UNION {ConflictPool(d, v) : v \in vs}
        rest == [p \in hit |->
                    Plus(d.poolCapacity[p],
                         Cardinality({v \in vs : p \in ConflictPool(d, v)}))]
    IN  [WithPoolCapacity(d, rest) EXCEPT
            !.reservations = @ \ vs,
            !.capacity = Minus(@, Cardinality(vs \ Inside(d, vs)))]

-----------------------------------------------------------------------------
(***************************************************************************)
(* The import of reservations into a subnet, and of a subnet with its rows.*)
(***************************************************************************)

\* The identifier of a table and the rows a batch has added to it.
Identifier(rows) == [clients |-> {v.client : v \in rows}, ips |-> {v.ip : v \in rows},
                     taken |-> {}]

\* Add enters the client before it looks at the address: a row refused for its
\* address makes a later row of the same client a refused one too.
Add(i, v) ==
    CASE v.client \in i.clients -> i
      [] v.client \notin i.clients /\ v.ip \in i.ips -> [i EXCEPT !.clients = @ \cup {v.client}]
      [] OTHER -> [clients |-> i.clients \cup {v.client}, ips |-> i.ips \cup {v.ip},
                   taken |-> i.taken \cup {v}]

\* CreateReservationModeImport: refused rows of the file are left out.
ImportedReservation4s(d, file) ==
    FoldLeft(LAMBDA i, v : IF Containing(d.reservedPools, v.ip) = {} THEN Add(i, v) ELSE i,
             Identifier(d.reservations), file).taken

\* A line of a subnet file: the columns of pools, reserved pools and
\* reservations.  An exported line has all rows of a subnet, but not their
\* uuids, capacities, or who has made a reservation.
Line(d) ==
    [pools |-> {[begin |-> p.begin, end |-> p.end] : p \in d.pools},
     reservedPools |-> {[begin |-> r.begin, end |-> r.end] : r \in d.reservedPools},
     reservations |-> {[ip |-> v.ip, client |-> v.client] : v \in d.reservations}]

Ranges == {r \in [begin: Ip, end: Ip] : r.begin <= r.end}

\* Bound: a column has no more rows than there are uuids.
Columns(cells) == {rows \in SUBSET cells : Cardinality(rows) <= Cardinality(Ids)}

Lines ==
    [pools: Columns(Ranges), reservedPools: Columns(Ranges),
     reservations: Columns([ip: Ip, client: Clients])]

\* checkReservation4sValid, checkReservedPool4sValid and checkPool4sValid.
CanImportSubnet4(line) ==
    /\ \A u, v \in line.reservations : u # v => u.ip # v.ip /\ u.client # v.client
    /\ DisjointRows(line.reservedPools)
    /\ \A r \in line.reservedPools, v \in line.reservations : v.ip \notin Ips(r)
    /\ DisjointRows(line.pools)

\* Mutant: a reserved pool is taken off whole, however little of it is shared.
ImportedCapacityWhole(line, p) ==
    Minus(Minus(p.end - p.begin + 1, Cardinality(ReservationsIn(line, p))),
          MapThenSumSet(LAMBDA r : r.end - r.begin + 1,
                        OverlappingWith(line.reservedPools, p)))

ImportedCapacity(line, p) ==
    Minus(Minus(p.end - p.begin + 1, Cardinality(ReservationsIn(line, p))),
          MapThenSumSet(LAMBDA r : ReservedCount(p, r),
                        OverlappingWith(line.reservedPools, p)))

\* uuid.Gen for every row of a table.
Numbered(rows) ==
    CHOOSE f \in [rows -> Ids] : \A p, q \in rows : p # q => f[p] # f[q]

PoolRows(ranges) ==
    LET id == Numbered(ranges)
    IN  {[id |-> id[r], begin |-> r.begin, end |-> r.end] : r \in ranges}

ImportSubnet4(line) ==
    LET pools == PoolRows(line.pools)
        id == Numbered(line.reservations)
    IN  [pools |-> pools,
         poolCapacity |-> [p \in pools |-> ImportedCapacity(line, p)],
         reservedPools |-> PoolRows(line.reservedPools),
         reservations |-> {[id |-> id[v], ip |-> v.ip, client |-> v.client, auto |-> FALSE] :
                             v \in line.reservations},
         capacity |-> Cardinality(line.reservations)
                        + MapThenSumSet(LAMBDA p : ImportedCapacity(line, p), line.pools)]

-----------------------------------------------------------------------------
(***************************************************************************)
(* The requests                                                            *)
(***************************************************************************)
\* The rows of a reservation file have no uuid before they are inserted: the
\* next one is as good as any other.
ReservationFiles ==
    LET cells == [id: Ids, ip: Ip, client: Clients, auto: {FALSE}]
    IN  {f \in [1 .. 2 -> cells] : f[1].id # f[2].id}

FreshIds(rows, new) ==
    /\ \A r \in new : UnusedId(rows, r.id)
    /\ \A r, s \in new : r # s => r.id # s.id

\* The bound on a batch is two rows: one, or two of which the second sees or
\* misses what the first has changed.
ReservedPoolBatches == UNION {[1 .. n -> PoolRow] : n \in 1 .. 2}

ReservationBatches(rows) ==
    LET ordinary == {v \in rows : ~v.auto}
    IN  {{u, v} : u, v \in ordinary}

ReservedPool4BatchCreate(rs) ==
    /\ FreshIds(db.reservedPools, ToSet(rs))
    /\ CanBatchCreateReservedPool4s(db, rs)
    /\ db' = BatchCreateReservedPool4s(db, rs)
    /\ UNCHANGED leases

Reservation4BatchCreate(vs) ==
    /\ FreshIds(db.reservations, vs)
    /\ CanBatchCreateReservation4s(db, vs)
    /\ db' = BatchCreateReservation4s(db, vs)
    /\ UNCHANGED leases

Reservation4Import(file) ==
    /\ FreshIds(db.reservations, ToSet(file))
    /\ db' = BatchCreateReservation4s(db, ImportedReservation4s(db, file))
    /\ UNCHANGED leases

\* The subnet of the line does not exist: the state of an empty one stands for
\* that, as it does in Init.
SubnetImport(line) ==
    /\ db.pools = {} /\ db.reservedPools = {} /\ db.reservations = {}
    /\ CanImportSubnet4(line)
    /\ db' = ImportSubnet4(line)
    /\ UNCHANGED leases

Reservation4BatchDelete(vs) ==
    /\ CanBatchDeleteReservation4s(db, vs, leases)
    /\ db' = BatchDeleteReservation4s(db, vs)
    /\ UNCHANGED leases

BatchNext ==
    \/ Next
    \/ \E rs \in ReservedPoolBatches : ReservedPool4BatchCreate(rs)
    \/ \E vs \in ReservationBatches(ReservationRow) : Reservation4BatchCreate(vs)
    \/ \E vs \in ReservationBatches(db.reservations) : Reservation4BatchDelete(vs)
    \/ \E file \in ReservationFiles : Reservation4Import(file)
    \/ \E line \in Lines : SubnetImport(line)

BatchSpec == Init /\ [][BatchNext]_vars

-----------------------------------------------------------------------------
(***************************************************************************)
(* Properties                                                              *)
(***************************************************************************)
OneByOne(step(_, _), vs) ==
    FoldSet(LAMBDA v, d : CHOOSE e \in step(d, v) : TRUE, db, vs)

BooksExact == PoolCapacityExact /\ SubnetCapacityExact

\* From exact books, creating reservations in one batch leaves the rows that
\* creating them one at a time would leave, although the batch passes over
\* pools of capacity 0: such a pool has no address left that a reservation
\* could name.  Deleting them in one batch leaves what deleting them one at a
\* time would, as long as no pool that holds one of the addresses is full.
BatchesMatchSingles ==
    /\ BooksExact =>
          \A vs \in ReservationBatches(ReservationRow) :
             FreshIds(db.reservations, vs) /\ CanBatchCreateReservation4s(db, vs)
             => BatchCreateReservation4s(db, vs)
                  = OneByOne(LAMBDA d, v : CreateReservation4(d, d, v), vs)
    /\ \A vs \in ReservationBatches(db.reservations) :
          (\A v \in vs : ConflictPool(db, v) = Containing(db.pools, v.ip))
          => BatchDeleteReservation4s(db, vs)
               = OneByOne(LAMBDA d, v : DeleteReservation4(d, d, v), vs)

\* The exported line of a subnet whose books are exact is accepted by the
\* import, and gives the rows and the capacities it was exported from, although
\* they have come about by differences, and the import counts them anew.
ExportedSubnetImports ==
    BooksExact =>
        /\ CanImportSubnet4(Line(db))
        /\ LET new == ImportSubnet4(Line(db))
               Sizes(d) == {<<p.begin, p.end, d.poolCapacity[p]>> : p \in d.pools}
           IN  /\ Line(new) = Line(db)
               /\ Sizes(new) = Sizes(db)
               /\ new.capacity = db.capacity

=============================================================================
