-------------------------- MODULE Subnet4Concurrent --------------------------
(***************************************************************************)
(* Requests for one subnet4 that overlap.  Every handler runs in a         *)
(* transaction that PostgreSQL runs at READ COMMITTED: it sees what was    *)
(* committed when it reads, takes no lock for reading, and writes back     *)
(* absolute values.  Begin is the moment a handler reads; between it and   *)
(* Commit, which makes its writes visible, it calls the DHCP agent and     *)
(* Kafka, so the window is as long as a network round trip; an import has  *)
(* read the subnet before its transaction begins.  The writes of           *)
(* two handlers are ordered by the row locks that the first one holds      *)
(* until it commits.  The subnet has no DHCP node, so there are no leases. *)
(***************************************************************************)
EXTENDS Subnet4Rows

CONSTANT Workers  \* goroutines that serve requests, and the lease consumer

VARIABLES
    committed,  \* the committed rows
    tx,         \* what each worker has read, or Idle
    raced       \* whether a commit has overwritten or ignored a newer row

concurrentVars == <<committed, tx, raced>>

Idle == [busy |-> FALSE]

\* The transactions of the lease consumer are those of Reservation4Create and
\* Reservation4Delete, so the rows it makes are not told apart here.
Requests ==
    [op: {"Pool4Create", "Pool4Delete", "ReservedPool4Create",
          "ReservedPool4Delete"}, row: PoolRow]
    \cup [op: {"Reservation4Create", "Reservation4Delete", "Reservation4Import"},
          row: {v \in ReservationRow : ~v.auto}]

\* The committed rows and those every request has read have the type of rows:
\* a late write brings no deleted row back.
ConcurrentTypeOK ==
    /\ RowsType(committed)
    /\ \A w \in Workers :
          tx[w] # Idle => /\ tx[w].request \in Requests
                          /\ RowsType(tx[w].read)
    /\ raced \in BOOLEAN

ConcurrentInit ==
    /\ committed = [pools |-> {}, poolCapacity |-> [p \in {} |-> 0],
             reservedPools |-> {}, reservations |-> {}, capacity |-> 0]
    /\ tx = [w \in Workers |-> Idle]
    /\ raced = FALSE

-----------------------------------------------------------------------------
Active == {w \in Workers : tx[w] # Idle}

Imports == {"Reservation4Import"}

\* A new row's uuid is in no table and in no other request.
Fresh(rows, ops, id) ==
    /\ \A r \in rows : r.id # id
    /\ \A w \in Active : tx[w].request.op \in ops => tx[w].request.row.id # id

FreshReservation(d, q) ==
    Fresh(d.reservations, {"Reservation4Create"} \cup Imports, q.row.id)

\* The checks of the handler pass on the rows it reads.  An import has none
\* when it begins: it reads the subnet and then parses its file.
Accepted(d, q) ==
    CASE q.op = "Pool4Create" ->
            Fresh(d.pools, {q.op}, q.row.id) /\ CanCreatePool4(d, q.row)
      [] q.op = "Pool4Delete" -> CanDeletePool4(d, q.row, {})
      [] q.op = "ReservedPool4Create" ->
            Fresh(d.reservedPools, {q.op}, q.row.id) /\ CanCreateReservedPool4(d, q.row)
      [] q.op = "ReservedPool4Delete" -> CanDeleteReservedPool4(d, q.row)
      [] q.op = "Reservation4Create" ->
            FreshReservation(d, q) /\ CanCreateReservation4(d, q.row)
      [] q.op = "Reservation4Delete" -> CanDeleteReservation4(d, q.row, {})
      [] q.op \in Imports -> FreshReservation(d, q)

\* Reservation4Service.ImportExcel on a file of one row.  The subnet's capacity
\* is written whatever becomes of the row.
Import(c, d, v) ==
    LET hit == {p \in Containing(d.pools, v.ip) : d.poolCapacity[p] # 0}
        rest == [p \in hit |-> Minus(d.poolCapacity[p], 1)]
        added == WithPoolCapacity([c EXCEPT !.reservations = @ \cup {v}], rest)
    IN  IF CanCreateReservation4(d, v)
        THEN [added EXCEPT !.capacity = Plus(d.capacity, IF hit = {} THEN 1 ELSE 0)]
        ELSE [c EXCEPT !.capacity = d.capacity]

\* The rows that a commit can leave.
Outcomes(c, d, q) ==
    CASE q.op = "Pool4Create" -> {CreatePool4(c, d, q.row)}
      [] q.op = "Pool4Delete" -> {DeletePool4(c, d, q.row)}
      [] q.op = "ReservedPool4Create" -> {CreateReservedPool4(c, d, q.row)}
      [] q.op = "ReservedPool4Delete" -> {DeleteReservedPool4(c, d, q.row)}
      [] q.op = "Reservation4Create" -> CreateReservation4(c, d, q.row)
      [] q.op = "Reservation4Delete" -> DeleteReservation4(c, d, q.row)
      [] q.op \in Imports -> {Import(c, d, q.row)}

\* The part of the rows that a handler's checks and values depend on.
PoolsWithCapacity(d, rows) == {<<p, d.poolCapacity[p]>> : p \in rows}

Footprint(d, q) ==
    CASE q.op = "Pool4Create" ->
            <<OverlappingWith(d.pools, q.row), OverlappingWith(d.reservedPools, q.row),
              ReservationsIn(d, q.row), d.capacity>>
      [] q.op = "Pool4Delete" ->
            <<PoolsWithCapacity(d, d.pools \cap {q.row}), d.capacity>>
      [] q.op \in {"ReservedPool4Create", "ReservedPool4Delete"} ->
            <<PoolsWithCapacity(d, OverlappingWith(d.pools, q.row)),
              OverlappingWith(d.reservedPools, q.row),
              ReservationsIn(d, q.row), d.capacity>>
      [] OTHER ->
            LET hit == Containing(d.pools, q.row.ip)
            IN  <<PoolsWithCapacity(d, hit),
                  Containing(d.reservedPools, q.row.ip),
                  {v \in d.reservations : v.ip = q.row.ip \/ v.client = q.row.client},
                  IF hit = {} \/ q.op \in Imports THEN d.capacity ELSE 0>>

Begin(w, q) ==
    /\ tx[w] = Idle
    /\ Accepted(committed, q)
    /\ tx' = [tx EXCEPT ![w] = [busy |-> q.op \notin Imports, request |-> q, read |-> committed]]
    /\ UNCHANGED <<committed, raced>>

\* The file is parsed and a transaction begun: it reads the rows, and keeps the
\* capacity that the subnet had before.
ImportRead(w) ==
    /\ tx[w] # Idle /\ ~tx[w].busy
    /\ tx' = [tx EXCEPT ![w] =
                  [busy |-> TRUE, request |-> @.request,
                   read |-> [committed EXCEPT !.capacity = tx[w].read.capacity]]]
    /\ UNCHANGED <<committed, raced>>

Commit(w) ==
    /\ tx[w] # Idle /\ tx[w].busy
    /\ committed' \in Outcomes(committed, tx[w].read, tx[w].request)
    /\ raced' = (raced \/ Footprint(committed, tx[w].request)
                            # Footprint(tx[w].read, tx[w].request))
    /\ tx' = [tx EXCEPT ![w] = Idle]

\* The agent or Kafka has refused the command, or the process has stopped.
Abort(w) ==
    /\ tx[w] # Idle
    /\ tx' = [tx EXCEPT ![w] = Idle]
    /\ UNCHANGED <<committed, raced>>

ConcurrentNext ==
    \E w \in Workers :
        \/ \E q \in Requests : Begin(w, q)
        \/ ImportRead(w)
        \/ Commit(w)
        \/ Abort(w)

ConcurrentSpec == ConcurrentInit /\ [][ConcurrentNext]_concurrentVars

-----------------------------------------------------------------------------
(***************************************************************************)
(* Properties                                                              *)
(***************************************************************************)

\* Requests may overlap in any way: as long as none commits after the rows of
\* its footprint have changed, the books stay exact.  Two requests whose
\* footprints are disjoint, such as reservations in two pools, never disturb
\* each other; and the footprint is all a handler would have to lock.
UnracedBooksExact ==
    ~raced => /\ DisjointRows(committed.pools)
              /\ ExclusiveRows(committed)
              /\ ExactPools(committed)
              /\ ExactSubnet(committed)

=============================================================================
