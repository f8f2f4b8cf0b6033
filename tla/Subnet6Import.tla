--------------------------- MODULE Subnet6Import ---------------------------
(***************************************************************************)
(* The subnet6 lines of Excel files: what the export writes of a subnet    *)
(* and its rows, and what the import makes of such a line.                 *)
(*                                                                         *)
(* An imported subnet is in a state that requests lead to as well, so that *)
(* the import is an operator, and no action, here.                         *)
(***************************************************************************)
EXTENDS Subnet6

\* Reserved prefix pools have no column, nor has the mark of a reservation
\* that the lease consumer made.
Line6(d) ==
    [mask |-> d.mask, generates |-> d.generates,
     pools |-> d.pools, reservedPools |-> d.reservedPools, pdpools |-> d.pdpools,
     reservations |-> {[v EXCEPT !.auto = FALSE] : v \in d.reservations}]

CanImportReservation6s(line) ==
    line.reservations # {} =>
        /\ ~line.generates
        /\ \A v \in line.reservations : Valid(v)
        /\ \A u, v \in line.reservations : u # v =>
              /\ u.client # v.client
              /\ u.ips \cap v.ips = {}
              /\ u.prefixes \cap v.prefixes = {}

CanImportReservedPool6s(line) ==
    line.reservedPools # {} =>
        /\ ~line.generates /\ line.mask >= Limit
        /\ \A p, q \in line.reservedPools : p # q => ~Overlaps(p, q)
        /\ \A p \in line.reservedPools : Ips(p) \cap ReservedIps(line) = {}

CanImportPool6s(line) ==
    line.pools # {} =>
        /\ ~line.generates /\ line.mask >= Limit
        /\ \A p, q \in line.pools : p # q => ~Overlaps(p, q)

CanImportPdPools(line) ==
    line.pdpools # {} =>
        /\ ~line.generates
        /\ \A p, q \in line.pdpools : p # q => ~Meets(p.prefix, q.prefix)

CanImportSubnet6(line) ==
    /\ CanImportReservation6s(line)
    /\ CanImportReservedPool6s(line)
    /\ CanImportPool6s(line)
    /\ CanImportPdPools(line)

\* Mutant: the import forgets the reserved pools of the line.
ImportedPool6CapacityUnreserved(line, p) ==
    Size(p) - Cardinality(ReservedIps(line) \cap Ips(p))

ImportedPool6Capacity(line, p) == Pool6Capacity(line, p)

\* Only the reservations of the line are taken off a pdpool.
ImportedPdPoolCapacities(line, p) ==
    LeftAfter(p, TwoTo[p.delegated - p.prefix.len],
              {x \in ReservedPrefixes(line) : Meets(p.prefix, x)})

\* The order of the rows of a line leaves the capacities of pdpools open.
ImportSubnet6(line) ==
    LET Capacities(p) == IF p \in line.pools
                         THEN {ImportedPool6Capacity(line, p)}
                         ELSE ImportedPdPoolCapacities(line, p)
        rows == line.pools \cup line.pdpools
        fs == {f \in [rows -> UNION {Capacities(p) : p \in rows}] :
                  \A p \in rows : f[p] \in Capacities(p)}
        reserved == SumFunction([v \in line.reservations |->
                                    Cardinality(v.ips) + Cardinality(v.prefixes)])
    IN  {[mask |-> line.mask, generates |-> line.generates,
          pools |-> line.pools, reservedPools |-> line.reservedPools,
          pdpools |-> line.pdpools, reservedPrefixes |-> {},
          reservations |-> line.reservations, capacityOf |-> f,
          capacity |-> IF line.generates THEN Generated
                       ELSE reserved + SumFunction(f)] : f \in fs}

-----------------------------------------------------------------------------
(***************************************************************************)
(* Properties                                                              *)
(***************************************************************************)
\* Whatever requests have made of a subnet, its exported line is accepted by
\* the import: the checks of some twenty handlers leave nothing that the
\* checks of the import refuse.  The import, which counts every capacity anew,
\* comes to the capacities that the handlers have kept by differences, but for
\* the rows that a shortcut of the code has touched, and the pdpools that had
\* reserved prefix pools, which files do not carry.
ExportedSubnet6Imports ==
    LET line == Line6(db)
        Kept(p) == p \notin skewed
                     /\ (p \in db.pdpools => \A x \in db.reservedPrefixes : ~Meets(p.prefix, x))
    IN  /\ CanImportSubnet6(line)
        /\ ImportSubnet6(line) # {}
        /\ \A new \in ImportSubnet6(line) :
              /\ Line6(new) = line
              /\ \A p \in Rows : Kept(p) => new.capacityOf[p] = db.capacityOf[p]
              /\ (\A p \in Rows : Kept(p)) => new.capacity = db.capacity

=============================================================================
