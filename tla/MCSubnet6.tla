----------------------------- MODULE MCSubnet6 -----------------------------
(* The instance of Subnet6 that TLC checks: a mask below the limit and one at *)
(* it, so that one subnet has prefixes and one has both kinds of pools.       *)
EXTENDS Subnet6Import, TLC

Addresses == 1 .. 3

MaskLengths == {2, 4}

Symmetry == Permutations(Clients)

\* Skewed capacities drift without end: they are followed only so far.
NoFurtherDrift == \A p \in Rows : db.capacityOf[p] \in -1 .. 5

=============================================================================
