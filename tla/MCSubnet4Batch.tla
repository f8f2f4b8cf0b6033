--------------------------- MODULE MCSubnet4Batch ---------------------------
(* The instances of Subnet4Batch that TLC checks: MCSubnet4's symmetry and  *)
(* sum, on the specifications with batches.                                *)
EXTENDS MCSubnet4, SubnetFiles

\* Batches of reserved pools, and deletions in full pools, leave books that are
\* not exact: TLC looks no further than such a state.
Exact == BooksExact

=============================================================================
