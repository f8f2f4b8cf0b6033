----------------------------- MODULE MCSubnet4 -----------------------------
(* The instance of Subnet4 that TLC checks. *)
EXTENDS AddressLookups4, TLC

\* Rows of a table differ only in their uuid, clients only in their name.
Symmetry == Permutations(Ids) \cup Permutations(Clients)

=============================================================================
