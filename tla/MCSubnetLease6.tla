--------------------------- MODULE MCSubnetLease6 ---------------------------
(* The instance of SubnetLease6 that TLC checks: a subnet4 with one address, *)
(* and a subnet6 with an address and a delegated prefix.                     *)
EXTENDS SubnetLease6, TLC

CONSTANTS x4, x6, p6, net4, net6

Kinds == x4 :> "ipv4" @@ x6 :> "address" @@ p6 :> "prefix"

TwoStacks == x4 :> net4 @@ x6 :> net6 @@ p6 :> net6

Symmetry == Permutations(Workers) \cup Permutations(Clients)

=============================================================================
