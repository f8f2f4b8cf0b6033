--------------------------- MODULE MCSubnetLease4 ---------------------------
(* The instances of SubnetLease4 that TLC checks. *)
EXTENDS SubnetLease4, TLC

CONSTANTS a1, a2, s1, s2

TwoSubnets == a1 :> s1 @@ a2 :> s2

Symmetry == Permutations(Workers)

=============================================================================
