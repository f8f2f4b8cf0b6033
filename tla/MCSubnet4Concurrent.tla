------------------------ MODULE MCSubnet4Concurrent ------------------------
(* The instance of Subnet4Concurrent that TLC checks. *)
EXTENDS Subnet4Concurrent, TLC

Symmetry ==
    Permutations(Ids) \cup Permutations(Clients) \cup Permutations(Workers)

\* Once a request has raced nothing more is claimed: TLC looks no further.
Unraced == ~raced

=============================================================================
