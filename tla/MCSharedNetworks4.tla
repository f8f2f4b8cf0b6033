------------------------- MODULE MCSharedNetworks4 -------------------------
(* The instances of SharedNetworks4 that TLC checks.  Subnet ids are        *)
(* ordered, so they are no symmetry set.                                   *)
EXTENDS SharedNetworks4, TLC

Symmetry ==
    Permutations(Nodes) \cup Permutations(Networks) \cup Permutations(Workers)

\* Once a request has raced nothing more is claimed: TLC looks no further.
Unraced == ~raced

=============================================================================
