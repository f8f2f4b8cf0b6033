------------------------- MODULE MCSubnetCommands4 -------------------------
(* The instances of SubnetCommands4 and AddressCodes that TLC checks: a     *)
(* behaviour is of one of them, and the other rests.                        *)
EXTENDS SubnetCommands4, AddressCodes, TLC

CONSTANTS n1, n2, n3, h2, h3

VARIABLE part \* what the behaviour is of

\* n1 is named by its address, the others are not.
Named == n1 :> n1 @@ n2 :> h2 @@ n3 :> h3

\* Two ranges share bits, and the third is apart: the first leaves two bits for
\* the first digit of a code of two digits, the second four, the third has room
\* for one digit only.
SharedRanges ==
    {[begin |-> 67, end |-> 72], [begin |-> 69, end |-> 76], [begin |-> 77, end |-> 80]}

TwoDigits == [digits: {2}, first: {3, 4}]

MCInit == part \in {"commands", "codes"} /\ Init /\ InitTree

MCNext ==
    /\ UNCHANGED part
    /\ \/ part = "commands" /\ Next /\ UNCHANGED treeVars
       \/ part = "codes" /\ NextTree /\ UNCHANGED vars

MCSpec == MCInit /\ [][MCNext]_<<part, vars, treeVars>>

Symmetry ==
    UNION {Permutations(same) : same \in
              {Rows, Workers, CodeIds, CodeNames, LayoutIds, Labels, SegmentIds}}

\* Once a request has raced, or finished on rows that had changed, nothing
\* more is claimed: TLC looks no further.
Unraced == ~raced /\ ~astray

=============================================================================
