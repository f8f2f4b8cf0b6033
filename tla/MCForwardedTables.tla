------------------------- MODULE MCForwardedTables -------------------------
(* The instances of ForwardedTables and NodeRows that TLC checks: a         *)
(* behaviour is of one of them, and the other rests.                        *)
EXTENDS ForwardedTables, NodeRows, TLC

VARIABLE part  \* the module that the behaviour is of

\* A module that rests.
TablesRest ==
    /\ service = CHOOSE s \in Modelled : Grows(s)
    /\ table = [k \in Keys |-> NoRow] /\ node = table
    /\ uses = {} /\ tx = [w \in Workers |-> Idle]
    /\ slipped = {} /\ stale = {} /\ overlapped = {}

RowsRest == rowsOf = "none" /\ row = Absent /\ copy = Absent /\ misled = FALSE

MCInit ==
    \/ part = "tables" /\ Init /\ RowsRest
    \/ part = "rows" /\ TablesRest /\ InitRows

MCNext ==
    /\ UNCHANGED part
    /\ \/ part = "tables" /\ Next /\ UNCHANGED rowsVars
       \/ part = "rows" /\ NextRows /\ UNCHANGED vars

MCSpec == MCInit /\ [][MCNext]_<<part, vars, rowsVars>>

Symmetry == Permutations(Values) \cup Permutations(Workers)

\* What went wrong is explored up to its first key.
FirstMishap == Cardinality(slipped \cup stale \cup overlapped) <= 1

=============================================================================
