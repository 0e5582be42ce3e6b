------------------------------ MODULE MCLmHead ------------------------------
(***************************************************************************)
(* An instance of LmHead for model checking.                               *)
(***************************************************************************)
EXTENDS LmHead

\* Rows that exist, padding, and an index past the rows of the step.
RowChoices ==
    {[r \in Ranks |-> [row \in Rows |-> IF r = 0 THEN row ELSE 1 - 2 * row]],
     [r \in Ranks |-> [row \in Rows |-> IF r = 0 THEN -1 ELSE HiddenRows + row]]}
=============================================================================
