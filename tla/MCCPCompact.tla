---------------------------- MODULE MCCPCompact ----------------------------
(***************************************************************************)
(* An instance of CPCompact for model checking: windows of four rows, CSA  *)
(* records of one token and HCA records of two.                            *)
(***************************************************************************)
EXTENDS CPCompact, TLC

\* The order of a forward, CSA first; a second layer of a kind reuses its bank.
TwoOfEach == <<"csa", "hca", "csa", "hca">>

SmallRatios == [csa |-> 1, hca |-> 2]

\* Both owners serve twice.
Plan(base0, length0, length2, base1, length1, length3) ==
    0 :> [base |-> base0, length |-> length0]
    @@ 1 :> [base |-> base1, length |-> length1]
    @@ 2 :> [base |-> base0 + length0, length |-> length2]
    @@ 3 :> [base |-> base1 + length1, length |-> length3]

\* Prefixes of nothing, one token, exactly one window, one more, two windows and
\* more; chunks that are empty, short, uneven and full.
WindowPlans ==
    {Plan(0, 4, 4, 9, 1, 2), Plan(1, 3, 1, 0, 3, 4), Plan(5, 3, 2, 4, 2, 0),
     Plan(8, 4, 2, 0, 0, 1), Plan(0, 0, 3, 1, 4, 1)}
=============================================================================
