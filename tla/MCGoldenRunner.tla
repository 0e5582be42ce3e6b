--------------------------- MODULE MCGoldenRunner ---------------------------
(***************************************************************************)
(* An instance of GoldenRunner: programs with an input, a state buffer and *)
(* an output, none, some or all of them resident or given.                 *)
(***************************************************************************)
EXTENDS GoldenRunner

Tensor(resident, dir, given) == [resident |-> resident, dir |-> dir, given |-> given]

Programs ==
    {<<Tensor("no", "in", TRUE), Tensor("no", "inout", TRUE), Tensor("no", "out", TRUE)>>,
     <<Tensor("whole", "in", FALSE), Tensor("stacked", "inout", FALSE), Tensor("stacked", "out", FALSE)>>,
     <<Tensor("stacked", "out", TRUE), Tensor("no", "inout", FALSE), Tensor("whole", "in", FALSE)>>}
=============================================================================
