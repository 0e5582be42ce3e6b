---------------------------- MODULE MCMoeExchange ----------------------------
(***************************************************************************)
(* Instances of MoeExchange for TLC: which experts the gate may choose.    *)
(***************************************************************************)
EXTENDS MoeExchangeInv, TLC

\* Two ranks of four experts in two push groups.  Two tokens on each rank: every
\* rank is sent rows, and one of the two push blocks for it has none.  One
\* token: both go to rank 0, and rank 1 is sent nothing.  None: both ranks are
\* sent nothing.
MixedRoutings == {0 :> 0 @@ 1 :> 5, 0 :> 0, <<>>}

\* One token on each rank, both for experts of rank 0.
OneSidedRoutings == {0 :> 0, 0 :> 1}
=============================================================================
