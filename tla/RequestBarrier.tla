--------------------------- MODULE RequestBarrier ---------------------------
(***************************************************************************)
(* What the request barrier promises: members go through Rounds rounds,    *)
(* and none leaves a round before every member has reached its end.        *)
(***************************************************************************)
EXTENDS Integers

CONSTANTS
    Members,    \* the ranks of a context-parallel group
    Rounds      \* requests they serve

VARIABLES
    at,         \* at[m]: the round m is in
    waiting     \* waiting[m]: m has reached the end of its round

Init ==
    /\ at = [m \in Members |-> 0]
    /\ waiting = [m \in Members |-> FALSE]

Reach(m) ==
    /\ at[m] < Rounds /\ ~waiting[m]
    /\ waiting' = [waiting EXCEPT ![m] = TRUE]
    /\ UNCHANGED at

\* Member n has reached the end of the round m is in.
Through(n, m) == at[n] > at[m] \/ (at[n] = at[m] /\ waiting[n])

Leave(m) ==
    /\ waiting[m]
    /\ \A n \in Members : Through(n, m)
    /\ at' = [at EXCEPT ![m] = @ + 1]
    /\ waiting' = [waiting EXCEPT ![m] = FALSE]

Next == \E m \in Members : Reach(m) \/ Leave(m)

Spec == Init /\ [][Next]_<<at, waiting>>
=============================================================================
