---------------------------- MODULE MCPrefillMoe ----------------------------
(***************************************************************************)
(* An instance of PrefillMoe for model checking: two ranks of two experts, *)
(* two layers, two requests, matmul tiles of 2 to 24 rows.                 *)
(***************************************************************************)
EXTENDS PrefillMoe

\* Ways a gate may spread the tokens of a rank over the four experts.
Near(t) == <<0, 1>>
Far(t) == <<3, 2>>
Striped(t) == <<t % 4, (t + 1) % 4>>
Lopsided(t) == <<0, IF t < 5 THEN 2 ELSE 1>>

Plan(lengths0, lengths1, a, b, c) ==
    LET gate(f0(_), f1(_)) == [r \in Ranks |-> [t \in Tokens |-> IF r = 0 THEN f0(t) ELSE f1(t)]]
        pick(n) == CASE n = 1 -> gate(Near, Near) [] n = 2 -> gate(Near, Far)
                     [] n = 3 -> gate(Striped, Lopsided) [] n = 4 -> gate(Lopsided, Lopsided)
                     [] n = 5 -> gate(Far, Striped)
    IN  [q \in 0 .. Requests - 1 |->
            [lengths |-> IF q = 0 THEN lengths0 ELSE lengths1,
             gate |-> [l \in 1 .. Layers |-> pick(IF q = 0 THEN (IF l = 1 THEN a ELSE b) ELSE c)]]]

Lens(a, b, c, d) == [r \in Ranks |-> IF r = 0 THEN <<a, b>> ELSE <<c, d>>]

\* Full slabs, short and empty segments, an empty rank; expert counts of 24, 23,
\* 16, 15, 12, 11, 7, 5, 1 and 0 rows among them.
Mixed ==
    {Plan(Lens(6, 6, 6, 6), Lens(6, 5, 6, 6), 1, 2, 1),
     Plan(Lens(6, 5, 6, 0), Lens(0, 0, 4, 3), 3, 4, 5),
     Plan(Lens(5, 2, 3, 1), Lens(6, 1, 6, 2), 4, 1, 1),
     Plan(Lens(0, 0, 0, 0), Lens(1, 0, 5, 5), 2, 3, 4)}
=============================================================================
