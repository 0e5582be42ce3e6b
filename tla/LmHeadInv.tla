------------------------------ MODULE LmHeadInv ------------------------------
(***************************************************************************)
(* The inductive invariant of LmHead: what the counters and the windows of *)
(* a head mean in terms of how far the ranks have come.                    *)
(***************************************************************************)
EXTENDS LmHead

Banks == 0 .. Heads - 1

Stages == {"body", "head", "project", "gather", "returned", "stopped"}

\* Where the ranks are.
Places ==
    /\ round \in [Ranks -> 0 .. Rounds]
    /\ stage \in [Ranks -> Stages]
    /\ pushed \in [Ranks -> SUBSET Rows] /\ told \in [Ranks -> SUBSET Rows]
    /\ heard \in [Ranks -> BOOLEAN]
    /\ stored \in [Ranks -> SUBSET (Blocks \X Lanes)]
    /\ signalled \in [Ranks -> SUBSET (Blocks \X Lanes)]
    /\ gathered \in [Ranks -> SUBSET (0 .. CommBlocks - 1)]
    /\ clearing \in [Ranks -> SUBSET Banks]

\* What they hold.
Contents ==
    /\ indices \in Indices
    /\ owners \in [Ranks -> [Ranks \X Rows -> HiddenItems]]
    /\ hidden \in [Banks -> [Ranks -> [Ranks \X Rows -> HiddenItems]]]
    /\ shards \in [Banks -> [Ranks -> [Rows \X Vocab -> LogitItems]]]
    /\ hiddenDone \in [Banks -> [Ranks -> [Ranks -> Nat]]]
    /\ logitsDone \in [Banks -> [Ranks -> [Ranks -> Nat]]]
    /\ logits \in [Ranks -> [Rows \X Vocab -> LogitItems]]

Shape == Places /\ Contents

-----------------------------------------------------------------------------
\* What a rank has done fits its stage.
PositionAt(r) ==
    /\ stage[r] = "stopped" <=> round[r] = Rounds
    /\ stage[r] \in {"body", "stopped"} => pushed[r] = {} /\ told[r] = {} /\ ~heard[r]
    /\ stage[r] \in {"body", "head", "stopped"} => stored[r] = {} /\ signalled[r] = {}
    /\ stage[r] # "gather" /\ stage[r] # "returned" => gathered[r] = {}
    /\ stage[r] \in {"project", "gather", "returned"} => heard[r] /\ told[r] = Rows
    /\ told[r] \subseteq pushed[r] /\ signalled[r] \subseteq stored[r]
    /\ stage[r] \in {"gather", "returned"} => signalled[r] = Blocks \X Lanes
    /\ stage[r] = "returned" => gathered[r] = 0 .. CommBlocks - 1

\* The counters still to be cleared are of heads that r has returned from, in
\* the forward it is in.
ClearingAt(r) ==
    \A w \in clearing[r] : w < Bank(round[r]) \/ (w = Bank(round[r]) /\ stage[r] = "returned")

\* All that p has to say to r in its round has been said.
Served(p, r) == told[p] = Rows /\ Blocks \X {r} \subseteq signalled[p]

\* No rank is ahead by more than a head; it is then at its body, and the other
\* has served it.
Separated ==
    \A r, p \in Ranks : round[p] < round[r] =>
        round[r] = round[p] + 1 /\ stage[r] \in {"body", "stopped"} /\ Served(p, r)

\* A rank that has waited was served by the ranks that are in its round.
Collected ==
    \A r \in Ranks : \A p \in Peers(r) : round[p] = round[r] =>
        /\ heard[r] => told[p] = Rows
        /\ stage[r] \in {"gather", "returned"} => Served(p, r)

\* Signals of p to r in round n.
HiddenSent(p, n) ==
    IF round[p] > n THEN MaxLogitRows ELSE IF round[p] = n THEN Cardinality(told[p]) ELSE 0

BlocksTold(p, r) == {b \in Blocks : <<b, r>> \in signalled[p]}

LogitsSent(p, r, n) ==
    IF round[p] > n THEN Cores ELSE IF round[p] = n THEN Cardinality(BlocksTold(p, r)) ELSE 0

\* The bank that r's round uses, until it has returned.
Live(r, w) == w = Bank(round[r]) /\ stage[r] \notin {"returned", "stopped"}

\* A counter holds the signals of one round: of one that is over, until it is
\* cleared, or of the one r is in.
SignalsOK ==
    \A w \in Banks, r, p \in Ranks :
        /\ hiddenDone[w][r][p] =
             IF p = r THEN 0 ELSE IF w \in clearing[r] THEN MaxLogitRows
             ELSE IF Live(r, w) THEN HiddenSent(p, round[r]) ELSE 0
        /\ logitsDone[w][r][p] =
             IF p = r THEN 0 ELSE IF w \in clearing[r] THEN Cores
             ELSE IF Live(r, w) THEN LogitsSent(p, r, round[r]) ELSE 0

-----------------------------------------------------------------------------
\* What p has pushed lies in all windows of its round's bank.
PushedOK ==
    \A p, r \in Ranks : \A row \in pushed[p] :
        hidden[Bank(round[p])][r][<<p, row>>] = Asked(p, round[p], row)

\* The column of the vocabulary that is column c of the shard of p.
Column(p, c) == p * VocabPerTp + c

BlockColumns(b) == UNION {Columns(t) : t \in TilesOf(b)}

\* The blocks that p has stored for r lie in r's window.
StoredOK ==
    \A p, r \in Ranks, b \in Blocks : <<b, r>> \in stored[p] =>
        \A row \in Rows, c \in BlockColumns(b) :
            shards[Bank(round[p])][r][<<row, Column(p, c)>>] =
                Logit(Asked(r, round[p], row), Column(p, c))

\* When p is a head ahead of r, all it stored in r's round lies in r's window.
PassedOK ==
    \A p, r \in Ranks, b \in Blocks : round[r] < round[p] =>
        \A row \in Rows, c \in BlockColumns(b) :
            shards[Bank(round[r])][r][<<row, Column(p, c)>>] =
                Logit(Asked(r, round[r], row), Column(p, c))

\* Once r has waited for the columns, its window is whole, and stays so.
WholeOK ==
    \A r \in Ranks : stage[r] \in {"gather", "returned"} =>
        \A row \in Rows, v \in Vocab :
            shards[Bank(round[r])][r][<<row, v>>] = Logit(Asked(r, round[r], row), v)

GatheredOK ==
    \A r \in Ranks : \A b \in gathered[r], row \in Rows, v \in Vocab :
        v % VocabPerTp \in GatherColumns(b) =>
            logits[r][<<row, v>>] = Logit(Asked(r, round[r], row), v)

ControlOK ==
    /\ \A r \in Ranks : PositionAt(r) /\ ClearingAt(r)
    /\ Separated /\ Collected /\ SignalsOK

\* The strengthening of RowsExact and ClearsWhole.
IInv ==
    /\ Shape /\ ControlOK
    /\ PushedOK /\ HiddensExact /\ StoredOK /\ PassedOK /\ WholeOK /\ GatheredOK
=============================================================================
