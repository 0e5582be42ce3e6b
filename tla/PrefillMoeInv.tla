---------------------------- MODULE PrefillMoeInv ----------------------------
(***************************************************************************)
(* The inductive invariant of PrefillMoe: what the counters, the counts    *)
(* and the windows mean in terms of how far the ranks have come.           *)
(***************************************************************************)
EXTENDS PrefillMoe

AfterReverse == {"complete", "arrive"}
AfterPayload == {"experts", "reverse"} \cup AfterReverse
AfterCount == {"payload"} \cup AfterPayload

\* What a rank has done fits its stage.
PlaceOK(r) ==
    /\ stage[r] = "stopped" <=> request[r] = Requests
    /\ stage[r] = "stopped" => layer[r] = 1
    /\ stage[r] = "arrive" => layer[r] = Layers
    /\ waiting[r] => stage[r] = "arrive"
    /\ counted[r] # 0 => stage[r] = "count"
    /\ sent[r] # {} => stage[r] \in {"payload", "reverse"}
    /\ told[r] # {} => sent[r] = Ranks
    /\ told[r] \subseteq Peers(r)

\* Steps p has done towards r in its layer.
CountSent(p, r) == stage[p] \in AfterCount \/ (stage[p] = "count" /\ counted[p] > r)
PayloadPut(p, r) == stage[p] \in AfterPayload \/ (stage[p] = "payload" /\ r \in sent[p])
PayloadSent(p, r) == stage[p] \in AfterPayload \/ (stage[p] = "payload" /\ r \in told[p])
ReversePut(p, r) == stage[p] \in AfterReverse \/ (stage[p] = "reverse" /\ r \in sent[p])
ReverseSent(p, r) == stage[p] \in AfterReverse \/ (stage[p] = "reverse" /\ r \in told[p])

\* The last layer p has done such a step for: announced its counts, its rows and
\* its results to r, put its results to r, and summed its tokens.
Reached(p, done) == IF done THEN layer[p] ELSE layer[p] - 1
CountsOut(p, r) == Reached(p, CountSent(p, r))
PayloadsOut(p, r) == Reached(p, PayloadSent(p, r))
ReturnsOut(p, r) == Reached(p, ReverseSent(p, r))
LayersBack(p, r) == Reached(p, ReversePut(p, r))
LayersDone(p) == Reached(p, stage[p] \in AfterReverse)

\* r has cleared its counters of p, and p has not begun its next request.
Cleared(r, p) == request[p] < request[r] \/ (request[p] = request[r] /\ stage[r] = "arrive")

\* The counters say how far their sources have come, until they are cleared.
CountersOK(r, p) ==
    /\ countSignal[r][p] = IF Cleared(r, p) THEN 0 ELSE CountsOut(p, r)
    /\ xSignal[r][p] = IF Cleared(r, p) THEN 0 ELSE PayloadsOut(p, r)
    /\ reverseSignal[r][p] = IF Cleared(r, p) THEN 0 ELSE ReturnsOut(p, r)

\* No rank is more than a request ahead of another, and then it has not got
\* beyond its first wait; within a request the waits bound what p lacks.
Close(r, p) ==
    /\ request[r] <= request[p] + 1
    /\ request[p] < request[r] =>
         waiting[p] /\ layer[r] = 1 /\ stage[r] \in {"pack", "count", "stopped"}
    /\ request[p] = request[r] /\ p # r =>
         /\ stage[r] \in AfterCount => CountsOut(p, r) >= layer[r]
         /\ stage[r] \in AfterPayload => PayloadsOut(p, r) >= layer[r]
         /\ ReturnsOut(p, r) >= LayersDone(r)

ControlOK ==
    /\ \A r \in Ranks : PlaceOK(r)
    /\ \A r, p \in Ranks : Close(r, p)
    /\ \A r \in Ranks, p \in Ranks : p # r => CountersOK(r, p)

-----------------------------------------------------------------------------
(***************************************************************************)
(* What a rank brings to a layer: n, the lengths of its segments, and c,   *)
(* the gate's choices for its tokens.                                      *)
(***************************************************************************)
SlotIn(n, t) == IF t < n[1] THEN t ELSE SegmentRows + t - n[1]
RoutesIn(n) == 0 .. (n[1] + n[2]) * TopK - 1
ExpertIn(n, c, x) == c[SlotIn(n, x \div TopK)][(x % TopK) + 1]

\* Routes to an expert, and those of them before a route.
Class(n, c, g) == {x \in RoutesIn(n) : ExpertIn(n, c, x) = g}
Rank(n, c, x) == Cardinality({y \in Class(n, c, ExpertIn(n, c, x)) : y < x})

Size(n, c, g) == Cardinality(Class(n, c, g))

\* Routes to the experts before one.
First(n, c, g) == Sum([i \in 0 .. g - 1 |-> Size(n, c, i)], g)

\* The j-th route to an expert.
Nth(n, c, g, j) == CHOOSE x \in Class(n, c, g) : Rank(n, c, x) = j

\* Row of a route in the send buffer, and in the windows of its source.
RowIn(n, c, x) == First(n, c, ExpertIn(n, c, x)) + Rank(n, c, x)
BackIn(n, c, x) ==
    LET d == ExpertIn(n, c, x) \div Local
    IN  d * PeerCap + RowIn(n, c, x) - First(n, c, d * Local)

(***************************************************************************)
(* A batch b: what all ranks bring to one layer of a request.              *)
(***************************************************************************)
Batch(q, l) == [lengths |-> plan[q].lengths, gate |-> plan[q].gate[l], call |-> q * Layers + l]
Current(r) == Batch(request[r], layer[r])

PackedOf(b, r) ==
    [x \in RoutesIn(b.lengths[r]) |->
        <<RowIn(b.lengths[r], b.gate[r], x), BackIn(b.lengths[r], b.gate[r], x)>>]

\* Rows of s for an expert, where they start in the lane of s at the expert's
\* rank d, and the j-th of them.
SizeOf(b, s, g) == Size(b.lengths[s], b.gate[s], g)
LaneRow(b, s, d, e) ==
    First(b.lengths[s], b.gate[s], d * Local + e) - First(b.lengths[s], b.gate[s], d * Local)
ItemOf(b, s, g, j) ==
    LET x == Nth(b.lengths[s], b.gate[s], g, j)
    IN  [call |-> b.call, source |-> s, slot |-> SlotIn(b.lengths[s], x \div TopK), k |-> x % TopK]

CountsOf(b, s, d) == [e \in Experts |-> SizeOf(b, s, d * Local + e)]

\* Window x of d holds the rows of s, by expert; window y of s their results.
LaneHolds(x, b, s, d) ==
    \A e \in Experts : \A j \in 0 .. SizeOf(b, s, d * Local + e) - 1 :
        x[s * PeerCap + LaneRow(b, s, d, e) + j] = ItemOf(b, s, d * Local + e, j)
BackHolds(y, b, s, d) ==
    \A e \in Experts : \A j \in 0 .. SizeOf(b, s, d * Local + e) - 1 :
        y[d * PeerCap + LaneRow(b, s, d, e) + j]
          = Row(ItemOf(b, s, d * Local + e, j), d * Local + e)

\* Where counts m put the slab of an expert, and a source in it.
RowsIn(m, e) == Sum([s \in Ranks |-> m[s][e]], EP)
BaseIn(m, e) == Sum([i \in Experts |-> CeilTo(RowsIn(m, i), RecvTile)], e)
PrefixIn(m, s, e) == Sum([i \in Ranks |-> m[i][e]], s)

\* The slabs u of d hold each source's rows, after the experts have run or before,
\* and the padding after them.
SlabsHold(u, m, b, d, ran) ==
    \A e \in Experts : \A s \in Ranks : \A j \in 0 .. SizeOf(b, s, d * Local + e) - 1 :
        u[BaseIn(m, e) + PrefixIn(m, s, e) + j]
          = Row(ItemOf(b, s, d * Local + e, j), IF ran THEN d * Local + e ELSE -1)
PadsHold(u, m) ==
    \A e \in Experts : \A j \in RowsIn(m, e) .. CeilTo(RowsIn(m, e), RecvTile) - 1 :
        u[BaseIn(m, e) + j] = Blank

-----------------------------------------------------------------------------
PackedOK ==
    \A r \in Ranks : stage[r] \notin {"pack", "stopped"} => packed[r] = PackedOf(Current(r), r)

\* The counts in flight are those of the sender's layer, those taken of the
\* receiver's.
CountsSentOK ==
    \A r, s \in Ranks : CountSent(s, r) => countTarget[r][s] = CountsOf(Current(s), s, r)

CountsTakenOK ==
    \A r \in Ranks : stage[r] \in AfterCount =>
        counts[r] = [s \in Ranks |-> CountsOf(Current(r), s, r)]

\* The lane of s at d holds the rows of its layer.
LanesOK ==
    \A d, s \in Ranks : PayloadPut(s, d) => LaneHolds(xTarget[d], Current(s), s, d)

\* The slabs hold each source's rows, before and after the experts have run.
SlabsOK ==
    \A r \in Ranks : stage[r] \in {"experts", "reverse"} =>
        SlabsHold(grouped[r], counts[r], Current(r), r, stage[r] = "reverse")

PaddingOK == \A r \in Ranks : stage[r] = "experts" => PadsHold(grouped[r], counts[r])

\* The lane of p at d holds the results of the last layer p has returned.
ReturnsOK ==
    \A d, p \in Ranks :
        LayersBack(p, d) >= 1 =>
            BackHolds(reverseTarget[d], Batch(request[p], LayersBack(p, d)), d, p)

\* The strengthening of RoutesExact and ClearsExactly.
IInv ==
    /\ TypeOK /\ ControlOK /\ PackedOK
    /\ CountsSentOK /\ CountsTakenOK /\ LanesOK
    /\ SlabsOK /\ PaddingOK /\ ReturnsOK /\ OutputExact
=============================================================================
