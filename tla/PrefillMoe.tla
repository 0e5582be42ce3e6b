----------------------------- MODULE PrefillMoe -----------------------------
(***************************************************************************)
(* The expert-parallel exchange of a prefill forward.  A rank packs the    *)
(* tokens of its two segments, sorts their routes by expert, tells every   *)
(* rank how many rows each of its experts gets, and puts the rows into its *)
(* own lane of the receiver's window.  The receiver sorts them into one    *)
(* slab per expert, aligned to the smallest matmul tile, runs its experts  *)
(* tile by tile, and puts each source's results back into its own lane of  *)
(* that source, which sums them for its tokens.                            *)
(*                                                                         *)
(* Nothing but the counts of the first exchange says whose row is whose:   *)
(* both sides derive every position from them.  The three counters of a    *)
(* peer grow by one a layer; a rank clears its own after the last layer.   *)
(***************************************************************************)
EXTENDS Integers, Sequences, FiniteSets

CONSTANTS
    EP,           \* ranks (N_RANKS)
    Local,        \* experts of a rank (N_LOCAL)
    SegmentRows,  \* rows of one attention slot; a rank has two
    TopK,         \* experts of a token (TOPK)
    CountTile,    \* tokens of a counting shard (COUNT_TOKEN_TILE)
    PutTile,      \* rows of one put (DISPATCH_ROW_TILE, REVERSE_ROW_TILE)
    RecvTile,     \* rows of the smallest matmul tile (RECV_TILE)
    Layers,       \* MoE calls of a forward
    Requests,     \* bound: requests served
    Plans         \* what requests bring: segment lengths and the gate's choices

Ranks == 0 .. EP - 1
Experts == 0 .. Local - 1
Globals == 0 .. EP * Local - 1
Tokens == 0 .. 2 * SegmentRows - 1
PeerCap == 2 * SegmentRows * TopK       \* a lane fits all routes of a source

Sizes ==
    /\ {EP, Local, SegmentRows, TopK, CountTile, PutTile, RecvTile, Layers} \subseteq Nat \ {0}
    /\ Requests \in Nat

ASSUME SizesAssumption == Sizes

\* A token's experts are distinct; a rank may have no token in either segment.
PlansFit ==
    \A plan \in Plans : \A q \in 0 .. Requests - 1, r \in Ranks :
        /\ plan[q].lengths[r] \in (0 .. SegmentRows) \X (0 .. SegmentRows)
        /\ \A l \in 1 .. Layers, t \in Tokens :
             /\ plan[q].gate[l][r][t] \in [1 .. TopK -> Globals]
             /\ \A i, j \in 1 .. TopK :
                  i # j => plan[q].gate[l][r][t][i] # plan[q].gate[l][r][t][j]

ASSUME PlansAssumption == PlansFit

VARIABLES
    plan,        \* what the requests bring
    request, waiting,   \* request r is in, and whether r is in its barrier
    layer,       \* layer[r]: MoE call of the forward, also its epoch
    stage,       \* stage[r]: what r is doing
    packed,      \* packed[r]: route -> its row in the send buffer and in the return windows
    counted,     \* counted[r]: destinations r has sent its counts to
    sent,        \* sent[r]: destinations r has put the rows of this stage to
    told,        \* told[r]: peers r has announced them to
    counts,      \* counts[r][s][e]: rows of s for r's expert e
    grouped,     \* grouped[r]: row -> input, then output, of r's experts
    out,         \* out[r]: slot -> results summed for the token in it
    countTarget, xTarget, reverseTarget,    \* the windows of r
    countSignal, xSignal, reverseSignal     \* [r][p]: r's counters of p

vars == <<plan, request, waiting, layer, stage, packed, counted, sent, told, counts,
          grouped, out, countTarget, xTarget, reverseTarget, countSignal, xSignal, reverseSignal>>

progress == <<plan, request, waiting, layer>>
windows == <<countTarget, xTarget, reverseTarget>>
signals == <<countSignal, xSignal, reverseSignal>>

Peers(r) == Ranks \ {r}

\* f[0] + ... + f[n - 1].
Sum(f, n) ==
    LET upto[i \in 0 .. n] == IF i = 0 THEN 0 ELSE upto[i - 1] + f[i - 1]
    IN  upto[n]

CeilTo(n, size) == ((n + size - 1) \div size) * size

-----------------------------------------------------------------------------
\* Packing of the source.

Lengths(r) == plan[request[r]].lengths[r]
Active(r) == Lengths(r)[1] + Lengths(r)[2]

\* The slot of packed token t: full slabs and packed prefixes agree on it.
SlotOf(r, t) == IF t < Lengths(r)[1] THEN t ELSE SegmentRows + t - Lengths(r)[1]

\* Routes of r's packed tokens, in order: token * TopK + k.
Routes(r) == 0 .. Active(r) * TopK - 1

\* A route, with the slot of its token.
Route(r, x) == [call |-> request[r] * Layers + layer[r], source |-> r,
                slot |-> SlotOf(r, x \div TopK), k |-> x % TopK]

NoRow == [call |-> -1, source |-> -1, slot |-> -1, k |-> -1]

\* A row after an expert has run on it; -1 before.
Row(x, e) == [route |-> x, expert |-> e]

Blank == Row(NoRow, -1)

ExpertOf(r, x) == plan[request[r]].gate[layer[r]][r][SlotOf(r, x \div TopK)][(x % TopK) + 1]

ShardOf(x) == (x \div TopK) \div CountTile

\* Routes a shard has for an expert.
Partial(r, shard, g) == Cardinality({x \in Routes(r) : ShardOf(x) = shard /\ ExpertOf(r, x) = g})

Total(r, g) == Cardinality({x \in Routes(r) : ExpertOf(r, x) = g})

\* First packed row of an expert's routes.
Start(r, g) == Sum([i \in 0 .. g - 1 |-> Total(r, i)], g)

\* Packed row of a route: expert-major, the shards in order within an expert.
Packed(r, x) ==
    LET g == ExpertOf(r, x)
    IN  Start(r, g) + Sum([s \in 0 .. ShardOf(x) - 1 |-> Partial(r, s, g)], ShardOf(x))
          + Cardinality({y \in Routes(r) : ShardOf(y) = ShardOf(x) /\ y < x /\ ExpertOf(r, y) = g})

\* Rows r sends to each expert of d, and to d.
CountRow(r, d) == [e \in Experts |-> Total(r, d * Local + e)]
SendCount(r, d) == Sum(CountRow(r, d), Local)

\* The map of a route: its packed row, and the row of r's return windows where
\* its result comes back.
Position(r, x) ==
    LET d == ExpertOf(r, x) \div Local
        row == Packed(r, x)
    IN  <<row, d * PeerCap + row - Start(r, d * Local)>>

\* Rows that stream g of the four of a destination puts: whole tiles, then
\* single rows.
Stream(g, n) ==
    LET full == (n \div PutTile) * PutTile
    IN  {i \in 0 .. full - 1 : (i \div PutTile) % 4 = g}
          \cup {i \in full .. n - 1 : (i - full) % 4 = g}

\* What the four streams of r leave in d's window.
Pushed(r, d, before) ==
    LET base == Start(r, d * Local)
        n == SendCount(r, d)
        lane == r * PeerCap
        rows == UNION {Stream(g, n) : g \in 0 .. 3}
    IN  [i \in DOMAIN before |->
            IF i - lane \in rows
            THEN Route(r, CHOOSE x \in Routes(r) : packed[r][x][1] = base + i - lane)
            ELSE before[i]]

-----------------------------------------------------------------------------
\* Sorting of the receiver.

ExpertRows(r, e) == Sum([s \in Ranks |-> counts[r][s][e]], EP)

\* First row of an expert's slab: each slab is aligned to the smallest tile.
ExpertBase(r, e) == Sum([i \in Experts |-> CeilTo(ExpertRows(r, i), RecvTile)], e)

\* Rows of source s for r's experts before e, and for e of sources before s.
SourceBase(r, s, e) == Sum(counts[r][s], e)
SourcePrefix(r, s, e) == Sum([i \in Ranks |-> counts[r][i][e]], s)

GroupedRows == 0 .. EP * PeerCap + Local * (RecvTile - 1) - 1

\* Source-major slabs, padded with rows of zeros.
Resorted(r) ==
    LET slab(e, i) == i - ExpertBase(r, e)
        from(c, i) == slab(c[1], i) - SourcePrefix(r, c[2], c[1])
        has(c, i) == from(c, i) \in 0 .. counts[r][c[2]][c[1]] - 1
    IN  [i \in GroupedRows |->
            IF \E c \in Experts \X Ranks : has(c, i)
            THEN LET c == CHOOSE c \in Experts \X Ranks : has(c, i)
                 IN  Row(xTarget[r][c[2] * PeerCap + SourceBase(r, c[2], c[1]) + from(c, i)], -1)
            ELSE IF \E e \in Experts : slab(e, i) \in 0 .. CeilTo(ExpertRows(r, e), RecvTile) - 1
            THEN Blank
            ELSE grouped[r][i]]

\* Mutant: the tail of an expert takes one tile of each size at most.
Tiles_OneEach(n) ==
    LET a == CeilTo(n % (8 * RecvTile), RecvTile)
        main == n \div (8 * RecvTile)
        after == main * 8 * RecvTile
        t64 == IF a >= 4 * RecvTile THEN 1 ELSE 0
        t32 == IF a % (4 * RecvTile) >= 2 * RecvTile THEN 1 ELSE 0
    IN  {<<i * 8 * RecvTile, 8 * RecvTile>> : i \in 0 .. main - 1}
          \cup {<<after, 4 * RecvTile>> : i \in 1 .. t64}
          \cup {<<after + t64 * 4 * RecvTile, 2 * RecvTile>> : i \in 1 .. t32}
          \cup {<<after + (t64 * 4 + t32 * 2) * RecvTile, RecvTile>> : i \in 1 .. (a % (2 * RecvTile)) \div RecvTile}

\* Tiles of an expert with n rows, as <<first row, rows>>: one M192 tile if they
\* align to it, or M128 tiles and a tail of M96, or of M64, M32 and M16.
Tiles(n) ==
    LET m == RecvTile
        whole == IF CeilTo(n, m) = 12 * m THEN 1 ELSE 0
        main == (n \div (8 * m)) * (1 - whole)
        tail == CeilTo(n % (8 * m), m) * (1 - whole)
        t96 == IF tail = 6 * m THEN 1 ELSE 0
        rest == tail - t96 * 6 * m
        t64 == rest \div (4 * m)
        t32 == (rest % (4 * m)) \div (2 * m)
        t16 == (rest % (2 * m)) \div m
        after == main * 8 * m + t96 * 6 * m
    IN  {<<0, 12 * m>> : i \in 1 .. whole}
          \cup {<<i * 8 * m, 8 * m>> : i \in 0 .. main - 1}
          \cup {<<main * 8 * m, 6 * m>> : i \in 1 .. t96}
          \cup {<<after + i * 4 * m, 4 * m>> : i \in 0 .. t64 - 1}
          \cup {<<after + (t64 * 4 + i * 2) * m, 2 * m>> : i \in 0 .. t32 - 1}
          \cup {<<after + (t64 * 4 + t32 * 2 + i) * m, m>> : i \in 0 .. t16 - 1}

\* The tiles of all experts; the first n rows of an expert count as valid.
Computed(r) ==
    LET hit(e, i) == \E t \in Tiles(ExpertRows(r, e)) :
                        i - ExpertBase(r, e) \in t[1] .. t[1] + t[2] - 1
        valid(e, i) == hit(e, i) /\ i - ExpertBase(r, e) < ExpertRows(r, e)
    IN  [i \in GroupedRows |->
            IF \E e \in Experts : valid(e, i) /\ \A f \in Experts \ {e} : ~hit(f, i)
            THEN Row(grouped[r][i].route, r * Local + CHOOSE e \in Experts : valid(e, i))
            ELSE Blank]

\* What r's results leave in the return window of source d.
Returned(r, d, before) ==
    LET total == Sum(counts[r][d], Local)
        n(e) == IF counts[r][d][e] < total - SourceBase(r, d, e)
                THEN counts[r][d][e] ELSE total - SourceBase(r, d, e)
    IN  [i \in DOMAIN before |->
            LET hit == {e \in Experts :
                          i - r * PeerCap - SourceBase(r, d, e) \in 0 .. n(e) - 1}
            IN  IF hit = {} THEN before[i]
                ELSE LET e == CHOOSE e \in hit : TRUE
                     IN  grouped[r][ExpertBase(r, e) + SourcePrefix(r, d, e)
                                      + i - r * PeerCap - SourceBase(r, d, e)]]

-----------------------------------------------------------------------------
Barrier == INSTANCE RequestBarrier
    WITH Members <- Ranks, Rounds <- Requests, at <- request

WindowRows == 0 .. EP * PeerCap - 1
NoCounts == [s \in Ranks |-> [e \in Experts |-> 0]]
Zeros == [r \in Ranks |-> [p \in Ranks |-> 0]]

Init ==
    /\ plan \in Plans
    /\ Barrier!Init
    /\ layer = [r \in Ranks |-> 1]
    /\ stage = [r \in Ranks |-> IF Requests = 0 THEN "stopped" ELSE "pack"]
    /\ packed = [r \in Ranks |-> <<>>]
    /\ counted = [r \in Ranks |-> 0]
    /\ sent = [r \in Ranks |-> {}]
    /\ told = [r \in Ranks |-> {}]
    /\ counts = [r \in Ranks |-> NoCounts]
    /\ grouped = [r \in Ranks |-> [i \in GroupedRows |-> Blank]]
    /\ out = [r \in Ranks |-> [i \in Tokens |-> <<>>]]
    /\ countTarget = [r \in Ranks |-> NoCounts]
    /\ xTarget = [r \in Ranks |-> [i \in WindowRows |-> NoRow]]
    /\ reverseTarget = [r \in Ranks |-> [i \in WindowRows |-> Blank]]
    /\ countSignal = Zeros /\ xSignal = Zeros /\ reverseSignal = Zeros

\* The routes of the active tokens are counted, given their rows, and packed.
Pack(r) ==
    /\ stage[r] = "pack"
    /\ packed' = [packed EXCEPT ![r] = [x \in Routes(r) |-> Position(r, x)]]
    /\ stage' = [stage EXCEPT ![r] = "count"]
    /\ UNCHANGED <<progress, counted, sent, told, counts, grouped, out, windows, signals>>

\* One task: counts and notifications destination by destination, then the wait.
SendCounts(r) ==
    /\ stage[r] = "count" /\ counted[r] < EP
    /\ LET d == counted[r]
       IN  /\ countTarget' = [countTarget EXCEPT ![d][r] = CountRow(r, d)]
           /\ countSignal' = IF d = r THEN countSignal ELSE [countSignal EXCEPT ![d][r] = @ + 1]
    /\ counted' = [counted EXCEPT ![r] = @ + 1]
    /\ UNCHANGED <<progress, stage, packed, sent, told, counts, grouped, out,
                   xTarget, reverseTarget, xSignal, reverseSignal>>

\* Mutant: any notification of the request is taken for this layer's.
Heard_Once(r, signal) == \A p \in Peers(r) : signal[r][p] >= 1

\* Every peer has announced this layer.
Heard(r, signal) == \A p \in Peers(r) : signal[r][p] >= layer[r]

TakeCounts(r) ==
    /\ stage[r] = "count" /\ counted[r] = EP
    /\ Heard(r, countSignal)
    /\ counts' = [counts EXCEPT ![r] = countTarget[r]]
    /\ stage' = [stage EXCEPT ![r] = "payload"]
    /\ counted' = [counted EXCEPT ![r] = 0]
    /\ UNCHANGED <<progress, packed, sent, told, grouped, out, windows, signals>>

PutPayload(r, d) ==
    /\ stage[r] = "payload" /\ d \notin sent[r]
    /\ sent' = [sent EXCEPT ![r] = @ \cup {d}]
    /\ xTarget' = [xTarget EXCEPT ![d] = Pushed(r, d, @)]
    /\ UNCHANGED <<progress, stage, packed, counted, told, counts, grouped, out,
                   countTarget, reverseTarget, signals>>

NotifyPayload(r, p) ==
    /\ stage[r] = "payload" /\ sent[r] = Ranks /\ p \in Peers(r) \ told[r]
    /\ told' = [told EXCEPT ![r] = @ \cup {p}]
    /\ xSignal' = [xSignal EXCEPT ![p][r] = @ + 1]
    /\ UNCHANGED <<progress, stage, packed, counted, sent, counts, grouped, out,
                   windows, countSignal, reverseSignal>>

\* The payload is here, and sorted into slabs.
Resort(r) ==
    /\ stage[r] = "payload" /\ sent[r] = Ranks /\ told[r] = Peers(r)
    /\ Heard(r, xSignal)
    /\ grouped' = [grouped EXCEPT ![r] = Resorted(r)]
    /\ stage' = [stage EXCEPT ![r] = "experts"]
    /\ sent' = [sent EXCEPT ![r] = {}]
    /\ told' = [told EXCEPT ![r] = {}]
    /\ UNCHANGED <<progress, packed, counted, counts, out, windows, signals>>

RunExperts(r) ==
    /\ stage[r] = "experts"
    /\ grouped' = [grouped EXCEPT ![r] = Computed(r)]
    /\ stage' = [stage EXCEPT ![r] = "reverse"]
    /\ UNCHANGED <<progress, packed, counted, sent, told, counts, out, windows,
                   signals>>

PutReverse(r, d) ==
    /\ stage[r] = "reverse" /\ d \notin sent[r]
    /\ sent' = [sent EXCEPT ![r] = @ \cup {d}]
    /\ reverseTarget' = [reverseTarget EXCEPT ![d] = Returned(r, d, @)]
    /\ UNCHANGED <<progress, stage, packed, counted, told, counts, grouped, out,
                   countTarget, xTarget, signals>>

NotifyReverse(r, p) ==
    /\ stage[r] = "reverse" /\ sent[r] = Ranks /\ p \in Peers(r) \ told[r]
    /\ told' = [told EXCEPT ![r] = @ \cup {p}]
    /\ reverseSignal' = [reverseSignal EXCEPT ![p][r] = @ + 1]
    /\ UNCHANGED <<progress, stage, packed, counted, sent, counts, grouped, out,
                   windows, countSignal, xSignal>>

\* Every token sums the results of its routes; inactive slots get zeros.
Finalize(r) ==
    /\ stage[r] = "reverse" /\ sent[r] = Ranks /\ told[r] = Peers(r)
    /\ Heard(r, reverseSignal)
    /\ out' = [out EXCEPT ![r] =
            [i \in Tokens |->
                LET ts == {t \in 0 .. Active(r) - 1 : SlotOf(r, t) = i}
                IN  IF ts = {} THEN <<>>
                    ELSE LET t == CHOOSE t \in ts : TRUE
                         IN  [k \in 1 .. TopK |->
                                reverseTarget[r][packed[r][t * TopK + k - 1][2]]]]]
    /\ stage' = [stage EXCEPT ![r] = "complete"]
    /\ sent' = [sent EXCEPT ![r] = {}]
    /\ told' = [told EXCEPT ![r] = {}]
    /\ UNCHANGED <<progress, packed, counted, counts, grouped, windows, signals>>

\* The next layer's attention starts from the completed layer.
NextLayer(r) ==
    /\ stage[r] = "complete" /\ layer[r] < Layers
    /\ layer' = [layer EXCEPT ![r] = @ + 1]
    /\ stage' = [stage EXCEPT ![r] = "pack"]
    /\ UNCHANGED <<plan, request, waiting, packed, counted, sent, told, counts,
                   grouped, out, windows, signals>>

\* Mutant: the bank of the return notifications is not cleared.
Zeroed_Forward(r) ==
    /\ countSignal' = [countSignal EXCEPT ![r] = [p \in Ranks |-> 0]]
    /\ xSignal' = [xSignal EXCEPT ![r] = [p \in Ranks |-> 0]]
    /\ UNCHANGED reverseSignal

Zeroed(r) ==
    /\ countSignal' = [countSignal EXCEPT ![r] = [p \in Ranks |-> 0]]
    /\ xSignal' = [xSignal EXCEPT ![r] = [p \in Ranks |-> 0]]
    /\ reverseSignal' = [reverseSignal EXCEPT ![r] = [p \in Ranks |-> 0]]

\* Mutant: the counters are cleared as soon as the last layer has begun.
ClearDue_Early(r) == layer[r] = Layers /\ stage[r] \in {"complete", "experts"}

\* The completion of the last layer is the anchor of the clear.
ClearDue(r) == layer[r] = Layers /\ stage[r] = "complete"

ClearSignals(r) ==
    /\ ClearDue(r)
    /\ Zeroed(r)
    /\ stage' = [stage EXCEPT ![r] = "arrive"]
    /\ UNCHANGED <<progress, packed, counted, sent, told, counts, grouped, out,
                   windows>>

Arrive(r) ==
    /\ stage[r] = "arrive"
    /\ Barrier!Reach(r)
    /\ UNCHANGED <<plan, layer, stage, packed, counted, sent, told, counts, grouped,
                   out, windows, signals>>

\* The next request counts its layers from one again.
Leave(r) ==
    /\ Barrier!Leave(r)
    /\ layer' = [layer EXCEPT ![r] = 1]
    /\ stage' = [stage EXCEPT ![r] = IF request[r] + 1 = Requests THEN "stopped" ELSE "pack"]
    /\ UNCHANGED <<plan, packed, counted, sent, told, counts, grouped, out, windows,
                   signals>>

RankStep(r) ==
    \/ Pack(r) \/ SendCounts(r) \/ TakeCounts(r)
    \/ \E p \in Ranks : \/ PutPayload(r, p) \/ NotifyPayload(r, p)
                        \/ PutReverse(r, p) \/ NotifyReverse(r, p)
    \/ Resort(r) \/ RunExperts(r) \/ Finalize(r)
    \/ NextLayer(r) \/ ClearSignals(r)
    \/ Arrive(r) \/ Leave(r)

Stopped == (\A r \in Ranks : stage[r] = "stopped") /\ UNCHANGED vars

Next == (\E r \in Ranks : RankStep(r)) \/ Stopped

Spec == Init /\ [][Next]_vars

FairSpec == Spec /\ \A r \in Ranks : WF_vars(RankStep(r))

-----------------------------------------------------------------------------
RouteItems == [call : -1 .. Requests * Layers + Layers, source : Ranks \cup {-1},
               slot : Tokens \cup {-1}, k : -1 .. TopK - 1]
Rows == [route : RouteItems, expert : Globals \cup {-1}]

TypeOK ==
    /\ plan \in Plans
    /\ request \in [Ranks -> 0 .. Requests] /\ waiting \in [Ranks -> BOOLEAN]
    /\ layer \in [Ranks -> 1 .. Layers]
    /\ stage \in [Ranks -> {"pack", "count", "payload", "experts", "reverse", "complete",
                            "arrive", "stopped"}]
    /\ DOMAIN packed = Ranks /\ DOMAIN out = Ranks
    /\ \A r \in Ranks : packed[r] \in [DOMAIN packed[r] -> (0 .. PeerCap - 1) \X WindowRows]
    /\ counted \in [Ranks -> 0 .. EP]
    /\ sent \in [Ranks -> SUBSET Ranks] /\ told \in [Ranks -> SUBSET Ranks]
    /\ counts \in [Ranks -> [Ranks -> [Experts -> 0 .. PeerCap]]]
    /\ countTarget \in [Ranks -> [Ranks -> [Experts -> 0 .. PeerCap]]]
    /\ grouped \in [Ranks -> [GroupedRows -> Rows]]
    /\ \A r \in Ranks : DOMAIN out[r] = Tokens /\ \A i \in Tokens : out[r][i] \in Seq(Rows)
    /\ xTarget \in [Ranks -> [WindowRows -> RouteItems]]
    /\ reverseTarget \in [Ranks -> [WindowRows -> Rows]]
    /\ \A s \in {countSignal, xSignal, reverseSignal} : s \in [Ranks -> [Ranks -> 0 .. Layers]]

\* Routes of source s for r's expert e, which is in the same layer as r.
Due(r, s, e) ==
    LET lens == plan[request[r]].lengths[s]
        live == {i \in Tokens : i < lens[1] \/ i \in SegmentRows .. SegmentRows + lens[2] - 1}
    IN  {[call |-> request[r] * Layers + layer[r], source |-> s, slot |-> c[1], k |-> c[2] - 1] :
            c \in {c \in live \X (1 .. TopK) :
                     plan[request[r]].gate[layer[r]][s][c[1]][c[2]] = r * Local + e}}

\* Before its experts run, a rank holds for each of them exactly the rows that
\* all ranks route to it in this layer, once each, the sources in order and the
\* tokens of a source in order, and zeros up to the aligned end of the slab.
GroupedExact ==
    \A r \in Ranks : stage[r] = "experts" =>
        \A e \in Experts :
            LET n == Sum([s \in Ranks |-> Cardinality(Due(r, s, e))], EP)
                base == ExpertBase(r, e)
                at(j) == grouped[r][base + j].route
            IN  /\ {at(j) : j \in 0 .. n - 1} = UNION {Due(r, s, e) : s \in Ranks}
                /\ \A i, j \in 0 .. n - 1 : i < j =>
                     \/ at(i).source < at(j).source
                     \/ at(i).source = at(j).source /\ at(i).slot < at(j).slot
                /\ \A j \in n .. CeilTo(n, RecvTile) - 1 : at(j) = NoRow

\* A completed layer has summed, for every live token, the results of its own
\* routes by the experts the gate chose, in order, and zeros elsewhere, however
\* many rows the experts got and from whom.
OutputExact ==
    \A r \in Ranks : stage[r] = "complete" =>
        \A i \in Tokens :
            LET lens == Lengths(r)
                live == i < lens[1] \/ i \in SegmentRows .. SegmentRows + lens[2] - 1
            IN  out[r][i] =
                  IF ~live THEN <<>>
                  ELSE [k \in 1 .. TopK |->
                          Row([call |-> request[r] * Layers + layer[r], source |-> r,
                               slot |-> i, k |-> k - 1],
                              plan[request[r]].gate[layer[r]][r][i][k])]

\* What a layer carries, on the way to the experts and back.
RoutesExact == TypeOK /\ GroupedExact /\ OutputExact

\* A rank clears its counters when every peer has announced every layer to it in
\* all three banks, and finds them clear when the next request begins: nothing
\* is lost and nothing comes late.
ClearsExactly ==
    [][\A r \in Ranks, p \in Ranks : p # r =>
        \A s \in {<<countSignal, countSignal'>>, <<xSignal, xSignal'>>,
                  <<reverseSignal, reverseSignal'>>} :
            s[2][r][p] < s[1][r][p] => s[1][r][p] = Layers /\ s[2][r][p] = 0
                /\ \A q \in Ranks : request[q] = request[r]]_vars

\* Every rank gets through every layer of every request, empty ranks included.
AllServed == <>(\A r \in Ranks : stage[r] = "stopped")
=============================================================================
