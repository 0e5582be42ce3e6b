----------------------------- MODULE MoeExchange -----------------------------
(***************************************************************************)
(* The expert-parallel exchange of a decode forward.  In every MoE layer   *)
(* each rank tells each rank how many rows it sends to each of its experts *)
(* (dispatch_meta), pushes the rows into its own lanes of the receiver's   *)
(* window (dispatch_push), gathers what it was sent, runs its experts,     *)
(* puts every result back at its route's row of the source's buffer, and   *)
(* sums its own routes once all ranks have said they are done.             *)
(*                                                                         *)
(* The three counters of a peer only ever grow within a forward, and a     *)
(* wait for layer e is for e notifications.  Nothing is acknowledged: a    *)
(* lane is reused because its reader must have gathered it to be done.     *)
(* Each rank clears its own counters after the last layer.  The tasks of a *)
(* rank are ordered only by the edges of its task graph.                   *)
(***************************************************************************)
EXTENDS Integers, FiniteSets

CONSTANTS
    EP,         \* ranks of the expert-parallel group (N_RANKS)
    Local,      \* experts of a rank (N_LOCAL)
    Tokens,     \* tokens of a rank (T)
    TopK,       \* experts a token is routed to (TOPK)
    Layers,     \* MoE calls in a forward; the epochs are 1 .. Layers
    Forwards,   \* bound: forwards the host runs one after the other
    Routings    \* what the gate may return: global expert of each active route

ASSUME SizesAssumption ==
    /\ EP \in Nat \ {0} /\ Local \in Nat \ {0} /\ Tokens \in Nat /\ TopK \in Nat
    /\ Layers \in Nat \ {0} /\ Forwards \in Nat \ {0}

Ranks == 0 .. EP - 1
LocalExperts == 0 .. Local - 1
Routes == 0 .. Tokens * TopK - 1
Slots == 0 .. Tokens - 1

\* A route is token * TopK + k.  A token's experts are distinct, so no expert
\* gets more rows of one source than its lane has slots.
ASSUME RoutingsAssumption ==
    \A f \in Routings :
        /\ \E n \in 0 .. Tokens : DOMAIN f = 0 .. n * TopK - 1
        /\ \A x \in DOMAIN f : f[x] \in 0 .. EP * Local - 1
        /\ \A x, y \in DOMAIN f : x # y /\ x \div TopK = y \div TopK => f[x] # f[y]

\* dispatch_push blocks per destination (PUSH_GROUPS).
Groups == IF Local \div EP > 1 THEN Local \div EP ELSE 1

VARIABLES
    forward,    \* forwards the host has completed
    layer,      \* layer[r]: epoch of the MoE call r is in
    stage,      \* stage[r]: what r is doing
    routing,    \* routing[r]: the gate's choice for this layer
    meta,       \* meta[r]: next destination of dispatch_meta's loop
    count,      \* count[r]: recv_meta_local, the counts r has copied
    push,       \* push[r][d][g]: dispatch_push block g for destination d
    pending,    \* pending[r]: layers whose dispatch_wait has not retired
    gathered,   \* gathered[r]: the rows r has gathered
    scatter,    \* scatter[r][s]: r's puts of results to source s
    told,       \* told[r]: next peer of combine's, or slot of clear's, loop
    reduced,    \* reduced[r]: the rows r has summed
    recvMeta,   \* recvMeta[r][s]: window row with s's counts
    recv,       \* recv[r][<<e, s, i>>]: slot i of the lane of s for expert e
    routed,     \* routed[r][x]: result row of route x (routed_y_buf)
    arrived, dataArrived, combineArrived    \* signals, [r][s]: s's notifications

vars == <<forward, layer, stage, routing, meta, count, push, pending, gathered,
          scatter, told, reduced, recvMeta, recv, routed,
          arrived, dataArrived, combineArrived>>

windows == <<recvMeta, recv, routed>>
signals == <<arrived, dataArrived, combineArrived>>

Stages == {"gate", "exchange", "combine", "reduce", "output", "clear", "done"}

Call(r) == forward * Layers + layer[r]      \* names a MoE call, for the rows

NoRow == [call |-> 0, source |-> -1, route |-> -1]      \* never written, or torn
NoResult == [call |-> 0, expert |-> -1, route |-> -1]
NoMeta == [call |-> 0, rows |-> [e \in LocalExperts |-> 0]]
NoCount == [s \in Ranks |-> NoMeta]

Lanes == LocalExperts \X Ranks \X Slots

\* Route x's slot: routes of the source for the same expert, in token order.
SlotOf(f, x) == Cardinality({y \in DOMAIN f : y < x /\ f[y] = f[x]})

\* Routes a push block sends.
Sent(r, d, g) ==
    {x \in DOMAIN routing[r] :
        routing[r][x] \div Local = d /\ (routing[r][x] % Local) % Groups = g}

\* The lane cell a route goes to, at the rank of its expert.
CellOf(r, x) == <<routing[r][x] % Local, r, SlotOf(routing[r], x)>>

Cells(r, d, g) == {CellOf(r, x) : x \in Sent(r, d, g)}

\* Rows an expert gets of a source.
RowsFor(f, e) == Cardinality({x \in DOMAIN f : f[x] = e})

\* dispatch_meta's row for destination d.
MetaRow(r, d) ==
    [call |-> Call(r),
     rows |-> [e \in LocalExperts |-> RowsFor(routing[r], d * Local + e)]]

Idle == [d \in Ranks |-> [g \in 0 .. Groups - 1 |-> "idle"]]

Pushed(r) == \A d \in Ranks, g \in 0 .. Groups - 1 : push[r][d][g] = "done"

Counted(r) == count[r] # NoCount

\* Rows the counts promise r.
Promised(r) ==
    {c \in Lanes : c[3] < count[r][c[2]].rows[c[1]]}

Sources(r) == {c[2] : c \in Promised(r)}

-----------------------------------------------------------------------------
Init ==
    /\ forward = 0
    /\ layer = [r \in Ranks |-> 1]
    /\ stage = [r \in Ranks |-> "gate"]
    /\ routing = [r \in Ranks |-> <<>>]
    /\ meta = [r \in Ranks |-> 0]
    /\ count = [r \in Ranks |-> NoCount]
    /\ push = [r \in Ranks |-> Idle]
    /\ pending = [r \in Ranks |-> {}]
    /\ gathered = [r \in Ranks |-> {}]
    /\ scatter = [r \in Ranks |-> [s \in Ranks |-> "idle"]]
    /\ told = [r \in Ranks |-> 0]
    /\ reduced = [r \in Ranks |-> <<>>]
    /\ recvMeta = [r \in Ranks |-> NoCount]
    /\ recv = [r \in Ranks |-> [c \in Lanes |-> NoRow]]
    /\ routed = [r \in Ranks |-> [x \in Routes |-> NoResult]]
    /\ arrived = [r \in Ranks |-> [s \in Ranks |-> 0]]
    /\ dataArrived = [r \in Ranks |-> [s \in Ranks |-> 0]]
    /\ combineArrived = [r \in Ranks |-> [s \in Ranks |-> 0]]

\* The gate; all ranks run the same number of tokens.
Gate(r) ==
    /\ stage[r] = "gate"
    /\ \E f \in Routings :
          /\ \A p \in Ranks : stage[p] # "gate" \/ layer[p] > 1 => DOMAIN f = DOMAIN routing[p]
          /\ routing' = [routing EXCEPT ![r] = f]
    /\ stage' = [stage EXCEPT ![r] = "exchange"]
    /\ pending' = [pending EXCEPT ![r] = @ \cup {layer[r]}]
    /\ UNCHANGED <<forward, layer, meta, count, push, gathered, scatter, told, reduced,
                   windows, signals>>

\* dispatch_meta: one row and one notification per destination, in order.
SendMeta(r) ==
    /\ stage[r] = "exchange" /\ meta[r] < EP
    /\ LET d == meta[r]
       IN  /\ recvMeta' = [recvMeta EXCEPT ![d][r] = MetaRow(r, d)]
           /\ arrived' = IF d # r THEN [arrived EXCEPT ![d][r] = @ + 1] ELSE arrived
    /\ meta' = [meta EXCEPT ![r] = @ + 1]
    /\ UNCHANGED <<forward, layer, stage, routing, count, push, pending, gathered, scatter,
                   told, reduced, recv, routed, dataArrived, combineArrived>>

MetaHere(r) == \A s \in Ranks \ {r} : arrived[r][s] >= layer[r]

CopyCounts(r) ==
    /\ stage[r] = "exchange" /\ meta[r] = EP /\ ~Counted(r)
    /\ MetaHere(r)
    /\ count' = [count EXCEPT ![r] = recvMeta[r]]
    /\ UNCHANGED <<forward, layer, stage, routing, meta, push, pending, gathered, scatter,
                   told, reduced, windows, signals>>

\* A push block with rows to put, two steps: between them its cells are torn.
StartPush(r, d, g) ==
    /\ stage[r] = "exchange" /\ push[r][d][g] = "idle" /\ Sent(r, d, g) # {}
    /\ push' = [push EXCEPT ![r][d][g] = "putting"]
    /\ recv' = [recv EXCEPT ![d] =
                  [c \in Lanes |-> IF c \in Cells(r, d, g) THEN NoRow ELSE recv[d][c]]]
    /\ UNCHANGED <<forward, layer, stage, routing, meta, count, pending, gathered, scatter,
                   told, reduced, recvMeta, routed, signals>>

\* Mutant: a block with no rows for its destination stays silent.
Announced_WithRows(r, d, g) == d # r /\ Sent(r, d, g) # {}

\* A block notifies its destination after its puts, and even if it has none.
Announced(r, d, g) == d # r

FinishPush(r, d, g) ==
    /\ stage[r] = "exchange"
    /\ push[r][d][g] = IF Sent(r, d, g) = {} THEN "idle" ELSE "putting"
    /\ push' = [push EXCEPT ![r][d][g] = "done"]
    /\ recv' = [recv EXCEPT ![d] =
                  [c \in Lanes |->
                     IF c \in Cells(r, d, g)
                       THEN [call |-> Call(r), source |-> r,
                             route |-> CHOOSE x \in Sent(r, d, g) : CellOf(r, x) = c]
                       ELSE recv[d][c]]]
    /\ dataArrived' = IF Announced(r, d, g) THEN [dataArrived EXCEPT ![d][r] = @ + 1] ELSE dataArrived
    /\ UNCHANGED <<forward, layer, stage, routing, meta, count, pending, gathered, scatter,
                   told, reduced, recvMeta, routed, arrived, combineArrived>>

\* Mutant: one notification per source is waited for, not one per block.
PayloadHere_PerSource(r, e) == \A s \in Ranks \ {r} : dataArrived[r][s] >= e

PayloadHere(r, e) == \A s \in Ranks \ {r} : dataArrived[r][s] >= e * Groups

\* dispatch_wait retires.  Nothing but the gather hangs on it, so it may do so
\* in a later layer.
WaitPayload(r, e) ==
    /\ e \in pending[r]
    /\ e = layer[r] => Pushed(r)
    /\ PayloadHere(r, e)
    /\ pending' = [pending EXCEPT ![r] = @ \ {e}]
    /\ UNCHANGED <<forward, layer, stage, routing, meta, count, push, gathered, scatter,
                   told, reduced, windows, signals>>

Gathered(r) == gathered[r] # {} \/ Promised(r) = {}

\* dispatch_gather copies as many slots of every lane as were promised.
Gather(r) ==
    /\ stage[r] = "exchange" /\ Counted(r) /\ ~Gathered(r)
    /\ layer[r] \notin pending[r]
    /\ gathered' = [gathered EXCEPT ![r] = {<<c, recv[r][c]>> : c \in Promised(r)}]
    /\ UNCHANGED <<forward, layer, stage, routing, meta, count, push, pending, scatter,
                   told, reduced, windows, signals>>

\* Results r owes source s, by the route id each row carries.
Results(r, s) ==
    {[call |-> g[2].call, expert |-> r * Local + g[1][1], route |-> g[2].route] :
        g \in {h \in gathered[r] : h[1][2] = s}}

\* expert_scatter, two steps: between them the result rows are torn.
StartScatter(r, s) ==
    /\ stage[r] = "exchange" /\ Counted(r) /\ Gathered(r) /\ s \in Sources(r)
    /\ scatter[r][s] = "idle"
    /\ scatter' = [scatter EXCEPT ![r][s] = "putting"]
    /\ routed' = [routed EXCEPT ![s] =
                    [x \in Routes |-> IF \E y \in Results(r, s) : y.route = x
                                        THEN NoResult ELSE routed[s][x]]]
    /\ UNCHANGED <<forward, layer, stage, routing, meta, count, push, pending, gathered,
                   told, reduced, recvMeta, recv, signals>>

FinishScatter(r, s) ==
    /\ scatter[r][s] = "putting"
    /\ scatter' = [scatter EXCEPT ![r][s] = "done"]
    /\ routed' = [routed EXCEPT ![s] =
                    [x \in Routes |-> IF \E y \in Results(r, s) : y.route = x
                                        THEN CHOOSE y \in Results(r, s) : y.route = x
                                        ELSE routed[s][x]]]
    /\ UNCHANGED <<forward, layer, stage, routing, meta, count, push, pending, gathered,
                   told, reduced, recvMeta, recv, signals>>

\* scatter_done.  A rank that was sent nothing has no expert tile, so its
\* scatter_done waits for neither the payload nor the gather.
Scattered(r) == Counted(r) /\ \A s \in Sources(r) : scatter[r][s] = "done"

\* Mutant: combine_wait does not depend on the rank's own pushes.
CombineReady_NoPush(r) == Scattered(r)

CombineReady(r) == Scattered(r) /\ Pushed(r)

StartCombine(r) ==
    /\ stage[r] = "exchange" /\ CombineReady(r)
    /\ stage' = [stage EXCEPT ![r] = "combine"]
    /\ told' = [told EXCEPT ![r] = 0]
    /\ UNCHANGED <<forward, layer, routing, meta, count, push, pending, gathered, scatter,
                   reduced, windows, signals>>

TellDone(r) ==
    /\ stage[r] = "combine" /\ told[r] < EP
    /\ told' = [told EXCEPT ![r] = @ + 1]
    /\ combineArrived' = IF told[r] # r
                           THEN [combineArrived EXCEPT ![told[r]][r] = @ + 1] ELSE combineArrived
    /\ UNCHANGED <<forward, layer, stage, routing, meta, count, push, pending, gathered,
                   scatter, reduced, windows, arrived, dataArrived>>

\* Mutant: the wait is for the layer before.
AllDone_OffByOne(r) == \A s \in Ranks \ {r} : combineArrived[r][s] >= layer[r] - 1

AllDone(r) == \A s \in Ranks \ {r} : combineArrived[r][s] >= layer[r]

CombineWait(r) ==
    /\ stage[r] = "combine" /\ told[r] = EP
    /\ AllDone(r)
    /\ stage' = [stage EXCEPT ![r] = "reduce"]
    /\ UNCHANGED <<forward, layer, routing, meta, count, push, pending, gathered, scatter,
                   told, reduced, windows, signals>>

\* shared_routed sums the result rows of the active routes.
Reduce(r) ==
    /\ stage[r] = "reduce"
    /\ reduced' = [reduced EXCEPT ![r] = [x \in DOMAIN routing[r] |-> routed[r][x]]]
    /\ stage' = [stage EXCEPT ![r] = "output"]
    /\ UNCHANGED <<forward, layer, routing, meta, count, push, pending, gathered, scatter,
                   told, windows, signals>>

\* The next layer's gate needs this layer's output, and so does the clear.
NextLayer(r) ==
    /\ stage[r] = "output"
    /\ IF layer[r] < Layers
         THEN /\ layer' = [layer EXCEPT ![r] = @ + 1]
              /\ stage' = [stage EXCEPT ![r] = "gate"]
         ELSE /\ stage' = [stage EXCEPT ![r] = "clear"]
              /\ UNCHANGED layer
    /\ meta' = [meta EXCEPT ![r] = 0]
    /\ count' = [count EXCEPT ![r] = NoCount]
    /\ push' = [push EXCEPT ![r] = Idle]
    /\ gathered' = [gathered EXCEPT ![r] = {}]
    /\ scatter' = [scatter EXCEPT ![r] = [s \in Ranks |-> "idle"]]
    /\ told' = [told EXCEPT ![r] = 0]
    /\ reduced' = [reduced EXCEPT ![r] = <<>>]
    /\ UNCHANGED <<forward, routing, pending, windows, signals>>

\* Mutant: the payload counters are not cleared.
ClearSignals_KeepPayload(r) ==
    /\ stage[r] = "clear" /\ told[r] < EP
    /\ arrived' = [arrived EXCEPT ![r][told[r]] = 0]
    /\ combineArrived' = [combineArrived EXCEPT ![r][told[r]] = 0]
    /\ told' = [told EXCEPT ![r] = @ + 1]
    /\ UNCHANGED <<forward, layer, stage, routing, meta, count, push, pending, gathered,
                   scatter, reduced, windows, dataArrived>>

\* clear_moe_signals zeroes the three counters of one source after the other.
ClearSignals(r) ==
    /\ stage[r] = "clear" /\ told[r] < EP
    /\ arrived' = [arrived EXCEPT ![r][told[r]] = 0]
    /\ dataArrived' = [dataArrived EXCEPT ![r][told[r]] = 0]
    /\ combineArrived' = [combineArrived EXCEPT ![r][told[r]] = 0]
    /\ told' = [told EXCEPT ![r] = @ + 1]
    /\ UNCHANGED <<forward, layer, stage, routing, meta, count, push, pending, gathered,
                   scatter, reduced, windows>>

\* All tasks of the rank have retired.
Finish(r) ==
    /\ stage[r] = "clear" /\ told[r] = EP /\ pending[r] = {}
    /\ stage' = [stage EXCEPT ![r] = "done"]
    /\ UNCHANGED <<forward, layer, routing, meta, count, push, pending, gathered, scatter,
                   told, reduced, windows, signals>>

\* The host's call returns when all ranks are done, and it makes the next.
NextForward ==
    /\ \A r \in Ranks : stage[r] = "done"
    /\ forward < Forwards - 1
    /\ forward' = forward + 1
    /\ layer' = [r \in Ranks |-> 1]
    /\ stage' = [r \in Ranks |-> "gate"]
    /\ told' = [r \in Ranks |-> 0]
    /\ UNCHANGED <<routing, meta, count, push, pending, gathered, scatter, reduced,
                   windows, signals>>

RankStep(r) ==
    \/ Gate(r) \/ SendMeta(r) \/ CopyCounts(r)
    \/ \E d \in Ranks, g \in 0 .. Groups - 1 : StartPush(r, d, g) \/ FinishPush(r, d, g)
    \/ \E e \in 1 .. Layers : WaitPayload(r, e)
    \/ Gather(r)
    \/ \E s \in Ranks : StartScatter(r, s) \/ FinishScatter(r, s)
    \/ StartCombine(r) \/ TellDone(r) \/ CombineWait(r) \/ Reduce(r) \/ NextLayer(r)
    \/ ClearSignals(r) \/ Finish(r)

Stopped ==
    /\ \A r \in Ranks : stage[r] = "done"
    /\ forward = Forwards - 1
    /\ UNCHANGED vars

Next == (\E r \in Ranks : RankStep(r)) \/ NextForward \/ Stopped

Spec == Init /\ [][Next]_vars

FairSpec == Spec /\ WF_vars(NextForward) /\ \A r \in Ranks : WF_vars(RankStep(r))

-----------------------------------------------------------------------------
Calls == 0 .. Forwards * Layers
MetaRows == [call : Calls, rows : [LocalExperts -> 0 .. Tokens]]
LaneRows == [call : Calls, source : Ranks \cup {-1}, route : Routes \cup {-1}]
ResultRows == [call : Calls, expert : -1 .. EP * Local - 1, route : Routes \cup {-1}]

TypeOK ==
    /\ forward \in 0 .. Forwards - 1
    /\ layer \in [Ranks -> 1 .. Layers]
    /\ stage \in [Ranks -> Stages]
    /\ \A r \in Ranks : routing[r] \in Routings \cup {<<>>}
    /\ meta \in [Ranks -> 0 .. EP]
    /\ count \in [Ranks -> [Ranks -> MetaRows]]
    /\ push \in [Ranks -> [Ranks -> [0 .. Groups - 1 -> {"idle", "putting", "done"}]]]
    /\ pending \in [Ranks -> SUBSET (1 .. Layers)]
    /\ \A r \in Ranks : gathered[r] \subseteq Lanes \X LaneRows
    /\ scatter \in [Ranks -> [Ranks -> {"idle", "putting", "done"}]]
    /\ told \in [Ranks -> 0 .. EP]
    /\ \A r \in Ranks : \A x \in DOMAIN reduced[r] : x \in Routes /\ reduced[r][x] \in ResultRows
    /\ recvMeta \in [Ranks -> [Ranks -> MetaRows]]
    /\ recv \in [Ranks -> [Lanes -> LaneRows]]
    /\ routed \in [Ranks -> [Routes -> ResultRows]]
    /\ arrived \in [Ranks -> [Ranks -> 0 .. Layers]]
    /\ dataArrived \in [Ranks -> [Ranks -> 0 .. Layers * Groups]]
    /\ combineArrived \in [Ranks -> [Ranks -> 0 .. Layers]]

\* A rank runs its experts on exactly the rows the ranks routed to them in this
\* layer: counts and payload, which travel under different signals, are of the
\* same call, and no lane is torn, stale or already reused.
GatherExact ==
    \A r \in Ranks : stage[r] = "exchange" /\ gathered[r] # {} =>
        gathered[r] = UNION {
            {<<CellOf(s, x), [call |-> Call(r), source |-> s, route |-> x]>> :
                x \in {y \in DOMAIN routing[s] : routing[s][y] \div Local = r}} : s \in Ranks}

\* Every route a rank sums is this call's result of the expert it was routed
\* to: all of the scatters have landed, and none of the next call's has.
ReduceExact ==
    \A r \in Ranks : stage[r] = "output" =>
        reduced[r] = [x \in DOMAIN routing[r] |->
                        [call |-> Call(r), expert |-> routing[r][x], route |-> x]]

\* A rank zeroes a source's counters when they hold every notification of the
\* forward and none of the next: nothing is lost, nothing is left behind.
ClearsExactly ==
    [][\A r, s \in Ranks :
         stage[r] = "clear" /\ told[r] = s /\ told'[r] = s + 1 /\ s # r =>
             /\ arrived[r][s] = Layers
             /\ dataArrived[r][s] = Layers * Groups
             /\ combineArrived[r][s] = Layers]_vars

\* "The final MoE output depends on this rank observing every peer's final
\* meta, payload, and combine notify" (clear_moe_signals): when the counters
\* are cleared, no dispatch_wait of this rank is still waiting on them.
OutputSeesPayload ==
    \A r \in Ranks : stage[r] = "clear" => pending[r] = {}

\* A rank that has cleared its counters under its own dispatch_wait: nobody
\* notifies it any more in this forward.
Stranded(r) == stage[r] = "clear" /\ told[r] = EP /\ pending[r] # {}

\* Every forward the host starts ends on every rank, and nothing else can keep
\* it from ending than a payload wait whose counters its own rank has cleared.
AllForwardsEnd ==
    <>(\/ forward = Forwards - 1 /\ \A r \in Ranks : stage[r] = "done"
       \/ \E r \in Ranks : Stranded(r))
=============================================================================
