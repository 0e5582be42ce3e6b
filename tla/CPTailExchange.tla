--------------------------- MODULE CPTailExchange ---------------------------
(***************************************************************************)
(* The hidden-tail exchange of context-parallel prefill: CPSize ranks      *)
(* publish rows into lanes of each other's retained window, layer after    *)
(* layer and request after request, under two-counter credits.             *)
(*                                                                         *)
(*   ready[r][p]     what p has announced to r: "epoch n is in your window"*)
(*   consumed[r][p]  what p has announced to r: "I have read epoch n"      *)
(*                                                                         *)
(* Each rank restarts its epochs in every request, so it clears its own    *)
(* two banks after the last layer, and a barrier with never-reset counters *)
(* separates the clearing of one request from the traffic of the next.     *)
(* A put is two steps: between them the lanes hold Torn.                   *)
(***************************************************************************)
EXTENDS CPLayout

CONSTANTS
    Layers,     \* model layers of a forward (FWD_NUM_LAYERS)
    Requests,   \* bound: requests the ranks serve, one owner after another
    Kinds       \* what the requests of a run may ask for

ASSUME LayersAssumption   == Layers \in Nat /\ Layers >= 2
ASSUME RequestsAssumption == Requests \in Nat

\* "fresh": first chunk.  "chunk": continues a cached prefix.  "skip": no
\* tokens, or metadata the owner refused: no layer runs, only the barrier.
ASSUME KindsAssumption == Kinds \subseteq {"fresh", "chunk", "skip"}

VARIABLES
    plan,       \* plan[q]: what request q asks of every rank
    request,    \* request[r]: index of the request r is serving
    layer,      \* layer[r]: layer r is in
    stage,      \* stage[r]: what r is doing
    block,      \* block[r][p]: r's publishing block for peer p, this phase
    seen,       \* seen[r][s]: what r has read out of its window, this phase
    looped,     \* looped[r]: peers r's current notify or clear loop has served
    window,     \* window[r]: lanes of r's symmetric window
    ready, consumed,
    arrivals    \* arrivals[r][p]: p's arrivals at the request barrier, as r sees them

vars == <<plan, request, layer, stage, block, seen, looped, window,
          ready, consumed, arrivals>>

Stages == {"history", "tail", "retire", "clear", "arrive", "barrier", "stopped"}

HistorySeg == NumSegments

Payloads == [request : Nat, epoch : Nat, seg : 0 .. HistorySeg]

Torn == [request |-> 0, epoch |-> 0, seg |-> -1]

NotRead == [request |-> 0, epoch |-> 0, seg |-> -2]

Peers(r) == Ranks \ {r}

Owner(q) == q % CPSize

Prefixed(r) == plan[request[r]] = "chunk"

\* SWA layers (the first two) exchange the owner's raw history first when the
\* request has a prefix.
FirstStage(kind, l) == IF kind = "chunk" /\ l < 2 THEN "history" ELSE "tail"

StartStage(q) ==
    IF q = Requests THEN "stopped"
    ELSE IF plan[q] = "skip" THEN "arrive" ELSE FirstStage(plan[q], 0)

\* Communication epoch of the phase rank r is in.
Epoch(r) ==
    LET l == layer[r]
        shift == IF l < 2 THEN l ELSE 2
    IN  IF ~Prefixed(r) THEN l
        ELSE IF stage[r] = "tail" /\ l < 2 THEN l + shift + 1 ELSE l + shift

\* Mutant: the layer loop runs once too often.
LastLayer_OffByOne(l) == l = Layers

LastLayer(l) == l + 1 = Layers

\* Mutant: a fresh request retires as many epochs as a continued one.
TailCompleted_AlwaysPrefixed(r) == Layers + 2

\* Epochs a rank must see consumed before it retires its credits.
TailCompleted(r) == IF Prefixed(r) THEN Layers + 2 ELSE Layers

\* Mutant: a publisher does not wait for its peer to have read the last epoch.
Credit_NoWait(r, p) == TRUE

Credit(r, p) == p # r => consumed[r][p] >= Epoch(r)

PutLanes(r) == IF stage[r] = "tail" THEN {Lane(r, 0), Lane(r, 1)} ELSE {0}

Payload(r, lane) ==
    [request |-> request[r], epoch |-> Epoch(r),
     seg |-> IF stage[r] = "tail" THEN LocalSegment(r, lane - 2 * r) ELSE HistorySeg]

\* What a phase reads: every segment, or the one history lane.
Pieces(r) == IF stage[r] = "history" THEN {0} ELSE Segments

SourceLane(r, s) == IF stage[r] = "history" THEN 0 ELSE ReverseIndex(s)

Gathered(r) == \A s \in Pieces(r) : seen[r][s] # NotRead

-----------------------------------------------------------------------------
Init ==
    /\ plan \in [0 .. Requests - 1 -> Kinds]
    /\ request = [r \in Ranks |-> 0]
    /\ layer = [r \in Ranks |-> 0]
    /\ stage = [r \in Ranks |-> StartStage(0)]
    /\ block = [r \in Ranks |-> [p \in Ranks |-> "idle"]]
    /\ seen = [r \in Ranks |-> [s \in Segments |-> NotRead]]
    /\ looped = [r \in Ranks |-> {}]
    /\ window = [r \in Ranks |-> [l \in Lanes |-> Torn]]
    /\ ready = [r \in Ranks |-> [p \in Ranks |-> 0]]
    /\ consumed = [r \in Ranks |-> [p \in Ranks |-> 0]]
    /\ arrivals = [r \in Ranks |-> [p \in Ranks |-> 0]]

\* The block for peer p waits for p's credit and starts its put.  A history
\* phase is one task: the owner waits for every credit, then puts to each peer.
StartPut(r, p) ==
    /\ block[r][p] = "idle"
    /\ \/ stage[r] = "tail" /\ Credit(r, p)
       \/ /\ stage[r] = "history" /\ r = Owner(request[r])
          /\ \A q \in Ranks : Credit(r, q)
    /\ block' = [block EXCEPT ![r][p] = "putting"]
    /\ window' = [window EXCEPT ![p] =
                    [l \in Lanes |-> IF l \in PutLanes(r) THEN Torn ELSE window[p][l]]]
    /\ UNCHANGED <<plan, request, layer, stage, seen, looped, ready, consumed, arrivals>>

\* The put has landed; a tail block announces it to p in the same breath.
FinishPut(r, p) ==
    /\ block[r][p] = "putting"
    /\ block' = [block EXCEPT ![r][p] = IF stage[r] = "tail" THEN "done" ELSE "put"]
    /\ window' = [window EXCEPT ![p] =
                    [l \in Lanes |-> IF l \in PutLanes(r) THEN Payload(r, l) ELSE window[p][l]]]
    /\ ready' = IF stage[r] = "tail" /\ p # r
                THEN [ready EXCEPT ![p][r] = @ + 1] ELSE ready
    /\ UNCHANGED <<plan, request, layer, stage, seen, looped, consumed, arrivals>>

\* In a history phase every rank announces, the owner after its last put.
HistoryNotify(r, p) ==
    /\ stage[r] = "history" /\ p # r
    /\ IF r = Owner(request[r])
       THEN \A q \in Ranks : block[r][q] \in {"put", "done"}
       ELSE \A q \in Ranks : Credit(r, q)
    /\ block[r][p] # "done"
    /\ block' = [block EXCEPT ![r][p] = "done"]
    /\ ready' = [ready EXCEPT ![p][r] = @ + 1]
    /\ UNCHANGED <<plan, request, layer, stage, seen, looped, window, consumed, arrivals>>

\* r has published all of its own blocks of this phase.
Published(r) ==
    /\ \A p \in Peers(r) : block[r][p] = "done"
    /\ stage[r] = "tail" => block[r][r] = "done"
    /\ stage[r] = "history" /\ r = Owner(request[r]) => block[r][r] = "put"

\* Mutant: the ready threshold is the epoch before.
AllReady_OffByOne(r) ==
    Published(r) /\ \A p \in Peers(r) : ready[r][p] >= Epoch(r)

\* Every peer has announced this epoch.
AllReady(r) ==
    Published(r) /\ \A p \in Peers(r) : ready[r][p] >= Epoch(r) + 1

Gather(r, s) ==
    /\ stage[r] \in {"history", "tail"} /\ AllReady(r)
    /\ s \in Pieces(r) /\ seen[r][s] = NotRead
    /\ seen' = [seen EXCEPT ![r][s] = window[r][SourceLane(r, s)]]
    /\ UNCHANGED <<plan, request, layer, stage, block, looped, window, ready, consumed, arrivals>>

Release(r, p) ==
    /\ stage[r] \in {"history", "tail"} /\ Gathered(r)
    /\ p \in Peers(r) \ looped[r]
    /\ looped' = [looped EXCEPT ![r] = @ \cup {p}]
    /\ consumed' = [consumed EXCEPT ![p][r] = @ + 1]
    /\ UNCHANGED <<plan, request, layer, stage, block, seen, window, ready, arrivals>>

\* The compute between two exchange phases.
NextPhase(r) ==
    /\ stage[r] \in {"history", "tail"} /\ Gathered(r)
    /\ looped[r] = Peers(r)
    /\ \/ /\ stage[r] = "history"
          /\ stage' = [stage EXCEPT ![r] = "tail"]
          /\ UNCHANGED layer
       \/ /\ stage[r] = "tail" /\ ~LastLayer(layer[r])
          /\ layer' = [layer EXCEPT ![r] = @ + 1]
          /\ stage' = [stage EXCEPT ![r] = FirstStage(plan[request[r]], layer[r] + 1)]
       \/ /\ stage[r] = "tail" /\ LastLayer(layer[r])
          /\ stage' = [stage EXCEPT ![r] = "retire"]
          /\ UNCHANGED layer
    /\ block' = [block EXCEPT ![r] = [p \in Ranks |-> "idle"]]
    /\ seen' = [seen EXCEPT ![r] = [s \in Segments |-> NotRead]]
    /\ looped' = [looped EXCEPT ![r] = {}]
    /\ UNCHANGED <<plan, request, window, ready, consumed, arrivals>>

\* Mutant: the banks are zeroed without waiting for the last consumed notices.
Retire_NoWait(r) ==
    /\ stage[r] = "retire"
    /\ stage' = [stage EXCEPT ![r] = "clear"]
    /\ UNCHANGED <<plan, request, layer, block, seen, looped, window, ready, consumed, arrivals>>

\* Retire the request's credits: wait for the last consumed notifications,
\* then zero both banks slot by slot.
Retire(r) ==
    /\ stage[r] = "retire"
    /\ \A p \in Peers(r) : consumed[r][p] >= TailCompleted(r)
    /\ stage' = [stage EXCEPT ![r] = "clear"]
    /\ UNCHANGED <<plan, request, layer, block, seen, looped, window, ready, consumed, arrivals>>

ClearSlot(r, p) ==
    /\ stage[r] = "clear" /\ p \notin looped[r]
    /\ looped' = [looped EXCEPT ![r] = @ \cup {p}]
    /\ ready' = [ready EXCEPT ![r][p] = 0]
    /\ consumed' = [consumed EXCEPT ![r][p] = 0]
    /\ UNCHANGED <<plan, request, layer, stage, block, seen, window, arrivals>>

\* Request barrier: bump the own counter, tell every peer, wait for every peer.
Arrive(r) ==
    /\ \/ stage[r] = "arrive"
       \/ stage[r] = "clear" /\ looped[r] = Ranks
    /\ stage' = [stage EXCEPT ![r] = "barrier"]
    /\ looped' = [looped EXCEPT ![r] = {}]
    /\ arrivals' = [arrivals EXCEPT ![r][r] = @ + 1]
    /\ UNCHANGED <<plan, request, layer, block, seen, window, ready, consumed>>

BarrierNotify(r, p) ==
    /\ stage[r] = "barrier" /\ p \in Peers(r) \ looped[r]
    /\ looped' = [looped EXCEPT ![r] = @ \cup {p}]
    /\ arrivals' = [arrivals EXCEPT ![p][r] = @ + 1]
    /\ UNCHANGED <<plan, request, layer, stage, block, seen, window, ready, consumed>>

\* Mutant: an arrival at the previous barrier is enough.
AllArrived_OffByOne(r) == \A p \in Peers(r) : arrivals[r][p] >= arrivals[r][r] - 1

AllArrived(r) == \A p \in Peers(r) : arrivals[r][p] >= arrivals[r][r]

BarrierPass(r) ==
    /\ stage[r] = "barrier" /\ looped[r] = Peers(r)
    /\ AllArrived(r)
    /\ request' = [request EXCEPT ![r] = @ + 1]
    /\ layer' = [layer EXCEPT ![r] = 0]
    /\ stage' = [stage EXCEPT ![r] = StartStage(request[r] + 1)]
    /\ looped' = [looped EXCEPT ![r] = {}]
    /\ UNCHANGED <<plan, block, seen, window, ready, consumed, arrivals>>

RankStep(r) ==
    \/ \E p \in Ranks : StartPut(r, p) \/ FinishPut(r, p) \/ HistoryNotify(r, p)
    \/ \E s \in Segments : Gather(r, s)
    \/ \E p \in Ranks : Release(r, p)
    \/ NextPhase(r)
    \/ Retire(r)
    \/ \E p \in Ranks : ClearSlot(r, p)
    \/ Arrive(r)
    \/ \E p \in Ranks : BarrierNotify(r, p)
    \/ BarrierPass(r)

\* All requests served: the host call has returned on every rank.
Stopped == (\A r \in Ranks : stage[r] = "stopped") /\ UNCHANGED vars

Next == (\E r \in Ranks : RankStep(r)) \/ Stopped

Spec == Init /\ [][Next]_vars

FairSpec == Spec /\ \A r \in Ranks : WF_vars(RankStep(r))

-----------------------------------------------------------------------------
TypeOK ==
    /\ plan \in [0 .. Requests - 1 -> Kinds]
    /\ request \in [Ranks -> 0 .. Requests]
    /\ layer \in [Ranks -> 0 .. Layers - 1]
    /\ stage \in [Ranks -> Stages]
    /\ block \in [Ranks -> [Ranks -> {"idle", "putting", "put", "done"}]]
    /\ seen \in [Ranks -> [Segments -> Payloads \cup {Torn, NotRead}]]
    /\ looped \in [Ranks -> SUBSET Ranks]
    /\ window \in [Ranks -> [Lanes -> Payloads \cup {Torn}]]
    /\ ready \in [Ranks -> [Ranks -> Nat]]
    /\ consumed \in [Ranks -> [Ranks -> Nat]]
    /\ arrivals \in [Ranks -> [Ranks -> Nat]]

Exchanging(r) == stage[r] \in {"history", "tail"}

\* What piece s of rank r's current phase must contain.
Expected(r, s) ==
    [request |-> request[r], epoch |-> Epoch(r),
     seg |-> IF stage[r] = "history" THEN HistorySeg ELSE s]

\* A rank gathers exactly the rows of its own request and epoch, from the
\* rank that computed them: never a torn lane, a lane of the epoch before, or
\* one a faster peer has already overwritten.  This is what the two-counter
\* protocol of prefill_cp_exchange.py and prefill_swa.py is for.
GatherExact ==
    \A r \in Ranks : Exchanging(r) =>
        \A s \in Pieces(r) : seen[r][s] # NotRead => seen[r][s] = Expected(r, s)

\* Exchange phases a rank has completed in the request it is serving.
Progress(r) ==
    IF Exchanging(r) THEN Epoch(r)
    ELSE IF plan[request[r]] = "skip" THEN 0 ELSE TailCompleted(r)

\* Inside a request no rank runs more than one exchange phase ahead of
\* another: one window per peer is enough.
OneWaveApart ==
    \A r, p \in Ranks :
        (request[r] = request[p] /\ request[r] < Requests)
            => Progress(r) <= Progress(p) + 1

\* A rank is in a later request than a peer only while that peer is still
\* inside the barrier of the earlier one, all its clearing behind it: no
\* credit or row of a request can reach a bank that serves another.
RequestsSeparated ==
    \A r, p \in Ranks :
        request[r] > request[p] => request[r] = request[p] + 1 /\ stage[p] = "barrier"

\* While a rank zeroes its signal banks, the only writes to them are its own:
\* no peer's atomic notify races the scalar stores, so none is lost.
RetireUndisturbed ==
    [][\A r \in Ranks : stage[r] = "clear" =>
         \A p \in Ranks : /\ ready'[r][p] \in {0, ready[r][p]}
                          /\ consumed'[r][p] \in {0, consumed[r][p]}]_vars

\* The per-source arrival counters, bumped and never reset, implement the
\* barrier: no rank leaves a request some rank has not finished.
Barrier == INSTANCE RequestBarrier
    WITH Members <- Ranks, Rounds <- Requests,
         at <- request, waiting <- [r \in Ranks |-> stage[r] = "barrier"]

BarrierKept == Barrier!Spec

\* Every rank gets through every request, whatever the mix of fresh, chunked
\* and skipped ones: no credit is retired too early or waited for in vain.
AllServed == <>(\A r \in Ranks : stage[r] = "stopped")
=============================================================================
