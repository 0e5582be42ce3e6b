---------------------------- MODULE CPCompactInv ----------------------------
(***************************************************************************)
(* The inductive invariant of CPCompact: what the credits, the windows, a  *)
(* root and the pools mean in terms of how far the ranks have come.        *)
(***************************************************************************)
EXTENDS CPCompact

\* Layers of kind k before layer l.
Before(k, l) == Cardinality({i \in LayersOf(k) : i < l})

\* Turns of its window that a layer of kind k takes in request q.
Turns(k, q) == HistoryPhases(k, q) + 1

\* Turns of kind k that p has behind it in its request.
Done(k, p) ==
    IF stage[p] \in {"arrive", "stopped"} THEN 0
    ELSE IF stage[p] = "retire" THEN Cardinality(LayersOf(k)) * Turns(k, request[p])
    ELSE IF Kind(p) = k THEN Before(k, layer[p]) * Turns(k, request[p]) + phase[p]
    ELSE Before(k, layer[p]) * Turns(k, request[p])

Using(k, p) == stage[p] = "exchange" /\ Kind(p) = k

\* Credits p has announced to r in its present turn.
Now(p, r) ==
    IF ~TwoStage(p) THEN IF r \in told[p] THEN Unit(Kind(p)) ELSE 0
    ELSE IF r \in told[p] THEN 2 ELSE IF r \in indexed[p] THEN 1 ELSE 0

\* Credits of kind k that p has announced to r, and given back to r, in its
\* request.
Sent(k, p, r) == Unit(k) * Done(k, p) + IF Using(k, p) THEN Now(p, r) ELSE 0

Given(k, p, r) ==
    Unit(k) * Done(k, p) + IF Using(k, p) /\ r \in freed[p] THEN Unit(k) ELSE 0

\* p is on the other side of a clear of r's banks.
Silent(k, r, p) ==
    \/ request[p] < request[r]
    \/ request[p] = request[r] /\ k \in retired[r]

-----------------------------------------------------------------------------
Shape ==
    /\ plan \in Plans
    /\ request \in [Ranks -> 0 .. Requests]
    /\ waiting \in [Ranks -> BOOLEAN]
    /\ layer \in [Ranks -> DOMAIN LayerKinds]
    /\ phase \in [Ranks -> Nat]
    /\ stage \in [Ranks -> {"exchange", "retire", "arrive", "stopped"}]
    /\ indexed \in [Ranks -> SUBSET Ranks] /\ put \in [Ranks -> SUBSET Ranks]
    /\ told \in [Ranks -> SUBSET Ranks] /\ freed \in [Ranks -> SUBSET Ranks]
    /\ taken \in [Ranks -> SUBSET {"history", "index", "main", "state"}]
    /\ retired \in [Ranks -> SUBSET Kinds]
    /\ window \in [Kinds -> [Ranks -> [WindowCells -> Items]]]
    /\ ready \in [Kinds -> [Ranks -> [Ranks -> Nat]]]
    /\ consumed \in [Kinds -> [Ranks -> [Ranks -> Nat]]]
    /\ root = [r \in Ranks |-> root[r]]
    /\ \A r \in Ranks : root[r] \in [Cells(Kind(r)) -> Items]
    /\ cache = [r \in Ranks |-> [l \in DOMAIN LayerKinds |-> cache[r][l]]]
    /\ \A r \in Ranks, l \in DOMAIN LayerKinds :
            cache[r][l] \in [Cells(LayerKinds[l]) -> Items]

\* Which of its tasks a rank may have behind it.
TasksAt(r) ==
    /\ told[r] \cup freed[r] \subseteq Peers(r)
    /\ indexed[r] # {} => TwoStage(r)
    /\ TwoStage(r) /\ put[r] # {} => indexed[r] = Ranks
    /\ Publishes(r) => told[r] \subseteq put[r]
    /\ ~Publishes(r) => put[r] = {}
    /\ Publishes(r) /\ ~TwoStage(r) /\ told[r] # {} => put[r] = Ranks
    /\ InHistory(r) => taken[r] \subseteq {"history"}
    /\ ~InHistory(r) => "history" \notin taken[r]
    /\ "index" \in taken[r] => TwoStage(r) /\ indexed[r] = Ranks
    /\ "main" \in taken[r] => put[r] = Ranks
    /\ "state" \in taken[r] => Parts(Kind(r)) \subseteq taken[r]
    /\ taken[r] \cap {"history", "main"} # {} => told[r] = Peers(r)
    /\ freed[r] # {} => Finished(r)

PositionAt(r) ==
    /\ stage[r] = "stopped" <=> request[r] = Requests
    /\ stage[r] = "arrive" => plan[request[r]].length = 0
    /\ stage[r] \in {"exchange", "retire"} => plan[request[r]].length > 0
    /\ stage[r] = "exchange" => phase[r] <= HistoryPhases(Kind(r), request[r]) /\ TasksAt(r)
    /\ stage[r] # "exchange" =>
         /\ indexed[r] = {} /\ put[r] = {} /\ told[r] = {} /\ taken[r] = {} /\ freed[r] = {}
    /\ stage[r] # "retire" => retired[r] = {}
    /\ waiting[r] => stage[r] = "arrive" \/ (stage[r] = "retire" /\ retired[r] = Kinds)

\* A rank that is behind is in the barrier of the request before.
Separated ==
    \A r, p \in Ranks : request[p] < request[r] =>
        request[r] = request[p] + 1 /\ waiting[p]

\* The banks hold what has been announced and given back, between two clears.
CreditsOK ==
    \A k \in Kinds, r, p \in Ranks :
        /\ ready[k][r][p] = IF p = r \/ Silent(k, r, p) THEN 0 ELSE Sent(k, p, r)
        /\ consumed[k][r][p] = IF p = r \/ Silent(k, r, p) THEN 0 ELSE Given(k, p, r)

\* Turns a rank has behind it were announced to it.
Heard ==
    \A r \in Ranks : \A p \in Peers(r) :
        /\ \A k \in Kinds \ retired[r] : ready[k][r][p] >= Unit(k) * Done(k, r)
        /\ taken[r] \cap {"history", "main"} # {} =>
             ready[Kind(r)][r][p] >= Unit(Kind(r)) * Done(Kind(r), r) + Unit(Kind(r))
        /\ "index" \in taken[r] =>
             ready[Kind(r)][r][p] >= Unit(Kind(r)) * Done(Kind(r), r) + 1

\* A rank that has rows of r in this turn has read the turns before.
Allowed ==
    \A r \in Ranks : \A p \in Peers(r) \cap (put[r] \cup indexed[r]) :
        consumed[Kind(r)][r][p] >= Unit(Kind(r)) * Done(Kind(r), r)

\* What was retired is not used any more.
Settled ==
    \A r \in Ranks : \A k \in retired[r], p \in Peers(r) :
        /\ request[p] = request[r] =>
             Given(k, p, r) >= Unit(k) * (Cardinality(LayersOf(k)) * Turns(k, request[r]))
        /\ request[p] < request[r] => LayersOf(k) = {}

ControlOK ==
    /\ \A r \in Ranks : PositionAt(r)
    /\ Separated /\ CreditsOK /\ Heard /\ Allowed /\ Settled

-----------------------------------------------------------------------------
\* p has r's turn behind it, in the same request.
Past(p, r) ==
    /\ request[p] = request[r] /\ stage[r] = "exchange"
    /\ \/ stage[p] = "retire"
       \/ stage[p] = "exchange" /\ layer[p] > layer[r]
       \/ stage[p] = "exchange" /\ layer[p] = layer[r] /\ phase[p] > phase[r]

SameTurn(p, r) ==
    /\ stage[p] = "exchange" /\ stage[r] = "exchange" /\ request[p] = request[r]
    /\ layer[p] = layer[r] /\ phase[p] = phase[r]

\* r has read its window of the turn p is in.
HasRead(r, p) == Past(r, p) \/ (SameTurn(r, p) /\ Finished(r))

\* The row of lane i, one of p's, among the records of layer l of request q.
Row(q, l, p, part, i) ==
    LET k == LayerKinds[l]
        n == Base(q) + LocalSegment(p, i - 2 * p) + 1
    IN  IF n <= End(q) /\ n % Ratio[k] = 0
        THEN Item(Owner(q), l, part, n \div Ratio[k] - 1) ELSE Nothing

RowsHeld(q, l, p, parts, r) ==
    \A part \in parts, i \in OwnLanes(p) :
        window[LayerKinds[l]][r][<<part, i>>] = Row(q, l, p, part, i)

StateHeld(q, l, p, r) ==
    window[LayerKinds[l]][r][<<"state", p>>] =
        IF OwnerRank(plan[q].length - 1) = p THEN Item(Owner(q), l, "state", End(q)) ELSE Nothing

TailsHeld(q, l, r) ==
    LET k == LayerKinds[l]
    IN  /\ window[k][r][RawCell(k)] = Item(Owner(q), l, "raw", Base(q))
        /\ window[k][r][<<"state", 0>>] = Item(Owner(q), l, "state", Base(q))

StreamHeld(q, l, f, r) ==
    LET k == LayerKinds[l]
    IN  \A part \in Parts(k), i \in Lanes :
            (f - 1) * WindowRows + i < HistoryRows(k, q) =>
                window[k][r][<<part, i>>] =
                    Item(Owner(q), l, part, (f - 1) * WindowRows + i)

\* Rows that p puts to r in phase f of layer l of request q lie in r's window.
PutHeld(q, l, f, p, r) ==
    LET k == LayerKinds[l]
    IN  IF f < HistoryPhases(k, q)
        THEN p = Owner(q) => IF f = 0 THEN TailsHeld(q, l, r) ELSE StreamHeld(q, l, f, r)
        ELSE /\ RowsHeld(q, l, p, IF k = "csa" THEN {"main"} ELSE {"main", "meta"}, r)
             /\ StateHeld(q, l, p, r)

\* What p has put in its turn stays until its reader has read it.
Present ==
    \A p, r \in Ranks : stage[p] = "exchange" /\ ~HasRead(r, p) =>
        /\ r \in indexed[p] => RowsHeld(request[p], layer[p], p, {"index", "meta"}, r)
        /\ r \in put[p] => PutHeld(request[p], layer[p], phase[p], p, r)

\* So does what a rank put that has gone on.
Remaining ==
    \A p, r \in Ranks : Past(p, r) /\ ~Finished(r) =>
        /\ TwoStage(r) => RowsHeld(request[r], layer[r], p, {"index", "meta"}, r)
        /\ PutHeld(request[r], layer[r], phase[r], p, r)

\* The root holds what history has streamed, then the whole sequence.
Streaming(r) ==
    IF phase[r] = 0 THEN 0
    ELSE IF taken[r] = {} THEN (phase[r] - 1) * WindowRows ELSE phase[r] * WindowRows

RootRows(r, part) ==
    IF ~InHistory(r)
    THEN (IF part \in taken[r] THEN End(request[r]) ELSE Base(request[r])) \div Ratio[Kind(r)]
    ELSE IF Streaming(r) < HistoryRows(Kind(r), request[r])
    THEN Streaming(r) ELSE HistoryRows(Kind(r), request[r])

RootOK ==
    \A r \in Ranks : stage[r] = "exchange" =>
        LET o == Owner(request[r])
        IN  /\ \A part \in Parts(Kind(r)), n \in Slots(Kind(r)) :
                 root[r][<<part, n>>] =
                     IF n < RootRows(r, part) THEN Item(o, layer[r], part, n) ELSE Nothing
            /\ Base(request[r]) > 0 /\ (phase[r] > 0 \/ taken[r] # {}) =>
                 /\ root[r][<<"state", 0>>] = Item(o, layer[r], "state", Base(request[r]))
                 /\ root[r][<<"raw", 0>>] = Item(o, layer[r], "raw", Base(request[r]))

\* Requests up to here are in what layer l of owner o has cached.
Requested(o, l) ==
    IF stage[o] = "stopped" \/ (stage[o] = "exchange" /\ layer[o] <= l)
    THEN request[o] ELSE request[o] + 1

\* Tokens in the pools of owner o after the requests before n.
TokensBefore(o, n) ==
    LET own == {q \in 0 .. n - 1 : Owner(q) = o}
    IN  IF own = {} THEN Cached0(o) ELSE End(CHOOSE q \in own : \A i \in own : i <= q)

Committing(o, l) == stage[o] = "exchange" /\ layer[o] = l /\ Owner(request[o]) = o

CacheOK ==
    \A o \in Ranks, l \in DOMAIN LayerKinds : \A c \in Cells(LayerKinds[l]) :
        cache[o][l][c] =
            IF Committing(o, l) /\ c[1] \in taken[o] THEN Filled(o, l, End(request[o]))[c]
            ELSE Filled(o, l, TokensBefore(o, Requested(o, l)))[c]

\* The strengthening of RootExact, CacheExact and RetiredQuiet.
IInv == Shape /\ ControlOK /\ Present /\ Remaining /\ RootOK /\ CacheOK
=============================================================================
