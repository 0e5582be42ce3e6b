--------------------------- MODULE MoeExchangeInv ---------------------------
(***************************************************************************)
(* The inductive invariant of MoeExchange: what the counters, the counts   *)
(* and the windows mean in terms of how far the ranks have come.           *)
(***************************************************************************)
EXTENDS MoeExchange

Late == {"combine", "reduce", "output"}
Ended == {"clear", "done"}

BlockIds == 0 .. Groups - 1

\* Where the ranks are.
Places ==
    /\ forward \in 0 .. Forwards - 1
    /\ layer \in [Ranks -> 1 .. Layers]
    /\ stage \in [Ranks -> Stages]
    /\ meta \in [Ranks -> 0 .. EP]
    /\ push \in [Ranks -> [Ranks -> [BlockIds -> {"idle", "putting", "done"}]]]
    /\ pending \in [Ranks -> SUBSET (1 .. Layers)]
    /\ scatter \in [Ranks -> [Ranks -> {"idle", "putting", "done"}]]
    /\ told \in [Ranks -> 0 .. EP]

\* What they hold.
Contents ==
    /\ routing \in [Ranks -> Routings \cup {<<>>}]
    /\ count \in [Ranks -> [Ranks -> MetaRows]]
    /\ gathered \in [Ranks -> SUBSET (Lanes \X LaneRows)]
    /\ reduced = [r \in Ranks |-> reduced[r]]
    /\ \A r \in Ranks : \A x \in DOMAIN reduced[r] : x \in Routes /\ reduced[r][x] \in ResultRows
    /\ recvMeta \in [Ranks -> [Ranks -> MetaRows]]
    /\ recv \in [Ranks -> [Lanes -> LaneRows]]
    /\ routed \in [Ranks -> [Routes -> ResultRows]]

Counters ==
    /\ arrived \in [Ranks -> [Ranks -> Nat]]
    /\ dataArrived \in [Ranks -> [Ranks -> Nat]]
    /\ combineArrived \in [Ranks -> [Ranks -> Nat]]

Shape == Places /\ Contents /\ Counters

-----------------------------------------------------------------------------
\* What a rank has done fits its stage.
PositionAt(r) ==
    /\ stage[r] \in {"gate", "clear", "done"} =>
         /\ meta[r] = 0 /\ count[r] = NoCount /\ push[r] = Idle /\ gathered[r] = {}
         /\ \A s \in Ranks : scatter[r][s] = "idle"
    /\ stage[r] \in Ended => layer[r] = Layers
    /\ stage[r] \in Late => meta[r] = EP /\ Counted(r) /\ Pushed(r)
    /\ Counted(r) => meta[r] = EP
    /\ gathered[r] # {} => Counted(r)
    /\ \A s \in Ranks :
         /\ scatter[r][s] # "idle" => gathered[r] # {} /\ s \in Sources(r)
         /\ scatter[r][s] = "putting" => stage[r] = "exchange"

\* Notifications of r to s in this forward, by kind.
MetaSent(r, s) ==
    IF stage[r] \in Ended THEN layer[r] ELSE IF meta[r] > s THEN layer[r] ELSE layer[r] - 1

PushedTo(r, s) == {g \in BlockIds : push[r][s][g] = "done"}

DataSent(r, s) ==
    IF stage[r] \in Ended THEN layer[r] * Groups
    ELSE (layer[r] - 1) * Groups + Cardinality(PushedTo(r, s))

CombineSent(r, s) ==
    IF stage[r] \in {"reduce", "output", "clear", "done"} \/ (stage[r] = "combine" /\ told[r] > s)
      THEN layer[r] ELSE layer[r] - 1

\* The last layer whose combine_wait s has behind it.
Combined(s) ==
    IF stage[s] \in {"reduce", "output", "clear", "done"} THEN layer[s] ELSE layer[s] - 1

\* s has cleared its counters of r.
Cleared(s, r) == stage[s] = "done" \/ (stage[s] = "clear" /\ told[s] > r)

\* A combine_wait was for the others' combines.
Synchronised ==
    \A r, s \in Ranks : r # s => Combined(s) <= CombineSent(r, s)

\* The counters say how far their sources have come, until they are cleared.
SignalsOK ==
    \A r, s \in Ranks :
        /\ arrived[s][r] = IF r = s \/ Cleared(s, r) THEN 0 ELSE MetaSent(r, s)
        /\ dataArrived[s][r] = IF r = s \/ Cleared(s, r) THEN 0 ELSE DataSent(r, s)
        /\ combineArrived[s][r] = IF r = s \/ Cleared(s, r) THEN 0 ELSE CombineSent(r, s)

\* The counts of a layer are copied when all have sent theirs.
Heard ==
    \A r, s \in Ranks : Counted(r) /\ r # s => MetaSent(s, r) >= layer[r]

\* A gather that may run has its payload.
Paid ==
    \A r \in Ranks : stage[r] = "exchange" /\ layer[r] \notin pending[r] =>
        /\ Pushed(r)
        /\ \A s \in Ranks \ {r} : DataSent(s, r) >= layer[r] * Groups

-----------------------------------------------------------------------------
MetaWritten ==
    \A r, s \in Ranks : meta[s] > r => recvMeta[r][s] = MetaRow(s, r)

\* While a rank uses the counts of its layer, no other can leave that layer,
\* and the counts are what they route.
CountsOK ==
    \A r, s \in Ranks : Counted(r) /\ stage[r] = "exchange" =>
        /\ layer[s] = layer[r] /\ stage[s] \in {"exchange", "combine"}
        /\ count[r][s] = MetaRow(s, r)

\* The rows of a finished push block lie in their lane cells.
LanesWritten ==
    \A r, s \in Ranks, g \in BlockIds : push[s][r][g] = "done" =>
        \A x \in Sent(s, r, g) :
            recv[r][CellOf(s, x)] = [call |-> Call(s), source |-> s, route |-> x]

\* The routes of s that experts of r serve.
RoutesTo(s, r) == {x \in DOMAIN routing[s] : routing[s][x] \div Local = r}

\* A rank past its scatters has served all sources that are in its layer.
AllScattered ==
    \A r, s \in Ranks : stage[r] \in Late /\ layer[s] = layer[r] /\ RoutesTo(s, r) # {} =>
        scatter[r][s] = "done"

\* The results of r for the layer s is in have landed.
Delivered(r, s) ==
    \/ layer[r] > layer[s]
    \/ layer[r] = layer[s] /\ (scatter[r][s] = "done" \/ stage[r] \in Ended)

ResultsWritten ==
    \A r, s \in Ranks : stage[s] \in {"exchange", "combine", "reduce"} /\ Delivered(r, s) =>
        \A x \in RoutesTo(s, r) :
            routed[s][x] = [call |-> Call(s), expert |-> routing[s][x], route |-> x]

ControlOK ==
    /\ \A r \in Ranks : PositionAt(r)
    /\ Synchronised /\ SignalsOK /\ Heard /\ Paid

\* The strengthening of GatherExact, ReduceExact and ClearsExactly.
IInv ==
    /\ Shape /\ ControlOK
    /\ MetaWritten /\ CountsOK /\ LanesWritten /\ GatherExact
    /\ AllScattered /\ ResultsWritten /\ ReduceExact
=============================================================================
