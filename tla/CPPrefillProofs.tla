-------------------------- MODULE CPPrefillProofs --------------------------
(***************************************************************************)
(* Context-parallel prefill, in two parts.  The exchange of hidden tails   *)
(* and history, for every number of ranks, layers and requests; its proof  *)
(* has three layers: types, program positions and the request barrier,     *)
(* none of which depends on the credits of the exchange; what the ready    *)
(* and consumed banks say about the ranks that write them, from one        *)
(* request into the next; and the lanes of a window with what a rank       *)
(* gathers out of them.  Then the chunks whose tails and history it        *)
(* carries, for every group size, tile and page size, list of chunk        *)
(* lengths and number of requests: the arithmetic of segments, tails and   *)
(* cache rows, what every phase leaves in the tensors, the properties.     *)
(***************************************************************************)
EXTENDS CPTailExchangeInv, CPChunks, WellFoundedInduction, TLAPS

-----------------------------------------------------------------------------
(***************************************************************************)
(* The exchange of tails and history.                                      *)
(***************************************************************************)

\* Segment and lane arithmetic: the lane a reader takes a segment from is the
\* one its owner publishes that segment to (cp_owner_rank, cp_owner_part).
LEMMA LayoutFacts ==
    /\ CPSize \in Nat \ {0}
    /\ NumSegments \in Nat
    /\ \A r \in Ranks, part \in LocalParts :
          Lane(r, part) \in Lanes /\ LocalSegment(r, part) \in Segments
    /\ \A s \in Segments :
          /\ OwnerRank(s) \in Ranks /\ OwnerPart(s) \in LocalParts
          /\ ReverseIndex(s) = Lane(OwnerRank(s), OwnerPart(s))
          /\ LocalSegment(OwnerRank(s), OwnerPart(s)) = s
  BY CPSizeAssumption
     DEF NumSegments, Ranks, LocalParts, Lane, Lanes, LocalSegment, Segments,
         OwnerRank, OwnerPart, ReverseIndex

\* Two ranks never publish to the same lane, and the two parts of a rank do not.
LEMMA LanesDisjoint ==
    ASSUME NEW r \in Ranks, NEW p \in Ranks, NEW i \in LocalParts, NEW j \in LocalParts,
           Lane(r, i) = Lane(p, j)
    PROVE  r = p /\ i = j
  BY CPSizeAssumption DEF Ranks, LocalParts, Lane

LEMMA StageFacts ==
    ASSUME NEW kind, NEW l \in Nat
    PROVE  FirstStage(kind, l) \in {"history", "tail"}
  BY DEF FirstStage

LEMMA StartFacts ==
    ASSUME NEW q \in 0 .. Requests, NEW pl \in [0 .. Requests - 1 -> Kinds]
    PROVE  /\ StartStage(q) \in {"history", "tail", "arrive", "stopped"}
  BY StageFacts DEF StartStage

LEMMA EpochNat ==
    ASSUME TypeOK, NEW r \in Ranks
    PROVE  Epoch(r) \in Nat
  BY DEF TypeOK, Epoch

LEMMA PayloadType ==
    ASSUME TypeOK, NEW r \in Ranks, NEW l \in PutLanes(r)
    PROVE  Payload(r, l) \in Payloads
<1>1. request[r] \in Nat
  BY RequestsAssumption DEF TypeOK
<1>2. stage[r] = "tail" => l - 2 * r \in LocalParts
  BY CPSizeAssumption DEF PutLanes, Lane, LocalParts, Ranks
<1>3. stage[r] = "tail" => LocalSegment(r, l - 2 * r) \in 0 .. HistorySeg
  BY <1>2, LayoutFacts DEF HistorySeg, Segments
<1>4. HistorySeg \in 0 .. HistorySeg
  BY LayoutFacts DEF HistorySeg
<1> QED
  BY <1>1, <1>3, <1>4, EpochNat DEF Payload, Payloads

-----------------------------------------------------------------------------
LEMMA InitBarrierInv == Init => BarrierInv
<1> SUFFICES ASSUME Init PROVE BarrierInv
  OBVIOUS
<1>1. StartStage(0) \in {"history", "tail", "arrive", "stopped"}
  BY StartFacts, RequestsAssumption DEF Init
<1>2. TypeOK
  BY <1>1, RequestsAssumption, LayersAssumption DEF Init, TypeOK, Stages
<1>3. PositionOK
  BY <1>1, RequestsAssumption, LayersAssumption
     DEF Init, PositionOK, PositionAt, Exchanging, AllIdle, NothingSeen, Peers,
         StartStage, FirstStage
<1>4. ArrivalsOK /\ RequestsSeparated
  BY <1>1, RequestsAssumption DEF Init, ArrivalsOK, ArrivalsAt, RequestsSeparated
<1> QED
  BY <1>2, <1>3, <1>4 DEF BarrierInv

\* Steps inside a phase: no rank changes its request, layer or stage.
LEMMA WithinPhaseTypes ==
    ASSUME TypeOK, NEW r \in Ranks, NEW p \in Ranks, NEW s \in Segments,
           StartPut(r, p) \/ FinishPut(r, p) \/ HistoryNotify(r, p)
           \/ Gather(r, s) \/ Release(r, p) \/ ClearSlot(r, p) \/ BarrierNotify(r, p)
    PROVE  TypeOK' /\ UNCHANGED <<plan, request, layer, stage>>
<1> DEFINE Banks == [Ranks -> [Ranks -> Nat]]
           Blocks == [Ranks -> [Ranks -> {"idle", "putting", "put", "done"}]]
           Windows == [Ranks -> [Lanes -> Payloads \cup {Torn}]]
           Reads == [Ranks -> [Segments -> Payloads \cup {Torn, NotRead}]]
<1>0. /\ ready \in Banks /\ consumed \in Banks /\ arrivals \in Banks
      /\ block \in Blocks /\ window \in Windows /\ seen \in Reads
      /\ looped \in [Ranks -> SUBSET Ranks]
  BY DEF TypeOK
<1> SUFFICES /\ ready' \in Banks /\ consumed' \in Banks /\ arrivals' \in Banks
             /\ block' \in Blocks /\ window' \in Windows /\ seen' \in Reads
             /\ looped' \in [Ranks -> SUBSET Ranks]
             /\ UNCHANGED <<plan, request, layer, stage>>
  BY DEF TypeOK
<1>1. CASE StartPut(r, p)
  <2>1. block' \in Blocks
    BY <1>0, <1>1 DEF StartPut
  <2>2. window' \in Windows
    BY <1>0, <1>1 DEF StartPut
  <2> QED
    BY <1>0, <1>1, <2>1, <2>2 DEF StartPut
<1>2. CASE FinishPut(r, p)
  <2>1. block' \in Blocks
    BY <1>0, <1>2 DEF FinishPut
  <2>2. window' \in Windows
    BY <1>0, <1>2, PayloadType DEF FinishPut
  <2>3. ready' \in Banks
    BY <1>0, <1>2 DEF FinishPut
  <2> QED
    BY <1>0, <1>2, <2>1, <2>2, <2>3 DEF FinishPut
<1>3. CASE HistoryNotify(r, p)
  <2>1. block' \in Blocks
    BY <1>0, <1>3 DEF HistoryNotify
  <2>2. ready' \in Banks
    BY <1>0, <1>3 DEF HistoryNotify
  <2> QED
    BY <1>0, <1>3, <2>1, <2>2 DEF HistoryNotify
<1>4. CASE Gather(r, s)
  <2>1. SourceLane(r, s) \in Lanes
    <3>1. ReverseIndex(s) \in Lanes
      BY LayoutFacts
    <3>2. 0 \in Lanes
      BY LayoutFacts DEF Lanes, NumSegments
    <3> QED
      BY <3>1, <3>2 DEF SourceLane
  <2>2. seen' \in Reads
    BY <1>0, <1>4, <2>1 DEF Gather
  <2> QED
    BY <1>0, <1>4, <2>2 DEF Gather
<1>5. CASE Release(r, p)
  <2>1. looped' \in [Ranks -> SUBSET Ranks]
    BY <1>0, <1>5 DEF Release
  <2>2. consumed' \in Banks
    BY <1>0, <1>5 DEF Release
  <2> QED
    BY <1>0, <1>5, <2>1, <2>2 DEF Release
<1>6. CASE ClearSlot(r, p)
  <2>1. looped' \in [Ranks -> SUBSET Ranks]
    BY <1>0, <1>6 DEF ClearSlot
  <2>2. ready' \in Banks /\ consumed' \in Banks
    BY <1>0, <1>6 DEF ClearSlot
  <2> QED
    BY <1>0, <1>6, <2>1, <2>2 DEF ClearSlot
<1>7. CASE BarrierNotify(r, p)
  <2>1. looped' \in [Ranks -> SUBSET Ranks]
    BY <1>0, <1>7 DEF BarrierNotify
  <2>2. arrivals' \in Banks
    BY <1>0, <1>7 DEF BarrierNotify
  <2> QED
    BY <1>0, <1>7, <2>1, <2>2 DEF BarrierNotify
<1> QED
  BY <1>1, <1>2, <1>3, <1>4, <1>5, <1>6, <1>7

-----------------------------------------------------------------------------
(* What each step does to every rank, slot and lane.                       *)

Still == UNCHANGED <<plan, request, layer, stage>>

LEMMA StartPutEffect ==
    ASSUME TypeOK, NEW r \in Ranks, NEW p \in Ranks, StartPut(r, p)
    PROVE  /\ Still /\ UNCHANGED <<seen, looped, ready, consumed, arrivals>>
           /\ \A x, y \in Ranks :
                 block'[x][y] = IF x = r /\ y = p THEN "putting" ELSE block[x][y]
           /\ \A x \in Ranks, l \in Lanes :
                 window'[x][l] = IF x = p /\ l \in PutLanes(r) THEN Torn ELSE window[x][l]
           /\ \A x \in Ranks : x # r => block'[x] = block[x]
  BY DEF StartPut, TypeOK, Still

LEMMA FinishPutEffect ==
    ASSUME TypeOK, NEW r \in Ranks, NEW p \in Ranks, FinishPut(r, p)
    PROVE  /\ Still /\ UNCHANGED <<seen, looped, consumed, arrivals>>
           /\ \A x, y \in Ranks :
                 block'[x][y] = IF x = r /\ y = p
                                THEN (IF stage[r] = "tail" THEN "done" ELSE "put")
                                ELSE block[x][y]
           /\ \A x \in Ranks, l \in Lanes :
                 window'[x][l] = IF x = p /\ l \in PutLanes(r)
                                 THEN Payload(r, l) ELSE window[x][l]
           /\ \A x, y \in Ranks :
                 ready'[x][y] = IF x = p /\ y = r /\ p # r /\ stage[r] = "tail"
                                THEN ready[x][y] + 1 ELSE ready[x][y]
           /\ \A x \in Ranks : x # r => block'[x] = block[x]
  BY DEF FinishPut, TypeOK, Still

LEMMA HistoryNotifyEffect ==
    ASSUME TypeOK, NEW r \in Ranks, NEW p \in Ranks, HistoryNotify(r, p)
    PROVE  /\ Still /\ UNCHANGED <<seen, looped, window, consumed, arrivals>>
           /\ \A x, y \in Ranks :
                 block'[x][y] = IF x = r /\ y = p THEN "done" ELSE block[x][y]
           /\ \A x, y \in Ranks :
                 ready'[x][y] = IF x = p /\ y = r THEN ready[x][y] + 1 ELSE ready[x][y]
           /\ \A x \in Ranks : x # r => block'[x] = block[x]
  BY DEF HistoryNotify, TypeOK, Still

LEMMA GatherEffect ==
    ASSUME TypeOK, NEW r \in Ranks, NEW s \in Segments, Gather(r, s)
    PROVE  /\ Still /\ UNCHANGED <<block, looped, window, ready, consumed, arrivals>>
           /\ \A x \in Ranks, y \in Segments :
                 seen'[x][y] = IF x = r /\ y = s THEN window[r][SourceLane(r, s)]
                               ELSE seen[x][y]
           /\ \A x \in Ranks : x # r => seen'[x] = seen[x]
  BY DEF Gather, TypeOK, Still

LEMMA ReleaseEffect ==
    ASSUME TypeOK, NEW r \in Ranks, NEW p \in Ranks, Release(r, p)
    PROVE  /\ Still /\ UNCHANGED <<block, seen, window, ready, arrivals>>
           /\ \A x \in Ranks :
                 looped'[x] = IF x = r THEN looped[x] \cup {p} ELSE looped[x]
           /\ \A x, y \in Ranks :
                 consumed'[x][y] = IF x = p /\ y = r THEN consumed[x][y] + 1
                                   ELSE consumed[x][y]
  BY DEF Release, TypeOK, Still

LEMMA ClearSlotEffect ==
    ASSUME TypeOK, NEW r \in Ranks, NEW p \in Ranks, ClearSlot(r, p)
    PROVE  /\ Still /\ UNCHANGED <<block, seen, window, arrivals>>
           /\ \A x \in Ranks :
                 looped'[x] = IF x = r THEN looped[x] \cup {p} ELSE looped[x]
           /\ \A x, y \in Ranks :
                 /\ ready'[x][y] = IF x = r /\ y = p THEN 0 ELSE ready[x][y]
                 /\ consumed'[x][y] = IF x = r /\ y = p THEN 0 ELSE consumed[x][y]
  BY DEF ClearSlot, TypeOK, Still

LEMMA BarrierNotifyEffect ==
    ASSUME TypeOK, NEW r \in Ranks, NEW p \in Ranks, BarrierNotify(r, p)
    PROVE  /\ Still /\ UNCHANGED <<block, seen, window, ready, consumed>>
           /\ \A x \in Ranks :
                 looped'[x] = IF x = r THEN looped[x] \cup {p} ELSE looped[x]
           /\ \A x, y \in Ranks :
                 arrivals'[x][y] = IF x = p /\ y = r THEN arrivals[x][y] + 1
                                   ELSE arrivals[x][y]
  BY DEF BarrierNotify, TypeOK, Still

LEMMA NextPhaseEffect ==
    ASSUME TypeOK, NEW r \in Ranks, NextPhase(r)
    PROVE  /\ UNCHANGED <<plan, request, window, ready, consumed, arrivals>>
           /\ \A x \in Ranks :
                 x # r => /\ layer'[x] = layer[x] /\ stage'[x] = stage[x]
                          /\ block'[x] = block[x] /\ seen'[x] = seen[x]
                          /\ looped'[x] = looped[x]
           /\ block'[r] = AllIdle /\ seen'[r] = NothingSeen /\ looped'[r] = {}
           /\ \/ stage[r] = "history" /\ stage'[r] = "tail" /\ layer'[r] = layer[r]
              \/ /\ stage[r] = "tail" /\ layer[r] + 1 < Layers /\ layer'[r] = layer[r] + 1
                 /\ stage'[r] = FirstStage(plan[request[r]], layer[r] + 1)
              \/ /\ stage[r] = "tail" /\ layer[r] + 1 = Layers
                 /\ stage'[r] = "retire" /\ layer'[r] = layer[r]
<1>1. /\ UNCHANGED <<plan, request, window, ready, consumed, arrivals>>
      /\ \A x \in Ranks :
                 x # r => /\ block'[x] = block[x] /\ seen'[x] = seen[x]
                          /\ looped'[x] = looped[x]
      /\ block'[r] = AllIdle /\ seen'[r] = NothingSeen /\ looped'[r] = {}
  BY DEF NextPhase, TypeOK, AllIdle, NothingSeen
<1>2. \A x \in Ranks : x # r => layer'[x] = layer[x] /\ stage'[x] = stage[x]
  BY DEF NextPhase, TypeOK
<1>3. CASE stage[r] = "history"
  BY <1>1, <1>2, <1>3 DEF NextPhase, TypeOK
<1>4. CASE stage[r] = "tail" /\ ~LastLayer(layer[r])
  <2>1. layer[r] + 1 < Layers
    BY <1>4, LayersAssumption DEF TypeOK, LastLayer
  <2> QED
    BY <1>1, <1>2, <1>4, <2>1 DEF NextPhase, TypeOK
<1>5. CASE stage[r] = "tail" /\ LastLayer(layer[r])
  BY <1>1, <1>2, <1>5 DEF NextPhase, TypeOK, LastLayer
<1> QED
  BY <1>3, <1>4, <1>5 DEF NextPhase

LEMMA RetireEffect ==
    ASSUME TypeOK, NEW r \in Ranks, Retire(r)
    PROVE  /\ UNCHANGED <<plan, request, layer, block, seen, looped, window, ready,
                          consumed, arrivals>>
           /\ \A x \in Ranks : stage'[x] = IF x = r THEN "clear" ELSE stage[x]
  BY DEF Retire, TypeOK

LEMMA ArriveEffect ==
    ASSUME TypeOK, NEW r \in Ranks, Arrive(r)
    PROVE  /\ UNCHANGED <<plan, request, layer, block, seen, window, ready, consumed>>
           /\ \A x \in Ranks : /\ stage'[x] = IF x = r THEN "barrier" ELSE stage[x]
                               /\ looped'[x] = IF x = r THEN {} ELSE looped[x]
           /\ \A x, y \in Ranks :
                 arrivals'[x][y] = IF x = r /\ y = r THEN arrivals[x][y] + 1
                                   ELSE arrivals[x][y]
<1>1. /\ stage' = [stage EXCEPT ![r] = "barrier"]
      /\ looped' = [looped EXCEPT ![r] = {}]
      /\ arrivals' = [arrivals EXCEPT ![r][r] = arrivals[r][r] + 1]
      /\ UNCHANGED <<plan, request, layer, block, seen, window, ready, consumed>>
  BY DEF Arrive
<1>2. /\ stage \in [Ranks -> Stages] /\ looped \in [Ranks -> SUBSET Ranks]
      /\ arrivals \in [Ranks -> [Ranks -> Nat]]
  BY DEF TypeOK
<1>3. \A x \in Ranks : /\ stage'[x] = IF x = r THEN "barrier" ELSE stage[x]
                       /\ looped'[x] = IF x = r THEN {} ELSE looped[x]
  BY <1>1, <1>2
<1>4. \A x, y \in Ranks :
         arrivals'[x][y] = IF x = r /\ y = r THEN arrivals[x][y] + 1 ELSE arrivals[x][y]
  <2>1. /\ arrivals'[r] = [arrivals[r] EXCEPT ![r] = arrivals[r][r] + 1]
        /\ \A x \in Ranks : x # r => arrivals'[x] = arrivals[x]
    BY <1>1, <1>2
  <2> QED
    BY <1>2, <2>1
<1> QED
  BY <1>1, <1>3, <1>4

LEMMA BarrierPassEffect ==
    ASSUME TypeOK, NEW r \in Ranks, BarrierPass(r)
    PROVE  /\ UNCHANGED <<plan, block, seen, window, ready, consumed, arrivals>>
           /\ \A x \in Ranks :
                 x # r => /\ request'[x] = request[x] /\ layer'[x] = layer[x]
                          /\ stage'[x] = stage[x] /\ looped'[x] = looped[x]
           /\ request'[r] = request[r] + 1 /\ layer'[r] = 0
           /\ stage'[r] = StartStage(request[r] + 1) /\ looped'[r] = {}
  BY DEF BarrierPass, TypeOK

\* Steps that move a rank: the compute between phases, and the end of a request.
LEMMA MoveTypes ==
    ASSUME TypeOK, PositionOK, NEW r \in Ranks,
           NextPhase(r) \/ Retire(r) \/ Arrive(r) \/ BarrierPass(r)
    PROVE  TypeOK'
<1>0. /\ plan \in [0 .. Requests - 1 -> Kinds] /\ request \in [Ranks -> 0 .. Requests]
      /\ layer \in [Ranks -> 0 .. Layers - 1] /\ stage \in [Ranks -> Stages]
      /\ looped \in [Ranks -> SUBSET Ranks] /\ arrivals \in [Ranks -> [Ranks -> Nat]]
  BY DEF TypeOK
<1>1. CASE NextPhase(r)
  <2>1. layer[r] + 1 \in Nat /\ FirstStage(plan[request[r]], layer[r] + 1) \in Stages
    BY <1>0, LayersAssumption, StageFacts DEF Stages
  <2>2. layer' \in [Ranks -> 0 .. Layers - 1] /\ stage' \in [Ranks -> Stages]
    <3>1. CASE stage[r] = "history"
      BY <1>0, <1>1, <3>1 DEF NextPhase, Stages
    <3>2. CASE stage[r] = "tail" /\ ~LastLayer(layer[r])
      <4>1. /\ layer' = [layer EXCEPT ![r] = layer[r] + 1]
            /\ stage' = [stage EXCEPT ![r] = FirstStage(plan[request[r]], layer[r] + 1)]
        BY <1>1, <3>2 DEF NextPhase
      <4>2. layer[r] + 1 \in 0 .. Layers - 1
        <5>1. layer[r] \in 0 .. Layers - 1 /\ layer[r] + 1 # Layers
          BY <1>0, <3>2 DEF LastLayer
        <5> QED
          BY <5>1, LayersAssumption
      <4> QED
        BY <1>0, <2>1, <4>1, <4>2
    <3>3. CASE stage[r] = "tail" /\ LastLayer(layer[r])
      BY <1>0, <1>1, <3>3 DEF NextPhase, Stages
    <3> QED
      BY <1>1, <3>1, <3>2, <3>3 DEF NextPhase
  <2>3. looped' \in [Ranks -> SUBSET Ranks]
    BY <1>0, <1>1 DEF NextPhase
  <2>4. /\ block' \in [Ranks -> [Ranks -> {"idle", "putting", "put", "done"}]]
        /\ seen' \in [Ranks -> [Segments -> Payloads \cup {Torn, NotRead}]]
        /\ UNCHANGED <<plan, request, window, ready, consumed, arrivals>>
    BY <1>1 DEF NextPhase, TypeOK
  <2> QED
    BY <2>2, <2>3, <2>4 DEF TypeOK
<1>2. CASE Retire(r)
  BY <1>2 DEF Retire, TypeOK, Stages
<1>3. CASE Arrive(r)
  <2>1. /\ stage' \in [Ranks -> Stages] /\ looped' \in [Ranks -> SUBSET Ranks]
        /\ arrivals' \in [Ranks -> [Ranks -> Nat]]
    BY <1>0, <1>3 DEF Arrive, Stages
  <2> QED
    BY <1>3, <2>1 DEF Arrive, TypeOK
<1>4. CASE BarrierPass(r)
  <2>1. request[r] + 1 \in 0 .. Requests
    BY <1>0, <1>4, RequestsAssumption DEF BarrierPass, PositionOK, PositionAt
  <2>2. StartStage(request[r] + 1) \in Stages
    BY <1>0, <2>1, StartFacts DEF Stages
  <2>3. /\ request' \in [Ranks -> 0 .. Requests] /\ stage' \in [Ranks -> Stages]
        /\ layer' \in [Ranks -> 0 .. Layers - 1] /\ looped' \in [Ranks -> SUBSET Ranks]
    BY <1>0, <1>4, <2>1, <2>2, LayersAssumption DEF BarrierPass
  <2> QED
    BY <1>4, <2>3 DEF BarrierPass, TypeOK
<1> QED
  BY <1>1, <1>2, <1>3, <1>4

-----------------------------------------------------------------------------
(* Positions.                                                              *)

LEMMA WithinPhasePositions ==
    ASSUME TypeOK, PositionOK, NEW r \in Ranks, NEW p \in Ranks, NEW s \in Segments,
           StartPut(r, p) \/ FinishPut(r, p) \/ HistoryNotify(r, p)
           \/ Gather(r, s) \/ Release(r, p) \/ ClearSlot(r, p) \/ BarrierNotify(r, p)
    PROVE  PositionOK'
<1>1. SUFFICES ASSUME NEW x \in Ranks PROVE PositionAt(x)'
  BY DEF PositionOK
<1>2. PositionAt(x) /\ PositionAt(r)
  BY DEF PositionOK
<1>3. CASE StartPut(r, p)
  BY <1>2, <1>3, StartPutEffect DEF PositionAt, Exchanging, Still, StartPut
<1>4. CASE FinishPut(r, p)
  <2>1. Exchanging(r)
    BY <1>2, <1>4 DEF FinishPut, PositionAt, AllIdle
  <2> QED
    BY <1>2, <1>4, <2>1, FinishPutEffect DEF PositionAt, Exchanging, Still
<1>5. CASE HistoryNotify(r, p)
  BY <1>2, <1>5, HistoryNotifyEffect DEF PositionAt, Exchanging, Still, HistoryNotify
<1>6. CASE Gather(r, s)
  BY <1>2, <1>6, GatherEffect DEF PositionAt, Exchanging, Still, Gather
<1>7. CASE Release(r, p)
  BY <1>2, <1>7, ReleaseEffect DEF PositionAt, Exchanging, Still, Release
<1>8. CASE ClearSlot(r, p)
  BY <1>2, <1>8, ClearSlotEffect DEF PositionAt, Exchanging, Still, ClearSlot
<1>9. CASE BarrierNotify(r, p)
  BY <1>2, <1>9, BarrierNotifyEffect DEF PositionAt, Exchanging, Still, BarrierNotify
<1> QED
  BY <1>3, <1>4, <1>5, <1>6, <1>7, <1>8, <1>9

LEMMA MovePositions ==
    ASSUME TypeOK, PositionOK, NEW r \in Ranks,
           NextPhase(r) \/ Retire(r) \/ Arrive(r) \/ BarrierPass(r)
    PROVE  PositionOK'
<1>1. SUFFICES ASSUME NEW x \in Ranks PROVE PositionAt(x)'
  BY DEF PositionOK
<1>2. PositionAt(x) /\ PositionAt(r)
  BY DEF PositionOK
<1>3. request[r] \in 0 .. Requests /\ layer[r] \in 0 .. Layers - 1
  BY DEF TypeOK
<1>4. CASE NextPhase(r)
  <2>1. CASE x # r
    BY <1>2, <1>4, <2>1, NextPhaseEffect DEF PositionAt, Exchanging
  <2>2. CASE x = r
    BY <1>2, <1>3, <1>4, <2>2, NextPhaseEffect, LayersAssumption
       DEF PositionAt, Exchanging, FirstStage
  <2> QED
    BY <2>1, <2>2
<1>5. CASE Retire(r)
  BY <1>2, <1>5, RetireEffect DEF PositionAt, Exchanging, Retire
<1>6. CASE Arrive(r)
  <2>1. CASE x # r
    BY <1>2, <1>6, <2>1, ArriveEffect DEF PositionAt, Exchanging
  <2>2. CASE x = r
    <3>1. stage[r] \in {"arrive", "clear"}
      BY <1>6 DEF Arrive
    <3> QED
      BY <1>2, <1>6, <2>2, <3>1, ArriveEffect DEF PositionAt, Exchanging
  <2> QED
    BY <2>1, <2>2
<1>7. CASE BarrierPass(r)
  <2>1. CASE x # r
    BY <1>2, <1>7, <2>1, BarrierPassEffect DEF PositionAt, Exchanging
  <2>2. CASE x = r
    <3>1. request[r] + 1 \in 0 .. Requests /\ stage[r] = "barrier"
      BY <1>2, <1>3, <1>7, RequestsAssumption DEF BarrierPass, PositionAt
    <3>2. block'[r] = AllIdle /\ seen'[r] = NothingSeen
      BY <1>2, <1>7, <3>1, BarrierPassEffect DEF PositionAt, Exchanging
    <3>3. stage'[r] = "stopped" <=> request'[r] = Requests
      BY <1>7, <3>1, BarrierPassEffect DEF StartStage, FirstStage
    <3> QED
      BY <1>7, <2>2, <3>1, <3>2, <3>3, BarrierPassEffect
         DEF PositionAt, Exchanging, StartStage, FirstStage
  <2> QED
    BY <2>1, <2>2
<1> QED
  BY <1>4, <1>5, <1>6, <1>7

-----------------------------------------------------------------------------
(* The request barrier.                                                    *)

\* Steps that touch no barrier counter and enter or leave no barrier.
LEMMA ArrivalsAway ==
    ASSUME TypeOK, PositionOK, ArrivalsOK, NEW r \in Ranks, NEW p \in Ranks, NEW s \in Segments,
           StartPut(r, p) \/ FinishPut(r, p) \/ HistoryNotify(r, p) \/ Gather(r, s)
           \/ Release(r, p) \/ ClearSlot(r, p) \/ NextPhase(r) \/ Retire(r)
    PROVE  ArrivalsOK' /\ (RequestsSeparated => RequestsSeparated')
<1>1. /\ UNCHANGED <<request, arrivals>>
      /\ \A x \in Ranks : /\ stage'[x] = "barrier" <=> stage[x] = "barrier"
                          /\ stage[x] = "barrier" => looped'[x] = looped[x]
  <2>1. CASE StartPut(r, p)
    BY <2>1, StartPutEffect DEF Still
  <2>2. CASE FinishPut(r, p)
    BY <2>2, FinishPutEffect DEF Still
  <2>3. CASE HistoryNotify(r, p)
    BY <2>3, HistoryNotifyEffect DEF Still
  <2>4. CASE Gather(r, s)
    BY <2>4, GatherEffect DEF Still
  <2>5. CASE Release(r, p)
    BY <2>5, ReleaseEffect DEF Still, Release
  <2>6. CASE ClearSlot(r, p)
    BY <2>6, ClearSlotEffect DEF Still, ClearSlot
  <2>7. CASE NextPhase(r)
    BY <2>7, NextPhaseEffect, StageFacts DEF FirstStage
  <2>8. CASE Retire(r)
    BY <2>8, RetireEffect DEF Retire
  <2> QED
    BY <2>1, <2>2, <2>3, <2>4, <2>5, <2>6, <2>7, <2>8
<1>2. ArrivalsOK'
  BY <1>1 DEF ArrivalsOK, ArrivalsAt
<1>3. RequestsSeparated => RequestsSeparated'
  BY <1>1 DEF RequestsSeparated
<1> QED
  BY <1>2, <1>3

LEMMA ArrivalsAtBarrier ==
    ASSUME BarrierInv, NEW r \in Ranks, NEW p \in Ranks,
           Arrive(r) \/ BarrierNotify(r, p) \/ BarrierPass(r)
    PROVE  ArrivalsOK' /\ RequestsSeparated'
<1>0. TypeOK /\ PositionOK
  BY DEF BarrierInv
<1>1. /\ \A x \in Ranks : request[x] \in 0 .. Requests /\ request[x] \in Nat
      /\ \A x, y \in Ranks : arrivals[x][y] \in Nat
      /\ TypeOK /\ PositionOK
  <2>1. /\ request \in [Ranks -> 0 .. Requests]
        /\ arrivals \in [Ranks -> [Ranks -> Nat]]
    BY <1>0 DEF TypeOK
  <2> QED
    BY <1>0, <2>1, RequestsAssumption
<1>2. \A x, y \in Ranks :
         arrivals[x][y] = IF stage[y] = "barrier" /\ (y = x \/ x \in looped[y])
                          THEN request[y] + 1 ELSE request[y]
  BY DEF BarrierInv, ArrivalsOK, ArrivalsAt
<1>3. CASE Arrive(r)
  <2>1. stage[r] # "barrier"
    BY <1>3 DEF Arrive
  <2>2. ArrivalsOK'
    BY <1>1, <1>2, <1>3, <2>1, ArriveEffect DEF ArrivalsOK, ArrivalsAt
  <2>3. RequestsSeparated'
    BY <1>1, <1>3, <2>1, ArriveEffect DEF BarrierInv, RequestsSeparated
  <2> QED
    BY <2>2, <2>3
<1>4. CASE BarrierNotify(r, p)
  <2>1. stage[r] = "barrier" /\ p # r /\ p \notin looped[r]
    BY <1>4 DEF BarrierNotify, Peers
  <2>2. ArrivalsOK'
    <3> SUFFICES ASSUME NEW x \in Ranks, NEW y \in Ranks PROVE ArrivalsAt(x, y)'
      BY DEF ArrivalsOK
    <3>1. /\ UNCHANGED <<request, stage>>
          /\ looped'[y] = IF y = r THEN looped[y] \cup {p} ELSE looped[y]
          /\ arrivals'[x][y] = IF x = p /\ y = r THEN arrivals[x][y] + 1 ELSE arrivals[x][y]
      BY <1>0, <1>4, BarrierNotifyEffect, SMTT(30) DEF Still
    <3>2. CASE y = r
      BY <1>1, <1>2, <2>1, <3>1, <3>2 DEF ArrivalsAt
    <3>3. CASE y # r
      BY <1>1, <1>2, <2>1, <3>1, <3>3 DEF ArrivalsAt
    <3> QED
      BY <3>2, <3>3
  <2>3. RequestsSeparated'
    BY <1>1, <1>4, BarrierNotifyEffect DEF BarrierInv, RequestsSeparated, Still
  <2> QED
    BY <2>2, <2>3
<1>5. CASE BarrierPass(r)
  <2>1. /\ stage[r] = "barrier" /\ looped[r] = Peers(r)
        /\ \A x \in Ranks : x # r => arrivals[r][x] >= arrivals[r][r]
    BY <1>5 DEF BarrierPass, AllArrived, Peers
  <2>2. \A x \in Ranks : x # r =>
           \/ request[x] = request[r] /\ stage[x] = "barrier"
           \/ request[x] = request[r] + 1
    BY <1>1, <1>2, <2>1 DEF BarrierInv, RequestsSeparated
  <2>3. stage'[r] # "barrier"
    <3>1. request[r] + 1 \in 0 .. Requests
      BY <1>1, <2>1, RequestsAssumption DEF PositionOK, PositionAt
    <3> QED
      BY <1>1, <1>5, <3>1, BarrierPassEffect, StartFacts DEF TypeOK
  <2>4. ArrivalsOK'
    BY <1>1, <1>2, <1>5, <2>1, <2>3, BarrierPassEffect DEF ArrivalsOK, ArrivalsAt, Peers
  <2>5. RequestsSeparated'
    BY <1>1, <1>5, <2>1, <2>2, <2>3, BarrierPassEffect DEF BarrierInv, RequestsSeparated
  <2> QED
    BY <2>4, <2>5
<1> QED
  BY <1>3, <1>4, <1>5

LEMMA BarrierStep == BarrierInv /\ [Next]_vars => BarrierInv'
<1> SUFFICES ASSUME BarrierInv, [Next]_vars PROVE BarrierInv'
  OBVIOUS
<1>0. TypeOK /\ PositionOK /\ ArrivalsOK /\ RequestsSeparated
  BY DEF BarrierInv
<1>1. CASE UNCHANGED vars
  BY <1>0, <1>1 DEF vars, BarrierInv, TypeOK, PositionOK, PositionAt, ArrivalsOK, ArrivalsAt,
                    RequestsSeparated, Exchanging
<1>2. ASSUME NEW r \in Ranks, RankStep(r) PROVE BarrierInv'
  <2>0. 0 \in Segments
    BY LayoutFacts DEF Segments, NumSegments
  <2>1. CASE NextPhase(r) \/ Retire(r)
    BY <1>0, <2>0, <2>1, MoveTypes, MovePositions, ArrivalsAway DEF BarrierInv
  <2>2. CASE Arrive(r) \/ BarrierPass(r)
    BY <1>0, <2>2, MoveTypes, MovePositions, ArrivalsAtBarrier DEF BarrierInv
  <2>3. ASSUME NEW p \in Ranks, BarrierNotify(r, p) PROVE BarrierInv'
    BY <1>0, <2>0, <2>3, WithinPhaseTypes, WithinPhasePositions, ArrivalsAtBarrier DEF BarrierInv
  <2>4. ASSUME NEW p \in Ranks, NEW s \in Segments,
               StartPut(r, p) \/ FinishPut(r, p) \/ HistoryNotify(r, p)
               \/ Gather(r, s) \/ Release(r, p) \/ ClearSlot(r, p)
        PROVE  BarrierInv'
    <3>1. TypeOK'
      BY <1>0, <2>4, WithinPhaseTypes
    <3>2. PositionOK'
      BY <1>0, <2>4, WithinPhasePositions
    <3>3. ArrivalsOK' /\ RequestsSeparated'
      BY <1>0, <2>4, ArrivalsAway
    <3> QED
      BY <3>1, <3>2, <3>3 DEF BarrierInv
  <2> QED
    BY <1>2, <2>0, <2>1, <2>2, <2>3, <2>4 DEF RankStep
<1> QED
  BY <1>1, <1>2 DEF Next, Stopped

LEMMA BarrierInvariant == Spec => []BarrierInv
  BY InitBarrierInv, BarrierStep, PTL DEF Spec

-----------------------------------------------------------------------------
\* Type correctness: counters stay counters, positions stay positions, and a
\* lane or a read holds a row, a torn row or nothing.
THEOREM TypeCorrect == Spec => []TypeOK
<1>1. BarrierInv => TypeOK
  BY DEF BarrierInv
<1> QED
  BY <1>1, BarrierInvariant, PTL

\* The request barrier (_prefill_cp_request_barrier) keeps every rank within one
\* request of every other, and only while the slower one is still in the barrier.
THEOREM RequestsStaySeparated == Spec => []RequestsSeparated
<1>1. BarrierInv => RequestsSeparated
  BY DEF BarrierInv
<1> QED
  BY <1>1, BarrierInvariant, PTL
-----------------------------------------------------------------------------
\* The counters of _prefill_cp_request_barrier implement the abstract barrier:
\* every step of a rank is a step of RequestBarrier or leaves it alone.
LEMMA PassGuard ==
    ASSUME BarrierInv, NEW r \in Ranks, BarrierPass(r)
    PROVE  \A x \in Ranks : Barrier!Through(x, r)
<1>0. TypeOK /\ ArrivalsOK
  BY DEF BarrierInv
<1>1. /\ stage[r] = "barrier"
      /\ \A x \in Ranks : x # r => arrivals[r][x] >= arrivals[r][r]
  BY DEF BarrierPass, AllArrived, Peers
<1>2. \A x \in Ranks : request[x] \in Nat
  BY <1>0, RequestsAssumption DEF TypeOK
<1>3. ASSUME NEW x \in Ranks
      PROVE  request[x] > request[r] \/ (request[x] = request[r] /\ stage[x] = "barrier")
  <2>1. ArrivalsAt(r, x) /\ ArrivalsAt(r, r)
    BY <1>0 DEF ArrivalsOK
  <2>2. CASE x = r
    BY <1>1, <2>2
  <2>3. CASE x # r
    <3>1. arrivals[r][r] = request[r] + 1
      BY <1>1, <2>1 DEF ArrivalsAt
    <3>2. arrivals[r][x] >= request[r] + 1
      BY <1>1, <2>3, <3>1
    <3>3. RequestsSeparated
      BY DEF BarrierInv
    <3> QED
      BY <1>1, <1>2, <2>1, <3>2, <3>3 DEF ArrivalsAt, RequestsSeparated
  <2> QED
    BY <2>2, <2>3
<1> QED
  BY <1>3 DEF Barrier!Through

\* A rank is in the barrier's second half exactly when its stage says so.
Waiting == [r \in Ranks |-> stage[r] = "barrier"]

LEMMA InitRefines == Init => Barrier!Init
<1> SUFFICES ASSUME Init PROVE Barrier!Init
  OBVIOUS
<1>1. \A r \in Ranks : stage[r] # "barrier"
  BY StartFacts DEF Init, StartStage, FirstStage
<1>2. \A r \in Ranks : (stage[r] = "barrier") = FALSE
  BY <1>1
<1> QED
  BY <1>2 DEF Init, Barrier!Init

\* No rank reaches or leaves the barrier in these steps.
LEMMA AwayFromBarrier ==
    ASSUME UNCHANGED request,
           \A x \in Ranks : (stage'[x] = "barrier") <=> (stage[x] = "barrier")
    PROVE  UNCHANGED <<request, Waiting>>
<1>1. \A x \in Ranks : (stage'[x] = "barrier") = (stage[x] = "barrier")
  OBVIOUS
<1> QED
  BY <1>1 DEF Waiting

LEMMA StepRefines ==
    ASSUME BarrierInv, [Next]_vars
    PROVE  [Barrier!Next]_<<request, Waiting>>
<1>0. TypeOK /\ PositionOK
  BY DEF BarrierInv
<1>1. CASE UNCHANGED vars
  BY <1>1, AwayFromBarrier DEF vars
<1>2. ASSUME NEW r \in Ranks, RankStep(r) PROVE [Barrier!Next]_<<request, Waiting>>
  <2>1. CASE BarrierPass(r)
    <3>1. /\ stage[r] = "barrier" /\ request[r] \in 0 .. Requests /\ request[r] # Requests
          /\ \A x \in Ranks : request[x] \in 0 .. Requests
      BY <1>0, <2>1 DEF BarrierPass, TypeOK, PositionOK, PositionAt
    <3>2. stage'[r] # "barrier"
      BY <1>0, <2>1, BarrierPassEffect, StartFacts DEF StartStage, FirstStage
    <3>3. Waiting' = [Waiting EXCEPT ![r] = FALSE]
      BY <1>0, <2>1, <3>2, BarrierPassEffect DEF Waiting
    <3>4. request' = [request EXCEPT ![r] = @ + 1]
      BY <2>1 DEF BarrierPass
    <3>5. Barrier!Leave(r)
      BY <2>1, <3>1, <3>3, <3>4, PassGuard DEF Barrier!Leave, Waiting
    <3> QED
      BY <3>5 DEF Barrier!Next
  <2>2. CASE Arrive(r)
    <3>1. stage[r] # "barrier" /\ stage[r] # "stopped"
      BY <2>2 DEF Arrive
    <3>2. request[r] < Requests
      BY <1>0, <3>1, RequestsAssumption DEF TypeOK, PositionOK, PositionAt
    <3>3. Waiting' = [Waiting EXCEPT ![r] = TRUE]
      BY <1>0, <2>2, ArriveEffect DEF Waiting
    <3>4. Barrier!Reach(r)
      BY <1>0, <2>2, <3>1, <3>2, <3>3, ArriveEffect DEF Barrier!Reach, Waiting
    <3> QED
      BY <3>4 DEF Barrier!Next
  <2>3. CASE NextPhase(r)
    <3>1. stage[r] # "barrier" /\ stage'[r] # "barrier"
      BY <1>0, <2>3, NextPhaseEffect DEF FirstStage
    <3> QED
      BY <1>0, <2>3, <3>1, NextPhaseEffect, AwayFromBarrier
  <2>4. CASE Retire(r)
    BY <1>0, <2>4, RetireEffect, AwayFromBarrier DEF Retire
  <2>5. ASSUME NEW p \in Ranks, NEW s \in Segments,
               \/ StartPut(r, p) \/ FinishPut(r, p) \/ HistoryNotify(r, p)
               \/ Gather(r, s) \/ Release(r, p) \/ ClearSlot(r, p) \/ BarrierNotify(r, p)
        PROVE  UNCHANGED <<request, stage>>
    BY <2>5 DEF StartPut, FinishPut, HistoryNotify, Gather, Release, ClearSlot, BarrierNotify
  <2>6. 0 \in Segments
    BY LayoutFacts DEF Segments, NumSegments
  <2> QED
    BY <1>2, <2>1, <2>2, <2>3, <2>4, <2>5, <2>6, AwayFromBarrier DEF RankStep
<1> QED
  BY <1>1, <1>2 DEF Next, Stopped

\* The rank program implements RequestBarrier, for any number of ranks and
\* requests and any mix of request kinds.
THEOREM BarrierRefined == Spec => BarrierKept
<1>1. BarrierInv /\ [Next]_vars => [Barrier!Next]_<<request, Waiting>>
  BY StepRefines
<1> QED
  BY <1>1, InitRefines, BarrierInvariant, PTL DEF Spec, BarrierKept, Barrier!Spec, Waiting

-----------------------------------------------------------------------------
\* Rank x keeps its place: no request, layer or stage of it changes.
Stays(x) ==
    /\ plan' = plan /\ request'[x] = request[x]
    /\ layer'[x] = layer[x] /\ stage'[x] = stage[x]

LEMMA PlaceKept ==
    ASSUME NEW x \in Ranks, Stays(x)
    PROVE  /\ Exchanging(x)' <=> Exchanging(x)
           /\ Epoch(x)' = Epoch(x) /\ Total(x)' = Total(x) /\ Behind(x)' = Behind(x)
           /\ TailCompleted(x)' = TailCompleted(x)
<1>1. Epoch(x)' = Epoch(x) /\ TailCompleted(x)' = TailCompleted(x)
  BY DEF Stays, Epoch, TailCompleted, Prefixed
<1> QED
  BY <1>1 DEF Stays, Exchanging, Total, Behind

LEMMA StillStays ==
    ASSUME Still, NEW x \in Ranks
    PROVE  Stays(x)
  BY DEF Still, Stays

LEMMA RankTypes ==
    ASSUME TypeOK
    PROVE  \A x \in Ranks :
             /\ request[x] \in 0 .. Requests /\ request[x] \in Nat
             /\ layer[x] \in 0 .. Layers - 1
             /\ stage[x] \in Stages
             /\ looped[x] \subseteq Ranks
             /\ Epoch(x) \in Nat /\ Total(x) \in Nat /\ Behind(x) \in Nat
             /\ TailCompleted(x) \in Nat /\ TailCompleted(x) >= 2
             /\ \A y \in Ranks :
                  /\ block[x][y] \in {"idle", "putting", "put", "done"}
                  /\ ready[x][y] \in Nat /\ consumed[x][y] \in Nat
                  /\ Announced(x, y) \in Nat /\ Released(x, y) \in Nat
<1> TAKE x \in Ranks
<1>1. /\ request \in [Ranks -> 0 .. Requests] /\ layer \in [Ranks -> 0 .. Layers - 1]
      /\ stage \in [Ranks -> Stages] /\ looped \in [Ranks -> SUBSET Ranks]
      /\ block \in [Ranks -> [Ranks -> {"idle", "putting", "put", "done"}]]
      /\ ready \in [Ranks -> [Ranks -> Nat]] /\ consumed \in [Ranks -> [Ranks -> Nat]]
  BY DEF TypeOK
<1>2. Epoch(x) \in Nat
  BY EpochNat
<1>3. TailCompleted(x) \in Nat /\ TailCompleted(x) >= 2
  BY LayersAssumption DEF TailCompleted
<1>4. Total(x) \in Nat /\ Behind(x) \in Nat
  BY <1>2, <1>3 DEF Total, Behind
<1> QED
  BY <1>1, <1>2, <1>3, <1>4, RequestsAssumption DEF Announced, Released

\* Where the phases of a request stand in its epochs: the SWA history phases of
\* a continued chunk are epochs 0 and 2, and every phase is below the total.
LEMMA PhaseEpochs ==
    ASSUME BarrierInv, NEW r \in Ranks, Exchanging(r)
    PROVE  /\ request[r] < Requests /\ plan[request[r]] # "skip"
           /\ Total(r) = TailCompleted(r) /\ Epoch(r) < Total(r) /\ Behind(r) = Epoch(r)
           /\ stage[r] = "history" <=> HistoryEpoch(request[r], Epoch(r))
           /\ looped[r] \subseteq Peers(r)
<1>1. /\ PositionAt(r) /\ request[r] \in 0 .. Requests /\ layer[r] \in 0 .. Layers - 1
  BY RankTypes DEF BarrierInv, PositionOK
<1>2. request[r] # Requests /\ plan[request[r]] # "skip" /\ looped[r] \subseteq Peers(r)
  BY <1>1 DEF PositionAt, Exchanging
<1>3. Epoch(r) < TailCompleted(r)
  <2>1. CASE Prefixed(r) /\ layer[r] < 2
    BY <1>1, <2>1, LayersAssumption DEF Epoch, TailCompleted
  <2>2. CASE Prefixed(r) /\ layer[r] >= 2
    BY <1>1, <2>2, LayersAssumption DEF Epoch, TailCompleted
  <2>3. CASE ~Prefixed(r)
    BY <1>1, <2>3, LayersAssumption DEF Epoch, TailCompleted
  <2> QED
    BY <1>1, <2>1, <2>2, <2>3, LayersAssumption
<1>4. stage[r] = "history" <=> HistoryEpoch(request[r], Epoch(r))
  <2>1. CASE stage[r] = "history"
    BY <1>1, <2>1, LayersAssumption DEF PositionAt, Epoch, Prefixed, HistoryEpoch
  <2>2. CASE stage[r] = "tail"
    BY <1>1, <2>2, LayersAssumption DEF Epoch, Prefixed, HistoryEpoch
  <2> QED
    BY <2>1, <2>2 DEF Exchanging
<1> QED
  BY <1>1, <1>2, <1>3, <1>4, RequestsAssumption DEF Total, Behind

\* The compute between two phases moves a rank exactly one epoch on.
LEMMA NextPhaseEpoch ==
    ASSUME BarrierInv, NEW r \in Ranks, NextPhase(r)
    PROVE  /\ Exchanging(r) /\ Behind(r)' = Behind(r) + 1 /\ Total(r)' = Total(r)
           /\ Exchanging(r)' => Epoch(r)' = Epoch(r) + 1
           /\ stage'[r] \in {"history", "tail", "retire"}
           /\ \A x \in Ranks : x # r => Stays(x)
<1>1. /\ PositionAt(r) /\ request[r] \in 0 .. Requests /\ layer[r] \in 0 .. Layers - 1
      /\ TypeOK
  BY RankTypes DEF BarrierInv, PositionOK
<1>2. Exchanging(r)
  BY DEF NextPhase, Exchanging
<1>3. \A x \in Ranks : x # r => Stays(x)
  BY <1>1, NextPhaseEffect DEF Stays
<1>4. plan' = plan /\ request' = request
  BY <1>1, NextPhaseEffect
<1>5. Total(r)' = Total(r) /\ TailCompleted(r)' = TailCompleted(r)
  BY <1>4 DEF Total, TailCompleted, Prefixed
<1>6. CASE stage[r] = "history"
  <2>1. stage'[r] = "tail" /\ layer'[r] = layer[r] /\ layer[r] < 2 /\ Prefixed(r)
    BY <1>1, <1>6, NextPhaseEffect DEF PositionAt, Prefixed
  <2>2. Epoch(r)' = Epoch(r) + 1
    BY <1>1, <1>4, <1>6, <2>1 DEF Epoch, Prefixed
  <2> QED
    BY <1>2, <1>3, <1>5, <2>1, <2>2 DEF Exchanging, Behind
<1>7. CASE stage[r] = "tail" /\ layer[r] + 1 < Layers
  <2>1. /\ layer'[r] = layer[r] + 1
        /\ stage'[r] = FirstStage(plan[request[r]], layer[r] + 1)
    BY <1>1, <1>7, NextPhaseEffect, LayersAssumption
  <2>2. Epoch(r)' = Epoch(r) + 1
    BY <1>1, <1>4, <1>7, <2>1, LayersAssumption DEF Epoch, Prefixed, FirstStage
  <2>3. stage'[r] \in {"history", "tail"}
    BY <1>1, <2>1, StageFacts
  <2> QED
    BY <1>2, <1>3, <1>5, <2>2, <2>3 DEF Exchanging, Behind
<1>8. CASE stage[r] = "tail" /\ layer[r] + 1 = Layers
  <2>1. stage'[r] = "retire"
    BY <1>1, <1>8, NextPhaseEffect, LayersAssumption
  <2>2. Total(r) = Epoch(r) + 1
    <3>1. TailCompleted(r) = Epoch(r) + 1
      BY <1>1, <1>8, LayersAssumption DEF Epoch, TailCompleted, Prefixed
    <3> QED
      BY <1>2, <3>1, PhaseEpochs
  <2> QED
    BY <1>2, <1>3, <1>5, <2>1, <2>2 DEF Exchanging, Behind
<1> QED
  BY <1>1, <1>6, <1>7, <1>8, <1>2, NextPhaseEffect, LayersAssumption DEF Exchanging

-----------------------------------------------------------------------------
(* Consequences of the invariant in one state.                             *)

CInv == BarrierInv /\ CreditInv

\* A rank that still has a block to publish has read and released nothing.
LEMMA Unread ==
    ASSUME CInv, NEW a \in Ranks, NEW q \in Ranks, Exchanging(a),
           \/ block[a][q] \in {"idle", "putting"} /\ (stage[a] = "history" => a = Owner(request[a]))
           \/ q # a /\ block[a][q] # "done"
    PROVE  looped[a] = {} /\ \A s \in Segments : seen[a][s] = NotRead
<1>1. ReadAt(a)
  BY DEF CInv, CreditInv, ReadsOK
<1>2. ~Published(a)
  <2>1. CASE q # a
    BY <2>1 DEF Published, Peers
  <2>2. CASE q = a
    BY <2>2 DEF Published, Exchanging
  <2> QED
    BY <2>1, <2>2
<1>3. \A s \in Segments : seen[a][s] = NotRead
  BY <1>1, <1>2 DEF ReadAt, AllReady
<1>4. ~Gathered(a)
  <2>1. 0 \in Segments
    BY LayoutFacts DEF Segments, NumSegments
  <2>2. 0 \in Pieces(a)
    BY <2>1 DEF Pieces
  <2> QED
    BY <1>3, <2>1, <2>2 DEF Gathered
<1> QED
  BY <1>1, <1>3, <1>4 DEF ReadAt

\* A slot is live for a peer that still has notices of this phase to send it.
LEMMA Live ==
    ASSUME CInv, NEW a \in Ranks, NEW q \in Peers(a), Exchanging(a), q \notin looped[a]
    PROVE  /\ ~Silent(q, a)
           /\ ready[q][a] = Announced(a, q) /\ consumed[q][a] = Released(a, q)
           /\ stage[q] \notin {"clear", "arrive", "stopped"}
           /\ request[q] <= request[a]
<1>0. q \in Ranks /\ a \in Peers(q) /\ q # a
  BY DEF Peers
<1>1. RequestsSeparated /\ TypeOK /\ PositionAt(q) /\ PositionAt(a)
  BY <1>0 DEF CInv, BarrierInv, PositionOK
<1>2. RetiredAfter(q, a) /\ CountersAt(q, a)
  BY <1>0 DEF CInv, CreditInv, RetiredAfterAll, CountersOK
<1>3. /\ request[a] \in Nat /\ request[q] \in Nat
      /\ Epoch(a) \in Nat /\ Total(a) \in Nat
  BY <1>0, <1>1, RankTypes
<1>4. stage[a] # "barrier"
  BY DEF Exchanging
<1>5. request[q] <= request[a]
  BY <1>0, <1>1, <1>3, <1>4 DEF RequestsSeparated
<1>6. request[q] < request[a] => stage[q] = "barrier"
  BY <1>0, <1>1, <1>3 DEF RequestsSeparated
<1>7. Released(a, q) # Total(a)
  BY <1>0, <1>3, PhaseEpochs DEF CInv, Released
<1>8. plan[request[a]] # "skip" /\ request[a] < Requests
  BY PhaseEpochs DEF CInv
<1>9. request[q] = request[a] => stage[q] \notin {"clear", "arrive", "stopped", "barrier"}
  BY <1>0, <1>1, <1>2, <1>3, <1>7, <1>8 DEF RetiredAfter, PositionAt
<1>10. ~Silent(q, a)
  BY <1>0, <1>3, <1>5, <1>9 DEF Silent, Cleared
<1> QED
  BY <1>2, <1>3, <1>5, <1>6, <1>9, <1>10 DEF CountersAt

\* An exchanging rank's own slots hold what a peer of the same request sent.
LEMMA OwnSlots ==
    ASSUME CInv, NEW r \in Ranks, NEW p \in Peers(r), Exchanging(r)
    PROVE  /\ ready[r][p] > 0 \/ consumed[r][p] > 0 => request[p] >= request[r]
           /\ request[p] <= request[r]
           /\ request[p] = request[r] =>
                ready[r][p] = Announced(p, r) /\ consumed[r][p] = Released(p, r)
<1>0. p \in Ranks /\ p # r
  BY DEF Peers
<1>1. CountersAt(r, p) /\ RequestsSeparated /\ TypeOK
  BY <1>0 DEF CInv, CreditInv, BarrierInv, CountersOK
<1>2. request[r] \in Nat /\ request[p] \in Nat
  BY <1>0, <1>1, RankTypes
<1>3. stage[r] \notin {"clear", "arrive", "barrier", "stopped"}
  BY DEF Exchanging
<1>4. request[p] <= request[r]
  BY <1>0, <1>1, <1>2, <1>3 DEF RequestsSeparated
<1> QED
  BY <1>1, <1>2, <1>3, <1>4 DEF CountersAt, Silent, Cleared
-----------------------------------------------------------------------------
(* Steps inside a phase.                                                   *)

\* The facts CreditInv states of the ordered pair x, y.
PairInv(x, y) == CountersAt(x, y) /\ NotOvertaken(x, y) /\ RetiredAfter(x, y)

LEMMA CreditParts ==
    /\ CreditInv => /\ \A x \in Ranks : ReadAt(x)
                    /\ \A x, y \in Ranks : BlockAt(x, y)
                    /\ \A x \in Ranks : \A y \in Peers(x) : PairInv(x, y)
    /\ /\ \A x \in Ranks : ReadAt(x)'
       /\ \A x, y \in Ranks : BlockAt(x, y)'
       /\ \A x \in Ranks : \A y \in Peers(x) : PairInv(x, y)'
       => CreditInv'
  BY DEF CreditInv, ReadsOK, BlocksOK, CountersOK, NoneOvertaken, RetiredAfterAll, PairInv, Peers

LEMMA SentKept ==
    ASSUME NEW x \in Ranks, NEW y \in Ranks, Stays(x), Stays(y),
           block'[y][x] = "done" <=> block[y][x] = "done",
           x \in looped'[y] <=> x \in looped[y],
           stage[x] = "clear" => (y \in looped'[x] <=> y \in looped[x])
    PROVE  /\ Announced(y, x)' = Announced(y, x) /\ Released(y, x)' = Released(y, x)
           /\ Silent(x, y)' <=> Silent(x, y)
<1>1. Announced(y, x)' = Announced(y, x)
  BY PlaceKept DEF Announced
<1>2. Released(y, x)' = Released(y, x)
  BY PlaceKept DEF Released
<1>3. Silent(x, y)' <=> Silent(x, y)
  BY DEF Stays, Silent, Cleared
<1> QED
  BY <1>1, <1>2, <1>3

\* A pair none of whose counters or loops changes keeps its facts.
LEMMA PairKept ==
    ASSUME NEW x \in Ranks, NEW y \in Ranks, Stays(x), Stays(y), PairInv(x, y),
           block'[y][x] = "done" <=> block[y][x] = "done",
           x \in looped'[y] <=> x \in looped[y],
           stage[x] = "clear" => (y \in looped'[x] <=> y \in looped[x]),
           ready'[x][y] = ready[x][y], consumed'[x][y] = consumed[x][y]
    PROVE  PairInv(x, y)'
<1>1. CountersAt(x, y)'
  BY SentKept DEF PairInv, CountersAt
<1>2. NotOvertaken(x, y)'
  BY SentKept, PlaceKept DEF PairInv, NotOvertaken, Stays
<1>3. RetiredAfter(x, y)'
  BY SentKept, PlaceKept DEF PairInv, RetiredAfter, Stays
<1> QED
  BY <1>1, <1>2, <1>3 DEF PairInv

\* A rank whose blocks and reads are unchanged keeps its facts while its credits
\* and announcements only grow.
LEMMA RankKept ==
    ASSUME TypeOK, NEW x \in Ranks, Stays(x), block'[x] = block[x], seen'[x] = seen[x],
           Exchanging(x) =>
              /\ looped'[x] = looped[x]
              /\ \A y \in Ranks : /\ ready'[x][y] >= ready[x][y] /\ ready'[x][y] \in Nat
                                 /\ consumed'[x][y] >= consumed[x][y]
                                 /\ consumed'[x][y] \in Nat
    PROVE  /\ ReadAt(x) => ReadAt(x)'
           /\ \A y \in Ranks : BlockAt(x, y) => BlockAt(x, y)'
<1>0. /\ Exchanging(x)' <=> Exchanging(x)
      /\ Epoch(x)' = Epoch(x) /\ Epoch(x) \in Nat
      /\ \A y \in Ranks : ready[x][y] \in Nat /\ consumed[x][y] \in Nat
  BY PlaceKept, RankTypes
<1>1. ASSUME Exchanging(x) PROVE AllReady(x) => AllReady(x)'
  BY <1>0, <1>1 DEF AllReady, Published, Peers, Stays, Owner
<1>2. Gathered(x)' <=> Gathered(x)
  BY DEF Gathered, Pieces, Stays
<1>3. ReadAt(x) => ReadAt(x)'
  BY <1>0, <1>1, <1>2 DEF ReadAt
<1>4. ASSUME NEW y \in Ranks PROVE BlockAt(x, y) => BlockAt(x, y)'
  BY <1>0 DEF BlockAt, Credit, Stays, Owner, Exchanging
<1> QED
  BY <1>3, <1>4

LEMMA StartPutCredits ==
    ASSUME CInv, NEW r \in Ranks, NEW p \in Ranks, StartPut(r, p)
    PROVE  CreditInv'
<1>0. TypeOK /\ Exchanging(r) /\ \A x \in Ranks : Stays(x)
  BY StartPutEffect, StillStays DEF CInv, BarrierInv, StartPut, Exchanging
<1>1. /\ UNCHANGED <<seen, looped, ready, consumed>>
      /\ \A x, y \in Ranks :
            block'[x][y] = IF x = r /\ y = p THEN "putting" ELSE block[x][y]
      /\ \A x \in Ranks : x # r => block'[x] = block[x]
  BY <1>0, StartPutEffect
<1>2. block[r][p] = "idle" /\ (stage[r] = "history" => r = Owner(request[r]))
  BY DEF StartPut
<1>3. ASSUME NEW x \in Ranks, NEW y \in Peers(x) PROVE PairInv(x, y)'
  BY <1>0, <1>1, <1>2, <1>3, CreditParts, PairKept DEF CInv, Peers
<1>4. ASSUME NEW x \in Ranks, x # r
      PROVE  ReadAt(x)' /\ \A y \in Ranks : BlockAt(x, y)'
  BY <1>0, <1>1, <1>4, CreditParts, RankKept, RankTypes DEF CInv
<1>5. ReadAt(r)'
  <2>1. looped[r] = {} /\ \A s \in Segments : seen[r][s] = NotRead
    BY <1>0, <1>2, Unread
  <2> QED
    BY <1>1, <2>1 DEF ReadAt
<1>6. ASSUME NEW y \in Ranks PROVE BlockAt(r, y)'
  <2>1. BlockAt(r, y) /\ (y = p => Credit(r, p))
    BY CreditParts DEF CInv, StartPut
  <2> QED
    BY <1>0, <1>1, <1>2, <2>1, PlaceKept DEF BlockAt, Credit, Stays, Owner, Exchanging
<1> QED
  BY <1>3, <1>4, <1>5, <1>6, CreditParts

\* Announcing to p: FinishPut in a tail phase, HistoryNotify in a history phase.
LEMMA AnnounceCredits ==
    ASSUME CInv, NEW r \in Ranks, NEW p \in Peers(r), Exchanging(r), block[r][p] # "done",
           \A x \in Ranks : Stays(x),
           UNCHANGED <<seen, looped, consumed>>,
           \A x, y \in Ranks : block'[x][y] = IF x = r /\ y = p THEN "done" ELSE block[x][y],
           \A x, y \in Ranks :
               ready'[x][y] = IF x = p /\ y = r THEN ready[x][y] + 1 ELSE ready[x][y]
    PROVE  \A x \in Ranks : \A y \in Peers(x) : PairInv(x, y)'
<1> TAKE x \in Ranks
<1> TAKE y \in Peers(x)
<1>0. TypeOK /\ PairInv(x, y) /\ y \in Ranks /\ p \in Ranks /\ p # r
  BY CreditParts DEF CInv, BarrierInv, Peers
<1>1. CASE ~(x = p /\ y = r)
  BY <1>0, <1>1, PairKept
<1>2. CASE x = p /\ y = r
  <2>1. looped[r] = {}
    BY <1>0, Unread
  <2>2. /\ ~Silent(p, r) /\ ready[p][r] = Announced(r, p) /\ consumed[p][r] = Released(r, p)
        /\ stage[p] # "clear"
    BY <2>1, Live
  <2>3. /\ Released(r, p)' = Released(r, p) /\ Announced(r, p)' = Announced(r, p) + 1
        /\ Silent(p, r)' <=> Silent(p, r)
        /\ Announced(r, p) \in Nat /\ Behind(p) \in Nat
        /\ Behind(p)' = Behind(p) /\ Total(r)' = Total(r)
    <3>1. Announced(r, p)' = Behind(r) + 1 /\ Announced(r, p) = Behind(r)
      BY <1>0, PlaceKept DEF Announced
    <3>2. Released(r, p)' = Released(r, p)
      BY <1>0, PlaceKept DEF Released
    <3>3. Silent(p, r)' <=> Silent(p, r)
      BY <1>0 DEF Silent, Cleared, Stays
    <3> QED
      BY <1>0, <3>1, <3>2, <3>3, PlaceKept, RankTypes
  <2>4. CountersAt(p, r)'
    BY <1>0, <2>2, <2>3 DEF CountersAt
  <2>5. NotOvertaken(p, r)'
    BY <1>0, <1>2, <2>3 DEF PairInv, NotOvertaken, Stays
  <2>6. RetiredAfter(p, r)'
    BY <1>0, <1>2, <2>3 DEF PairInv, RetiredAfter, Stays
  <2> QED
    BY <1>2, <2>4, <2>5, <2>6 DEF PairInv
<1> QED
  BY <1>1, <1>2

LEMMA FinishPutCredits ==
    ASSUME CInv, NEW r \in Ranks, NEW p \in Ranks, FinishPut(r, p)
    PROVE  CreditInv'
<1>0. /\ TypeOK /\ \A x \in Ranks : Stays(x)
      /\ PositionAt(r) /\ BlockAt(r, p)
  BY FinishPutEffect, StillStays, CreditParts DEF CInv, BarrierInv, PositionOK
<1>1. /\ UNCHANGED <<seen, looped, consumed>>
      /\ \A x, y \in Ranks :
            block'[x][y] = IF x = r /\ y = p
                           THEN (IF stage[r] = "tail" THEN "done" ELSE "put")
                           ELSE block[x][y]
      /\ \A x, y \in Ranks :
            ready'[x][y] = IF x = p /\ y = r /\ p # r /\ stage[r] = "tail"
                           THEN ready[x][y] + 1 ELSE ready[x][y]
      /\ \A x \in Ranks : x # r => block'[x] = block[x]
  BY <1>0, FinishPutEffect
<1>2. block[r][p] = "putting"
  BY DEF FinishPut
<1>3. Exchanging(r) /\ (stage[r] = "history" => r = Owner(request[r]))
  BY <1>0, <1>2 DEF PositionAt, AllIdle, BlockAt
<1>4. \A x \in Ranks : \A y \in Peers(x) : PairInv(x, y)'
  <2>1. CASE stage[r] = "tail" /\ p # r
    BY <1>0, <1>1, <1>2, <1>3, <2>1, AnnounceCredits DEF Peers
  <2>2. CASE ~(stage[r] = "tail" /\ p # r)
    <3> TAKE x \in Ranks
    <3> TAKE y \in Peers(x)
    <3>1. PairInv(x, y) /\ y \in Ranks /\ y # x
      BY CreditParts DEF CInv, Peers
    <3>2. block'[y][x] = "done" <=> block[y][x] = "done"
      BY <1>1, <1>2, <2>2, <3>1
    <3> QED
      BY <1>0, <1>1, <2>2, <3>1, <3>2, PairKept
  <2> QED
    BY <2>1, <2>2
<1>5. ASSUME NEW x \in Ranks, x # r
      PROVE  ReadAt(x)' /\ \A y \in Ranks : BlockAt(x, y)'
  <2>1. \A y \in Ranks : /\ ready[x][y] \in Nat /\ consumed[x][y] \in Nat
                         /\ ready'[x][y] >= ready[x][y] /\ ready'[x][y] \in Nat
    BY <1>0, <1>1, RankTypes
  <2> QED
    BY <1>0, <1>1, <1>5, <2>1, CreditParts, RankKept DEF CInv
<1>6. ReadAt(r)'
  <2>1. looped[r] = {} /\ \A s \in Segments : seen[r][s] = NotRead
    BY <1>2, <1>3, Unread
  <2> QED
    BY <1>1, <2>1 DEF ReadAt
<1>7. ASSUME NEW y \in Ranks PROVE BlockAt(r, y)'
  <2>1. BlockAt(r, y)
    BY CreditParts DEF CInv
  <2> QED
    BY <1>0, <1>1, <1>2, <1>3, <2>1, PlaceKept DEF BlockAt, Credit, Stays, Owner, Exchanging
<1> QED
  BY <1>4, <1>5, <1>6, <1>7, CreditParts

LEMMA HistoryNotifyCredits ==
    ASSUME CInv, NEW r \in Ranks, NEW p \in Ranks, HistoryNotify(r, p)
    PROVE  CreditInv'
<1>0. TypeOK /\ \A x \in Ranks : Stays(x)
  BY HistoryNotifyEffect, StillStays DEF CInv, BarrierInv
<1>1. /\ UNCHANGED <<seen, looped, consumed>>
      /\ \A x, y \in Ranks : block'[x][y] = IF x = r /\ y = p THEN "done" ELSE block[x][y]
      /\ \A x, y \in Ranks :
            ready'[x][y] = IF x = p /\ y = r THEN ready[x][y] + 1 ELSE ready[x][y]
      /\ \A x \in Ranks : x # r => block'[x] = block[x]
  BY <1>0, HistoryNotifyEffect
<1>2. block[r][p] # "done" /\ p # r /\ stage[r] = "history"
  BY DEF HistoryNotify
<1>3. Exchanging(r) /\ p \in Peers(r)
  BY <1>2 DEF Exchanging, Peers
<1>4. \A x \in Ranks : \A y \in Peers(x) : PairInv(x, y)'
  BY <1>0, <1>1, <1>2, <1>3, AnnounceCredits
<1>5. ASSUME NEW x \in Ranks, x # r
      PROVE  ReadAt(x)' /\ \A y \in Ranks : BlockAt(x, y)'
  <2>1. \A y \in Ranks : /\ ready[x][y] \in Nat /\ consumed[x][y] \in Nat
                         /\ ready'[x][y] >= ready[x][y] /\ ready'[x][y] \in Nat
    BY <1>0, <1>1, RankTypes
  <2> QED
    BY <1>0, <1>1, <1>5, <2>1, CreditParts, RankKept DEF CInv
<1>6. ReadAt(r)'
  <2>1. looped[r] = {} /\ \A s \in Segments : seen[r][s] = NotRead
    BY <1>2, <1>3, Unread
  <2> QED
    BY <1>1, <2>1 DEF ReadAt
<1>7. ASSUME NEW y \in Ranks PROVE BlockAt(r, y)'
  <2>1. BlockAt(r, y) /\ BlockAt(r, p)
    BY CreditParts DEF CInv
  <2>2. Credit(r, p)
    <3>1. CASE r = Owner(request[r])
      BY <1>3, <2>1, <3>1 DEF HistoryNotify, BlockAt
    <3>2. CASE r # Owner(request[r])
      BY <3>2 DEF HistoryNotify
    <3> QED
      BY <3>1, <3>2
  <2> QED
    BY <1>0, <1>1, <1>2, <2>1, <2>2, PlaceKept DEF BlockAt, Credit, Stays, Owner, Exchanging
<1> QED
  BY <1>4, <1>5, <1>6, <1>7, CreditParts

LEMMA GatherCredits ==
    ASSUME CInv, NEW r \in Ranks, NEW s \in Segments, Gather(r, s)
    PROVE  CreditInv'
<1>0. TypeOK /\ \A x \in Ranks : Stays(x)
  BY GatherEffect, StillStays DEF CInv, BarrierInv
<1>1. /\ UNCHANGED <<block, looped, window, ready, consumed>>
      /\ \A x \in Ranks, y \in Segments :
            seen'[x][y] = IF x = r /\ y = s THEN window[r][SourceLane(r, s)] ELSE seen[x][y]
      /\ \A x \in Ranks : x # r => seen'[x] = seen[x]
  BY <1>0, GatherEffect
<1>2. /\ AllReady(r) /\ Exchanging(r) /\ s \in Pieces(r) /\ seen[r][s] = NotRead
  BY DEF Gather, Exchanging
<1>3. ASSUME NEW x \in Ranks, NEW y \in Peers(x) PROVE PairInv(x, y)'
  BY <1>0, <1>1, <1>3, CreditParts, PairKept DEF CInv, Peers
<1>4. ASSUME NEW x \in Ranks, x # r
      PROVE  ReadAt(x)' /\ \A y \in Ranks : BlockAt(x, y)'
  BY <1>0, <1>1, <1>4, CreditParts, RankKept, RankTypes DEF CInv
<1>5. ReadAt(r)'
  <2>1. AllReady(r)'
    BY <1>0, <1>1, <1>2, PlaceKept DEF AllReady, Published, Stays, Owner
  <2>2. looped[r] = {}
    BY <1>2, CreditParts DEF CInv, ReadAt, Gathered
  <2> QED
    BY <1>1, <2>1, <2>2 DEF ReadAt
<1>6. ASSUME NEW y \in Ranks PROVE BlockAt(r, y)'
  <2>1. BlockAt(r, y)
    BY CreditParts DEF CInv
  <2> QED
    BY <1>0, <1>1, <2>1, PlaceKept DEF BlockAt, Credit, Stays, Owner
<1> QED
  BY <1>3, <1>4, <1>5, <1>6, CreditParts

LEMMA ReleaseCredits ==
    ASSUME CInv, NEW r \in Ranks, NEW p \in Ranks, Release(r, p)
    PROVE  CreditInv'
<1>0. TypeOK /\ \A x \in Ranks : Stays(x)
  BY ReleaseEffect, StillStays DEF CInv, BarrierInv
<1>1. /\ UNCHANGED <<block, seen, window, ready>>
      /\ \A x \in Ranks : looped'[x] = IF x = r THEN looped[x] \cup {p} ELSE looped[x]
      /\ \A x, y \in Ranks :
            consumed'[x][y] = IF x = p /\ y = r THEN consumed[x][y] + 1 ELSE consumed[x][y]
  BY <1>0, ReleaseEffect
<1>2. Exchanging(r) /\ Gathered(r) /\ p \in Peers(r) /\ p \notin looped[r] /\ p # r
  BY DEF Release, Exchanging, Peers
<1>3. ASSUME NEW x \in Ranks, NEW y \in Peers(x) PROVE PairInv(x, y)'
  <2>0. PairInv(x, y) /\ y \in Ranks
    BY <1>3, CreditParts DEF CInv, Peers
  <2>1. CASE ~(x = p /\ y = r)
    <3>1. stage[r] # "clear"
      BY <1>2 DEF Exchanging
    <3> QED
      BY <1>0, <1>1, <2>0, <2>1, <3>1, PairKept
  <2>2. CASE x = p /\ y = r
    <3>1. /\ ~Silent(p, r) /\ ready[p][r] = Announced(r, p) /\ consumed[p][r] = Released(r, p)
          /\ stage[p] \notin {"clear"}
      BY <1>2, Live
    <3>2. /\ Announced(r, p)' = Announced(r, p) /\ Released(r, p)' = Released(r, p) + 1
          /\ Silent(p, r)' <=> Silent(p, r)
          /\ Released(r, p) = Epoch(r) /\ Epoch(r) \in Nat /\ Total(r) \in Nat
          /\ Total(r)' = Total(r) /\ Epoch(r) < Total(r)
      <4>1. Released(r, p)' = Behind(r) + 1 /\ Released(r, p) = Behind(r)
        BY <1>0, <1>1, <1>2, PlaceKept DEF Released
      <4>2. Announced(r, p)' = Announced(r, p)
        BY <1>0, <1>1, PlaceKept DEF Announced
      <4>3. Silent(p, r)' <=> Silent(p, r)
        BY <1>0, <3>1 DEF Silent, Cleared, Stays
      <4> QED
        BY <1>0, <1>2, <4>1, <4>2, <4>3, PlaceKept, RankTypes, PhaseEpochs DEF CInv
    <3>3. CountersAt(p, r)'
      BY <1>0, <1>1, <1>2, <3>1, <3>2 DEF CountersAt
    <3>4. NotOvertaken(p, r)'
      BY <1>0, <2>0, <2>2, <3>2, PlaceKept DEF PairInv, NotOvertaken, Stays
    <3>5. RetiredAfter(p, r)'
      BY <1>0, <1>2, <2>0, <2>2, <3>2 DEF PairInv, RetiredAfter, Stays
    <3> QED
      BY <2>2, <3>3, <3>4, <3>5 DEF PairInv
  <2> QED
    BY <2>1, <2>2
<1>4. ASSUME NEW x \in Ranks, x # r
      PROVE  ReadAt(x)' /\ \A y \in Ranks : BlockAt(x, y)'
  <2>1. \A y \in Ranks : /\ ready[x][y] \in Nat /\ consumed[x][y] \in Nat
                         /\ consumed'[x][y] >= consumed[x][y] /\ consumed'[x][y] \in Nat
                         /\ ready'[x][y] >= ready[x][y] /\ ready'[x][y] \in Nat
    BY <1>0, <1>1, RankTypes
  <2> QED
    BY <1>0, <1>1, <1>4, <2>1, CreditParts, RankKept DEF CInv
<1>5. ReadAt(r)'
  <2>1. AllReady(r) => AllReady(r)'
    BY <1>0, <1>1, PlaceKept DEF AllReady, Published, Stays, Owner
  <2>2. Gathered(r)'
    BY <1>0, <1>1, <1>2 DEF Gathered, Pieces, Stays
  <2> QED
    BY <1>1, <1>2, <2>1, <2>2, CreditParts DEF CInv, ReadAt
<1>6. ASSUME NEW y \in Ranks PROVE BlockAt(r, y)'
  <2>1. BlockAt(r, y) /\ consumed'[r][y] = consumed[r][y]
    BY <1>1, <1>2, CreditParts DEF CInv
  <2> QED
    BY <1>0, <1>1, <2>1, PlaceKept DEF BlockAt, Credit, Stays, Owner
<1> QED
  BY <1>3, <1>4, <1>5, <1>6, CreditParts

LEMMA ClearSlotCredits ==
    ASSUME CInv, NEW r \in Ranks, NEW p \in Ranks, ClearSlot(r, p)
    PROVE  CreditInv'
<1>0. TypeOK /\ (\A x \in Ranks : Stays(x)) /\ RequestsSeparated
  BY ClearSlotEffect, StillStays DEF CInv, BarrierInv
<1>1. /\ UNCHANGED <<block, seen, window>>
      /\ \A x \in Ranks : looped'[x] = IF x = r THEN looped[x] \cup {p} ELSE looped[x]
      /\ \A x, y \in Ranks :
           /\ ready'[x][y] = IF x = r /\ y = p THEN 0 ELSE ready[x][y]
           /\ consumed'[x][y] = IF x = r /\ y = p THEN 0 ELSE consumed[x][y]
  BY <1>0, ClearSlotEffect
<1>2. stage[r] = "clear" /\ p \notin looped[r] /\ ~Exchanging(r)
  BY DEF ClearSlot, Exchanging
<1>3. ASSUME NEW x \in Ranks, NEW y \in Peers(x) PROVE PairInv(x, y)'
  <2>0. PairInv(x, y) /\ y \in Ranks /\ x # y
    BY <1>3, CreditParts DEF CInv, Peers
  <2>1. Released(y, x)' = Released(y, x) /\ Announced(y, x)' = Announced(y, x)
    BY <1>0, <1>1, <1>2, <2>0, PlaceKept DEF Released, Announced
  <2>2. CASE ~(x = r /\ y = p)
    <3>1. stage[x] = "clear" => (y \in looped'[x] <=> y \in looped[x])
      BY <1>1, <2>2
    <3>2. Silent(x, y)' <=> Silent(x, y)
      BY <1>0, <2>0, <3>1 DEF Silent, Cleared, Stays
    <3>3. CountersAt(x, y)'
      BY <1>1, <2>0, <2>1, <2>2, <3>2 DEF PairInv, CountersAt
    <3> QED
      BY <1>0, <2>0, <2>1, <3>3, PlaceKept DEF PairInv, NotOvertaken, RetiredAfter, Stays
  <2>3. CASE x = r /\ y = p
    <3>1. request[p] <= request[r]
      BY <1>0, <1>2, <2>0, <2>3, RankTypes DEF RequestsSeparated
    <3>2. Silent(r, p)'
      <4>1. /\ request'[p] = request[p] /\ request'[r] = request[r] /\ stage'[r] = "clear"
            /\ p \in looped'[r] /\ request[p] \in Nat /\ request[r] \in Nat
        BY <1>0, <1>1, <1>2, RankTypes DEF Stays
      <4> QED
        BY <3>1, <4>1 DEF Silent, Cleared
    <3>3. CountersAt(x, y)'
      BY <1>1, <2>3, <3>2 DEF CountersAt
    <3> QED
      BY <1>0, <2>0, <2>1, <3>3, PlaceKept DEF PairInv, NotOvertaken, RetiredAfter, Stays
  <2> QED
    BY <2>2, <2>3
<1>4. ASSUME NEW x \in Ranks
      PROVE  ReadAt(x)' /\ \A y \in Ranks : BlockAt(x, y)'
  <2>1. Exchanging(x) =>
          /\ looped'[x] = looped[x]
          /\ \A y \in Ranks : ready'[x][y] = ready[x][y] /\ consumed'[x][y] = consumed[x][y]
    BY <1>1, <1>2
  <2>2. \A y \in Ranks : ready[x][y] \in Nat /\ consumed[x][y] \in Nat
    BY <1>0, RankTypes
  <2> QED
    BY <1>0, <1>1, <2>1, <2>2, CreditParts, RankKept DEF CInv
<1> QED
  BY <1>3, <1>4, CreditParts

LEMMA BarrierNotifyCredits ==
    ASSUME CInv, NEW r \in Ranks, NEW p \in Ranks, BarrierNotify(r, p)
    PROVE  CreditInv'
<1>0. TypeOK /\ \A x \in Ranks : Stays(x)
  BY BarrierNotifyEffect, StillStays DEF CInv, BarrierInv
<1>1. /\ UNCHANGED <<block, seen, window, ready, consumed>>
      /\ \A x \in Ranks : looped'[x] = IF x = r THEN looped[x] \cup {p} ELSE looped[x]
  BY <1>0, BarrierNotifyEffect
<1>2. stage[r] = "barrier" /\ ~Exchanging(r)
  BY DEF BarrierNotify, Exchanging
<1>3. ASSUME NEW x \in Ranks, NEW y \in Peers(x) PROVE PairInv(x, y)'
  <2>0. PairInv(x, y) /\ y \in Ranks /\ x # y
    BY <1>3, CreditParts DEF CInv, Peers
  <2>1. Released(y, x)' = Released(y, x) /\ Announced(y, x)' = Announced(y, x)
    BY <1>0, <1>1, <1>2, <2>0, PlaceKept DEF Released, Announced
  <2>2. Silent(x, y)' <=> Silent(x, y)
    BY <1>0, <1>1, <1>2, <2>0 DEF Silent, Cleared, Stays
  <2> QED
    BY <1>0, <1>1, <2>0, <2>1, <2>2, PlaceKept
       DEF PairInv, CountersAt, NotOvertaken, RetiredAfter, Stays
<1>4. ASSUME NEW x \in Ranks
      PROVE  ReadAt(x)' /\ \A y \in Ranks : BlockAt(x, y)'
  <2>1. Exchanging(x) => looped'[x] = looped[x]
    BY <1>1, <1>2
  <2>2. \A y \in Ranks : ready[x][y] \in Nat /\ consumed[x][y] \in Nat
    BY <1>0, RankTypes
  <2> QED
    BY <1>0, <1>1, <2>1, <2>2, CreditParts, RankKept DEF CInv
<1> QED
  BY <1>3, <1>4, CreditParts

-----------------------------------------------------------------------------
(* Steps that move a rank.                                                 *)

\* Facts of a rank other than the one that moves.
LEMMA OthersKept ==
    ASSUME CInv, NEW r \in Ranks, NEW x \in Ranks, x # r, Stays(x),
           block'[x] = block[x], seen'[x] = seen[x], looped'[x] = looped[x],
           UNCHANGED <<ready, consumed>>
    PROVE  ReadAt(x)' /\ \A y \in Ranks : BlockAt(x, y)'
<1>1. TypeOK
  BY DEF CInv, BarrierInv
<1>2. \A y \in Ranks : /\ ready[x][y] \in Nat /\ consumed[x][y] \in Nat
                       /\ consumed'[x][y] >= consumed[x][y] /\ consumed'[x][y] \in Nat
                       /\ ready'[x][y] >= ready[x][y] /\ ready'[x][y] \in Nat
  BY <1>1, RankTypes
<1> QED
  BY <1>1, <1>2, CreditParts, RankKept DEF CInv

\* A rank with idle blocks and nothing read or released satisfies its own part.
LEMMA FreshPhase ==
    ASSUME NEW r \in Ranks, block'[r] = AllIdle, seen'[r] = NothingSeen, looped'[r] = {}
    PROVE  ReadAt(r)' /\ \A y \in Ranks : BlockAt(r, y)'
  BY DEF ReadAt, BlockAt, AllIdle, NothingSeen

\* What a gathered and released phase leaves behind, towards a peer.
LEMMA PhaseDone ==
    ASSUME CInv, NEW r \in Ranks, Exchanging(r), Gathered(r), looped[r] = Peers(r),
           NEW p \in Peers(r)
    PROVE  /\ Announced(r, p) = Epoch(r) + 1 /\ Released(r, p) = Epoch(r) + 1
           /\ request[p] = request[r] /\ Announced(p, r) >= Epoch(r) + 1
<1>0. TypeOK /\ ReadAt(r) /\ p \in Ranks
  BY CreditParts DEF CInv, BarrierInv, Peers
<1>1. \E s \in Segments : seen[r][s] # NotRead
  <2>1. 0 \in Segments
    BY LayoutFacts DEF Segments, NumSegments
  <2>2. 0 \in Pieces(r)
    BY <2>1 DEF Pieces
  <2> QED
    BY <2>1, <2>2 DEF Gathered
<1>2. AllReady(r)
  BY <1>0, <1>1 DEF ReadAt
<1>3. block[r][p] = "done" /\ ready[r][p] >= Epoch(r) + 1
  BY <1>2 DEF AllReady, Published
<1>4. Announced(r, p) = Epoch(r) + 1 /\ Released(r, p) = Epoch(r) + 1
  BY <1>3, PhaseEpochs DEF CInv, Announced, Released
<1>5. request[p] = request[r]
  BY <1>0, <1>3, OwnSlots, RankTypes
<1> QED
  BY <1>0, <1>3, <1>4, <1>5, OwnSlots

LEMMA NextPhaseCredits ==
    ASSUME CInv, NEW r \in Ranks, NextPhase(r)
    PROVE  CreditInv'
<1>0. TypeOK /\ BarrierInv
  BY DEF CInv, BarrierInv
<1>1. /\ UNCHANGED <<plan, request, window, ready, consumed>>
      /\ \A x \in Ranks : x # r => /\ Stays(x) /\ block'[x] = block[x]
                                   /\ seen'[x] = seen[x] /\ looped'[x] = looped[x]
      /\ block'[r] = AllIdle /\ seen'[r] = NothingSeen /\ looped'[r] = {}
  BY <1>0, NextPhaseEffect, NextPhaseEpoch
<1>2. /\ Exchanging(r) /\ Gathered(r) /\ looped[r] = Peers(r)
      /\ Behind(r) = Epoch(r) /\ Behind(r)' = Epoch(r) + 1
      /\ Total(r)' = Total(r) /\ stage'[r] \in {"history", "tail", "retire"}
      /\ Epoch(r) \in Nat
  BY <1>0, NextPhaseEpoch, PhaseEpochs, RankTypes DEF NextPhase
<1>3. \A x \in Ranks : /\ Announced(r, x)' = Epoch(r) + 1 /\ Released(r, x)' = Epoch(r) + 1
                       /\ ~Cleared(r, x)' /\ ~Cleared(r, x)
  BY <1>1, <1>2 DEF Announced, Released, Cleared, AllIdle, Exchanging
<1>4. ASSUME NEW x \in Ranks, NEW y \in Peers(x) PROVE PairInv(x, y)'
  <2>0. PairInv(x, y) /\ y \in Ranks /\ x # y
    BY <1>4, CreditParts DEF CInv, Peers
  <2>1. CASE x # r /\ y # r
    BY <1>1, <2>0, <2>1, PairKept
  <2>2. CASE y = r
    <3>1. /\ Announced(r, x) = Epoch(r) + 1 /\ Released(r, x) = Epoch(r) + 1
      BY <1>2, <2>0, <2>2, PhaseDone DEF Peers
    <3>2. Stays(x)
      BY <1>1, <2>0, <2>2
    <3>3. Silent(x, r)' <=> Silent(x, r)
      BY <1>1, <2>0, <2>2, <3>2 DEF Silent, Cleared, Stays
    <3>4. CountersAt(x, y)'
      BY <1>1, <1>3, <2>0, <2>2, <3>1, <3>3 DEF PairInv, CountersAt
    <3>5. NotOvertaken(x, y)'
      BY <1>1, <1>3, <2>0, <2>2, <3>1, <3>2, PlaceKept DEF PairInv, NotOvertaken
    <3>6. RetiredAfter(x, y)'
      BY <1>1, <1>2, <1>3, <2>0, <2>2, <3>1, <3>2 DEF PairInv, RetiredAfter, Stays
    <3> QED
      BY <3>4, <3>5, <3>6 DEF PairInv
  <2>3. CASE x = r
    <3>1. request[y] = request[r] /\ Announced(y, r) >= Epoch(r) + 1
      BY <1>2, <2>3, <1>4, PhaseDone
    <3>2. Stays(y) /\ block'[y] = block[y] /\ looped'[y] = looped[y]
      BY <1>1, <2>0, <2>3
    <3>3. Announced(y, r)' = Announced(y, r) /\ Released(y, r)' = Released(y, r)
      BY <2>0, <3>2, PlaceKept DEF Announced, Released
    <3>4. ~Silent(r, y)' /\ ~Silent(r, y)
      BY <1>0, <1>1, <1>3, <2>0, <3>1, RankTypes DEF Silent
    <3>5. CountersAt(r, y)'
      BY <1>1, <2>0, <2>3, <3>3, <3>4 DEF PairInv, CountersAt
    <3>6. NotOvertaken(r, y)'
      BY <1>0, <1>1, <1>2, <2>0, <3>1, <3>3, RankTypes DEF NotOvertaken
    <3>7. RetiredAfter(r, y)'
      BY <1>2 DEF RetiredAfter
    <3> QED
      BY <2>3, <3>5, <3>6, <3>7 DEF PairInv
  <2> QED
    BY <2>1, <2>2, <2>3
<1>5. \A x \in Ranks : ReadAt(x)' /\ \A y \in Ranks : BlockAt(x, y)'
  BY <1>1, OthersKept, FreshPhase
<1> QED
  BY <1>4, <1>5, CreditParts

\* The wait of Retire has seen every peer's last release of this request.
LEMMA RetireWaits ==
    ASSUME CInv, NEW r \in Ranks, Retire(r), NEW p \in Peers(r)
    PROVE  /\ request[p] >= request[r]
           /\ request[p] = request[r] => Released(p, r) = Total(p)
<1>0. TypeOK /\ BarrierInv /\ PositionAt(r) /\ PairInv(r, p) /\ p \in Ranks /\ p # r
  BY CreditParts DEF CInv, BarrierInv, PositionOK, Peers
<1>1. stage[r] = "retire" /\ consumed[r][p] >= TailCompleted(r)
  BY DEF Retire
<1>2. /\ request[r] \in Nat /\ request[p] \in Nat /\ TailCompleted(r) \in Nat
      /\ TailCompleted(r) >= 2 /\ consumed[r][p] \in Nat
      /\ Released(p, r) \in Nat /\ Total(p) \in Nat
  BY <1>0, RankTypes
<1>3. ~Silent(r, p)
  BY <1>0, <1>1, <1>2 DEF PairInv, CountersAt
<1>4. request[p] >= request[r] /\ ~Cleared(r, p)
  BY <1>1, <1>2, <1>3 DEF Silent, Cleared
<1>5. ASSUME request[p] = request[r] PROVE Released(p, r) = Total(p)
  <2>1. consumed[r][p] = Released(p, r)
    BY <1>0, <1>3 DEF PairInv, CountersAt
  <2>2. Total(p) = TailCompleted(r)
    BY <1>0, <1>1, <1>5 DEF Total, TailCompleted, Prefixed, PositionAt
  <2>3. Released(p, r) <= Total(p)
    <3>1. CASE Exchanging(p)
      BY <1>0, <1>2, <3>1, PhaseEpochs, RankTypes DEF Released
    <3>2. CASE ~Exchanging(p)
      BY <1>2, <3>2 DEF Released, Behind
    <3> QED
      BY <3>1, <3>2
  <2> QED
    BY <1>1, <1>2, <2>1, <2>2, <2>3
<1> QED
  BY <1>4, <1>5

LEMMA RetireCredits ==
    ASSUME CInv, NEW r \in Ranks, Retire(r)
    PROVE  CreditInv'
<1>0. TypeOK /\ BarrierInv /\ PositionAt(r)
  BY DEF CInv, BarrierInv, PositionOK
<1>1. /\ UNCHANGED <<plan, request, layer, block, seen, looped, window, ready, consumed>>
      /\ \A x \in Ranks : stage'[x] = IF x = r THEN "clear" ELSE stage[x]
  BY <1>0, RetireEffect
<1>2. stage[r] = "retire" /\ looped[r] = {} /\ ~Exchanging(r) /\ ~Exchanging(r)'
  BY <1>0, <1>1 DEF Retire, PositionAt, Exchanging
<1>3. \A x \in Ranks : x # r => Stays(x)
  BY <1>1 DEF Stays
<1>4. Behind(r)' = Behind(r) /\ Total(r)' = Total(r)
  BY <1>1, <1>2 DEF Behind, Total, TailCompleted, Prefixed
<1>5. \A x \in Ranks : Announced(r, x)' = Announced(r, x) /\ Released(r, x)' = Released(r, x)
  BY <1>2, <1>4 DEF Announced, Released
<1>6. ASSUME NEW x \in Ranks, NEW y \in Peers(x) PROVE PairInv(x, y)'
  <2>0. PairInv(x, y) /\ y \in Ranks /\ x # y
    BY <1>6, CreditParts DEF CInv, Peers
  <2>1. /\ Announced(y, x)' = Announced(y, x) /\ Released(y, x)' = Released(y, x)
        /\ Behind(x)' = Behind(x) /\ Total(y)' = Total(y)
    <3>1. ASSUME NEW z \in Ranks, z # r
          PROVE  /\ Announced(z, x)' = Announced(z, x) /\ Released(z, x)' = Released(z, x)
                 /\ Behind(z)' = Behind(z) /\ Total(z)' = Total(z)
      BY <1>1, <1>3, <3>1, PlaceKept DEF Announced, Released
    <3> QED
      BY <1>4, <1>5, <2>0, <3>1
  <2>2. Silent(x, y)' <=> Silent(x, y)
    <3>1. Cleared(x, y)' <=> Cleared(x, y)
      BY <1>1, <1>2 DEF Cleared
    <3> QED
      BY <1>1, <3>1 DEF Silent
  <2>3. CountersAt(x, y)' /\ NotOvertaken(x, y)'
    BY <1>1, <2>0, <2>1, <2>2 DEF PairInv, CountersAt, NotOvertaken
  <2>4. RetiredAfter(x, y)'
    <3>1. CASE x = r
      BY <1>1, <2>1, <3>1, <1>6, RetireWaits DEF RetiredAfter
    <3>2. CASE x # r
      BY <1>1, <2>0, <2>1, <3>2 DEF PairInv, RetiredAfter
    <3> QED
      BY <3>1, <3>2
  <2> QED
    BY <2>3, <2>4 DEF PairInv
<1>7. ASSUME NEW x \in Ranks PROVE ReadAt(x)' /\ \A y \in Ranks : BlockAt(x, y)'
  <2>1. CASE x = r
    BY <1>1, <1>2, <2>1 DEF ReadAt, BlockAt
  <2>2. CASE x # r
    BY <1>1, <1>3, <2>2, OthersKept
  <2> QED
    BY <2>1, <2>2
<1> QED
  BY <1>6, <1>7, CreditParts

LEMMA ArriveCredits ==
    ASSUME CInv, NEW r \in Ranks, Arrive(r)
    PROVE  CreditInv'
<1>0. TypeOK /\ BarrierInv /\ PositionAt(r)
  BY DEF CInv, BarrierInv, PositionOK
<1>1. /\ UNCHANGED <<plan, request, layer, block, seen, window, ready, consumed>>
      /\ \A x \in Ranks : /\ stage'[x] = IF x = r THEN "barrier" ELSE stage[x]
                          /\ looped'[x] = IF x = r THEN {} ELSE looped[x]
  BY <1>0, ArriveEffect
<1>2. /\ \/ stage[r] = "arrive" /\ plan[request[r]] = "skip"
         \/ stage[r] = "clear" /\ looped[r] = Ranks
      /\ ~Exchanging(r) /\ ~Exchanging(r)' /\ stage'[r] = "barrier"
  BY <1>0, <1>1 DEF Arrive, PositionAt, Exchanging
<1>3. \A x \in Ranks : x # r => Stays(x)
  BY <1>1 DEF Stays
<1>4. Behind(r)' = Behind(r) /\ Total(r)' = Total(r)
  BY <1>1, <1>2 DEF Behind, Total, TailCompleted, Prefixed
<1>5. \A x \in Ranks : Announced(r, x)' = Announced(r, x) /\ Released(r, x)' = Released(r, x)
  BY <1>2, <1>4 DEF Announced, Released
<1>6. ASSUME NEW x \in Ranks, NEW y \in Peers(x) PROVE PairInv(x, y)'
  <2>0. PairInv(x, y) /\ y \in Ranks /\ x # y
    BY <1>6, CreditParts DEF CInv, Peers
  <2>1. /\ Announced(y, x)' = Announced(y, x) /\ Released(y, x)' = Released(y, x)
        /\ Behind(x)' = Behind(x) /\ Total(y)' = Total(y)
    <3>1. ASSUME NEW z \in Ranks, z # r
          PROVE  /\ Announced(z, x)' = Announced(z, x) /\ Released(z, x)' = Released(z, x)
                 /\ Behind(z)' = Behind(z) /\ Total(z)' = Total(z)
      BY <1>1, <1>3, <3>1, PlaceKept DEF Announced, Released
    <3> QED
      BY <1>4, <1>5, <2>0, <3>1
  <2>2. Silent(x, y)' <=> Silent(x, y)
    <3>1. Cleared(x, y)' <=> Cleared(x, y)
      BY <1>1, <1>2, <2>0 DEF Cleared
    <3> QED
      BY <1>1, <3>1 DEF Silent
  <2>3. CountersAt(x, y)' /\ NotOvertaken(x, y)'
    BY <1>1, <2>0, <2>1, <2>2 DEF PairInv, CountersAt, NotOvertaken
  <2>4. RetiredAfter(x, y)'
    BY <1>1, <1>2, <2>0, <2>1 DEF PairInv, RetiredAfter
  <2> QED
    BY <2>3, <2>4 DEF PairInv
<1>7. ASSUME NEW x \in Ranks PROVE ReadAt(x)' /\ \A y \in Ranks : BlockAt(x, y)'
  <2>1. CASE x = r
    BY <1>1, <1>2, <2>1 DEF ReadAt, BlockAt
  <2>2. CASE x # r
    BY <1>1, <1>3, <2>2, OthersKept
  <2> QED
    BY <2>1, <2>2
<1> QED
  BY <1>6, <1>7, CreditParts

\* Where the peers of a rank that leaves the barrier are, and where it goes.
LEMMA PassFacts ==
    ASSUME CInv, NEW r \in Ranks, BarrierPass(r)
    PROVE  /\ \A x \in Ranks : x # r =>
                \/ request[x] = request[r] /\ stage[x] = "barrier"
                \/ request[x] = request[r] + 1
           /\ stage[r] = "barrier" /\ looped[r] = Peers(r)
           /\ request'[r] = request[r] + 1 /\ request'[r] \in 0 .. Requests
           /\ Behind(r)' = 0
           /\ block'[r] = AllIdle /\ seen'[r] = NothingSeen /\ looped'[r] = {}
           /\ stage'[r] \in {"history", "tail", "arrive", "stopped"}
           /\ stage'[r] = "arrive" => plan[request'[r]] = "skip"
           /\ stage'[r] = "stopped" => request'[r] = Requests
<1>0. TypeOK /\ PositionAt(r) /\ RequestsSeparated /\ ArrivalsOK
  BY DEF CInv, BarrierInv, PositionOK
<1>1. /\ stage[r] = "barrier" /\ looped[r] = Peers(r)
      /\ \A x \in Ranks : x # r => arrivals[r][x] >= arrivals[r][r]
  BY DEF BarrierPass, AllArrived, Peers
<1>2. \A x \in Ranks : request[x] \in 0 .. Requests /\ request[x] \in Nat
  BY <1>0, RankTypes
<1>3. \A x \in Ranks : x # r =>
           \/ request[x] = request[r] /\ stage[x] = "barrier"
           \/ request[x] = request[r] + 1
  BY <1>0, <1>1, <1>2 DEF ArrivalsOK, ArrivalsAt, RequestsSeparated
<1>4. /\ request'[r] = request[r] + 1 /\ layer'[r] = 0 /\ plan' = plan
      /\ stage'[r] = StartStage(request[r] + 1) /\ looped'[r] = {}
      /\ block'[r] = block[r] /\ seen'[r] = seen[r]
  BY <1>0, BarrierPassEffect
<1>5. request'[r] \in 0 .. Requests
  BY <1>0, <1>1, <1>2, <1>4, RequestsAssumption DEF PositionAt
<1>6. block'[r] = AllIdle /\ seen'[r] = NothingSeen
  BY <1>0, <1>1, <1>4 DEF PositionAt, Exchanging
<1>7. stage'[r] \in {"history", "tail", "arrive", "stopped"}
  BY <1>0, <1>4, <1>5, StartFacts DEF TypeOK
<1>8. /\ stage'[r] = "arrive" => plan[request'[r]] = "skip"
      /\ stage'[r] = "stopped" => request'[r] = Requests
  BY <1>4, <1>5 DEF StartStage, FirstStage
<1>9. Behind(r)' = 0
  <2>1. Exchanging(r)' => Epoch(r)' = 0
    BY <1>4, <1>5 DEF Exchanging, Epoch, Prefixed, StartStage, FirstStage
  <2> QED
    BY <1>7, <2>1 DEF Behind
<1> QED
  BY <1>1, <1>3, <1>4, <1>5, <1>6, <1>7, <1>8, <1>9

LEMMA BarrierPassCredits ==
    ASSUME CInv, NEW r \in Ranks, BarrierPass(r)
    PROVE  CreditInv'
<1>0. TypeOK /\ BarrierInv
  BY DEF CInv, BarrierInv
<1>1. /\ UNCHANGED <<plan, block, seen, window, ready, consumed>>
      /\ \A x \in Ranks :
            x # r => Stays(x) /\ looped'[x] = looped[x]
  BY <1>0, BarrierPassEffect DEF Stays
<1>2. /\ stage[r] = "barrier" /\ looped[r] = Peers(r) /\ ~Exchanging(r)
      /\ request'[r] = request[r] + 1 /\ request[r] \in Nat
      /\ Behind(r)' = 0 /\ block'[r] = AllIdle /\ seen'[r] = NothingSeen /\ looped'[r] = {}
      /\ stage'[r] \in {"history", "tail", "arrive", "stopped"}
  BY <1>0, PassFacts, RankTypes DEF Exchanging
<1>3. \A x \in Ranks : Announced(r, x)' = 0 /\ Released(r, x)' = 0
  BY <1>2 DEF Announced, Released, AllIdle
<1>4. ASSUME NEW x \in Ranks, x # r
      PROVE  /\ \/ request[x] = request[r] /\ stage[x] = "barrier"
                \/ request[x] = request[r] + 1
             /\ request'[x] = request[x] /\ stage'[x] = stage[x] /\ request[x] \in Nat
             /\ Behind(x)' = Behind(x) /\ Behind(x) \in Nat /\ Total(x)' = Total(x)
             /\ \A y \in Ranks : /\ Announced(x, y)' = Announced(x, y)
                                 /\ Released(x, y)' = Released(x, y)
                                 /\ Cleared(x, y)' <=> Cleared(x, y)
  <2>1. Stays(x) /\ block'[x] = block[x] /\ looped'[x] = looped[x]
    BY <1>1, <1>4
  <2>2. /\ Behind(x)' = Behind(x) /\ Total(x)' = Total(x) /\ (Exchanging(x)' <=> Exchanging(x))
    BY <2>1, PlaceKept
  <2>3. ASSUME NEW y \in Ranks
        PROVE  /\ Announced(x, y)' = Announced(x, y) /\ Released(x, y)' = Released(x, y)
               /\ Cleared(x, y)' <=> Cleared(x, y)
    BY <2>1, <2>2 DEF Announced, Released, Cleared, Stays
  <2> QED
    BY <1>0, <1>4, <2>1, <2>2, <2>3, PassFacts, RankTypes DEF Stays
<1>5. ASSUME NEW x \in Ranks, NEW y \in Peers(x) PROVE PairInv(x, y)'
  <2>0. PairInv(x, y) /\ y \in Ranks /\ x # y
    BY <1>5, CreditParts DEF CInv, Peers
  <2>1. CASE x # r /\ y # r
    BY <1>1, <2>0, <2>1, PairKept
  <2>2. CASE y = r
    <3>1. x # r
      BY <2>0, <2>2
    <3>2. Silent(x, r)
      BY <1>2, <1>4, <3>1 DEF Silent, Cleared
    <3>3. CountersAt(x, r)'
      BY <1>1, <1>3, <2>0, <2>2, <3>2 DEF PairInv, CountersAt
    <3>4. NotOvertaken(x, r)'
      BY <1>2, <1>3, <1>4, <2>0, <2>2, <3>1 DEF PairInv, NotOvertaken
    <3>5. RetiredAfter(x, r)'
      BY <1>1, <1>2, <1>4, <2>0, <2>2, <3>1 DEF PairInv, RetiredAfter
    <3> QED
      BY <2>2, <3>3, <3>4, <3>5 DEF PairInv
  <2>3. CASE x = r
    <3>1. y # r
      BY <2>0, <2>3
    <3>2. CountersAt(r, y)'
      <4>1. CASE request[y] = request[r]
        <5>1. Silent(r, y)
          BY <1>2, <4>1 DEF Silent, Cleared
        <5>2. Silent(r, y)'
          BY <1>2, <1>4, <3>1, <2>0, <4>1 DEF Silent
        <5> QED
          BY <1>1, <2>0, <2>3, <5>1, <5>2 DEF PairInv, CountersAt
      <4>2. CASE request[y] = request[r] + 1
        <5>1. ~Silent(r, y)
          BY <1>2, <4>2 DEF Silent
        <5>2. ready[r][y] = Announced(y, r) /\ consumed[r][y] = Released(y, r)
          BY <2>0, <2>3, <5>1 DEF PairInv, CountersAt
        <5>3. ASSUME Silent(r, y)' PROVE Announced(y, r) = 0 /\ Released(y, r) = 0
          <6>1. stage'[r] \in {"arrive", "stopped"}
            BY <1>2, <1>4, <2>0, <3>1, <4>2, <5>3 DEF Silent, Cleared
          <6>2. plan[request[y]] = "skip" \/ request[y] = Requests
            BY <1>2, <4>2, <6>1, PassFacts
          <6>3. ~Exchanging(y)
            BY <1>0, <2>0, <6>2, PhaseEpochs, RequestsAssumption, RankTypes
          <6>4. Total(y) = 0
            BY <6>2 DEF Total
          <6> QED
            BY <6>3, <6>4 DEF Announced, Released, Behind
        <5> QED
          BY <1>1, <1>4, <2>0, <3>1, <5>2, <5>3 DEF CountersAt
      <4> QED
        BY <1>4, <2>0, <3>1, <4>1, <4>2
    <3>3. NotOvertaken(r, y)'
      <4>1. Announced(y, r) \in Nat
        BY <1>0, <2>0, RankTypes
      <4> QED
        BY <1>2, <1>4, <2>0, <3>1, <4>1 DEF NotOvertaken
    <3>4. RetiredAfter(r, y)'
      BY <1>2 DEF RetiredAfter
    <3> QED
      BY <2>3, <3>2, <3>3, <3>4 DEF PairInv
  <2> QED
    BY <2>1, <2>2, <2>3
<1>6. \A x \in Ranks : ReadAt(x)' /\ \A y \in Ranks : BlockAt(x, y)'
  BY <1>1, <1>2, OthersKept, FreshPhase
<1> QED
  BY <1>5, <1>6, CreditParts

LEMMA InitCredits == Init => CreditInv
<1> SUFFICES ASSUME Init PROVE CreditInv
  OBVIOUS
<1>0. TypeOK /\ BarrierInv
  BY InitBarrierInv DEF BarrierInv
<1>1. \A x \in Ranks : /\ stage[x] = StartStage(0) /\ request[x] = 0 /\ layer[x] = 0
                       /\ block[x] = AllIdle /\ seen[x] = NothingSeen /\ looped[x] = {}
                       /\ \A y \in Ranks : ready[x][y] = 0 /\ consumed[x][y] = 0
  BY DEF Init, AllIdle, NothingSeen
<1>2. StartStage(0) \in {"history", "tail", "arrive", "stopped"}
  BY <1>0, StartFacts, RequestsAssumption DEF TypeOK
<1>3. \A x \in Ranks : Exchanging(x) => Epoch(x) = 0
  BY <1>1 DEF Epoch, Prefixed, StartStage, FirstStage, Exchanging
<1>4. \A x, y \in Ranks : Behind(x) = 0 /\ Announced(x, y) = 0 /\ Released(x, y) = 0
  BY <1>1, <1>2, <1>3 DEF Behind, Announced, Released, AllIdle
<1>5. \A x, y \in Ranks : CountersAt(x, y) /\ NotOvertaken(x, y) /\ RetiredAfter(x, y)
  BY <1>1, <1>2, <1>4 DEF CountersAt, NotOvertaken, RetiredAfter
<1>6. \A x, y \in Ranks : BlockAt(x, y) /\ ReadAt(x)
  BY <1>1 DEF BlockAt, ReadAt, AllIdle, NothingSeen
<1> QED
  BY <1>5, <1>6 DEF CreditInv, CountersOK, BlocksOK, ReadsOK, NoneOvertaken, RetiredAfterAll, Peers

LEMMA CreditStep == CInv /\ [Next]_vars => CInv'
<1> SUFFICES ASSUME CInv, [Next]_vars PROVE CInv'
  OBVIOUS
<1>0. BarrierInv'
  BY BarrierStep DEF CInv
<1>1. CASE UNCHANGED vars
  <2>1. /\ Still /\ UNCHANGED <<block, seen, looped, ready, consumed>>
    BY <1>1 DEF vars, Still
  <2>2. TypeOK /\ \A x \in Ranks : Stays(x)
    BY <2>1, StillStays DEF CInv, BarrierInv
  <2>3. \A x \in Ranks : \A y \in Peers(x) : PairInv(x, y)'
    BY <2>1, <2>2, CreditParts, PairKept DEF CInv, Peers
  <2>4. \A x \in Ranks : ReadAt(x)' /\ \A y \in Ranks : BlockAt(x, y)'
    BY <2>1, <2>2, CreditParts, RankKept, RankTypes DEF CInv
  <2> QED
    BY <1>0, <2>3, <2>4, CreditParts DEF CInv
<1>2. ASSUME NEW r \in Ranks, RankStep(r) PROVE CreditInv'
  <2>1. CASE NextPhase(r) \/ Retire(r) \/ Arrive(r) \/ BarrierPass(r)
    BY <2>1, NextPhaseCredits, RetireCredits, ArriveCredits, BarrierPassCredits
  <2>2. ASSUME NEW p \in Ranks, StartPut(r, p) \/ FinishPut(r, p) \/ HistoryNotify(r, p)
        PROVE  CreditInv'
    BY <2>2, StartPutCredits, FinishPutCredits, HistoryNotifyCredits
  <2>3. ASSUME NEW p \in Ranks, Release(r, p) \/ ClearSlot(r, p) \/ BarrierNotify(r, p)
        PROVE  CreditInv'
    BY <2>3, ReleaseCredits, ClearSlotCredits, BarrierNotifyCredits
  <2>4. ASSUME NEW s \in Segments, Gather(r, s) PROVE CreditInv'
    BY <2>4, GatherCredits
  <2> QED
    BY <1>2, <2>1, <2>2, <2>3, <2>4 DEF RankStep
<1> QED
  BY <1>0, <1>1, <1>2 DEF Next, Stopped, CInv

LEMMA CreditInvariant == Spec => []CInv
<1>1. Init => CInv
  BY InitBarrierInv, InitCredits DEF CInv
<1> QED
  BY <1>1, CreditStep, PTL DEF Spec

-----------------------------------------------------------------------------
\* No rank of a request runs more than one exchange phase ahead of another:
\* the credit waits of _prefill_cp_hidden_tail_exchange_wave and
\* _cp_swa_history_exchange make one window per peer enough.
THEOREM WavesStayClose == Spec => []OneWaveApart
<1>1. ASSUME CInv, NEW r \in Ranks, request[r] < Requests PROVE Progress(r) = Behind(r)
  <2>1. PositionAt(r) /\ stage[r] \in Stages /\ request[r] \in Nat
    BY <1>1, RankTypes DEF CInv, BarrierInv, PositionOK
  <2> QED
    BY <1>1, <2>1, RequestsAssumption DEF PositionAt, Progress, Behind, Total, Exchanging, Stages
<1>2. ASSUME CInv PROVE OneWaveApart
  <2> SUFFICES ASSUME NEW r \in Ranks, NEW p \in Ranks,
                      request[r] = request[p], request[r] < Requests
               PROVE  Progress(r) <= Progress(p) + 1
    BY DEF OneWaveApart
  <2>1. /\ Progress(r) = Behind(r) /\ Progress(p) = Behind(p)
        /\ Behind(r) \in Nat /\ Behind(p) \in Nat
    BY <1>1, <1>2, RankTypes DEF CInv, BarrierInv
  <2>2. CASE r = p
    BY <2>1, <2>2
  <2>3. CASE r # p
    <3>1. Announced(p, r) >= Behind(r)
      BY <1>2, <2>3, CreditParts DEF CInv, PairInv, NotOvertaken, Peers
    <3>2. Announced(p, r) \in {Behind(p), Behind(p) + 1}
      BY DEF Announced
    <3> QED
      BY <2>1, <3>1, <3>2
  <2> QED
    BY <2>2, <2>3
<1> QED
  BY <1>2, CreditInvariant, PTL

\* A peer of a rank that clears has nothing left to write to it.
LEMMA NothingLeft ==
    ASSUME CInv, NEW r \in Ranks, stage[r] = "clear", NEW a \in Peers(r), Exchanging(a)
    PROVE  r \in looped[a]
<1>0. a \in Ranks /\ r \in Peers(a)
  BY DEF Peers
<1> QED
  BY <1>0, Live

\* Zeroing the banks (_clear_prefill_cp_exchange_signals) races no peer's notify:
\* while a rank clears, its slots change only to zero.
THEOREM RetirementUndisturbed == Spec => RetireUndisturbed
<1>1. ASSUME CInv, [Next]_vars, NEW r \in Ranks, stage[r] = "clear", NEW p \in Ranks
      PROVE  ready'[r][p] \in {0, ready[r][p]} /\ consumed'[r][p] \in {0, consumed[r][p]}
  <2>0. TypeOK /\ BarrierInv /\ ~Exchanging(r)
    BY <1>1 DEF CInv, BarrierInv, Exchanging
  <2>1. CASE UNCHANGED vars
    BY <2>1 DEF vars
  <2>2. ASSUME NEW a \in Ranks, NextPhase(a) \/ Retire(a) \/ Arrive(a) \/ BarrierPass(a)
        PROVE  UNCHANGED <<ready, consumed>>
    BY <2>2 DEF NextPhase, Retire, Arrive, BarrierPass
  <2>3. ASSUME NEW a \in Ranks, NEW q \in Ranks, FinishPut(a, q)
        PROVE  ready'[r][p] = ready[r][p] /\ consumed'[r][p] = consumed[r][p]
    <3>1. CASE q = r /\ q # a /\ stage[a] = "tail"
      <4>1. looped[a] = {}
        BY <1>1, <2>3, <3>1, Unread DEF FinishPut, Exchanging
      <4> QED
        BY <1>1, <3>1, <4>1, NothingLeft DEF Exchanging, Peers
    <3>2. CASE ~(q = r /\ q # a /\ stage[a] = "tail")
      BY <2>0, <2>3, <3>2, FinishPutEffect
    <3> QED
      BY <3>1, <3>2
  <2>4. ASSUME NEW a \in Ranks, NEW q \in Ranks, HistoryNotify(a, q)
        PROVE  ready'[r][p] = ready[r][p] /\ consumed'[r][p] = consumed[r][p]
    <3>1. CASE q = r
      <4>1. looped[a] = {} /\ a \in Peers(r) /\ Exchanging(a)
        BY <1>1, <2>4, <3>1, Unread DEF HistoryNotify, Exchanging, Peers
      <4> QED
        BY <1>1, <4>1, NothingLeft
    <3>2. CASE q # r
      BY <2>0, <2>4, <3>2, HistoryNotifyEffect
    <3> QED
      BY <3>1, <3>2
  <2>5. ASSUME NEW a \in Ranks, NEW q \in Ranks, Release(a, q)
        PROVE  ready'[r][p] = ready[r][p] /\ consumed'[r][p] = consumed[r][p]
    <3>1. CASE q = r
      <4>1. r \notin looped[a] /\ a \in Peers(r) /\ Exchanging(a)
        BY <2>5, <3>1 DEF Release, Exchanging, Peers
      <4> QED
        BY <1>1, <4>1, NothingLeft
    <3>2. CASE q # r
      BY <2>0, <2>5, <3>2, ReleaseEffect
    <3> QED
      BY <3>1, <3>2
  <2>6. ASSUME NEW a \in Ranks, NEW q \in Ranks, ClearSlot(a, q)
        PROVE  ready'[r][p] \in {0, ready[r][p]} /\ consumed'[r][p] \in {0, consumed[r][p]}
    BY <2>0, <2>6, ClearSlotEffect
  <2>7. ASSUME NEW a \in Ranks, NEW q \in Ranks, StartPut(a, q) \/ BarrierNotify(a, q)
        PROVE  UNCHANGED <<ready, consumed>>
    BY <2>7 DEF StartPut, BarrierNotify
  <2>8. ASSUME NEW a \in Ranks, NEW s \in Segments, Gather(a, s)
        PROVE  UNCHANGED <<ready, consumed>>
    BY <2>8 DEF Gather
  <2>9. ASSUME NEW a \in Ranks, RankStep(a)
        PROVE  ready'[r][p] \in {0, ready[r][p]} /\ consumed'[r][p] \in {0, consumed[r][p]}
    BY <2>2, <2>3, <2>4, <2>5, <2>6, <2>7, <2>8, <2>9 DEF RankStep
  <2> QED
    BY <1>1, <2>1, <2>9 DEF Next, Stopped
<1>2. CInv /\ [Next]_vars =>
        [\A r \in Ranks : stage[r] = "clear" =>
           \A p \in Ranks : /\ ready'[r][p] \in {0, ready[r][p]}
                            /\ consumed'[r][p] \in {0, consumed[r][p]}]_vars
  BY <1>1
<1> QED
  BY <1>2, CreditInvariant, PTL DEF Spec, RetireUndisturbed

-----------------------------------------------------------------------------
\* The lanes of a window, and what a rank gathers out of them.
WInv == CInv /\ WindowInv /\ GatherExact

\* A put that has not been announced goes to the very request and epoch its
\* receiver wants next: neither too early nor too late.
LEMMA PutAim ==
    ASSUME CInv, NEW a \in Ranks, NEW r \in Peers(a), Exchanging(a), Credit(a, r),
           block[a][r] # "done", Wants(r)
    PROVE  request[a] = WantedRequest(r) /\ Epoch(a) = WantedEpoch(r)
<1>0. /\ r \in Ranks /\ a # r /\ a \in Peers(r) /\ r \in Peers(a)
      /\ TypeOK /\ BarrierInv /\ RequestsSeparated
  BY DEF Peers, CInv, BarrierInv
<1>1. looped[a] = {}
  BY <1>0, Unread
<1>2. /\ ready[r][a] = Announced(a, r) /\ request[r] <= request[a]
      /\ consumed[a][r] >= Epoch(a)
  BY <1>0, <1>1, Live DEF Credit
<1>3. /\ request[a] \in Nat /\ request[r] \in Nat /\ Epoch(a) \in Nat /\ Epoch(r) \in Nat
      /\ Behind(r) \in Nat /\ consumed[a][r] \in Nat
  BY <1>0, RankTypes
<1>4. Announced(a, r) = Epoch(a)
  BY <1>0, PhaseEpochs DEF Announced
<1>5. PairInv(a, r) /\ PairInv(r, a) /\ ReadAt(r)
  BY <1>0, CreditParts DEF CInv
<1>6. CASE Exchanging(r)
  <2>1. request[r] = request[a]
    BY <1>0, <1>2, <1>3, <1>6 DEF RequestsSeparated, Exchanging
  <2>2. consumed[a][r] = Released(r, a) /\ Epoch(a) <= Released(r, a)
    BY <1>0, <1>2, <2>1, OwnSlots
  <2>3. Epoch(a) >= Epoch(r) /\ Behind(r) = Epoch(r)
    BY <1>0, <1>4, <1>5, <1>6, <2>1, PhaseEpochs DEF PairInv, NotOvertaken
  <2>4. CASE looped[r] = {}
    <3>1. Released(r, a) = Epoch(r)
      BY <2>3, <2>4 DEF Released
    <3> QED
      BY <1>3, <1>6, <2>1, <2>2, <2>3, <2>4, <3>1 DEF WantedRequest, WantedEpoch
  <2>5. CASE looped[r] # {}
    <3>1. \E s \in Segments : seen[r][s] # NotRead
      <4>1. Gathered(r)
        BY <1>5, <1>6, <2>5 DEF ReadAt
      <4>2. 0 \in Segments
        BY LayoutFacts DEF Segments, NumSegments
      <4>3. 0 \in Pieces(r)
        BY <4>2 DEF Pieces
      <4> QED
        BY <4>1, <4>2, <4>3 DEF Gathered
    <3>2. ready[r][a] >= Epoch(r) + 1
      BY <1>0, <1>5, <1>6, <3>1 DEF ReadAt, AllReady
    <3>3. Released(r, a) <= Epoch(r) + 1
      BY <1>3, <2>3 DEF Released
    <3> QED
      BY <1>2, <1>3, <1>4, <1>6, <2>1, <2>2, <2>5, <3>2, <3>3 DEF WantedRequest, WantedEpoch
  <2> QED
    BY <2>4, <2>5
<1>7. CASE ~Exchanging(r)
  <2>1. stage[r] = "barrier"
    BY <1>7 DEF Wants
  <2>2. request[r] # request[a]
    <3>1. request[r] = request[a] => Silent(r, a)
      BY <2>1 DEF Silent, Cleared
    <3> QED
      BY <1>0, <1>1, <3>1, Live
  <2>3. request[a] = request[r] + 1
    BY <1>0, <1>2, <1>3, <2>2 DEF RequestsSeparated
  <2>4. consumed[a][r] = 0
    <3>1. Silent(a, r)
      BY <1>3, <2>3 DEF Silent
    <3> QED
      BY <1>5, <3>1 DEF PairInv, CountersAt
  <2> QED
    BY <1>2, <1>3, <1>7, <2>3, <2>4 DEF WantedRequest, WantedEpoch
<1> QED
  BY <1>6, <1>7

\* A peer is never two announcements ahead of what a rank that has released
\* nothing wants.
LEMMA NotAhead ==
    ASSUME CInv, NEW a \in Ranks, NEW p \in Peers(a), Exchanging(a), looped[a] = {},
           request[p] = request[a]
    PROVE  /\ Announced(p, a) <= Epoch(a) + 1
           /\ Exchanging(p) /\ block[p][a] # "idle" => Epoch(p) <= Epoch(a)
<1>0. p \in Ranks /\ a \in Peers(p) /\ TypeOK /\ BarrierInv /\ p # a
  BY DEF Peers, CInv, BarrierInv
<1>1. /\ consumed[p][a] = Released(a, p) /\ Released(a, p) = Epoch(a)
      /\ Behind(a) = Epoch(a)
  BY <1>0, Live, PhaseEpochs DEF Released
<1>2. BlockAt(p, a) /\ PairInv(p, a)
  BY <1>0, CreditParts DEF CInv
<1>3. Exchanging(p) /\ block[p][a] # "idle" => Epoch(p) <= Epoch(a)
  BY <1>0, <1>1, <1>2 DEF BlockAt, Credit
<1>4. Behind(p) <= Epoch(a) + 1
  BY <1>0, <1>1, <1>2, RankTypes DEF PairInv, NotOvertaken, Announced
<1>5. /\ Behind(p) \in Nat /\ Epoch(a) \in Nat /\ Epoch(p) \in Nat
      /\ Exchanging(p) => Behind(p) = Epoch(p)
  BY <1>0, RankTypes, PhaseEpochs
<1> QED
  BY <1>3, <1>4, <1>5 DEF Announced

-----------------------------------------------------------------------------
(* Windows under the steps that write no lane.                             *)

LEMMA WantsKept ==
    ASSUME NEW x \in Ranks, Stays(x),
           Exchanging(x) => (looped'[x] = {} <=> looped[x] = {})
    PROVE  /\ Wants(x)' <=> Wants(x)
           /\ WantedRequest(x)' = WantedRequest(x) /\ WantedEpoch(x)' = WantedEpoch(x)
  BY PlaceKept DEF Wants, WantedRequest, WantedEpoch, Stays

LEMMA PeerLanesKept ==
    ASSUME NEW x \in Ranks, NEW y \in Peers(x), PeerLanes(x, y), Stays(x), Stays(y),
           Exchanging(x) => (looped'[x] = {} <=> looped[x] = {}),
           block'[y][x] = block[y][x],
           \A l \in Lanes : window'[x][l] = window[x][l]
    PROVE  PeerLanes(x, y)'
<1>0. /\ y \in Ranks /\ 0 \in Lanes
      /\ \A part \in LocalParts : Lane(y, part) \in Lanes
  BY LayoutFacts DEF Peers, Lanes, NumSegments
<1>1. /\ Wants(x)' <=> Wants(x)
      /\ WantedRequest(x)' = WantedRequest(x) /\ WantedEpoch(x)' = WantedEpoch(x)
  BY WantsKept
<1>2. /\ request'[y] = request[y] /\ Announced(y, x)' = Announced(y, x)
      /\ Exchanging(y)' <=> Exchanging(y) /\ Epoch(y)' = Epoch(y)
  BY <1>0, PlaceKept DEF Announced, Stays
<1>3. \A q, e : HistoryEpoch(q, e)' <=> HistoryEpoch(q, e)
  BY DEF HistoryEpoch, Stays
<1> QED
  BY <1>0, <1>1, <1>2, <1>3, PlaceKept DEF PeerLanes, Owner, Row

LEMMA OwnLanesKept ==
    ASSUME NEW x \in Ranks, OwnLanes(x), Stays(x),
           Exchanging(x) => (looped'[x] = {} => looped[x] = {}),
           block'[x][x] = block[x][x],
           \A l \in Lanes : window'[x][l] = window[x][l]
    PROVE  OwnLanes(x)'
<1>0. /\ 0 \in Lanes
      /\ \A part \in LocalParts : Lane(x, part) \in Lanes
  BY LayoutFacts DEF Lanes, NumSegments
<1> QED
  BY <1>0, PlaceKept DEF OwnLanes, Stays, Exchanging, Row

LEMMA GatherKept ==
    ASSUME NEW x \in Ranks, Stays(x), seen'[x] = seen[x]
    PROVE  /\ Exchanging(x)' <=> Exchanging(x)
           /\ Pieces(x)' = Pieces(x) /\ seen'[x] = seen[x]
           /\ \A s : Expected(x, s)' = Expected(x, s)
  BY PlaceKept DEF Stays, Pieces, Expected

-----------------------------------------------------------------------------
(* Puts.                                                                   *)

\* A put into r's window disturbs no lane that r, or another peer of r, has
\* already filled for what r wants next.
LEMMA PutSafe ==
    ASSUME WInv, NEW a \in Ranks, NEW r \in Ranks, Exchanging(a), Credit(a, r),
           block[a][r] \in {"idle", "putting"}, stage[a] = "history" => a = Owner(request[a]),
           \A x \in Ranks : Stays(x), UNCHANGED looped,
           \A x, y \in Ranks : ~(x = a /\ y = r) => block'[x][y] = block[x][y],
           \A x \in Ranks, l \in Lanes :
               ~(x = r /\ l \in PutLanes(a)) => window'[x][l] = window[x][l]
    PROVE  /\ \A x \in Ranks : \A y \in Peers(x) : ~(x = r /\ y = a) => PeerLanes(x, y)'
           /\ \A x \in Ranks : ~(x = r /\ r = a) => OwnLanes(x)'
<1>0. /\ TypeOK /\ BarrierInv /\ CInv
      /\ \A x \in Ranks : OwnLanes(x)
      /\ \A x \in Ranks : \A y \in Peers(x) : PeerLanes(x, y)
  BY DEF WInv, CInv, BarrierInv, WindowInv
<1>1. /\ looped[a] = {} /\ request[a] < Requests
      /\ stage[a] = "history" <=> HistoryEpoch(request[a], Epoch(a))
      /\ stage[a] \in {"history", "tail"}
  BY <1>0, Unread, PhaseEpochs DEF Exchanging
<1>2. 0 \in Lanes /\ \A y \in Ranks, part \in LocalParts : Lane(y, part) \in Lanes
  BY LayoutFacts DEF Lanes, NumSegments
<1>3. ASSUME stage[a] = "tail", NEW y \in Ranks, y # a, NEW part \in LocalParts
      PROVE  Lane(y, part) \notin PutLanes(a)
  BY <1>3, LanesDisjoint DEF PutLanes, LocalParts
<1>4. Wants(r) => request[a] = WantedRequest(r) /\ Epoch(a) = WantedEpoch(r)
  <2>1. CASE r = a
    BY <1>1, <2>1 DEF WantedRequest, WantedEpoch
  <2>2. CASE r # a
    BY <1>0, <2>2, PutAim DEF Peers
  <2> QED
    BY <2>1, <2>2
<1>5. ASSUME NEW x \in Ranks, NEW y \in Peers(x), ~(x = r /\ y = a) PROVE PeerLanes(x, y)'
  <2>0. PeerLanes(x, y) /\ y \in Ranks /\ x # y /\ Stays(x) /\ Stays(y)
    BY <1>0, <1>5 DEF Peers
  <2>1. CASE x # r
    BY <1>5, <2>0, <2>1, PeerLanesKept
  <2>2. CASE x = r
    <3>0. y # a
      BY <1>5, <2>2
    <3>1. /\ Wants(x)' <=> Wants(x)
          /\ WantedRequest(x)' = WantedRequest(x) /\ WantedEpoch(x)' = WantedEpoch(x)
      BY <2>0, WantsKept
    <3>2. /\ request'[y] = request[y] /\ Announced(y, x)' = Announced(y, x)
          /\ Exchanging(y)' <=> Exchanging(y) /\ Epoch(y)' = Epoch(y)
          /\ block'[y][x] = block[y][x]
      BY <2>0, <3>0, PlaceKept DEF Announced, Stays
    <3>3. \A q, e : HistoryEpoch(q, e)' <=> HistoryEpoch(q, e)
      BY <2>0 DEF HistoryEpoch, Stays
    <3>4. CASE ~(Wants(r) /\ request[y] = WantedRequest(r))
      BY <2>2, <3>1, <3>2, <3>4 DEF PeerLanes
    <3>5. CASE Wants(r) /\ request[y] = WantedRequest(r)
      <4>1. request[y] = request[a] /\ Epoch(a) = WantedEpoch(r)
        BY <1>4, <3>5
      <4>2. CASE stage[a] = "tail"
        <5>1. ~HistoryEpoch(request[y], WantedEpoch(x))
          BY <1>1, <2>2, <4>1, <4>2
        <5>2. \A part \in LocalParts :
                window'[x][Lane(y, part)] = window[x][Lane(y, part)]
          BY <1>2, <1>3, <2>0, <3>0, <4>2
        <5> QED
          BY <2>0, <3>1, <3>2, <3>3, <5>1, <5>2 DEF PeerLanes, Row
      <4>3. CASE stage[a] = "history"
        <5>1. HistoryEpoch(request[y], WantedEpoch(x)) /\ y # Owner(request[y])
          BY <1>1, <2>2, <3>0, <4>1, <4>3
        <5> QED
          BY <3>1, <3>2, <3>3, <5>1 DEF PeerLanes, Owner
      <4> QED
        BY <1>1, <4>2, <4>3
    <3> QED
      BY <3>4, <3>5
  <2> QED
    BY <2>1, <2>2
<1>6. ASSUME NEW x \in Ranks, ~(x = r /\ r = a) PROVE OwnLanes(x)'
  <2>0. OwnLanes(x) /\ Stays(x)
    BY <1>0
  <2>1. CASE x # r
    BY <1>6, <2>0, <2>1, OwnLanesKept
  <2>2. CASE x = r
    <3>0. r # a /\ block'[x][x] = block[x][x]
      BY <1>6, <2>2
    <3>1. CASE ~(stage[r] \in {"tail", "history"} /\ looped[r] = {})
      BY <2>0, <2>2, <3>1 DEF OwnLanes, Stays
    <3>2. CASE stage[r] \in {"tail", "history"} /\ looped[r] = {}
      <4>0. Wants(r) /\ WantedRequest(r) = request[r] /\ WantedEpoch(r) = Epoch(r)
            /\ Exchanging(r)
        BY <3>2 DEF Wants, Exchanging, WantedRequest, WantedEpoch
      <4>1. request[a] = request[r] /\ Epoch(a) = Epoch(r)
        BY <1>4, <4>0
      <4>2. stage[r] = stage[a]
        BY <1>0, <1>1, <3>2, <4>0, <4>1, PhaseEpochs
      <4>3. CASE stage[a] = "tail"
        <5>1. \A part \in LocalParts :
                window'[x][Lane(x, part)] = window[x][Lane(x, part)]
          BY <1>2, <1>3, <2>2, <3>0, <4>3
        <5> QED
          BY <2>0, <2>2, <3>0, <4>2, <4>3, <5>1, PlaceKept DEF OwnLanes, Stays, Row
      <4>4. CASE stage[a] = "history"
        <5>1. block[r][r] # "put"
          <6>1. BlockAt(r, r)
            BY <1>0, CreditParts DEF CInv
          <6> QED
            BY <3>0, <4>1, <4>2, <4>4, <6>1 DEF BlockAt
        <5> QED
          BY <2>0, <2>2, <3>0, <4>2, <4>4, <5>1 DEF OwnLanes, Stays
      <4> QED
        BY <1>1, <4>3, <4>4
    <3> QED
      BY <3>1, <3>2
  <2> QED
    BY <2>1, <2>2
<1> QED
  BY <1>5, <1>6

\* What WInv' is made of.
LEMMA WindowParts ==
    /\ WInv => /\ CInv /\ BarrierInv /\ TypeOK /\ GatherExact
               /\ \A x \in Ranks : OwnLanes(x)
               /\ \A x \in Ranks : \A y \in Peers(x) : PeerLanes(x, y)
    /\ /\ \A x \in Ranks : OwnLanes(x)'
       /\ \A x \in Ranks : \A y \in Peers(x) : PeerLanes(x, y)'
       => WindowInv'
  BY DEF WInv, CInv, BarrierInv, WindowInv

\* GatherExact survives every step that reads nothing and moves no reader.
LEMMA GatherExactKept ==
    ASSUME WInv, \A x \in Ranks : Stays(x) /\ seen'[x] = seen[x]
    PROVE  GatherExact'
  BY WindowParts, GatherKept DEF GatherExact

LEMMA StartPutWindow ==
    ASSUME WInv, NEW a \in Ranks, NEW r \in Ranks, StartPut(a, r)
    PROVE  WindowInv' /\ GatherExact'
<1>0. /\ CInv /\ BarrierInv /\ TypeOK
      /\ \A x \in Ranks : Stays(x)
  BY WindowParts, StartPutEffect, StillStays
<1>1. /\ UNCHANGED <<seen, looped>>
      /\ \A x, y \in Ranks :
            block'[x][y] = IF x = a /\ y = r THEN "putting" ELSE block[x][y]
      /\ \A x \in Ranks, l \in Lanes :
            window'[x][l] = IF x = r /\ l \in PutLanes(a) THEN Torn ELSE window[x][l]
  BY <1>0, StartPutEffect
<1>2. /\ block[a][r] = "idle" /\ Exchanging(a) /\ Credit(a, r)
      /\ stage[a] = "history" => a = Owner(request[a])
  BY DEF StartPut, Exchanging
<1>3. /\ \A x \in Ranks : \A y \in Peers(x) : ~(x = r /\ y = a) => PeerLanes(x, y)'
      /\ \A x \in Ranks : ~(x = r /\ r = a) => OwnLanes(x)'
  BY <1>0, <1>1, <1>2, PutSafe
<1>4. ASSUME r # a PROVE PeerLanes(r, a)'
  <2>1. Wants(r) => request[a] = WantedRequest(r) /\ Epoch(a) = WantedEpoch(r)
    BY <1>0, <1>2, <1>4, PutAim DEF Peers
  <2>2. /\ Wants(r)' <=> Wants(r)
        /\ WantedEpoch(r)' = WantedEpoch(r)
    BY <1>0, <1>1, WantsKept
  <2>3. Announced(a, r)' = Epoch(a) /\ block'[a][r] = "putting" /\ Epoch(a) \in Nat
    BY <1>0, <1>1, <1>2, PlaceKept, PhaseEpochs, RankTypes DEF Announced
  <2> QED
    BY <2>1, <2>2, <2>3 DEF PeerLanes
<1>5. ASSUME r = a PROVE OwnLanes(a)'
  BY <1>1, <1>5 DEF OwnLanes
<1> QED
  BY <1>0, <1>1, <1>3, <1>4, <1>5, WindowParts, GatherExactKept DEF Peers

LEMMA FinishPutWindow ==
    ASSUME WInv, NEW a \in Ranks, NEW r \in Ranks, FinishPut(a, r)
    PROVE  WindowInv' /\ GatherExact'
<1>0. /\ CInv /\ BarrierInv /\ TypeOK
      /\ \A x \in Ranks : Stays(x)
      /\ PositionAt(a) /\ BlockAt(a, r)
  BY WindowParts, FinishPutEffect, StillStays, CreditParts DEF CInv, BarrierInv, PositionOK
<1>1. /\ UNCHANGED <<seen, looped>>
      /\ \A x, y \in Ranks :
            block'[x][y] = IF x = a /\ y = r
                           THEN (IF stage[a] = "tail" THEN "done" ELSE "put")
                           ELSE block[x][y]
      /\ \A x \in Ranks, l \in Lanes :
            window'[x][l] = IF x = r /\ l \in PutLanes(a) THEN Payload(a, l) ELSE window[x][l]
  BY <1>0, FinishPutEffect
<1>2. block[a][r] = "putting"
  BY DEF FinishPut
<1>3. /\ Exchanging(a) /\ Credit(a, r)
      /\ stage[a] = "history" => a = Owner(request[a])
  BY <1>0, <1>2 DEF PositionAt, AllIdle, BlockAt
<1>4. /\ \A x \in Ranks : \A y \in Peers(x) : ~(x = r /\ y = a) => PeerLanes(x, y)'
      /\ \A x \in Ranks : ~(x = r /\ r = a) => OwnLanes(x)'
  BY <1>0, <1>1, <1>2, <1>3, PutSafe
<1>5. /\ stage[a] \in {"history", "tail"}
      /\ stage[a] = "history" <=> HistoryEpoch(request[a], Epoch(a))
      /\ request'[a] = request[a] /\ Epoch(a)' = Epoch(a) /\ stage'[a] = stage[a]
  BY <1>0, <1>3, PhaseEpochs, PlaceKept DEF Exchanging, Stays
<1>6. /\ stage[a] = "tail" =>
           \A part \in LocalParts :
              window'[r][Lane(a, part)] = Row(request[a], Epoch(a), LocalSegment(a, part))
      /\ stage[a] = "history" => window'[r][0] = Row(request[a], Epoch(a), HistorySeg)
  <2>1. ASSUME stage[a] = "tail", NEW part \in LocalParts
        PROVE  window'[r][Lane(a, part)] = Row(request[a], Epoch(a), LocalSegment(a, part))
    <3>1. Lane(a, part) \in Lanes /\ Lane(a, part) \in PutLanes(a)
      BY <2>1, LayoutFacts DEF PutLanes, LocalParts
    <3>2. Lane(a, part) - 2 * a = part
      BY CPSizeAssumption DEF Lane, LocalParts, Ranks
    <3> QED
      BY <1>1, <2>1, <3>1, <3>2 DEF Payload, Row
  <2>2. ASSUME stage[a] = "history"
        PROVE  window'[r][0] = Row(request[a], Epoch(a), HistorySeg)
    <3>1. 0 \in Lanes /\ 0 \in PutLanes(a)
      BY <2>2, LayoutFacts DEF Lanes, NumSegments, PutLanes
    <3> QED
      BY <1>1, <2>2, <3>1 DEF Payload, Row
  <2> QED
    BY <2>1, <2>2
<1>7. ASSUME r # a PROVE PeerLanes(r, a)'
  <2>1. Wants(r) => request[a] = WantedRequest(r) /\ Epoch(a) = WantedEpoch(r)
    BY <1>0, <1>2, <1>3, <1>7, PutAim DEF Peers
  <2>2. /\ Wants(r)' <=> Wants(r)
        /\ WantedEpoch(r)' = WantedEpoch(r)
    BY <1>0, <1>1, WantsKept
  <2>3. \A q, e : HistoryEpoch(q, e)' <=> HistoryEpoch(q, e)
    BY <1>0 DEF HistoryEpoch, Stays
  <2>4. CASE stage[a] = "tail"
    BY <1>5, <1>6, <2>1, <2>2, <2>3, <2>4 DEF PeerLanes, Row
  <2>5. CASE stage[a] = "history"
    BY <1>5, <1>6, <2>1, <2>2, <2>3, <2>5 DEF PeerLanes, Row
  <2> QED
    BY <1>5, <2>4, <2>5
<1>8. ASSUME r = a PROVE OwnLanes(a)'
  BY <1>5, <1>6, <1>8 DEF OwnLanes, Row
<1> QED
  BY <1>0, <1>1, <1>4, <1>7, <1>8, WindowParts, GatherExactKept DEF Peers

LEMMA HistoryNotifyWindow ==
    ASSUME WInv, NEW a \in Ranks, NEW r \in Ranks, HistoryNotify(a, r)
    PROVE  WindowInv' /\ GatherExact'
<1>0. /\ CInv /\ BarrierInv /\ TypeOK
      /\ \A x \in Ranks : Stays(x)
      /\ BlockAt(a, r)
  BY WindowParts, HistoryNotifyEffect, StillStays, CreditParts DEF CInv
<1>1. /\ UNCHANGED <<seen, looped, window>>
      /\ \A x, y \in Ranks : block'[x][y] = IF x = a /\ y = r THEN "done" ELSE block[x][y]
  BY <1>0, HistoryNotifyEffect
<1>2. /\ stage[a] = "history" /\ Exchanging(a) /\ r # a /\ block[a][r] # "done"
      /\ a = Owner(request[a]) => block[a][r] = "put"
  BY DEF HistoryNotify, Exchanging
<1>3. Credit(a, r)
  <2>1. CASE a = Owner(request[a])
    BY <1>0, <1>2, <2>1 DEF BlockAt
  <2>2. CASE a # Owner(request[a])
    BY <2>2 DEF HistoryNotify
  <2> QED
    BY <2>1, <2>2
<1>4. ASSUME NEW x \in Ranks, NEW y \in Peers(x), ~(x = r /\ y = a) PROVE PeerLanes(x, y)'
  BY <1>0, <1>1, <1>4, WindowParts, PeerLanesKept DEF Peers
<1>5. PeerLanes(r, a)'
  <2>1. Wants(r) => request[a] = WantedRequest(r) /\ Epoch(a) = WantedEpoch(r)
    BY <1>0, <1>2, <1>3, PutAim DEF Peers
  <2>2. /\ Wants(r)' <=> Wants(r)
        /\ WantedRequest(r)' = WantedRequest(r) /\ WantedEpoch(r)' = WantedEpoch(r)
    BY <1>0, <1>1, WantsKept
  <2>3. \A q, e : HistoryEpoch(q, e)' <=> HistoryEpoch(q, e)
    BY <1>0 DEF HistoryEpoch, Stays
  <2>4. HistoryEpoch(request[a], Epoch(a)) /\ request'[a] = request[a]
    BY <1>0, <1>2, PhaseEpochs DEF Stays
  <2>5. PeerLanes(r, a)
    BY <1>2, WindowParts DEF Peers
  <2>6. CASE ~Wants(r)
    BY <2>2, <2>6 DEF PeerLanes
  <2>7. CASE Wants(r) /\ a = Owner(request[a])
    BY <1>1, <1>2, <2>1, <2>2, <2>3, <2>4, <2>5, <2>7 DEF PeerLanes, Row
  <2>8. CASE Wants(r) /\ a # Owner(request[a])
    BY <1>1, <1>2, <2>1, <2>2, <2>3, <2>4, <2>5, <2>8 DEF PeerLanes, Row, Owner
  <2> QED
    BY <2>6, <2>7, <2>8
<1>6. ASSUME NEW x \in Ranks PROVE OwnLanes(x)'
  BY <1>0, <1>1, <1>2, <1>6, WindowParts, OwnLanesKept
<1> QED
  BY <1>0, <1>1, <1>4, <1>5, <1>6, WindowParts, GatherExactKept

-----------------------------------------------------------------------------
(* Reads and releases.                                                     *)

\* When every peer has announced, the lane a piece is read from holds exactly
\* the row expected of it.
LEMMA GatherReadsExpected ==
    ASSUME WInv, NEW r \in Ranks, NEW s \in Segments, Gather(r, s)
    PROVE  window[r][SourceLane(r, s)] = Expected(r, s)
<1>0. CInv /\ BarrierInv /\ TypeOK /\ OwnLanes(r)
  BY WindowParts
<1>1. /\ Exchanging(r) /\ AllReady(r) /\ s \in Pieces(r) /\ seen[r][s] = NotRead
      /\ stage[r] \in {"history", "tail"}
  BY DEF Gather, Exchanging
<1>2. looped[r] = {}
  <2>1. ~Gathered(r)
    BY <1>1 DEF Gathered
  <2> QED
    BY <1>0, <1>1, <2>1, CreditParts DEF CInv, ReadAt
<1>3. /\ Wants(r) /\ WantedRequest(r) = request[r] /\ WantedEpoch(r) = Epoch(r)
      /\ request[r] < Requests
      /\ stage[r] = "history" <=> HistoryEpoch(request[r], Epoch(r))
  BY <1>0, <1>1, <1>2, PhaseEpochs DEF Wants, WantedRequest, WantedEpoch
<1>4. ASSUME NEW p \in Peers(r)
      PROVE  request[p] = request[r] /\ Announced(p, r) > Epoch(r) /\ PeerLanes(r, p)
  <2>1. ready[r][p] >= Epoch(r) + 1 /\ p \in Ranks
    BY <1>1, <1>4 DEF AllReady, Peers
  <2>2. /\ ready[r][p] \in Nat /\ Epoch(r) \in Nat
        /\ request[p] \in Nat /\ request[r] \in Nat /\ Announced(p, r) \in Nat
    BY <1>0, <2>1, RankTypes
  <2>3. request[p] = request[r]
    BY <1>0, <1>1, <2>1, <2>2, OwnSlots
  <2>4. ready[r][p] = Announced(p, r)
    BY <1>0, <1>1, <2>3, OwnSlots
  <2> QED
    BY <2>1, <2>2, <2>3, <2>4, WindowParts
<1>5. CASE stage[r] = "tail"
  <2> DEFINE o == OwnerRank(s)
             part == OwnerPart(s)
  <2>1. /\ o \in Ranks /\ part \in LocalParts
        /\ SourceLane(r, s) = Lane(o, part) /\ LocalSegment(o, part) = s
    BY <1>5, LayoutFacts DEF SourceLane
  <2>2. CASE o = r
    <3>1. block[r][r] = "done"
      BY <1>1, <1>5 DEF AllReady, Published
    <3> QED
      BY <1>0, <1>2, <1>5, <2>1, <2>2, <3>1 DEF OwnLanes, Expected, Row
  <2>3. CASE o # r
    <3>1. /\ o \in Peers(r)
          /\ request[o] = request[r] /\ Announced(o, r) > Epoch(r) /\ PeerLanes(r, o)
      BY <1>4, <2>1, <2>3 DEF Peers
    <3>2. window[r][Lane(o, part)] = Row(request[r], Epoch(r), LocalSegment(o, part))
      BY <1>3, <1>5, <2>1, <3>1 DEF PeerLanes
    <3> QED
      BY <1>5, <2>1, <3>2 DEF Expected, Row
  <2> QED
    BY <2>2, <2>3
<1>6. CASE stage[r] = "history"
  <2>1. SourceLane(r, s) = 0
    BY <1>6 DEF SourceLane
  <2>2. CASE r = Owner(request[r])
    <3>1. block[r][r] = "put"
      BY <1>1, <1>6, <2>2 DEF AllReady, Published
    <3> QED
      BY <1>0, <1>2, <1>6, <2>1, <3>1 DEF OwnLanes, Expected, Row
  <2>3. CASE r # Owner(request[r])
    <3> DEFINE o == Owner(request[r])
    <3>1. o \in Peers(r)
      <4>1. o \in Ranks
        BY <1>0, RankTypes, CPSizeAssumption DEF Owner, Ranks
      <4> QED
        BY <2>3, <4>1 DEF Peers
    <3>2. request[o] = request[r] /\ Announced(o, r) > Epoch(r) /\ PeerLanes(r, o)
      BY <1>4, <3>1
    <3>3. window[r][0] = Row(request[r], Epoch(r), HistorySeg)
      BY <1>3, <1>6, <3>2 DEF PeerLanes
    <3> QED
      BY <1>6, <2>1, <3>3 DEF Expected, Row
  <2> QED
    BY <2>2, <2>3
<1> QED
  BY <1>1, <1>5, <1>6

LEMMA GatherWindow ==
    ASSUME WInv, NEW a \in Ranks, NEW s \in Segments, Gather(a, s)
    PROVE  WindowInv' /\ GatherExact'
<1>0. /\ CInv /\ BarrierInv /\ TypeOK
      /\ \A x \in Ranks : Stays(x)
  BY WindowParts, GatherEffect, StillStays
<1>1. /\ UNCHANGED <<block, looped, window>>
      /\ \A x \in Ranks, y \in Segments :
            seen'[x][y] = IF x = a /\ y = s THEN window[a][SourceLane(a, s)] ELSE seen[x][y]
      /\ \A x \in Ranks : x # a => seen'[x] = seen[x]
  BY <1>0, GatherEffect
<1>2. \A x \in Ranks : OwnLanes(x)'
  BY <1>0, <1>1, WindowParts, OwnLanesKept
<1>3. \A x \in Ranks : \A y \in Peers(x) : PeerLanes(x, y)'
  BY <1>0, <1>1, WindowParts, PeerLanesKept DEF Peers
<1>4. ASSUME NEW x \in Ranks, Exchanging(x)', NEW y \in Pieces(x)', seen'[x][y] # NotRead
      PROVE  seen'[x][y] = Expected(x, y)'
  <2>1. /\ Exchanging(x) /\ y \in Pieces(x) /\ y \in Segments
        /\ Expected(x, y)' = Expected(x, y)
    <3>1. Exchanging(x) /\ Pieces(x)' = Pieces(x) /\ Expected(x, y)' = Expected(x, y)
      BY <1>0, <1>4, PlaceKept DEF Pieces, Expected, Stays
    <3>2. 0 \in Segments
      BY LayoutFacts DEF Segments, NumSegments
    <3> QED
      BY <1>4, <3>1, <3>2 DEF Pieces
  <2>2. CASE x = a /\ y = s
    BY <1>1, <2>1, <2>2, GatherReadsExpected
  <2>3. CASE ~(x = a /\ y = s)
    BY <1>1, <1>4, <2>1, <2>3, WindowParts DEF GatherExact
  <2> QED
    BY <2>2, <2>3
<1> QED
  BY <1>2, <1>3, <1>4, WindowParts DEF GatherExact

LEMMA ReleaseWindow ==
    ASSUME WInv, NEW a \in Ranks, NEW r \in Ranks, Release(a, r)
    PROVE  WindowInv' /\ GatherExact'
<1>0. /\ CInv /\ BarrierInv /\ TypeOK
      /\ \A x \in Ranks : Stays(x)
  BY WindowParts, ReleaseEffect, StillStays
<1>1. /\ UNCHANGED <<block, seen, window>>
      /\ \A x \in Ranks : looped'[x] = IF x = a THEN looped[x] \cup {r} ELSE looped[x]
      /\ Exchanging(a)
  BY <1>0, ReleaseEffect DEF Release, Exchanging
<1>2. ASSUME NEW x \in Ranks PROVE OwnLanes(x)'
  <2>1. looped'[x] = {} => looped[x] = {}
    BY <1>1
  <2> QED
    BY <1>0, <1>1, <2>1, WindowParts, OwnLanesKept
<1>3. ASSUME NEW x \in Ranks, NEW y \in Peers(x) PROVE PeerLanes(x, y)'
  <2>0. y \in Ranks /\ y # x /\ PeerLanes(x, y)
    BY <1>3, WindowParts DEF Peers
  <2>1. CASE x # a \/ looped[a] # {}
    <3>1. looped'[x] = {} <=> looped[x] = {}
      BY <1>1, <2>1
    <3> QED
      BY <1>0, <1>1, <2>0, <3>1, PeerLanesKept
  <2>2. CASE x = a /\ looped[a] = {}
    <3>1. /\ WantedRequest(a)' = request[a] /\ WantedEpoch(a)' = Epoch(a) + 1
          /\ request'[y] = request[y]
      BY <1>0, <1>1, <2>0, PlaceKept DEF WantedRequest, WantedEpoch, Stays
    <3>2. /\ Announced(y, a)' = Announced(y, a) /\ block'[y][a] = block[y][a]
          /\ Exchanging(y)' <=> Exchanging(y) /\ Epoch(y)' = Epoch(y)
      BY <1>0, <1>1, <2>0, PlaceKept DEF Announced
    <3>3. request[y] = request[a] =>
             /\ Announced(y, a) <= Epoch(a) + 1
             /\ Exchanging(y) /\ block[y][a] # "idle" => Epoch(y) <= Epoch(a)
      BY <1>0, <1>1, <1>3, <2>2, NotAhead
    <3>4. Announced(y, a) \in Nat /\ Epoch(a) \in Nat /\ Epoch(y) \in Nat
      BY <1>0, <2>0, RankTypes
    <3> QED
      BY <2>2, <3>1, <3>2, <3>3, <3>4 DEF PeerLanes
  <2> QED
    BY <2>1, <2>2
<1> QED
  BY <1>0, <1>1, <1>2, <1>3, WindowParts, GatherExactKept

LEMMA IdleLoopWindow ==
    ASSUME WInv, NEW a \in Ranks, NEW r \in Ranks, ClearSlot(a, r) \/ BarrierNotify(a, r)
    PROVE  WindowInv' /\ GatherExact'
<1>0. /\ CInv /\ BarrierInv /\ TypeOK
      /\ \A x \in Ranks : Stays(x)
      /\ UNCHANGED <<block, seen, window>> /\ ~Exchanging(a)
      /\ \A x \in Ranks : x # a => looped'[x] = looped[x]
  <2>1. CInv /\ BarrierInv /\ TypeOK
    BY WindowParts
  <2>2. CASE ClearSlot(a, r)
    <3>1. /\ Still /\ UNCHANGED <<block, seen, window>>
          /\ \A x \in Ranks : x # a => looped'[x] = looped[x]
      BY <2>1, <2>2, ClearSlotEffect, ZenonT(60)
    <3>2. ~Exchanging(a)
      BY <2>2 DEF ClearSlot, Exchanging
    <3> QED
      BY <2>1, <3>1, <3>2, StillStays
  <2>3. CASE BarrierNotify(a, r)
    <3>1. /\ Still /\ UNCHANGED <<block, seen, window>>
          /\ \A x \in Ranks : x # a => looped'[x] = looped[x]
      BY <2>1, <2>3, BarrierNotifyEffect
    <3>2. ~Exchanging(a)
      BY <2>3 DEF BarrierNotify, Exchanging
    <3> QED
      BY <2>1, <3>1, <3>2, StillStays
  <2> QED
    BY <2>1, <2>2, <2>3
<1>1. \A x \in Ranks : OwnLanes(x)'
  BY <1>0, WindowParts, OwnLanesKept
<1>2. \A x \in Ranks : \A y \in Peers(x) : PeerLanes(x, y)'
  BY <1>0, WindowParts, PeerLanesKept DEF Peers
<1> QED
  BY <1>0, <1>1, <1>2, WindowParts, GatherExactKept

-----------------------------------------------------------------------------
(* Steps that move a rank.                                                 *)

\* What a move of rank a, which writes no lane, asks for: only the pairs a is in.
LEMMA MoveWindow ==
    ASSUME WInv, NEW a \in Ranks,
           \A x \in Ranks : x # a => /\ Stays(x) /\ block'[x] = block[x]
                                     /\ seen'[x] = seen[x] /\ looped'[x] = looped[x],
           UNCHANGED window, seen'[a] = NothingSeen,
           block'[a] = AllIdle,
           \A y \in Peers(a) : PeerLanes(a, y)' /\ PeerLanes(y, a)'
    PROVE  WindowInv' /\ GatherExact'
<1>1. ASSUME NEW x \in Ranks, NEW y \in Peers(x) PROVE PeerLanes(x, y)'
  <2>0. y \in Ranks /\ y # x /\ PeerLanes(x, y)
    BY <1>1, WindowParts DEF Peers
  <2>1. CASE x # a /\ y # a
    BY <2>0, <2>1, PeerLanesKept
  <2>2. CASE x = a
    BY <1>1, <2>2
  <2>3. CASE y = a /\ x # a
    BY <2>3 DEF Peers
  <2> QED
    BY <2>1, <2>2, <2>3
<1>2. ASSUME NEW x \in Ranks PROVE OwnLanes(x)'
  <2>1. CASE x # a
    BY <2>1, WindowParts, OwnLanesKept
  <2>2. CASE x = a
    BY <2>2 DEF OwnLanes, AllIdle
  <2> QED
    BY <2>1, <2>2
<1>3. ASSUME NEW x \in Ranks, Exchanging(x)', NEW s \in Pieces(x)', seen'[x][s] # NotRead
      PROVE  seen'[x][s] = Expected(x, s)'
  <2>1. s \in Segments
    BY <1>3, LayoutFacts DEF Pieces, Segments, NumSegments
  <2>2. x # a
    BY <1>3, <2>1 DEF NothingSeen
  <2>3. /\ Exchanging(x) /\ Pieces(x)' = Pieces(x) /\ Expected(x, s)' = Expected(x, s)
        /\ seen'[x] = seen[x]
    BY <1>3, <2>2, GatherKept
  <2> QED
    BY <1>3, <2>3, WindowParts DEF GatherExact
<1> QED
  BY <1>1, <1>2, <1>3, WindowParts DEF GatherExact

LEMMA NextPhaseWindow ==
    ASSUME WInv, NEW a \in Ranks, NextPhase(a)
    PROVE  WindowInv' /\ GatherExact'
<1>0. CInv /\ BarrierInv /\ TypeOK
  BY WindowParts
<1>1. /\ UNCHANGED <<plan, request, window>>
      /\ \A x \in Ranks : x # a => /\ Stays(x) /\ block'[x] = block[x]
                                   /\ seen'[x] = seen[x] /\ looped'[x] = looped[x]
      /\ block'[a] = AllIdle /\ seen'[a] = NothingSeen /\ looped'[a] = {}
  BY <1>0, NextPhaseEffect, NextPhaseEpoch
<1>2. /\ Exchanging(a) /\ Gathered(a) /\ looped[a] = Peers(a)
      /\ Behind(a)' = Epoch(a) + 1
      /\ Exchanging(a)' => Epoch(a)' = Epoch(a) + 1
      /\ stage'[a] \in {"history", "tail", "retire"}
      /\ Epoch(a) \in Nat
  BY <1>0, NextPhaseEpoch, PhaseEpochs, RankTypes DEF NextPhase
<1>3. ASSUME NEW y \in Peers(a) PROVE PeerLanes(a, y)' /\ PeerLanes(y, a)'
  <2>0. /\ y \in Ranks /\ a \in Peers(y) /\ y # a
        /\ PeerLanes(a, y) /\ PeerLanes(y, a) /\ Stays(y)
        /\ block'[y] = block[y] /\ looped'[y] = looped[y]
    BY <1>1, WindowParts DEF Peers
  <2>1. \A q, e : HistoryEpoch(q, e)' <=> HistoryEpoch(q, e)
    BY <1>1 DEF HistoryEpoch
  <2>2. PeerLanes(a, y)'
    <3>1. CASE ~Exchanging(a)'
      BY <1>2, <3>1 DEF PeerLanes, Wants
    <3>2. CASE Exchanging(a)'
      <4>1. /\ Wants(a) /\ WantedRequest(a)' = WantedRequest(a)
            /\ WantedEpoch(a)' = WantedEpoch(a)
        BY <1>1, <1>2, <1>3, <3>2 DEF Wants, WantedRequest, WantedEpoch
      <4>2. /\ Announced(y, a)' = Announced(y, a)
            /\ Exchanging(y)' <=> Exchanging(y) /\ Epoch(y)' = Epoch(y)
        BY <2>0, PlaceKept DEF Announced
      <4> QED
        BY <1>1, <2>0, <2>1, <4>1, <4>2 DEF PeerLanes, Owner, Row
    <3> QED
      BY <3>1, <3>2
  <2>3. PeerLanes(y, a)'
    <3>1. Announced(a, y) = Epoch(a) + 1
      BY <1>0, <1>2, PhaseDone
    <3>2. Announced(a, y)' = Epoch(a) + 1 /\ block'[a][y] = "idle"
      BY <1>1, <1>2, <2>0 DEF Announced, AllIdle
    <3>3. /\ Wants(y)' <=> Wants(y)
          /\ WantedRequest(y)' = WantedRequest(y) /\ WantedEpoch(y)' = WantedEpoch(y)
      BY <2>0, WantsKept
    <3> QED
      BY <1>1, <2>0, <2>1, <3>1, <3>2, <3>3 DEF PeerLanes, Owner, Row
  <2> QED
    BY <2>2, <2>3
<1> QED
  BY <1>1, <1>3, MoveWindow

LEMMA RetireArriveWindow ==
    ASSUME WInv, NEW a \in Ranks, Retire(a) \/ Arrive(a)
    PROVE  WindowInv' /\ GatherExact'
<1>0. CInv /\ BarrierInv /\ TypeOK /\ PositionAt(a) /\ RequestsSeparated
  BY WindowParts DEF BarrierInv, PositionOK
<1>1. /\ UNCHANGED <<plan, request, layer, block, seen, window>>
      /\ \A x \in Ranks : x # a => Stays(x) /\ looped'[x] = looped[x]
      /\ ~Exchanging(a) /\ stage[a] # "barrier"
      /\ stage'[a] \in {"clear", "barrier"}
      /\ Announced(a, a)' = Announced(a, a)
      /\ \A x \in Ranks : Announced(a, x)' = Announced(a, x)
  <2>1. CASE Retire(a)
    <3>1. /\ UNCHANGED <<plan, request, layer, block, seen, looped, window>>
          /\ \A x \in Ranks : stage'[x] = IF x = a THEN "clear" ELSE stage[x]
      BY <1>0, <2>1, RetireEffect
    <3>2. stage[a] = "retire"
      BY <2>1 DEF Retire
    <3>3. Behind(a)' = Behind(a)
      BY <3>1, <3>2 DEF Behind, Total, TailCompleted, Prefixed, Exchanging
    <3> QED
      BY <3>1, <3>2, <3>3 DEF Exchanging, Announced, Stays
  <2>2. CASE Arrive(a)
    <3>1. /\ UNCHANGED <<plan, request, layer, block, seen, window>>
          /\ \A x \in Ranks : /\ stage'[x] = IF x = a THEN "barrier" ELSE stage[x]
                              /\ looped'[x] = IF x = a THEN {} ELSE looped[x]
      BY <1>0, <2>2, ArriveEffect
    <3>2. stage[a] = "clear" \/ (stage[a] = "arrive" /\ plan[request[a]] = "skip")
      BY <1>0, <2>2 DEF Arrive, PositionAt
    <3>3. Behind(a)' = Behind(a)
      BY <3>1, <3>2 DEF Behind, Total, TailCompleted, Prefixed, Exchanging
    <3> QED
      BY <3>1, <3>2, <3>3 DEF Exchanging, Announced, Stays
  <2> QED
    BY <2>1, <2>2
<1>2. block'[a] = AllIdle /\ seen'[a] = NothingSeen /\ ~Exchanging(a)'
  BY <1>0, <1>1 DEF PositionAt, Exchanging
<1>3. ASSUME NEW y \in Peers(a) PROVE PeerLanes(a, y)' /\ PeerLanes(y, a)'
  <2>0. /\ y \in Ranks /\ a \in Peers(y) /\ y # a
        /\ PeerLanes(y, a) /\ Stays(y) /\ looped'[y] = looped[y]
    BY <1>1, WindowParts DEF Peers
  <2>1. request[y] # request[a] + 1
    BY <1>0, <1>1, <2>0, RankTypes DEF RequestsSeparated
  <2>2. PeerLanes(a, y)'
    BY <1>1, <1>2, <2>1 DEF PeerLanes, WantedRequest
  <2>3. PeerLanes(y, a)'
    <3>1. /\ Wants(y)' <=> Wants(y)
          /\ WantedRequest(y)' = WantedRequest(y) /\ WantedEpoch(y)' = WantedEpoch(y)
      BY <2>0, WantsKept
    <3>2. \A q, e : HistoryEpoch(q, e)' <=> HistoryEpoch(q, e)
      BY <1>1 DEF HistoryEpoch
    <3> QED
      BY <1>1, <1>2, <2>0, <3>1, <3>2 DEF PeerLanes, Owner, Row
  <2> QED
    BY <2>2, <2>3
<1> QED
  BY <1>1, <1>2, <1>3, MoveWindow

LEMMA BarrierPassWindow ==
    ASSUME WInv, NEW a \in Ranks, BarrierPass(a)
    PROVE  WindowInv' /\ GatherExact'
<1>0. CInv /\ BarrierInv /\ TypeOK
  BY WindowParts
<1>1. /\ UNCHANGED <<plan, block, seen, window>>
      /\ \A x \in Ranks : x # a => Stays(x) /\ looped'[x] = looped[x]
  BY <1>0, BarrierPassEffect DEF Stays
<1>2. /\ stage[a] = "barrier" /\ ~Exchanging(a)
      /\ request'[a] = request[a] + 1 /\ Behind(a)' = 0
      /\ block'[a] = AllIdle /\ seen'[a] = NothingSeen /\ looped'[a] = {}
      /\ stage'[a] \in {"history", "tail", "arrive", "stopped"}
  BY <1>0, PassFacts DEF Exchanging
<1>3. ASSUME NEW y \in Peers(a) PROVE PeerLanes(a, y)' /\ PeerLanes(y, a)'
  <2>0. /\ y \in Ranks /\ a \in Peers(y) /\ y # a
        /\ PeerLanes(a, y) /\ Stays(y) /\ looped'[y] = looped[y]
    BY <1>1, WindowParts DEF Peers
  <2>1. \A q, e : HistoryEpoch(q, e)' <=> HistoryEpoch(q, e)
    BY <1>1 DEF HistoryEpoch
  <2>2. PeerLanes(a, y)'
    <3>1. CASE ~Exchanging(a)'
      BY <1>2, <3>1 DEF PeerLanes, Wants
    <3>2. CASE Exchanging(a)'
      <4>1. Epoch(a)' = 0
        BY <1>2, <3>2 DEF Behind
      <4>2. /\ Wants(a) /\ WantedRequest(a)' = WantedRequest(a)
            /\ WantedEpoch(a)' = WantedEpoch(a)
        BY <1>2, <3>2, <4>1 DEF Wants, WantedRequest, WantedEpoch
      <4>3. /\ Announced(y, a)' = Announced(y, a) /\ request'[y] = request[y]
            /\ Exchanging(y)' <=> Exchanging(y) /\ Epoch(y)' = Epoch(y)
        BY <1>1, <2>0, PlaceKept DEF Announced, Stays
      <4> QED
        BY <1>1, <2>0, <2>1, <4>2, <4>3 DEF PeerLanes, Owner, Row
    <3> QED
      BY <3>1, <3>2
  <2>3. PeerLanes(y, a)'
    <3>1. Announced(a, y)' = 0 /\ block'[a][y] = "idle"
      BY <1>2, <2>0 DEF Announced, AllIdle
    <3>2. WantedEpoch(y)' = WantedEpoch(y) /\ WantedEpoch(y) \in Nat
      BY <1>0, <2>0, WantsKept, RankTypes DEF WantedEpoch
    <3> QED
      BY <3>1, <3>2 DEF PeerLanes
  <2> QED
    BY <2>2, <2>3
<1> QED
  BY <1>1, <1>2, <1>3, MoveWindow

-----------------------------------------------------------------------------
LEMMA InitWindow == Init => WindowInv /\ GatherExact
<1> SUFFICES ASSUME Init PROVE WindowInv /\ GatherExact
  OBVIOUS
<1>0. CInv /\ TypeOK
  BY InitBarrierInv, InitCredits DEF CInv, BarrierInv
<1>1. \A x, y \in Ranks : block[x][y] = "idle"
  BY DEF Init
<1>2. \A x, y \in Ranks : Announced(x, y) = 0
  <2>1. \A x \in Ranks : Behind(x) = 0
    <3> TAKE x \in Ranks
    <3>1. stage[x] = StartStage(0) /\ request[x] = 0 /\ layer[x] = 0
      BY DEF Init
    <3>2. stage[x] \in {"history", "tail", "arrive", "stopped"}
      BY <1>0, <3>1, StartFacts, RequestsAssumption DEF TypeOK
    <3>3. Exchanging(x) => Epoch(x) = 0
      BY <3>1 DEF Epoch, Prefixed, StartStage, FirstStage, Exchanging
    <3> QED
      BY <3>2, <3>3 DEF Behind
  <2> QED
    BY <1>1, <2>1 DEF Announced
<1>3. \A x \in Ranks : WantedEpoch(x) \in Nat
  BY <1>0, RankTypes DEF WantedEpoch
<1>4. \A x \in Ranks : OwnLanes(x) /\ \A y \in Peers(x) : PeerLanes(x, y)
  BY <1>1, <1>2, <1>3 DEF OwnLanes, PeerLanes, Peers
<1>5. GatherExact
  <2>1. \A x \in Ranks, s \in Segments : seen[x][s] = NotRead
    BY DEF Init
  <2>2. \A x \in Ranks : Pieces(x) \subseteq Segments
    BY LayoutFacts DEF Pieces, Segments, NumSegments
  <2> QED
    BY <2>1, <2>2 DEF GatherExact
<1> QED
  BY <1>4, <1>5 DEF WindowInv

LEMMA WindowStep == WInv /\ [Next]_vars => WInv'
<1> SUFFICES ASSUME WInv, [Next]_vars PROVE WInv'
  OBVIOUS
<1>0. CInv'
  BY CreditStep DEF WInv
<1>1. CASE UNCHANGED vars
  <2>1. /\ Still /\ UNCHANGED <<block, seen, looped, window>>
    BY <1>1 DEF vars, Still
  <2>2. \A x \in Ranks : Stays(x)
    BY <2>1, StillStays
  <2>3. \A x \in Ranks : OwnLanes(x)'
    BY <2>1, <2>2, WindowParts, OwnLanesKept
  <2>4. \A x \in Ranks : \A y \in Peers(x) : PeerLanes(x, y)'
    BY <2>1, <2>2, WindowParts, PeerLanesKept DEF Peers
  <2> QED
    BY <1>0, <2>1, <2>2, <2>3, <2>4, WindowParts, GatherExactKept DEF WInv
<1>2. ASSUME NEW a \in Ranks, RankStep(a) PROVE WindowInv' /\ GatherExact'
  <2>1. CASE NextPhase(a) \/ Retire(a) \/ Arrive(a) \/ BarrierPass(a)
    BY <2>1, NextPhaseWindow, RetireArriveWindow, BarrierPassWindow
  <2>2. ASSUME NEW r \in Ranks, StartPut(a, r) \/ FinishPut(a, r) \/ HistoryNotify(a, r)
        PROVE  WindowInv' /\ GatherExact'
    BY <2>2, StartPutWindow, FinishPutWindow, HistoryNotifyWindow
  <2>3. ASSUME NEW r \in Ranks, Release(a, r) \/ ClearSlot(a, r) \/ BarrierNotify(a, r)
        PROVE  WindowInv' /\ GatherExact'
    BY <2>3, ReleaseWindow, IdleLoopWindow
  <2>4. ASSUME NEW s \in Segments, Gather(a, s) PROVE WindowInv' /\ GatherExact'
    BY <2>4, GatherWindow
  <2> QED
    BY <1>2, <2>1, <2>2, <2>3, <2>4 DEF RankStep
<1> QED
  BY <1>0, <1>1, <1>2 DEF Next, Stopped, WInv

-----------------------------------------------------------------------------
\* The inductive invariant that the run checks holds of every instance.
THEOREM InductiveInvariant == Spec => []IInv
<1>1. Init => WInv
  BY InitBarrierInv, InitCredits, InitWindow DEF WInv, CInv
<1>2. WInv => IInv
  BY DEF WInv, CInv, IInv
<1> QED
  BY <1>1, <1>2, WindowStep, PTL DEF Spec

\* Whatever the number of ranks, layers and requests, what a rank gathers is the
\* rows of its own request and epoch from the ranks that computed them.
THEOREM GatheredIsExact == Spec => []GatherExact
<1>1. IInv => GatherExact
  BY DEF IInv
<1> QED
  BY <1>1, InductiveInvariant, PTL

-----------------------------------------------------------------------------
(***************************************************************************)
(* Chunks.                                                                 *)
(***************************************************************************)

-----------------------------------------------------------------------------
(***************************************************************************)
(* Integers.                                                               *)
(***************************************************************************)

\* Quotient and remainder.
LEMMA DivMod ==
    ASSUME NEW a \in Int, NEW b \in Nat \ {0}
    PROVE  /\ a \div b \in Int /\ a % b \in 0 .. b - 1
           /\ a = (a \div b) * b + (a % b)
           /\ a >= 0 => a \div b >= 0
  OBVIOUS

\* Multiplication by a natural number is monotone.
LEMMA Monotone ==
    ASSUME NEW a \in Int, NEW b \in Int, NEW c \in Nat, a <= b
    PROVE  a * c <= b * c
  OBVIOUS

\* Quotient and remainder are determined by their sum.
LEMMA Unique ==
    ASSUME NEW q \in Int, NEW p \in Int, NEW b \in Nat \ {0},
           NEW r \in 0 .. b - 1, NEW t \in 0 .. b - 1,
           q * b + r = p * b + t
    PROVE  q = p /\ r = t
  OBVIOUS

\* The quotient and remainder of a sum already split.
LEMMA Split ==
    ASSUME NEW q \in Int, NEW b \in Nat \ {0}, NEW r \in 0 .. b - 1
    PROVE  (q * b + r) \div b = q /\ (q * b + r) % b = r
  <1> DEFINE a == q * b + r
  <1>1. a \in Int
    OBVIOUS
  <1> HIDE DEF a
  <1>2. /\ a \div b \in Int /\ a % b \in 0 .. b - 1
        /\ (a \div b) * b + (a % b) = q * b + r
    BY <1>1, DivMod DEF a
  <1>3. a \div b = q /\ a % b = r
    BY <1>2, Unique
  <1> QED
    BY <1>3 DEF a

\* The next multiple.
LEMMA Successor ==
    ASSUME NEW a \in Int, NEW b \in Int
    PROVE  (a + 1) * b = a * b + b /\ (a - 1) * b = a * b - b
  OBVIOUS

\* Numbers less than b apart with one remainder are equal.
LEMMA Congruent ==
    ASSUME NEW p \in Int, NEW q \in Int, NEW b \in Nat \ {0},
           p - q < b, q - p < b, p % b = q % b
    PROVE  p = q
  <1> DEFINE dp == p \div b
             dq == q \div b
             rest == p % b
  <1>1. /\ dp \in Int /\ dq \in Int /\ rest \in 0 .. b - 1
        /\ p = dp * b + rest /\ q = dq * b + rest
    BY DivMod
  <1> HIDE DEF dp, dq, rest
  <1>2. ~ dp + 1 <= dq
    <2> SUFFICES ASSUME dp + 1 <= dq PROVE FALSE
      OBVIOUS
    <2>1. (dp + 1) * b <= dq * b /\ (dp + 1) * b = dp * b + b
      BY <1>1, Monotone, Successor
    <2> QED
      BY <1>1, <2>1
  <1>3. ~ dq + 1 <= dp
    <2> SUFFICES ASSUME dq + 1 <= dp PROVE FALSE
      OBVIOUS
    <2>1. (dq + 1) * b <= dp * b /\ (dq + 1) * b = dq * b + b
      BY <1>1, Monotone, Successor
    <2> QED
      BY <1>1, <2>1
  <1> QED
    BY <1>1, <1>2, <1>3

\* Induction as a least counterexample: a set of naturals has a least element.
LEMMA Least ==
    ASSUME NEW S \in SUBSET Nat, S # {}
    PROVE  \E m \in S : \A y \in S : m <= y
  <1>1. PICK m \in S : \A y \in S : ~ (<<y, m>> \in OpToRel(<, Nat))
    BY NatLessThanWellFounded, WFMin
  <1>2. \A y \in S : y \in Nat /\ m \in Nat /\ ~ (y < m)
    BY <1>1 DEF OpToRel
  <1> QED
    BY <1>2

-----------------------------------------------------------------------------
(***************************************************************************)
(* Segments.                                                               *)
(***************************************************************************)

\* The sizes are numbers, and a segment's storage holds at least one tile.
LEMMA Sizes ==
    /\ TailRows \in Nat \ {0} /\ NumSegments \in Nat \ {0} /\ SegmentRows \in Nat
    /\ Capacity \in Nat /\ SegmentRows >= TailRows
    /\ Segments = 0 .. NumSegments - 1 /\ Rows = 0 .. TailRows - 1
  <1>1. TailRows \in Nat \ {0} /\ MaxTiles \in Nat \ {0} /\ 1 <= MaxTiles
    BY SizesAssumption
  <1>2. NumSegments \in Nat \ {0}
    BY CPSizeAssumption DEF NumSegments
  <1>3. 1 * TailRows <= MaxTiles * TailRows /\ MaxTiles * TailRows \in Nat
    BY <1>1, Monotone
  <1>4. SegmentRows \in Nat /\ SegmentRows >= TailRows
    BY <1>1, <1>3 DEF SegmentRows
  <1>5. Capacity \in Nat
    BY <1>2, <1>4 DEF Capacity
  <1> QED
    BY <1>1, <1>2, <1>4, <1>5 DEF Segments, Rows

\* A span is at least a window, at most the storage, and the spans of all
\* segments hold the chunk.
LEMMA SpanFits ==
    ASSUME NEW n \in 0 .. Capacity
    PROVE  /\ Span(n) \in Nat \ {0} /\ TailRows <= Span(n) /\ Span(n) <= SegmentRows
           /\ n <= NumSegments * Span(n)
  <1> DEFINE N == NumSegments
             q == (n + N - 1) \div N
  <1>1. /\ N \in Nat \ {0} /\ TailRows \in Nat \ {0} /\ SegmentRows \in Nat
        /\ n \in Nat /\ n <= N * SegmentRows /\ TailRows <= SegmentRows
    BY Sizes DEF Capacity
  <1> HIDE DEF N
  <1>2. /\ q \in Int /\ (n + N - 1) % N \in 0 .. N - 1 /\ q >= 0
        /\ n + N - 1 = q * N + ((n + N - 1) % N)
    <2>1. n + N - 1 \in Int /\ n + N - 1 >= 0
      BY <1>1
    <2> QED
      BY <1>1, <2>1, DivMod
  <1> DEFINE rest == (n + N - 1) % N
  <1> HIDE DEF q, rest
  <1>3. /\ q \in Nat /\ rest \in 0 .. N - 1 /\ n + N - 1 = q * N + rest
    BY <1>2 DEF q, rest
  <1>4. q * N >= n
    BY <1>1, <1>3
  <1>5. q <= SegmentRows
    <2> SUFFICES ASSUME SegmentRows + 1 <= q PROVE FALSE
      BY <1>1, <1>3
    <2>1. (SegmentRows + 1) * N <= q * N /\ (SegmentRows + 1) * N = N * SegmentRows + N
      BY <1>1, <1>3, Monotone
    <2> QED
      BY <2>1, <1>1, <1>3
  <1>6. Span(n) = IF TailRows >= q THEN TailRows ELSE q
    BY DEF Span, Larger, q, N
  <1>7. q <= Span(n) /\ Span(n) \in Nat
    BY <1>6, <1>1, <1>3
  <1>8. q * N <= Span(n) * N
    BY <1>7, <1>1, <1>3, Monotone
  <1>9. n <= N * Span(n)
    BY <1>8, <1>4, <1>7, <1>1, <1>3
  <1> QED
    BY <1>9, <1>7, <1>6, <1>5, <1>1 DEF N

\* Rows of segment s by the row of the chunk it starts at.
LEMMA LengthCases ==
    ASSUME NEW n \in 0 .. Capacity, NEW s \in Nat
    PROVE  /\ s * Span(n) \in Nat
           /\ SegmentLength(n, s) = IF n <= s * Span(n) THEN 0
                                    ELSE IF n <= s * Span(n) + Span(n) THEN n - s * Span(n)
                                    ELSE Span(n)
           /\ SegmentLength(n, s) \in 0 .. Span(n)
           /\ SegmentLength(n, s) > 0 => s * Span(n) + SegmentLength(n, s) <= n
  <1>1. Span(n) \in Nat \ {0} /\ n \in Nat
    BY SpanFits, Sizes
  <1>2. s * Span(n) \in Nat
    BY <1>1
  <1> QED
    BY <1>1, <1>2 DEF SegmentLength, Clamp, Larger, Smaller

\* Every segment before a segment with rows is full.
LEMMA BeforeIsFull ==
    ASSUME NEW n \in 0 .. Capacity, NEW s \in Nat, s > 0, SegmentLength(n, s) > 0
    PROVE  /\ SegmentLength(n, s - 1) = Span(n)
           /\ (s - 1) * Span(n) = s * Span(n) - Span(n)
           /\ TailLength(n, s - 1) = TailRows
           /\ TailStart(n, s - 1) = Span(n) - TailRows
  <1>1. Span(n) \in Nat \ {0} /\ TailRows \in Nat \ {0} /\ TailRows <= Span(n) /\ n \in Nat
    BY SpanFits, Sizes
  <1>2. (s - 1) * Span(n) = s * Span(n) - Span(n)
    BY <1>1, Successor
  <1>3. s * Span(n) \in Nat /\ n > s * Span(n)
    BY LengthCases, <1>1
  <1>4. s - 1 \in Nat
    OBVIOUS
  <1>5. SegmentLength(n, s - 1) = Span(n)
    BY <1>1, <1>2, <1>3, <1>4, LengthCases
  <1> QED
    BY <1>1, <1>2, <1>5 DEF TailLength, TailStart, Larger, Smaller

\* Where a row of the chunk lies.
LEMMA Located ==
    ASSUME NEW n \in 0 .. Capacity, NEW i \in 0 .. n - 1
    PROVE  /\ i \div Span(n) \in Segments
           /\ i % Span(n) \in 0 .. SegmentLength(n, i \div Span(n)) - 1
           /\ i = (i \div Span(n)) * Span(n) + (i % Span(n))
  <1> DEFINE S == Span(n)
             s == i \div S
             r == i % S
  <1>1. S \in Nat \ {0} /\ n \in Nat /\ n <= NumSegments * S /\ i \in Nat /\ i < n
        /\ NumSegments \in Nat
    BY SpanFits, Sizes
  <1> HIDE DEF S
  <1>2. s \in Nat /\ r \in 0 .. S - 1 /\ i = s * S + r
    <2>1. i \in Int /\ i >= 0
      BY <1>1
    <2>2. i \div S \in Int /\ i \div S >= 0 /\ i % S \in 0 .. S - 1
          /\ i = (i \div S) * S + (i % S)
      BY <1>1, <2>1, DivMod
    <2> QED
      BY <2>2
  <1> HIDE DEF s, r
  <1>3. s < NumSegments
    <2> SUFFICES ASSUME NumSegments <= s PROVE FALSE
      BY <1>1, <1>2
    <2>1. NumSegments * S <= s * S
      BY <1>1, <1>2, Monotone
    <2> QED
      BY <2>1, <1>1, <1>2
  <1>4. s \in Segments
    BY <1>2, <1>3, Sizes
  <1>5. /\ s * S \in Nat
        /\ SegmentLength(n, s) = IF n <= s * S THEN 0 ELSE IF n <= s * S + S THEN n - s * S ELSE S
    BY <1>2, LengthCases DEF S
  <1>6. r \in 0 .. SegmentLength(n, s) - 1
    BY <1>1, <1>2, <1>5
  <1> QED
    BY <1>2, <1>4, <1>6 DEF S, s, r

-----------------------------------------------------------------------------
(***************************************************************************)
(* Tiles, cache rows and owners.                                           *)
(***************************************************************************)

\* The rows of a tile are the segment's rows from the tile's first.
LEMMA ActiveRows ==
    ASSUME NEW n \in 0 .. Capacity, NEW s \in Nat, NEW tile \in Nat
    PROVE  /\ tile * TailRows \in Nat /\ Active(n, s, tile) \in 0 .. TailRows
           /\ \A row \in Rows :
                  row < Active(n, s, tile) <=> tile * TailRows + row < SegmentLength(n, s)
           /\ tile > 0 => (tile - 1) * TailRows = tile * TailRows - TailRows
           /\ tile > 0 /\ Active(n, s, tile) > 0 => Active(n, s, tile - 1) = TailRows
  <1>1. TailRows \in Nat \ {0} /\ Rows = 0 .. TailRows - 1 /\ Span(n) \in Nat
    BY Sizes, SpanFits
  <1>2. SegmentLength(n, s) \in Nat
    <2>1. SegmentLength(n, s) \in 0 .. Span(n)
      BY LengthCases
    <2> QED
      BY <1>1, <2>1
  <1>3. tile * TailRows \in Nat /\ (tile - 1) * TailRows = tile * TailRows - TailRows
    BY <1>1, Successor
  <1> DEFINE first == tile * TailRows
             total == SegmentLength(n, s)
  <1>4. Active(n, s, tile) = IF total - first <= 0 THEN 0
                             ELSE IF total - first <= TailRows THEN total - first ELSE TailRows
    BY <1>1, <1>2, <1>3 DEF Active, Clamp, Larger, Smaller
  <1>5. tile > 0 => Active(n, s, tile - 1) =
                       IF total - (first - TailRows) <= 0 THEN 0
                       ELSE IF total - (first - TailRows) <= TailRows
                              THEN total - (first - TailRows) ELSE TailRows
    BY <1>1, <1>2, <1>3 DEF Active, Clamp, Larger, Smaller
  <1>6. first \in Nat /\ total \in Nat
    BY <1>2, <1>3
  <1> HIDE DEF first, total
  <1>7. /\ Active(n, s, tile) \in 0 .. TailRows
        /\ \A row \in Rows : row < Active(n, s, tile) <=> first + row < total
        /\ tile > 0 /\ Active(n, s, tile) > 0 => Active(n, s, tile - 1) = TailRows
    BY <1>1, <1>4, <1>5, <1>6
  <1> QED
    BY <1>7, <1>3 DEF first, total

\* A row of a segment lies in one tile.
LEMMA TileOfRow ==
    ASSUME NEW n \in 0 .. Capacity, NEW s \in Nat, NEW u \in 0 .. SegmentLength(n, s) - 1
    PROVE  /\ u \div TailRows \in Tiles /\ u % TailRows \in Rows
           /\ u = (u \div TailRows) * TailRows + (u % TailRows)
           /\ u % TailRows < Active(n, s, u \div TailRows)
  <1> DEFINE T == TailRows
             tile == u \div T
             row == u % T
  <1>1. /\ T \in Nat \ {0} /\ Rows = 0 .. T - 1 /\ MaxTiles \in Nat
        /\ Span(n) \in Nat /\ Span(n) <= MaxTiles * T
    BY Sizes, SpanFits, SizesAssumption DEF SegmentRows
  <1>2. SegmentLength(n, s) \in 0 .. Span(n)
    BY LengthCases
  <1>3. u \in Nat /\ u < SegmentLength(n, s) /\ u < MaxTiles * T
    BY <1>1, <1>2
  <1> HIDE DEF T
  <1>4. tile \in Nat /\ row \in 0 .. T - 1 /\ u = tile * T + row
    <2>1. u \in Int /\ u >= 0
      BY <1>3
    <2>2. u \div T \in Int /\ u \div T >= 0 /\ u % T \in 0 .. T - 1
          /\ u = (u \div T) * T + (u % T)
      BY <1>1, <2>1, DivMod
    <2> QED
      BY <2>2
  <1> HIDE DEF tile, row
  <1>5. tile < MaxTiles
    <2> SUFFICES ASSUME MaxTiles <= tile PROVE FALSE
      BY <1>1, <1>4
    <2>1. MaxTiles * T <= tile * T
      BY <1>1, <1>4, Monotone
    <2> QED
      BY <2>1, <1>1, <1>3, <1>4
  <1>6. row < Active(n, s, tile)
    BY <1>1, <1>3, <1>4, ActiveRows DEF T
  <1> QED
    BY <1>1, <1>4, <1>5, <1>6 DEF T, tile, row, Tiles

\* Every position has a row in the owner's pages.
LEMMA SlotInCache ==
    ASSUME NEW k \in Nat
    PROVE  Slot(k) \in CacheRows /\ Slot(k) \in Nat
  <1> DEFINE page == (k \div TailRows) % Pages
             row == k % TailRows
             low == FirstPage * TailRows
  <1>1. /\ TailRows \in Nat \ {0} /\ FirstPage \in Nat /\ Pages \in Nat \ {0} /\ low \in Nat
    BY SizesAssumption
  <1>2. k \div TailRows \in Int /\ row \in 0 .. TailRows - 1
    BY <1>1, DivMod
  <1>3. page \in 0 .. Pages - 1
    BY <1>1, <1>2, DivMod
  <1> HIDE DEF page, row
  <1>4. /\ FirstPage * TailRows <= (FirstPage + page) * TailRows
        /\ (FirstPage + page) * TailRows <= ((FirstPage + Pages) - 1) * TailRows
        /\ ((FirstPage + Pages) - 1) * TailRows = (FirstPage + Pages) * TailRows - TailRows
        /\ (FirstPage + page) * TailRows \in Nat /\ (FirstPage + Pages) * TailRows \in Nat
    <2>1. /\ FirstPage \in Int /\ FirstPage + page \in Int /\ FirstPage + Pages \in Int
          /\ (FirstPage + Pages) - 1 \in Int /\ TailRows \in Nat
          /\ FirstPage <= FirstPage + page /\ FirstPage + page <= (FirstPage + Pages) - 1
          /\ FirstPage + page \in Nat /\ FirstPage + Pages \in Nat
      BY <1>1, <1>3
    <2>2. FirstPage * TailRows <= (FirstPage + page) * TailRows
      BY <2>1, Monotone
    <2>3. (FirstPage + page) * TailRows <= ((FirstPage + Pages) - 1) * TailRows
      BY <2>1, Monotone
    <2>4. ((FirstPage + Pages) - 1) * TailRows = (FirstPage + Pages) * TailRows - TailRows
      <3>1. \A a \in Int : (a - 1) * TailRows = a * TailRows - TailRows
        BY <2>1, Successor
      <3>2. FirstPage + Pages \in Int
        BY <2>1
      <3> QED
        BY <3>1, <3>2, Zenon
    <2> QED
      BY <2>1, <2>2, <2>3, <2>4
  <1>5. Slot(k) = (FirstPage + page) * TailRows + row
    BY DEF Slot, page, row
  <1> QED
    BY <1>1, <1>2, <1>4, <1>5 DEF CacheRows, low

\* Positions less than a window apart never share a cache row.
LEMMA SlotsDistinct ==
    ASSUME NEW p \in Nat, NEW q \in Nat, p - q < TailRows, q - p < TailRows,
           Slot(p) = Slot(q)
    PROVE  p = q
  <1> DEFINE T == TailRows
             pp == FirstPage + ((p \div T) % Pages)
             pq == FirstPage + ((q \div T) % Pages)
             rp == p % T
             rq == q % T
  <1>1. T \in Nat \ {0} /\ FirstPage \in Nat /\ Pages \in Nat \ {0}
    BY SizesAssumption
  <1>2. /\ p \div T \in Int /\ rp \in 0 .. T - 1 /\ p = (p \div T) * T + rp
        /\ q \div T \in Int /\ rq \in 0 .. T - 1 /\ q = (q \div T) * T + rq
    BY <1>1, DivMod
  <1>3. pp \in Int /\ pq \in Int
    BY <1>1, <1>2, DivMod
  <1>4. pp * T + rp = pq * T + rq
    BY DEF Slot
  <1>5. rp = rq
    <2> HIDE DEF pp, pq, rp, rq, T
    <2> QED
      BY <1>1, <1>2, <1>3, <1>4, Unique
  <1>6. p % T = q % T /\ p \in Int /\ q \in Int /\ p - q < T /\ q - p < T
    BY <1>5
  <1> HIDE DEF T
  <1> QED
    BY <1>1, <1>6, Congruent

\* Every segment is computed by the rank and part that own it, and found in
\* the lane they publish to.
LEMMA Owners ==
    /\ \A r \in Ranks, part \in LocalParts : LocalSegment(r, part) \in Segments
    /\ \A s \in Segments :
           /\ OwnerRank(s) \in Ranks /\ OwnerPart(s) \in LocalParts
           /\ LocalSegment(OwnerRank(s), OwnerPart(s)) = s
           /\ ReverseIndex(s) \in Lanes
           /\ ReverseIndex(s) \div 2 = OwnerRank(s) /\ ReverseIndex(s) % 2 = OwnerPart(s)
  BY CPSizeAssumption
     DEF Ranks, LocalParts, Segments, NumSegments, Lanes, LocalSegment, OwnerRank, OwnerPart,
         ReverseIndex

-----------------------------------------------------------------------------
(***************************************************************************)
(* What the tensors hold after each phase.                                 *)
(***************************************************************************)

\* The chunk in flight is one the host may submit; before the first there is none.
ChunkOK ==
    /\ phase # "idle" => length \in Lengths
    /\ phase = "idle" => prompt = 0 /\ base = 0 /\ length = 0
    /\ base + length <= MaxPosition

\* Every rank has the rows of its two segments, and zero beyond them.
LocalExact ==
    phase # "idle" =>
        \A r \in Ranks, part \in LocalParts, row \in 0 .. SegmentRows - 1 :
            local[r][<<part, row>>] =
                Scattered(prompt, base, length, LocalSegment(r, part), row)

\* The history of a rank is the window before the chunk, where there is one.
HistoryExact ==
    phase \in {"history", "tails"} =>
        \A i \in Rows :
            base - TailRows + i >= 0 =>
                history[i] = <<prompt, base - TailRows + i, base - TailRows + i>>

\* Every rank has the last rows of every segment.
LogicalExact ==
    phase \in {"tails", "staged"} =>
        \A s \in Segments, row \in Rows :
            row < TailLength(length, s) =>
                logical[s][row] =
                    <<prompt, SegmentStart(base, length, s) + TailStart(length, s) + row>>

\* The cache has the request's last window before position `end'.
CacheHolds(end) ==
    \A p \in Larger(0, end - TailRows) .. end - 1 : cache[Slot(p)] = <<prompt, p, p>>

CacheExact ==
    IF phase \in {"committed", "gathered"} THEN CacheHolds(base + length) ELSE CacheHolds(base)

\* The inductive invariant.
ChunkInv ==
    /\ ChunkTypeOK
    /\ ChunkOK
    /\ LocalExact
    /\ HistoryExact
    /\ LogicalExact
    /\ CacheExact

-----------------------------------------------------------------------------
(***************************************************************************)
(* Keys.                                                                   *)
(***************************************************************************)

\* What precedes a tile with rows: nothing for the first tile of the chunk, a
\* whole window for every other one.
LEMMA PreviousRows ==
    ASSUME NEW b \in Nat, NEW n \in 0 .. Capacity, NEW s \in Nat, NEW tile \in Nat,
           Active(n, s, tile) > 0
    PROVE  LET start == SegmentStart(b, n, s) + tile * TailRows
               prev  == Previous(b, n, s, tile)
           IN  /\ start \in Nat /\ start >= b
               /\ s = 0 /\ tile = 0 => prev.rows = 0 /\ prev.start = 0 /\ start = b
               /\ s > 0 \/ tile > 0 =>
                      prev.rows = TailRows /\ prev.start = start - TailRows
                      /\ start - TailRows >= b
  <1> DEFINE T == TailRows
             S == Span(n)
             start == SegmentStart(b, n, s) + tile * T
             prev == Previous(b, n, s, tile)
  <1>1. /\ T \in Nat \ {0} /\ S \in Nat /\ T <= S /\ n \in Nat
    BY Sizes, SpanFits
  <1>2. s * S \in Nat /\ tile * T \in Nat
    BY <1>1
  <1>3. start = b + s * S + tile * T /\ start \in Nat /\ start >= b
    BY <1>1, <1>2 DEF SegmentStart
  <1>4. CASE s = 0 /\ tile = 0
    <2>1. prev = [start |-> 0, rows |-> 0]
      BY <1>4 DEF Previous
    <2>2. s * S = 0 /\ tile * T = 0
      BY <1>1, <1>4
    <2>3. start = b
      BY <1>3, <2>2
    <2> QED
      BY <1>3, <1>4, <2>1, <2>3
  <1>5. CASE tile > 0
    <2>1. prev = [start |-> SegmentStart(b, n, s) + (tile - 1) * T, rows |-> Active(n, s, tile - 1)]
      BY <1>5 DEF Previous
    <2>2. Active(n, s, tile - 1) = T /\ (tile - 1) * T = tile * T - T
      BY <1>5, ActiveRows
    <2>3. SegmentStart(b, n, s) = b + s * S
      BY DEF SegmentStart
    <2>4. prev.rows = T /\ prev.start = start - T
      BY <2>1, <2>2, <2>3, <1>1, <1>2, <1>3
    <2>5. tile * T >= T
      BY <1>1, <1>2, <1>5, <2>2, Monotone
    <2>6. start - T >= b
      BY <2>5, <1>1, <1>2, <1>3
    <2> QED
      BY <1>3, <1>5, <2>4, <2>6
  <1>6. CASE s > 0 /\ tile = 0
    <2>1. prev = [start |-> SegmentStart(b, n, s - 1) + TailStart(n, s - 1),
                  rows  |-> TailLength(n, s - 1)]
      BY <1>6 DEF Previous
    <2>2. SegmentLength(n, s) > 0
      <3>1. 0 \in Rows /\ tile * T = 0
        BY <1>1, <1>6 DEF Rows
      <3> QED
        BY <3>1, <1>1, <1>2, ActiveRows
    <2>3. /\ TailLength(n, s - 1) = T /\ TailStart(n, s - 1) = S - T
          /\ (s - 1) * S = s * S - S
      BY <1>6, <2>2, BeforeIsFull
    <2>4. SegmentStart(b, n, s - 1) = b + (s - 1) * S
      BY DEF SegmentStart
    <2>5. tile * T = 0
      BY <1>1, <1>6
    <2>6. prev.rows = T /\ prev.start = start - T
      BY <2>1, <2>3, <2>4, <2>5, <1>1, <1>2, <1>3
    <2>7. s * S >= S
      <3>1. 1 * S <= s * S
        BY <1>1, <1>6, Monotone
      <3> QED
        BY <3>1, <1>1
    <2>8. start - T >= b
      BY <2>7, <1>1, <1>2, <1>3
    <2> QED
      BY <1>3, <1>6, <2>6, <2>8
  <1> QED
    BY <1>4, <1>5, <1>6

\* The index of every key of a real query: its own tile, the window before it, or
\* the cache for what precedes the chunk.
LEMMA IndexOfKey ==
    ASSUME NEW b \in Nat, NEW n \in 0 .. Capacity, NEW s \in Nat, NEW tile \in Nat,
           NEW row \in Rows, NEW col \in Rows, row < Active(n, s, tile)
    PROVE  LET start == SegmentStart(b, n, s) + tile * TailRows
               key   == KeyOf(start + row, col)
               index == SwaIndex(b, n, s, tile, row, col)
           IN  /\ key \in Int /\ key <= start + row
               /\ key >= start =>
                      index = OverlayBase + TailRows + key - start
               /\ key < start /\ (s > 0 \/ tile > 0) =>
                      /\ index = OverlayBase + key - (start - TailRows)
                      /\ key - (start - TailRows) \in Rows
               /\ key < start /\ s = 0 /\ tile = 0 =>
                      index = IF key \in 0 .. b - 1 THEN Slot(key) ELSE -1
  <1> DEFINE T == TailRows
             start == SegmentStart(b, n, s) + tile * T
             prev == Previous(b, n, s, tile)
             key == KeyOf(start + row, col)
             index == SwaIndex(b, n, s, tile, row, col)
  <1>1. /\ T \in Nat \ {0} /\ row \in 0 .. T - 1 /\ col \in 0 .. T - 1
        /\ OverlayBase \in Nat
    BY Sizes, SizesAssumption
  <1>2. Active(n, s, tile) \in 0 .. T
    BY ActiveRows
  <1>3. Active(n, s, tile) > 0
    BY <1>1, <1>2
  <1>4. /\ start \in Nat /\ start >= b
        /\ s = 0 /\ tile = 0 => prev.rows = 0 /\ prev.start = 0
        /\ s > 0 \/ tile > 0 => prev.rows = T /\ prev.start = start - T
    BY <1>3, PreviousRows
  <1>5. key = start + row - T + 1 + col
    BY <1>1, <1>4 DEF KeyOf
  <1>6. /\ key \in Int /\ key <= start + row /\ key >= start - T + 1
    BY <1>5, <1>1, <1>4
  <1>7. index = CASE row >= Active(n, s, tile) -> -1
                  [] row < Active(n, s, tile) /\ key >= start ->
                         IF key < start + Active(n, s, tile)
                           THEN OverlayBase + T + key - start ELSE -1
                  [] row < Active(n, s, tile) /\ key < start
                     /\ key \in prev.start .. prev.start + prev.rows - 1 ->
                         OverlayBase + key - prev.start
                  [] OTHER -> IF key \in 0 .. b - 1 THEN Slot(key) ELSE -1
    BY DEF SwaIndex
  <1> HIDE DEF start, prev, key, index
  <1>8. ~ row >= Active(n, s, tile)
    BY <1>1, <1>2
  <1>9. key >= start => index = OverlayBase + T + key - start
    BY <1>1, <1>2, <1>4, <1>6, <1>7, <1>8
  <1>10. ASSUME key < start, s > 0 \/ tile > 0
         PROVE  index = OverlayBase + key - (start - T) /\ key - (start - T) \in Rows
    <2>1. prev.rows = T /\ prev.start = start - T
      BY <1>10, <1>4
    <2>2. key \in prev.start .. prev.start + prev.rows - 1 /\ ~ key >= start
      BY <1>1, <1>4, <1>6, <1>10, <2>1
    <2>3. index = OverlayBase + key - prev.start
      BY <1>1, <1>7, <1>8, <1>10, <2>2
    <2>4. key - (start - T) \in 0 .. T - 1
      BY <1>1, <1>4, <1>6, <1>10
    <2> QED
      BY <2>1, <2>3, <2>4, Sizes
  <1>11. ASSUME key < start, s = 0, tile = 0
         PROVE  index = IF key \in 0 .. b - 1 THEN Slot(key) ELSE -1
    <2>1. prev.rows = 0 /\ prev.start = 0
      BY <1>11, <1>4
    <2>2. key \notin prev.start .. prev.start + prev.rows - 1 /\ ~ key >= start
      BY <1>4, <1>6, <1>11, <2>1
    <2> QED
      BY <1>7, <1>8, <1>11, <2>2
  <1> QED
    BY <1>6, <1>9, <1>10, <1>11 DEF start, key, index

-----------------------------------------------------------------------------
(***************************************************************************)
(* Rows.                                                                   *)
(***************************************************************************)

\* The sizes of the chunk in flight.
LEMMA ChunkSizes ==
    ASSUME ChunkTypeOK, ChunkOK
    PROVE  /\ base \in Nat /\ length \in 0 .. Capacity /\ base + length <= MaxPosition
           /\ MaxPosition \in Nat \ {0} /\ prompt \in 0 .. Prompts /\ Prompts \in Nat
           /\ phase # "idle" => length \in 1 .. Capacity
  BY ChunkAssumption, Sizes DEF ChunkTypeOK, ChunkOK

\* Rows of a submitted position are of the types the tensors have.
LEMMA RowTypes ==
    /\ Zero \in Hidden /\ ZeroKV \in KVRows
    /\ \A req \in 0 .. Prompts, p \in 0 .. MaxPosition - 1 :
           <<req, p>> \in Hidden /\ <<req, p, p>> \in KVRows
  BY ChunkAssumption DEF Zero, ZeroKV, Hidden, KVRows

\* A row of a segment stands for a position of the chunk.
LEMMA PositionOfRow ==
    ASSUME NEW b \in Nat, NEW n \in 0 .. Capacity, NEW s \in Nat,
           NEW row \in 0 .. SegmentLength(n, s) - 1
    PROVE  /\ SegmentStart(b, n, s) + row \in b .. b + n - 1
           /\ row \in 0 .. SegmentRows - 1
           /\ SegmentStart(b, n, s) = b + s * Span(n) /\ s * Span(n) \in Nat
  <1>1. /\ Span(n) \in Nat /\ Span(n) <= SegmentRows /\ SegmentRows \in Nat /\ n \in Nat
    BY SpanFits, Sizes
  <1>2. /\ SegmentLength(n, s) \in 0 .. Span(n) /\ s * Span(n) \in Nat
        /\ SegmentLength(n, s) > 0 => s * Span(n) + SegmentLength(n, s) <= n
    BY LengthCases
  <1>3. SegmentStart(b, n, s) = b + s * Span(n)
    BY DEF SegmentStart
  <1> QED
    BY <1>1, <1>2, <1>3

\* The real rows a rank holds are those of its segment.
LEMMA LocalRow ==
    ASSUME ChunkTypeOK, ChunkOK, LocalExact, phase # "idle",
           NEW r \in Ranks, NEW part \in LocalParts,
           NEW row \in 0 .. SegmentLength(length, LocalSegment(r, part)) - 1
    PROVE  /\ local[r][<<part, row>>] =
                  <<prompt, SegmentStart(base, length, LocalSegment(r, part)) + row>>
           /\ SegmentStart(base, length, LocalSegment(r, part)) + row
                  \in base .. base + length - 1
  <1> DEFINE s == LocalSegment(r, part)
  <1>1. s \in Nat
    <2>1. s \in Segments
      BY Owners
    <2> QED
      BY <2>1, Sizes
  <1>2. base \in Nat /\ length \in 0 .. Capacity
    BY ChunkSizes
  <1> HIDE DEF s
  <1>3. row \in 0 .. SegmentLength(length, s) - 1
    BY DEF s
  <1>4. row \in 0 .. SegmentRows - 1 /\ SegmentStart(base, length, s) + row \in base .. base + length - 1
    BY <1>1, <1>2, <1>3, PositionOfRow
  <1>5. local[r][<<part, row>>] = Scattered(prompt, base, length, s, row)
    BY <1>4 DEF LocalExact, s
  <1>6. row < SegmentLength(length, s)
    <2>1. SegmentLength(length, s) \in 0 .. Span(length) /\ Span(length) \in Nat
      BY <1>1, <1>2, LengthCases, SpanFits
    <2> QED
      BY <1>3, <2>1
  <1> QED
    BY <1>4, <1>5, <1>6 DEF Scattered, s

\* A part's own source is its rows, each at its own position.
LEMMA LocalSource ==
    ASSUME ChunkTypeOK, ChunkOK, LocalExact, phase # "idle",
           NEW r \in Ranks, NEW part \in LocalParts,
           NEW row \in 0 .. SegmentLength(length, LocalSegment(r, part)) - 1
    PROVE  LET p == SegmentStart(base, length, LocalSegment(r, part)) + row
           IN  LocalKV(r, part, row) = <<prompt, p, p>>
  <1> DEFINE s == LocalSegment(r, part)
             p == SegmentStart(base, length, s) + row
  <1>1. local[r][<<part, row>>] = <<prompt, p>>
    BY LocalRow
  <1>2. row < SegmentLength(length, s)
    <2>1. s \in Nat
      BY Owners, Sizes
    <2>2. SegmentLength(length, s) \in 0 .. Span(length) /\ Span(length) \in Nat
      BY <2>1, LengthCases, SpanFits, ChunkSizes
    <2> QED
      BY <2>2
  <1>3. LocalKV(r, part, row) = KV(local[r][<<part, row>>], p)
    BY <1>2 DEF LocalKV
  <1> QED
    BY <1>1, <1>3 DEF KV

\* The predecessor's tail, in logical order, at the positions RoPE is given.
LEMMA PredecessorSource ==
    ASSUME ChunkTypeOK, ChunkOK, LogicalExact, phase \in {"tails", "staged"},
           NEW r \in Ranks, NEW part \in LocalParts, NEW row \in Rows,
           LocalSegment(r, part) > 0,
           SegmentLength(length, LocalSegment(r, part)) > 0
    PROVE  LET p == SegmentStart(base, length, LocalSegment(r, part)) - TailRows + row
           IN  PredecessorKV(r, part, row) = <<prompt, p, p>>
  <1> DEFINE s == LocalSegment(r, part)
             S == Span(length)
             p == SegmentStart(base, length, s) - TailRows + row
  <1>1. base \in Nat /\ length \in 0 .. Capacity /\ S \in Nat
    BY ChunkSizes, SpanFits
  <1>2. s \in Segments /\ s \in Nat /\ s > 0 /\ s - 1 \in Segments
    <2>1. s \in Segments
      BY Owners
    <2> QED
      BY <2>1, Sizes
  <1>3. TailRows \in Nat \ {0} /\ row \in 0 .. TailRows - 1
    BY Sizes
  <1>4. /\ TailLength(length, s - 1) = TailRows /\ TailStart(length, s - 1) = S - TailRows
        /\ (s - 1) * S = s * S - S /\ s * S \in Nat
    BY <1>1, <1>2, BeforeIsFull, LengthCases
  <1>5. /\ SegmentStart(base, length, s - 1) = base + (s - 1) * S
        /\ SegmentStart(base, length, s) = base + s * S
    BY DEF SegmentStart
  <1>6. SegmentStart(base, length, s - 1) + TailStart(length, s - 1) + row = p
    BY <1>1, <1>3, <1>4, <1>5
  <1>7. row < TailLength(length, s - 1)
    BY <1>3, <1>4
  <1>8. logical[s - 1][row] = <<prompt, p>>
    BY <1>2, <1>6, <1>7 DEF LogicalExact
  <1>9. TailPosition(base, length, s - 1, row) = p
    BY <1>6, <1>7 DEF TailPosition
  <1>10. Previous(base, length, s, 0).rows = TailRows
    BY <1>2, <1>4 DEF Previous
  <1>11. PredecessorKV(r, part, row) = KV(logical[s - 1][row], p)
    BY <1>2, <1>3, <1>9, <1>10 DEF PredecessorKV
  <1> QED
    BY <1>8, <1>11 DEF KV

\* Whatever source a real query's key is read from, its row is that key's.
LEMMA KeyResolved ==
    ASSUME ChunkTypeOK, ChunkOK, LocalExact, HistoryExact, LogicalExact, phase = "tails",
           NEW r \in Ranks, NEW part \in LocalParts, NEW tile \in Nat,
           NEW row \in Rows, NEW col \in Rows,
           row < Active(length, LocalSegment(r, part), tile)
    PROVE  LET s     == LocalSegment(r, part)
               key   == KeyOf(SegmentStart(base, length, s) + tile * TailRows + row, col)
               index == SwaIndex(base, length, s, tile, row, col)
           IN  /\ key \in Int /\ key < base + length
               /\ index >= 0 <=> key >= 0
               /\ key >= 0 => Resolve(r, part, tile, index, key) = <<prompt, key, key>>
               /\ key < 0 => Resolve(r, part, tile, index, key) = ZeroKV
  <1> DEFINE s == LocalSegment(r, part)
             T == TailRows
             start == SegmentStart(base, length, s) + tile * T
             key == KeyOf(start + row, col)
             index == SwaIndex(base, length, s, tile, row, col)
             prev == Previous(base, length, s, tile)
             total == SegmentLength(length, s)
             active == Active(length, s, tile)
             index0 == index - OverlayBase
             value == Resolve(r, part, tile, index, key)
             found == <<prompt, key, key>>
  <1>1. base \in Nat /\ length \in 0 .. Capacity /\ phase # "idle"
    BY ChunkSizes
  <1>2. s \in Nat
    BY Owners, Sizes
  <1>3. T \in Nat \ {0} /\ row \in 0 .. T - 1 /\ col \in 0 .. T - 1 /\ OverlayBase \in Nat
        /\ Rows = 0 .. T - 1
    BY Sizes, SizesAssumption
  <1>4. /\ active \in 0 .. T /\ active > 0 /\ row < active /\ tile * T \in Nat
        /\ \A i \in Rows : i < active <=> tile * T + i < total
        /\ tile > 0 => (tile - 1) * T = tile * T - T
    <2>1. /\ active \in 0 .. T /\ tile * T \in Nat
          /\ \A i \in Rows : i < active <=> tile * T + i < total
          /\ tile > 0 => (tile - 1) * T = tile * T - T
      BY <1>1, <1>2, ActiveRows
    <2>2. row < active
      OBVIOUS
    <2> HIDE DEF active
    <2> QED
      BY <2>1, <2>2, <1>3
  <1>5. total \in Nat /\ tile * T + row \in 0 .. total - 1
    <2>1. total \in 0 .. Span(length) /\ Span(length) \in Nat
      BY <1>1, <1>2, LengthCases, SpanFits
    <2>2. tile * T + row < total
      BY <1>4
    <2>3. tile * T \in Nat /\ row \in Nat
      BY <1>3, <1>4
    <2> HIDE DEF total
    <2>4. total \in Nat /\ tile * T + row \in Nat
      BY <2>1, <2>3
    <2> QED
      BY <2>2, <2>4
  <1>6. start + row < base + length /\ SegmentStart(base, length, s) \in Nat
    <2>1. SegmentStart(base, length, s) + (tile * T + row) \in base .. base + length - 1
          /\ SegmentStart(base, length, s) = base + s * Span(length) /\ s * Span(length) \in Nat
      BY <1>1, <1>2, <1>5, PositionOfRow
    <2> DEFINE o == SegmentStart(base, length, s)
               z == tile * T
    <2>2. o \in Nat
      BY <2>1, <1>1
    <2>3. o + (z + row) \in base .. base + length - 1 /\ z \in Nat
      BY <2>1, <1>4
    <2> HIDE DEF o, z
    <2>4. o + z + row < base + length
      BY <2>2, <2>3, <1>1, <1>3
    <2> QED
      BY <2>2, <2>4 DEF o, z
  <1>7. /\ key \in Int /\ key <= start + row
        /\ key >= start => index = OverlayBase + T + key - start
        /\ key < start /\ (s > 0 \/ tile > 0) =>
               index = OverlayBase + key - (start - T) /\ key - (start - T) \in Rows
        /\ key < start /\ s = 0 /\ tile = 0 =>
               index = IF key \in 0 .. base - 1 THEN Slot(key) ELSE -1
    BY <1>1, <1>2, IndexOfKey
  <1>8. /\ start \in Nat /\ start >= base
        /\ s = 0 /\ tile = 0 => start = base
        /\ s > 0 \/ tile > 0 => prev.rows = T /\ prev.start = start - T /\ start - T >= base
    BY <1>1, <1>2, <1>4, PreviousRows
  <1>9. value = CASE index < 0 -> ZeroKV
                  [] index >= 0 /\ key < base ->
                         IF key - base + T >= 0 THEN history[key - base + T] ELSE ZeroKV
                  [] index >= 0 /\ key >= base -> FromOverlay(r, part, tile, index - OverlayBase, key)
    BY DEF Resolve
  <1>10. key < base + length
    <2>1. start + row \in Int /\ base + length \in Int
      BY <1>1, <1>3, <1>8
    <2> QED
      BY <1>6, <1>7, <2>1
  <1>11. FromOverlay(r, part, tile, index0, key) =
           CASE index0 >= T /\ index0 - T < active /\ start + (index0 - T) = key ->
                  LocalKV(r, part, tile * T + (index0 - T))
             [] index0 \in 0 .. T - 1 /\ index0 < prev.rows /\ prev.start + index0 = key ->
                  IF tile = 0 THEN PredecessorKV(r, part, index0)
                  ELSE LocalKV(r, part, (tile - 1) * T + index0)
             [] OTHER -> ZeroKV
    <2>1. FromOverlay(r, part, tile, index0, key) =
           CASE index0 >= T /\ index0 - T < active
                /\ SegmentStart(base, length, s) + tile * T + index0 - T = key ->
                  LocalKV(r, part, tile * T + index0 - T)
             [] index0 \in 0 .. T - 1 /\ index0 < prev.rows /\ prev.start + index0 = key ->
                  IF tile = 0 THEN PredecessorKV(r, part, index0)
                  ELSE LocalKV(r, part, (tile - 1) * T + index0)
             [] OTHER -> ZeroKV
      BY DEF FromOverlay
    <2>2. tile * T + index0 - T = tile * T + (index0 - T)
          /\ SegmentStart(base, length, s) + tile * T + index0 - T = start + (index0 - T)
      OBVIOUS
    <2> QED
      BY <2>1, <2>2
  <1>12. \A x \in 0 .. total - 1 :
            LocalKV(r, part, x) = <<prompt, SegmentStart(base, length, s) + x,
                                             SegmentStart(base, length, s) + x>>
    BY <1>1, LocalSource
  <1>13. s > 0 => \A x \in Rows :
            PredecessorKV(r, part, x) = <<prompt, SegmentStart(base, length, s) - T + x,
                                                   SegmentStart(base, length, s) - T + x>>
    <2>1. total > 0
      BY <1>5, <1>3, <1>4
    <2> QED
      BY <2>1, PredecessorSource
  <1>14. start = SegmentStart(base, length, s) + tile * T
    OBVIOUS
  <1> DEFINE origin == SegmentStart(base, length, s)
  <1> HIDE DEF start, key, index, prev, total, active, value, origin, s, T, index0
  <1>15. /\ \A x \in 0 .. total - 1 : LocalKV(r, part, x) = <<prompt, origin + x, origin + x>>
         /\ s > 0 => \A x \in Rows : PredecessorKV(r, part, x) = <<prompt, origin - T + x, origin - T + x>>
         /\ start = origin + tile * T /\ origin \in Nat
    BY <1>6, <1>12, <1>13, <1>14 DEF origin
  \* In the tile itself.
  <1>20. ASSUME key >= start PROVE index >= 0 /\ value = found /\ key >= 0
    <2> DEFINE x == key - start
    <2>1. x \in 0 .. row /\ index0 = T + x /\ index >= 0 /\ key >= 0 /\ key >= base
      BY <1>1, <1>3, <1>7, <1>8, <1>20 DEF index0
    <2> HIDE DEF x
    <2>2. x < active /\ x \in Rows /\ tile * T + x < total
      BY <2>1, <1>3, <1>4
    <2>3. index0 >= T /\ index0 - T = x /\ start + (index0 - T) = key
      BY <2>1, <1>3, <1>7, <1>8 DEF x
    <2>4. value = FromOverlay(r, part, tile, index0, key)
      BY <1>1, <1>7, <1>9, <2>1 DEF index0
    <2>5. value = LocalKV(r, part, tile * T + x)
      <3>1. FromOverlay(r, part, tile, index0, key) = LocalKV(r, part, tile * T + (index0 - T))
        BY <1>3, <1>4, <1>11, <2>1, <2>2, <2>3
      <3> QED
        BY <2>3, <2>4, <3>1
    <2>6. tile * T + x \in 0 .. total - 1 /\ origin + (tile * T + x) = key
      BY <1>4, <1>5, <1>7, <1>15, <2>1, <2>2 DEF x
    <2>7. value = found
      BY <1>15, <2>5, <2>6
    <2> QED
      BY <2>1, <2>7
  \* In the tile or the tail before it.
  <1>21. ASSUME key < start, s > 0 \/ tile > 0 PROVE index >= 0 /\ value = found /\ key >= 0
    <2> DEFINE x == key - (start - T)
    <2>1. /\ x \in 0 .. T - 1 /\ index0 = x /\ index >= 0 /\ key >= 0 /\ key >= base
      BY <1>1, <1>3, <1>7, <1>8, <1>21 DEF index0
    <2>2. ~ index0 >= T /\ index0 \in 0 .. T - 1 /\ index0 < prev.rows /\ prev.start + index0 = key
      BY <2>1, <1>3, <1>7, <1>8, <1>21
    <2>3. value = FromOverlay(r, part, tile, index0, key)
      BY <1>1, <1>7, <1>9, <2>1 DEF index0
    <2>4. value = IF tile = 0 THEN PredecessorKV(r, part, x) ELSE LocalKV(r, part, (tile - 1) * T + x)
      BY <1>11, <2>1, <2>2, <2>3
    <2>5. CASE tile = 0
      <3>1. origin = start /\ s > 0
        <4>1. tile * T = 0
          BY <2>5, <1>3
        <4> QED
          BY <4>1, <1>15, <1>21, <2>5
      <3>2. origin - T + x = key /\ x \in Rows
        BY <3>1, <1>3, <1>7, <1>8, <2>1
      <3>3. value = found
        BY <1>15, <2>4, <2>5, <3>1, <3>2
      <3> QED
        BY <2>1, <3>3
    <2>6. CASE tile > 0
      <3> DEFINE y == (tile - 1) * T
                 z == tile * T
      <3>0. y \in Nat /\ y = z - T /\ z \in Nat /\ z + row < total /\ start = origin + z
        BY <1>3, <1>4, <1>5, <1>15, <2>6
      <3> HIDE DEF y, z
      <3>1. y + x \in 0 .. total - 1 /\ origin + (y + x) = key
        BY <3>0, <1>3, <1>5, <1>7, <1>15, <2>1
      <3>2. value = found
        BY <1>15, <2>4, <2>6, <3>1 DEF y
      <3> QED
        BY <2>1, <3>2
    <2> QED
      BY <2>5, <2>6
  \* Before the chunk.
  <1>22. ASSUME key < start, s = 0, tile = 0
         PROVE  (index >= 0 <=> key >= 0) /\ (key >= 0 => value = found)
    <2>1. start = base /\ index = IF key \in 0 .. base - 1 THEN Slot(key) ELSE -1
      BY <1>7, <1>8, <1>22
    <2>2. CASE key < 0
      BY <2>1, <2>2, <1>7
    <2>3. CASE key >= 0
      <3>1. key \in 0 .. base - 1 /\ key \in Nat
        BY <1>1, <1>7, <1>22, <2>1, <2>3
      <3>2. index = Slot(key) /\ index >= 0 /\ key < base
        BY <2>1, <3>1, SlotInCache, <1>1
      <3>3. key >= start - T + 1
        <4>1. key = start + row - T + 1 + col
          BY <1>3, <1>8 DEF key, KeyOf, T
        <4> QED
          BY <4>1, <1>3, <1>8
      <3>4. key - base + T \in Rows /\ key - base + T >= 0
            /\ base - T + (key - base + T) = key
        BY <1>1, <1>3, <1>7, <2>1, <3>2, <3>3
      <3>5. value = history[key - base + T]
        BY <1>9, <3>2, <3>4, <1>7, <1>1
      <3>6. \A i \in Rows : base - T + i >= 0 =>
                history[i] = <<prompt, base - T + i, base - T + i>>
        BY DEF HistoryExact, T
      <3>7. value = found
        BY <3>4, <3>5, <3>6, <2>3
      <3> QED
        BY <2>3, <3>2, <3>7
    <2> QED
      BY <2>2, <2>3, <1>7
  <1>23. index \in Int /\ (index < 0 => value = ZeroKV)
    <2>1. index \in Int
      <3>1. \A k \in 0 .. base - 1 : Slot(k) \in Int
        BY <1>1, SlotInCache
      <3>2. CASE key >= start
        BY <3>2, <1>3, <1>7, <1>8
      <3>3. CASE key < start /\ (s > 0 \/ tile > 0)
        BY <3>3, <1>3, <1>7, <1>8
      <3>4. CASE key < start /\ s = 0 /\ tile = 0
        BY <3>1, <3>4, <1>7
      <3> QED
        BY <3>2, <3>3, <3>4, <1>2, <1>7, <1>8
    <2> QED
      BY <1>9, <2>1
  <1>24. (index >= 0 <=> key >= 0) /\ (key >= 0 => value = found)
    <2>1. CASE key >= start
      BY <2>1, <1>20
    <2>2. CASE key < start /\ (s > 0 \/ tile > 0)
      BY <2>2, <1>21
    <2>3. CASE key < start /\ s = 0 /\ tile = 0
      BY <2>3, <1>22
    <2> QED
      BY <2>1, <2>2, <2>3, <1>2, <1>7, <1>8
  <1> QED
    BY <1>7, <1>10, <1>23, <1>24 DEF key, index, value, start, s, T

\* A staged row is the row of one key, the same whichever query reads it.
LEMMA StagedRows ==
    ASSUME ChunkTypeOK, ChunkOK, LocalExact, HistoryExact, LogicalExact, phase = "tails",
           NEW r \in Ranks, NEW part \in LocalParts,
           NEW p \in 0 .. SegmentRows + TailRows - 1
    PROVE  /\ StagedRow(r, part, p) \in KVRows
           /\ \A tile \in Nat, row \in Rows, col \in Rows :
                  LET s   == LocalSegment(r, part)
                      key == KeyOf(SegmentStart(base, length, s) + tile * TailRows + row, col)
                  IN  row < Active(length, s, tile) /\ p = tile * TailRows + row + 1 + col
                      /\ key >= 0 =>
                          StagedRow(r, part, p) = <<prompt, key, key>>
  <1> DEFINE s == LocalSegment(r, part)
             T == TailRows
             start == SegmentStart(base, length, s)
             own == Larger(p - T, 0)
             tile0 == own \div T
             row0 == own % T
             col0 == p - 1 - own
             key0 == KeyOf(start + own, col0)
             used == p >= 1 /\ row0 < Active(length, s, tile0) /\ col0 < T
             value == Resolve(r, part, tile0, SwaIndex(base, length, s, tile0, row0, col0), key0)
  <1>1. base \in Nat /\ length \in 0 .. Capacity
    BY ChunkSizes
  <1>2. s \in Nat
    BY Owners, Sizes
  <1>3. T \in Nat \ {0} /\ Rows = 0 .. T - 1 /\ p \in Nat
    BY Sizes
  <1>4. start \in Nat
    <2>1. Span(length) \in Nat
      BY <1>1, SpanFits
    <2>2. s * Span(length) \in Nat
      BY <1>2, <2>1
    <2> QED
      BY <1>1, <2>2 DEF SegmentStart
  <1>5. own = (IF p >= T THEN p - T ELSE 0) /\ own \in Nat
    BY <1>3 DEF Larger
  <1>6. tile0 \in Nat /\ row0 \in Rows /\ own = tile0 * T + row0
    <2>1. own \in Int /\ own >= 0
      BY <1>5
    <2> HIDE DEF own, T
    <2>2. own \div T \in Int /\ own \div T >= 0 /\ own % T \in 0 .. T - 1
          /\ own = (own \div T) * T + (own % T)
      BY <1>3, <2>1, DivMod
    <2> QED
      BY <1>3, <2>2
  <1>7. StagedRow(r, part, p) = IF used THEN value ELSE ZeroKV
    BY DEF StagedRow
  <1>8. p >= 1 => col0 \in Rows
    BY <1>3, <1>5
  <1>9. key0 = start + p - T
    BY <1>3, <1>4, <1>5 DEF KeyOf
  <1>10. ASSUME used
         PROVE  /\ key0 \in Int /\ key0 < base + length
                /\ key0 >= 0 => value = <<prompt, key0, key0>>
                /\ key0 < 0 => value = ZeroKV
    <2>1. col0 \in Rows /\ row0 < Active(length, s, tile0)
      BY <1>8, <1>10
    <2>2. start + tile0 * T + row0 = start + own
      <3> DEFINE z == tile0 * T
      <3>1. z \in Nat /\ own = z + row0 /\ row0 \in Nat
        <4> HIDE DEF own, tile0, row0, T
        <4> QED
          BY <1>3, <1>6
      <3> HIDE DEF z, own, row0, start
      <3> QED
        BY <1>4, <3>1 DEF z
    <2>3. /\ KeyOf(start + tile0 * T + row0, col0) \in Int
          /\ KeyOf(start + tile0 * T + row0, col0) < base + length
          /\ KeyOf(start + tile0 * T + row0, col0) >= 0 =>
                Resolve(r, part, tile0, SwaIndex(base, length, s, tile0, row0, col0),
                        KeyOf(start + tile0 * T + row0, col0))
                  = <<prompt, KeyOf(start + tile0 * T + row0, col0),
                               KeyOf(start + tile0 * T + row0, col0)>>
          /\ KeyOf(start + tile0 * T + row0, col0) < 0 =>
                Resolve(r, part, tile0, SwaIndex(base, length, s, tile0, row0, col0),
                        KeyOf(start + tile0 * T + row0, col0)) = ZeroKV
      <3> HIDE DEF tile0, row0, col0
      <3> QED
        BY <1>6, <2>1, KeyResolved
    <2> HIDE DEF tile0, row0, col0, own, start, s, T
    <2> QED
      BY <2>2, <2>3
  <1>11. StagedRow(r, part, p) \in KVRows
    <2>1. CASE ~ used
      BY <2>1, <1>7, RowTypes
    <2>2. CASE used
      <3>1. StagedRow(r, part, p) = value
        BY <1>7, <2>2
      <3>2. /\ key0 \in Int /\ key0 < base + length
            /\ key0 >= 0 => value = <<prompt, key0, key0>>
            /\ key0 < 0 => value = ZeroKV
        BY <1>10, <2>2
      <3> HIDE DEF key0, value
      <3>3. key0 >= 0 => key0 \in 0 .. MaxPosition - 1
        BY <1>1, <3>2, ChunkSizes
      <3>4. prompt \in 0 .. Prompts
        BY ChunkSizes
      <3>5. CASE key0 < 0
        BY <3>1, <3>2, <3>5, RowTypes
      <3>6. CASE key0 >= 0
        BY <3>1, <3>2, <3>3, <3>4, <3>6, RowTypes
      <3> QED
        BY <3>2, <3>5, <3>6
    <2> QED
      BY <2>1, <2>2
  <1>12. ASSUME NEW tile \in Nat, NEW row \in Rows, NEW col \in Rows,
                row < Active(length, s, tile), p = tile * T + row + 1 + col,
                KeyOf(start + tile * T + row, col) >= 0
         PROVE  StagedRow(r, part, p) = <<prompt, KeyOf(start + tile * T + row, col),
                                                   KeyOf(start + tile * T + row, col)>>
    <2> DEFINE z == tile * T
               total == SegmentLength(length, s)
    <2>1. z \in Nat /\ z + row < total
      BY <1>1, <1>2, <1>12, ActiveRows
    <2>2. total \in Nat
      <3>1. total \in 0 .. Span(length) /\ Span(length) \in Nat
        BY <1>1, <1>2, LengthCases, SpanFits
      <3> QED
        BY <3>1
    <2>3. p = z + row + 1 + col /\ row \in 0 .. T - 1 /\ col \in 0 .. T - 1
      BY <1>3, <1>12
    <2>4. KeyOf(start + z + row, col) = start + z + row - T + 1 + col
      BY <1>3, <1>4, <2>1, <2>3 DEF KeyOf
    <2> HIDE DEF z, total
    <2>5. KeyOf(start + z + row, col) = key0 /\ p >= 1
      <3> HIDE DEF key0, start, T
      <3> QED
        BY <1>3, <1>4, <1>9, <2>1, <2>3, <2>4
    <2>6. own \in 0 .. total - 1
      <3> HIDE DEF T
      <3> QED
        BY <1>3, <1>5, <2>1, <2>2, <2>3
    <2>7. row0 < Active(length, s, tile0)
      <3> HIDE DEF own
      <3> QED
        BY <1>1, <1>2, <2>6, TileOfRow DEF total
    <2>8. col0 < T
      BY <1>3, <1>8, <2>5
    <2>9. used
      BY <2>5, <2>7, <2>8
    <2>10. key0 >= 0
      BY <1>12, <2>5 DEF z
    <2>11. StagedRow(r, part, p) = <<prompt, key0, key0>>
      BY <1>7, <1>10, <2>9, <2>10
    <2> QED
      BY <2>5, <2>11 DEF z
  <1> QED
    BY <1>11, <1>12

-----------------------------------------------------------------------------
(***************************************************************************)
(* Tails.                                                                  *)
(***************************************************************************)

\* A row of a chunk's last window is a row of the tail of its segment.
LEMMA TailHolds ==
    ASSUME NEW n \in 0 .. Capacity, NEW i \in 0 .. n - 1, i >= n - TailRows
    PROVE  LET s   == i \div Span(n)
               row == i - s * Span(n) - TailStart(n, s)
           IN  /\ s \in Segments /\ s * Span(n) \in Nat /\ TailStart(n, s) \in Nat
               /\ row \in Rows /\ row < TailLength(n, s)
               /\ s * Span(n) + TailStart(n, s) + row = i
               /\ TailStart(n, s) + row < SegmentLength(n, s)
  <1> DEFINE S == Span(n)
             s == i \div S
             rest == i % S
             total == SegmentLength(n, s)
  <1>1. S \in Nat \ {0} /\ TailRows \in Nat \ {0} /\ Rows = 0 .. TailRows - 1 /\ n \in Nat
    BY SpanFits, Sizes
  <1>2. s \in Segments /\ rest \in 0 .. total - 1 /\ i = s * S + rest
    BY Located
  <1>3. s \in Nat
    BY <1>2, Sizes
  <1>4. s * S \in Nat /\ total \in 0 .. S
        /\ total = (IF n <= s * S THEN 0 ELSE IF n <= s * S + S THEN n - s * S ELSE S)
    BY <1>3, LengthCases
  <1> DEFINE z == s * S
  <1>5. /\ z \in Nat /\ i = z + rest /\ total \in Nat /\ total <= S
        /\ total = (IF n <= z THEN 0 ELSE IF n <= z + S THEN n - z ELSE S)
        /\ rest \in Nat /\ rest < total
    <2> HIDE DEF total, rest, S
    <2> QED
      BY <1>1, <1>2, <1>4
  <1>6. /\ TailStart(n, s) = (IF total - TailRows >= 0 THEN total - TailRows ELSE 0)
        /\ TailLength(n, s) = (IF TailRows <= total THEN TailRows ELSE total)
    BY <1>1, <1>4 DEF TailStart, TailLength, Larger, Smaller
  <1> DEFINE ts == TailStart(n, s)
             tl == TailLength(n, s)
             row == i - z - ts
  <1> HIDE DEF S, s, rest, total, z, ts, tl
  <1>7. ts = (IF total - TailRows >= 0 THEN total - TailRows ELSE 0)
        /\ tl = (IF TailRows <= total THEN TailRows ELSE total)
    BY <1>6 DEF ts, tl
  <1>8. ts \in Nat /\ row = rest - ts
    BY <1>1, <1>5, <1>7
  <1>9. row \in Rows /\ row < tl /\ z + ts + row = i /\ ts + row < total
    BY <1>1, <1>5, <1>7, <1>8
  <1> QED
    BY <1>2, <1>5, <1>8, <1>9 DEF S, s, z, ts, tl, total

\* What a rank publishes as a tail: the segment's last rows in order, then zero.
LEMMA TailRow ==
    ASSUME ChunkTypeOK, ChunkOK, LocalExact, phase # "idle",
           NEW r \in Ranks, NEW part \in LocalParts, NEW i \in Nat
    PROVE  LET s == LocalSegment(r, part)
           IN  /\ TailStart(length, s) \in Nat
               /\ Tail(r, part, i) =
                    IF TailStart(length, s) + i < SegmentLength(length, s)
                      THEN <<prompt, SegmentStart(base, length, s) + TailStart(length, s) + i>>
                      ELSE Zero
               /\ Tail(r, part, i) \in Hidden
               /\ i < TailLength(length, s) => TailStart(length, s) + i < SegmentLength(length, s)
  <1> DEFINE s == LocalSegment(r, part)
             total == SegmentLength(length, s)
             first == Larger(total - TailRows, 0)
             origin == SegmentStart(base, length, s)
  <1>1. /\ base \in Nat /\ length \in 0 .. Capacity /\ TailRows \in Nat \ {0}
        /\ base + length <= MaxPosition /\ MaxPosition \in Nat /\ length \in Nat
    BY ChunkSizes, Sizes
  <1>2. s \in Nat
    BY Owners, Sizes
  <1>3. total \in Nat
    <2>1. total \in 0 .. Span(length) /\ Span(length) \in Nat
      BY <1>1, <1>2, LengthCases, SpanFits
    <2> QED
      BY <2>1
  <1>4. first = TailStart(length, s) /\ first \in Nat
    BY <1>1, <1>3 DEF TailStart, Larger
  <1>5. Tail(r, part, i) = IF first + i < total THEN local[r][<<part, first + i>>] ELSE Zero
    BY DEF Tail
  <1>6. ASSUME first + i < total
        PROVE  /\ local[r][<<part, first + i>>] = <<prompt, origin + (first + i)>>
               /\ origin + (first + i) \in base .. base + length - 1
               /\ origin \in Nat
    <2>1. first + i \in 0 .. total - 1
      BY <1>3, <1>4, <1>6
    <2>2. origin = base + s * Span(length) /\ s * Span(length) \in Nat
      BY <1>1, <1>2, <2>1, PositionOfRow
    <2> HIDE DEF first
    <2> QED
      BY <1>1, <2>1, <2>2, LocalRow
  <1>7. i < TailLength(length, s) => first + i < total
    BY <1>1, <1>3, <1>4 DEF TailLength, TailStart, Larger, Smaller
  <1>8. CASE first + i < total
    <2>1. Tail(r, part, i) = <<prompt, origin + (first + i)>>
      BY <1>5, <1>6, <1>8
    <2>2. origin + (first + i) = origin + first + i
      BY <1>4, <1>6, <1>8
    <2>3. origin + (first + i) \in 0 .. MaxPosition - 1
      BY <1>1, <1>6, <1>8
    <2>4. prompt \in 0 .. Prompts
      BY ChunkSizes
    <2>5. Tail(r, part, i) \in Hidden
      BY <2>1, <2>3, <2>4, RowTypes
    <2> HIDE DEF first
    <2> QED
      BY <1>4, <1>7, <1>8, <2>1, <2>2, <2>5
  <1>9. CASE ~ first + i < total
    BY <1>4, <1>5, <1>7, <1>9, RowTypes
  <1> QED
    BY <1>8, <1>9

\* The window row the owner writes for a position of the chunk is that position's.
LEMMA WindowRow ==
    ASSUME ChunkTypeOK, ChunkOK, LogicalExact, phase = "staged", NEW row \in Rows
    PROVE  LET p    == base + length - TailRows + row
               from == WindowSource(base, length, row)
           IN  /\ from.segment >= 0 <=> p >= base
               /\ p \in Int /\ p < base + length
               /\ p >= base =>
                    KV(logical[from.segment][from.row],
                       TailPosition(base, length, from.segment, from.row)) = <<prompt, p, p>>
  <1> DEFINE p == base + length - TailRows + row
             S == Span(length)
             i == p - base
             s == i \div S
             from == WindowSource(base, length, row)
  <1>1. /\ base \in Nat /\ length \in 0 .. Capacity /\ length \in Nat
        /\ TailRows \in Nat \ {0} /\ row \in 0 .. TailRows - 1
    BY ChunkSizes, Sizes
  <1>2. p \in Int /\ p < base + length
    BY <1>1
  <1>3. from = IF p < base THEN [segment |-> -1, row |-> -1]
               ELSE [segment |-> s,
                     row |-> p - SegmentStart(base, length, s) - TailStart(length, s)]
    BY DEF WindowSource
  <1>4. CASE p < base
    BY <1>1, <1>2, <1>3, <1>4
  <1>5. CASE p >= base
    <2>1. i \in 0 .. length - 1 /\ i >= length - TailRows
      BY <1>1, <1>2, <1>5
    <2> DEFINE at == i - s * S - TailStart(length, s)
    <2>2. /\ s \in Segments /\ s * S \in Nat /\ TailStart(length, s) \in Nat
          /\ at \in Rows /\ at < TailLength(length, s)
          /\ s * S + TailStart(length, s) + at = i
      <3> HIDE DEF i
      <3> QED
        BY <1>1, <2>1, TailHolds
    <2>3. SegmentStart(base, length, s) = base + s * S
      BY DEF SegmentStart
    <2>4. p - SegmentStart(base, length, s) - TailStart(length, s) = at
      <3> DEFINE z == s * S
      <3>1. z \in Nat
        BY <2>2
      <3> HIDE DEF z, s, p
      <3> QED
        BY <1>1, <1>2, <2>2, <2>3, <3>1 DEF z
    <2>5. SegmentStart(base, length, s) + TailStart(length, s) + at = p
      <3> DEFINE z == s * S
      <3>1. z \in Nat /\ i = p - base /\ at \in Int /\ z + TailStart(length, s) + at = i
        BY <1>1, <2>2
      <3>2. SegmentStart(base, length, s) = base + z
        BY <2>3
      <3> HIDE DEF z, s, p, at, i
      <3> QED
        BY <1>1, <1>2, <2>2, <3>1, <3>2
    <2>6. ~ p < base
      BY <1>1, <1>2, <1>5
    <2> HIDE DEF at, s, p, i
    <2>7. from = [segment |-> s, row |-> at]
      BY <1>3, <2>4, <2>6
    <2>8. logical[s][at] = <<prompt, p>>
      BY <2>2, <2>5 DEF LogicalExact
    <2>9. TailPosition(base, length, s, at) = p
      BY <2>2, <2>5 DEF TailPosition
    <2>10. from.segment >= 0
      BY <2>2, <2>7, Sizes
    <2> QED
      BY <1>2, <1>5, <2>7, <2>8, <2>9, <2>10 DEF KV, p
  <1> QED
    BY <1>1, <1>2, <1>4, <1>5

\* The commit writes the chunk's part of the last window, and leaves the rows that
\* hold earlier positions of it alone.
LEMMA CommitExact ==
    ASSUME ChunkTypeOK, ChunkOK, LogicalExact, phase = "staged", CacheHolds(base),
           NEW c \in CacheRows
    PROVE  /\ Committed(c) \in KVRows
           /\ \A p \in Larger(0, base + length - TailRows) .. base + length - 1 :
                  Slot(p) = c => Committed(c) = <<prompt, p, p>>
  <1> DEFINE at(row) == base + length - TailRows + row
             writers == {row \in Rows : /\ WindowSource(base, length, row).segment >= 0
                                        /\ Slot(at(row)) = c}
             chosen == CHOOSE row \in writers : TRUE
             from == WindowSource(base, length, chosen)
  <1>1. /\ base \in Nat /\ length \in Nat /\ TailRows \in Nat \ {0}
        /\ base + length <= MaxPosition /\ MaxPosition \in Nat /\ Rows = 0 .. TailRows - 1
        /\ prompt \in 0 .. Prompts
    BY ChunkSizes, Sizes
  <1>2. Committed(c) = IF writers = {} THEN cache[c]
                       ELSE KV(logical[from.segment][from.row],
                               TailPosition(base, length, from.segment, from.row))
    BY DEF Committed
  <1>3. \A row \in Rows :
            /\ at(row) \in Int /\ at(row) < base + length
            /\ row \in writers <=> at(row) >= base /\ Slot(at(row)) = c
            /\ row \in writers =>
                 KV(logical[WindowSource(base, length, row).segment][WindowSource(base, length, row).row],
                    TailPosition(base, length, WindowSource(base, length, row).segment,
                                 WindowSource(base, length, row).row))
                   = <<prompt, at(row), at(row)>>
    BY WindowRow
  <1>4. writers \subseteq Rows
    OBVIOUS
  <1> HIDE DEF writers
  <1>5. CASE writers = {}
    <2>1. Committed(c) = cache[c] /\ cache[c] \in KVRows
      BY <1>2, <1>5 DEF ChunkTypeOK
    <2>2. ASSUME NEW p \in Larger(0, base + length - TailRows) .. base + length - 1,
                 Slot(p) = c
          PROVE  cache[c] = <<prompt, p, p>>
      <3> DEFINE row == p - (base + length - TailRows)
      <3>1. p \in Nat /\ p < base + length /\ p >= base + length - TailRows
        BY <1>1 DEF Larger
      <3>2. row \in Rows /\ at(row) = p
        BY <1>1, <3>1
      <3>3. ~ p >= base
        <4> HIDE DEF row
        <4> QED
          BY <1>3, <1>5, <2>2, <3>2
      <3>4. p \in Larger(0, base - TailRows) .. base - 1
        BY <1>1, <3>1, <3>3 DEF Larger
      <3> QED
        BY <2>2, <3>4 DEF CacheHolds
    <2> QED
      BY <2>1, <2>2
  <1>6. CASE writers # {}
    <2>1. chosen \in writers /\ chosen \in Rows
      BY <1>4, <1>6
    <2> HIDE DEF chosen
    <2>2. /\ at(chosen) \in Int /\ at(chosen) < base + length
          /\ at(chosen) >= base /\ Slot(at(chosen)) = c
          /\ Committed(c) = <<prompt, at(chosen), at(chosen)>>
      BY <1>2, <1>3, <1>6, <2>1
    <2>3. at(chosen) \in 0 .. MaxPosition - 1
      BY <1>1, <2>2
    <2>4. Committed(c) \in KVRows
      BY <1>1, <2>2, <2>3, RowTypes
    <2>5. ASSUME NEW p \in Larger(0, base + length - TailRows) .. base + length - 1,
                 Slot(p) = c
          PROVE  p = at(chosen)
      <3>1. p \in Nat /\ p < base + length /\ p >= base + length - TailRows
        BY <1>1 DEF Larger
      <3>2. at(chosen) >= base + length - TailRows
        BY <1>1, <2>1
      <3>3. at(chosen) \in Nat
        BY <2>3, <1>1
      <3> HIDE DEF at
      <3>4. p - at(chosen) < TailRows /\ at(chosen) - p < TailRows
        BY <1>1, <2>2, <3>1, <3>2, <3>3
      <3> QED
        BY <2>2, <2>5, <3>1, <3>3, <3>4, SlotsDistinct
    <2> HIDE DEF at
    <2> QED
      BY <2>2, <2>4, <2>5
  <1> QED
    BY <1>5, <1>6

-----------------------------------------------------------------------------
(***************************************************************************)
(* The output.                                                             *)
(***************************************************************************)

\* The slab of a segment's owner has the row of every position of the chunk.
LEMMA GatheredRow ==
    ASSUME ChunkTypeOK, ChunkOK, LocalExact, phase # "idle", NEW i \in 0 .. length - 1
    PROVE  /\ Slab(i \div Span(length), i % Span(length)) = <<prompt, base + i>>
           /\ <<prompt, base + i>> \in Hidden
  <1> DEFINE S == Span(length)
             s == i \div S
             rest == i % S
  <1>1. /\ base \in Nat /\ length \in 0 .. Capacity /\ length \in Nat
        /\ base + length <= MaxPosition /\ MaxPosition \in Nat /\ prompt \in 0 .. Prompts
    BY ChunkSizes, Sizes
  <1>2. s \in Segments /\ rest \in 0 .. SegmentLength(length, s) - 1 /\ i = s * S + rest
    BY <1>1, Located
  <1>3. s \in Nat
    BY <1>2, Sizes
  <1> DEFINE r == OwnerRank(s)
             part == OwnerPart(s)
  <1>4. r \in Ranks /\ part \in LocalParts /\ LocalSegment(r, part) = s
    BY <1>2, Owners
  <1> HIDE DEF s, rest, r, part, S
  <1>5. local[r][<<part, rest>>] = <<prompt, SegmentStart(base, length, s) + rest>>
    BY <1>2, <1>4, LocalRow
  <1>6. SegmentStart(base, length, s) + rest = base + i
    <2>1. SegmentStart(base, length, s) = base + s * S /\ s * S \in Nat
      BY <1>1, <1>2, <1>3, PositionOfRow DEF S
    <2>2. rest \in Int
      BY <1>2
    <2> DEFINE z == s * S
    <2>3. z \in Nat /\ SegmentStart(base, length, s) = base + z /\ i = z + rest
      BY <1>2, <2>1
    <2> HIDE DEF z
    <2> QED
      BY <1>1, <2>2, <2>3
  <1>7. Slab(s, rest) = local[r][<<part, rest>>]
    BY DEF Slab, r, part
  <1>8. base + i \in 0 .. MaxPosition - 1
    BY <1>1
  <1> QED
    BY <1>1, <1>5, <1>6, <1>7, <1>8, RowTypes DEF s, rest, S

\* The rows for the next stage are the chunk's last ones.
LEMMA LastRows ==
    ASSUME ChunkTypeOK, ChunkOK, LocalExact, phase # "idle", NEW i \in Rows
    PROVE  /\ LastRow(i) = IF i < Smaller(TailRows, length)
                             THEN <<prompt, base + Larger(0, length - TailRows) + i>> ELSE Zero
           /\ LastRow(i) \in Hidden
  <1> DEFINE S == Span(length)
             p == Larger(0, length - TailRows) + i
             s == p \div S
             offset == p - s * S - TailStart(length, s)
  <1>1. /\ base \in Nat /\ length \in 0 .. Capacity /\ length \in Nat
        /\ base + length <= MaxPosition /\ MaxPosition \in Nat /\ prompt \in 0 .. Prompts
        /\ TailRows \in Nat \ {0} /\ i \in 0 .. TailRows - 1
    BY ChunkSizes, Sizes
  <1>2. LastRow(i) = IF i < Smaller(TailRows, length)
                       THEN Tail(OwnerRank(s), OwnerPart(s), offset) ELSE Zero
    BY DEF LastRow
  <1>3. CASE ~ i < Smaller(TailRows, length)
    BY <1>2, <1>3, RowTypes
  <1>4. CASE i < Smaller(TailRows, length)
    <2>1. p \in 0 .. length - 1 /\ p >= length - TailRows
          /\ base + p = base + Larger(0, length - TailRows) + i
      BY <1>1, <1>4 DEF Larger, Smaller
    <2> HIDE DEF p
    <2>2. /\ s \in Segments /\ s * S \in Nat /\ TailStart(length, s) \in Nat
          /\ offset \in Rows /\ offset < TailLength(length, s)
          /\ s * S + TailStart(length, s) + offset = p
          /\ TailStart(length, s) + offset < SegmentLength(length, s)
      BY <1>1, <2>1, TailHolds
    <2> DEFINE r == OwnerRank(s)
               part == OwnerPart(s)
    <2>3. r \in Ranks /\ part \in LocalParts /\ LocalSegment(r, part) = s
      BY <2>2, Owners
    <2>4. offset \in Nat
      <3> HIDE DEF offset
      <3> QED
        BY <2>2, Sizes
    <2>5. SegmentStart(base, length, s) + TailStart(length, s) + offset = base + p
      <3> DEFINE z == s * S
      <3>1. SegmentStart(base, length, s) = base + z
        BY DEF SegmentStart
      <3> HIDE DEF offset
      <3>2. z \in Nat /\ z + TailStart(length, s) + offset = p
        BY <2>2
      <3> HIDE DEF z, s
      <3> QED
        BY <1>1, <2>1, <2>2, <2>4, <3>1, <3>2
    <2> HIDE DEF s, offset, r, part
    <2>6. Tail(r, part, offset) = <<prompt, SegmentStart(base, length, s) + TailStart(length, s) + offset>>
          /\ Tail(r, part, offset) \in Hidden
      BY <2>2, <2>3, <2>4, TailRow
    <2>7. LastRow(i) = Tail(r, part, offset)
      BY <1>2, <1>4 DEF r, part
    <2> QED
      BY <1>4, <2>1, <2>5, <2>6, <2>7
  <1> QED
    BY <1>3, <1>4

-----------------------------------------------------------------------------
(***************************************************************************)
(* The invariant.                                                          *)
(***************************************************************************)

\* Whatever chunk is scattered, its rows are of the tensors' types.
LEMMA ScatteredTyped ==
    ASSUME NEW req \in 0 .. Prompts, NEW b \in Nat, NEW n \in 0 .. Capacity,
           b + n <= MaxPosition, NEW s \in Nat, NEW row \in Nat
    PROVE  Scattered(req, b, n, s, row) \in Hidden
  <1>1. CASE row < SegmentLength(n, s)
    <2>1. SegmentLength(n, s) \in 0 .. Span(n) /\ Span(n) \in Nat
      BY LengthCases, SpanFits
    <2>2. row \in 0 .. SegmentLength(n, s) - 1
      BY <1>1, <2>1
    <2>3. SegmentStart(b, n, s) + row \in b .. b + n - 1
      BY <2>2, PositionOfRow
    <2>4. SegmentStart(b, n, s) + row \in 0 .. MaxPosition - 1
      BY <2>3, Sizes, ChunkAssumption
    <2> QED
      BY <1>1, <2>4, RowTypes DEF Scattered
  <1>2. CASE ~ row < SegmentLength(n, s)
    BY <1>2, RowTypes DEF Scattered
  <1> QED
    BY <1>1, <1>2

LEMMA InitialInvariant == ChunkInit => ChunkInv
  <1> SUFFICES ASSUME ChunkInit PROVE ChunkInv
    OBVIOUS
  <1>1. MaxPosition \in Nat \ {0} /\ Prompts \in Nat
    BY ChunkAssumption
  <1>2. ChunkTypeOK
    <2>1. /\ phase \in Phases /\ prompt \in 0 .. Prompts /\ base \in 0 .. MaxPosition
          /\ length \in Lengths \cup {0}
      BY <1>1 DEF ChunkInit, Phases
    <2>2. /\ cache \in [CacheRows -> KVRows] /\ history \in [Rows -> KVRows]
          /\ staged \in [Ranks -> [SharedRows -> KVRows]]
      BY RowTypes DEF ChunkInit
    <2>3. /\ local \in [Ranks -> [LocalRows -> Hidden]]
          /\ logical \in [Segments -> [Rows -> Hidden]]
      BY RowTypes DEF ChunkInit
    <2>4. output \in [hidden : [0 .. Capacity - 1 -> Hidden], tail : [Rows -> Hidden]]
      BY RowTypes DEF ChunkInit, NoOutput
    <2> QED
      BY <2>1, <2>2, <2>3, <2>4 DEF ChunkTypeOK
  <1>3. ChunkOK /\ LocalExact /\ HistoryExact /\ LogicalExact
    BY <1>1 DEF ChunkInit, ChunkOK, LocalExact, HistoryExact, LogicalExact
  <1>4. CacheExact
    <2>1. \A p \in Larger(0, 0 - TailRows) .. 0 - 1 : FALSE
      BY Sizes DEF Larger
    <2> QED
      BY <2>1 DEF ChunkInit, CacheExact, CacheHolds
  <1> QED
    BY <1>2, <1>3, <1>4 DEF ChunkInv

\* A new chunk goes on where the cache ends, or starts another request.
LEMMA ScatterKeeps ==
    ASSUME ChunkInv, NEW req \in 0 .. Prompts, NEW b \in Nat, NEW n \in Lengths,
           Scatter(req, b, n),
           b = 0 \/ (phase = "gathered" /\ req = prompt /\ b = base + length)
    PROVE  ChunkInv'
  <1>1. /\ n \in 1 .. Capacity /\ n \in Nat /\ n \in 0 .. Capacity /\ b + n <= MaxPosition
        /\ MaxPosition \in Nat \ {0} /\ Prompts \in Nat /\ Capacity \in Nat
    BY ChunkAssumption, Sizes DEF Scatter
  <1>2. ChunkTypeOK'
    <2>1. /\ phase' \in Phases /\ prompt' \in 0 .. Prompts /\ base' \in 0 .. MaxPosition
          /\ length' \in Lengths \cup {0}
      BY <1>1 DEF Scatter, Phases
    <2>2. local' \in [Ranks -> [LocalRows -> Hidden]]
      <3>1. ASSUME NEW r \in Ranks, NEW x \in LocalRows
            PROVE  Scattered(req, b, n, LocalSegment(r, x[1]), x[2]) \in Hidden
        <4>1. x[1] \in LocalParts /\ x[2] \in 0 .. SegmentRows - 1
          BY DEF LocalRows
        <4>2. LocalSegment(r, x[1]) \in Nat /\ x[2] \in Nat
          <5>1. LocalSegment(r, x[1]) \in Segments
            BY <4>1, Owners
          <5>2. SegmentRows \in Nat /\ Segments \subseteq Nat
            BY Sizes
          <5> QED
            BY <4>1, <5>1, <5>2, Sizes
        <4> QED
          BY <1>1, <4>2, ScatteredTyped
      <3> QED
        BY <3>1 DEF Scatter
    <2>3. /\ history' \in [Rows -> KVRows] /\ staged' \in [Ranks -> [SharedRows -> KVRows]]
          /\ logical' \in [Segments -> [Rows -> Hidden]]
      BY RowTypes DEF Scatter
    <2>4. cache' \in [CacheRows -> KVRows]
          /\ output' \in [hidden : [0 .. Capacity - 1 -> Hidden], tail : [Rows -> Hidden]]
      BY DEF ChunkInv, ChunkTypeOK, Scatter
    <2> QED
      BY <2>1, <2>2, <2>3, <2>4 DEF ChunkTypeOK
  <1>3. ChunkOK'
    BY <1>1 DEF ChunkOK, Scatter
  <1>4. LocalExact'
    <2>1. ASSUME NEW r \in Ranks, NEW part \in LocalParts, NEW row \in 0 .. SegmentRows - 1
          PROVE  local'[r][<<part, row>>] = Scattered(req, b, n, LocalSegment(r, part), row)
      <3>1. <<part, row>> \in LocalRows
        BY DEF LocalRows
      <3> QED
        BY <3>1 DEF Scatter
    <2> QED
      <3>1. prompt' = req /\ base' = b /\ length' = n
        BY DEF Scatter
      <3> QED
        BY <2>1, <3>1 DEF LocalExact
  <1>5. HistoryExact' /\ LogicalExact'
    BY DEF Scatter, HistoryExact, LogicalExact
  <1>6. CacheExact'
    <2>1. cache' = cache /\ phase' = "scattered" /\ prompt' = req /\ base' = b
      BY DEF Scatter
    <2>2. CASE b = 0
      <3>1. \A p \in Larger(0, 0 - TailRows) .. 0 - 1 : FALSE
        BY Sizes DEF Larger
      <3> QED
        BY <2>1, <2>2, <3>1 DEF CacheExact, CacheHolds
    <2>3. CASE phase = "gathered" /\ req = prompt /\ b = base + length
      BY <2>1, <2>3 DEF ChunkInv, CacheExact, CacheHolds
    <2> QED
      BY <2>2, <2>3
  <1> QED
    BY <1>2, <1>3, <1>4, <1>5, <1>6 DEF ChunkInv

LEMMA ExchangeHistoryKeeps ==
    ASSUME ChunkInv, ExchangeHistory
    PROVE  ChunkInv'
  <1>1. /\ base \in Nat /\ length \in Nat /\ TailRows \in Nat \ {0} /\ Rows = 0 .. TailRows - 1
        /\ phase = "scattered" /\ phase' = "history"
        /\ prompt' = prompt /\ base' = base /\ length' = length
        /\ cache' = cache /\ local' = local /\ logical' = logical /\ staged' = staged
        /\ output' = output
    BY ChunkSizes, Sizes DEF ChunkInv, ExchangeHistory
  <1>2. \A k \in Nat : Slot(k) \in CacheRows
    BY SlotInCache
  <1>3. history' \in [Rows -> KVRows]
    <2>1. ASSUME NEW i \in Rows
          PROVE  (IF base - TailRows + i >= 0 THEN cache[Slot(base - TailRows + i)] ELSE ZeroKV)
                    \in KVRows
      <3>1. cache \in [CacheRows -> KVRows]
        BY DEF ChunkInv, ChunkTypeOK
      <3>2. base - TailRows + i \in Int
        BY <1>1
      <3>3. CASE base - TailRows + i >= 0
        <4>1. Slot(base - TailRows + i) \in CacheRows
          BY <1>2, <3>2, <3>3
        <4> QED
          BY <3>1, <3>3, <4>1
      <3>4. CASE ~ base - TailRows + i >= 0
        BY <3>4, RowTypes
      <3> QED
        BY <3>3, <3>4
    <2>2. history \in [Rows -> KVRows]
      BY DEF ChunkInv, ChunkTypeOK
    <2>3. history' = IF base > 0
                       THEN [i \in Rows |-> IF base - TailRows + i >= 0
                                              THEN cache[Slot(base - TailRows + i)] ELSE ZeroKV]
                       ELSE history
      BY DEF ExchangeHistory
    <2> QED
      BY <2>1, <2>2, <2>3
  <1>4. ChunkTypeOK'
    BY <1>1, <1>3 DEF ChunkInv, ChunkTypeOK, Phases
  <1>5. ChunkOK' /\ LocalExact' /\ LogicalExact' /\ CacheExact'
    BY <1>1 DEF ChunkInv, ChunkOK, LocalExact, LogicalExact, CacheExact, CacheHolds, Scattered,
                SegmentStart
  <1>6. HistoryExact'
    <2>1. ASSUME NEW i \in Rows, base - TailRows + i >= 0
          PROVE  history'[i] = <<prompt, base - TailRows + i, base - TailRows + i>>
      <3>1. base > 0
        BY <1>1, <2>1
      <3>2. history'[i] = cache[Slot(base - TailRows + i)]
        BY <2>1, <3>1 DEF ExchangeHistory
      <3>3. base - TailRows + i \in Larger(0, base - TailRows) .. base - 1
        BY <1>1, <2>1 DEF Larger
      <3> QED
        BY <1>1, <3>2, <3>3 DEF ChunkInv, CacheExact, CacheHolds
    <2> QED
      BY <1>1, <2>1 DEF HistoryExact
  <1> QED
    BY <1>4, <1>5, <1>6 DEF ChunkInv

LEMMA ExchangeTailsKeeps ==
    ASSUME ChunkInv, ExchangeTails
    PROVE  ChunkInv'
  <1>1. /\ ChunkTypeOK /\ ChunkOK /\ LocalExact /\ phase = "history" /\ phase' = "tails"
        /\ prompt' = prompt /\ base' = base /\ length' = length
        /\ cache' = cache /\ local' = local /\ history' = history /\ staged' = staged
        /\ output' = output
    BY DEF ChunkInv, ExchangeTails
  <1>2. ASSUME NEW s \in Segments, NEW i \in Rows
        PROVE  /\ logical'[s][i] = Tail(OwnerRank(s), OwnerPart(s), i)
               /\ Tail(OwnerRank(s), OwnerPart(s), i) \in Hidden
               /\ i < TailLength(length, s) =>
                    Tail(OwnerRank(s), OwnerPart(s), i) =
                      <<prompt, SegmentStart(base, length, s) + TailStart(length, s) + i>>
    <2>1. /\ OwnerRank(s) \in Ranks /\ OwnerPart(s) \in LocalParts
          /\ LocalSegment(OwnerRank(s), OwnerPart(s)) = s
          /\ ReverseIndex(s) \in Lanes
          /\ ReverseIndex(s) \div 2 = OwnerRank(s) /\ ReverseIndex(s) % 2 = OwnerPart(s)
      BY Owners
    <2>2. logical'[s][i] = Tail(ReverseIndex(s) \div 2, ReverseIndex(s) % 2, i)
      BY <2>1 DEF ExchangeTails
    <2>3. i \in Nat
      BY Sizes
    <2> QED
      BY <1>1, <2>1, <2>2, <2>3, TailRow
  <1>3. logical' \in [Segments -> [Rows -> Hidden]]
    <2>1. logical' = [s \in Segments |-> [i \in Rows |-> logical'[s][i]]]
      <3> DEFINE lane == [x \in Lanes |-> [i \in Rows |-> Tail(x \div 2, x % 2, i)]]
      <3>1. logical' = [s \in Segments |-> lane[ReverseIndex(s)]]
        BY DEF ExchangeTails
      <3>2. \A s \in Segments : lane[ReverseIndex(s)] =
               [i \in Rows |-> Tail(ReverseIndex(s) \div 2, ReverseIndex(s) % 2, i)]
        BY Owners
      <3> HIDE DEF lane
      <3> QED
        BY <3>1, <3>2
    <2> QED
      BY <1>2, <2>1
  <1>4. ChunkTypeOK'
    BY <1>1, <1>3 DEF ChunkTypeOK, Phases
  <1>5. ChunkOK' /\ LocalExact' /\ HistoryExact' /\ CacheExact'
    BY <1>1 DEF ChunkInv, ChunkOK, LocalExact, HistoryExact, CacheExact, CacheHolds, Scattered,
                SegmentStart
  <1>6. LogicalExact'
    BY <1>1, <1>2 DEF LogicalExact, SegmentStart
  <1> QED
    BY <1>4, <1>5, <1>6 DEF ChunkInv

LEMMA StageKeeps ==
    ASSUME ChunkInv, Stage
    PROVE  ChunkInv'
  <1>1. /\ ChunkTypeOK /\ ChunkOK /\ LocalExact /\ HistoryExact /\ LogicalExact
        /\ phase = "tails" /\ phase' = "staged"
        /\ prompt' = prompt /\ base' = base /\ length' = length
        /\ cache' = cache /\ local' = local /\ history' = history /\ logical' = logical
        /\ output' = output
    BY DEF ChunkInv, Stage
  <1>2. staged' \in [Ranks -> [SharedRows -> KVRows]]
    <2>1. ASSUME NEW r \in Ranks, NEW x \in SharedRows
          PROVE  StagedRow(r, x[1], x[2]) \in KVRows
      <3>1. x[1] \in LocalParts /\ x[2] \in 0 .. SegmentRows + TailRows - 1
        BY DEF SharedRows
      <3> QED
        BY <1>1, <3>1, StagedRows
    <2> QED
      BY <2>1 DEF Stage
  <1>3. ChunkTypeOK'
    BY <1>1, <1>2 DEF ChunkTypeOK, Phases
  <1>4. ChunkOK' /\ LocalExact' /\ HistoryExact' /\ LogicalExact' /\ CacheExact'
    BY <1>1 DEF ChunkInv, ChunkOK, LocalExact, HistoryExact, LogicalExact, CacheExact, CacheHolds,
                Scattered, SegmentStart
  <1> QED
    BY <1>3, <1>4 DEF ChunkInv

LEMMA CommitWindowKeeps ==
    ASSUME ChunkInv, CommitWindow
    PROVE  ChunkInv'
  <1>1. /\ ChunkTypeOK /\ ChunkOK /\ LocalExact /\ LogicalExact /\ CacheHolds(base)
        /\ phase = "staged" /\ phase' = "committed"
        /\ prompt' = prompt /\ base' = base /\ length' = length
        /\ local' = local /\ history' = history /\ logical' = logical /\ staged' = staged
        /\ output' = output
    BY DEF ChunkInv, CommitWindow, CacheExact
  <1>2. cache' = [c \in CacheRows |-> Committed(c)]
    BY DEF CommitWindow
  <1>3. cache' \in [CacheRows -> KVRows]
    BY <1>1, <1>2, CommitExact
  <1>4. ChunkTypeOK'
    BY <1>1, <1>3 DEF ChunkTypeOK, Phases
  <1>5. ChunkOK' /\ LocalExact' /\ HistoryExact' /\ LogicalExact'
    BY <1>1 DEF ChunkInv, ChunkOK, LocalExact, HistoryExact, LogicalExact, Scattered, SegmentStart
  <1>6. CacheExact'
    <2>1. ASSUME NEW p \in Larger(0, base + length - TailRows) .. base + length - 1
          PROVE  cache'[Slot(p)] = <<prompt, p, p>>
      <3>1. p \in Nat
        <4>1. base \in Nat /\ length \in Nat /\ TailRows \in Nat
          BY <1>1, ChunkSizes, Sizes
        <4> QED
          BY <4>1 DEF Larger
      <3>2. Slot(p) \in CacheRows
        BY <3>1, SlotInCache
      <3> QED
        BY <1>1, <1>2, <3>2, CommitExact
    <2> QED
      <3>1. /\ base + length - TailRows = (base + length) - TailRows
            /\ base + length - 1 = (base + length) - 1
        BY <1>1, ChunkSizes, Sizes
      <3> QED
        BY <1>1, <2>1, <3>1 DEF CacheExact, CacheHolds
  <1> QED
    BY <1>4, <1>5, <1>6 DEF ChunkInv

LEMMA GatherHiddenKeeps ==
    ASSUME ChunkInv, GatherHidden
    PROVE  ChunkInv' /\ OutputInOrder'
  <1>1. /\ ChunkTypeOK /\ ChunkOK /\ LocalExact /\ CacheExact
        /\ phase = "committed" /\ phase' = "gathered"
        /\ prompt' = prompt /\ base' = base /\ length' = length
        /\ cache' = cache /\ local' = local /\ history' = history /\ logical' = logical
        /\ staged' = staged
    BY DEF ChunkInv, GatherHidden
  <1> DEFINE row(i) == IF i < length THEN Slab(i \div Span(length), i % Span(length)) ELSE Zero
  <1>2. output' = [hidden |-> [i \in 0 .. Capacity - 1 |-> row(i)],
                   tail |-> [i \in Rows |-> LastRow(i)]]
    BY DEF GatherHidden
  <1>3. \A i \in 0 .. Capacity - 1 :
            /\ row(i) = IF i < length THEN <<prompt, base + i>> ELSE Zero
            /\ row(i) \in Hidden
    <2> TAKE i \in 0 .. Capacity - 1
    <2>1. CASE i < length
      <3>1. i \in 0 .. length - 1
        BY <1>1, <2>1, ChunkSizes, Sizes
      <3> QED
        BY <1>1, <2>1, <3>1, GatheredRow
    <2>2. CASE ~ i < length
      BY <2>2, RowTypes
    <2> QED
      BY <2>1, <2>2
  <1>4. \A i \in Rows :
            /\ LastRow(i) = IF i < Smaller(TailRows, length)
                              THEN <<prompt, base + Larger(0, length - TailRows) + i>> ELSE Zero
            /\ LastRow(i) \in Hidden
    BY <1>1, LastRows
  <1> HIDE DEF row
  <1>5. output' \in [hidden : [0 .. Capacity - 1 -> Hidden], tail : [Rows -> Hidden]]
    BY <1>2, <1>3, <1>4
  <1>6. ChunkTypeOK'
    BY <1>1, <1>5 DEF ChunkTypeOK, Phases
  <1>7. ChunkOK' /\ LocalExact' /\ HistoryExact' /\ LogicalExact' /\ CacheExact'
    BY <1>1 DEF ChunkInv, ChunkOK, LocalExact, HistoryExact, LogicalExact, CacheExact, CacheHolds,
                Scattered, SegmentStart
  <1>8. OutputInOrder'
    BY <1>1, <1>2, <1>3, <1>4 DEF OutputInOrder
  <1> QED
    BY <1>6, <1>7, <1>8 DEF ChunkInv

LEMMA UnchangedKeeps ==
    ASSUME ChunkInv, UNCHANGED chunkVars
    PROVE  ChunkInv'
  <1>1. ChunkTypeOK'
    BY DEF ChunkInv, ChunkTypeOK, chunkVars
  <1>2. ChunkOK' /\ LocalExact' /\ HistoryExact' /\ LogicalExact' /\ CacheExact'
    BY DEF ChunkInv, ChunkOK, LocalExact, HistoryExact, LogicalExact, CacheExact, CacheHolds,
           Scattered, SegmentStart, chunkVars
  <1> QED
    BY <1>1, <1>2 DEF ChunkInv

LEMMA NextKeeps == ChunkInv /\ [ChunkNext]_chunkVars => ChunkInv'
  <1> SUFFICES ASSUME ChunkInv, [ChunkNext]_chunkVars PROVE ChunkInv'
    OBVIOUS
  <1>0. base \in Nat /\ length \in Nat /\ prompt \in 0 .. Prompts /\ Prompts \in Nat
    BY ChunkSizes, Sizes DEF ChunkInv
  <1>1. CASE NextChunk
    <2>1. PICK n \in Lengths : prompt > 0 /\ Scatter(prompt, base + length, n)
      BY <1>1 DEF NextChunk
    <2>2. phase = "gathered"
      BY <1>0, <2>1 DEF ChunkInv, ChunkOK, Scatter
    <2> QED
      BY <1>0, <2>1, <2>2, ScatterKeeps
  <1>2. CASE NewRequest
    <2>1. PICK n \in Lengths : prompt < Prompts /\ Scatter(prompt + 1, 0, n)
      BY <1>2 DEF NewRequest
    <2>2. prompt + 1 \in 0 .. Prompts
      BY <1>0, <2>1
    <2> QED
      BY <2>1, <2>2, ScatterKeeps
  <1>3. CASE ExchangeHistory
    BY <1>3, ExchangeHistoryKeeps
  <1>4. CASE ExchangeTails
    BY <1>4, ExchangeTailsKeeps
  <1>5. CASE Stage
    BY <1>5, StageKeeps
  <1>6. CASE CommitWindow
    BY <1>6, CommitWindowKeeps
  <1>7. CASE GatherHidden
    BY <1>7, GatherHiddenKeeps
  <1>8. CASE ChunksServed
    BY <1>8, UnchangedKeeps DEF ChunksServed
  <1>9. CASE UNCHANGED chunkVars
    BY <1>9, UnchangedKeeps
  <1> QED
    BY <1>1, <1>2, <1>3, <1>4, <1>5, <1>6, <1>7, <1>8, <1>9 DEF ChunkNext

\* What every tensor of the layer holds after each phase, for any sequence of
\* chunks and requests (prefill_cp_csa_layer and the stages it calls).
THEOREM ChunkInvariant == ChunkSpec => []ChunkInv
  BY InitialInvariant, NextKeeps, PTL DEF ChunkSpec

\* The layer stays well typed: no copy reads past the real rows of a segment.
THEOREM ChunkTypeCorrect == ChunkSpec => []ChunkTypeOK
  <1>1. ChunkInv => ChunkTypeOK
    BY DEF ChunkInv
  <1> QED
    BY <1>1, ChunkInvariant, PTL

-----------------------------------------------------------------------------
(***************************************************************************)
(* The keys every query attends.                                           *)
(***************************************************************************)

\* The stage fills every row a real query reads with that key's row.
LEMMA StageFinds ==
    ASSUME ChunkInv, Stage
    PROVE  KeysFound'
  <1>1. /\ ChunkTypeOK /\ ChunkOK /\ LocalExact /\ HistoryExact /\ LogicalExact
        /\ phase = "tails" /\ phase' = "staged"
        /\ prompt' = prompt /\ base' = base /\ length' = length
    BY DEF ChunkInv, Stage
  <1>2. /\ base \in Nat /\ length \in 0 .. Capacity
        /\ TailRows \in Nat \ {0} /\ Rows = 0 .. TailRows - 1 /\ SegmentRows \in Nat
        /\ MaxTiles \in Nat /\ SegmentRows = MaxTiles * TailRows
    BY <1>1, ChunkSizes, Sizes, SizesAssumption DEF SegmentRows
  <1>3. ASSUME NEW r \in Ranks, NEW part \in LocalParts, NEW tile \in Tiles,
               NEW row \in Rows, NEW col \in Rows,
               row < Active(length, LocalSegment(r, part), tile)
        PROVE  LET s   == LocalSegment(r, part)
                   key == KeyOf(SegmentStart(base, length, s) + tile * TailRows + row, col)
               IN  /\ (SwaIndex(base, length, s, tile, row, col) >= 0) <=> (key >= 0)
                   /\ key >= 0 =>
                        staged'[r][<<part, tile * TailRows + row + 1 + col>>]
                          = <<prompt, key, key>>
    <2> DEFINE s == LocalSegment(r, part)
               key == KeyOf(SegmentStart(base, length, s) + tile * TailRows + row, col)
               p == tile * TailRows + row + 1 + col
    <2>1. tile \in Nat /\ tile <= MaxTiles - 1
      BY <1>2 DEF Tiles
    <2>2. p \in 0 .. SegmentRows + TailRows - 1
      <3> DEFINE z == tile * TailRows
      <3>1. z <= (MaxTiles - 1) * TailRows /\ (MaxTiles - 1) * TailRows = MaxTiles * TailRows - TailRows
        BY <1>2, <2>1, Monotone, Successor
      <3>2. z \in Nat
        BY <1>2, <2>1
      <3>3. z <= SegmentRows - TailRows
        BY <1>2, <3>1
      <3> HIDE DEF z
      <3> QED
        BY <1>2, <3>2, <3>3 DEF z
    <2>3. (SwaIndex(base, length, s, tile, row, col) >= 0) <=> (key >= 0)
      BY <1>1, <1>3, <2>1, KeyResolved
    <2>4. key >= 0 => StagedRow(r, part, p) = <<prompt, key, key>>
      BY <1>1, <1>3, <2>1, <2>2, StagedRows
    <2>5. staged'[r][<<part, p>>] = StagedRow(r, part, p)
      <3>1. <<part, p>> \in SharedRows
        BY <2>2 DEF SharedRows
      <3> HIDE DEF p
      <3> QED
        BY <3>1 DEF Stage
    <2> QED
      BY <2>3, <2>4, <2>5
  <1>4. ChunkTypeOK'
    BY StageKeeps DEF ChunkInv
  <1> QED
    BY <1>1, <1>3, <1>4 DEF KeysFound

\* Every key a real query attends is unmasked exactly when it exists, and read
\* as its own KV row, rotated at its own position (_cp_swa_stage_sources).
THEOREM KeysCorrect == ChunkSpec => []KeysFound
  <1>1. ChunkInit => KeysFound
    BY InitialInvariant DEF ChunkInit, KeysFound, ChunkInv
  <1>2. ChunkInv /\ ChunkInv' /\ KeysFound /\ [ChunkNext]_chunkVars => KeysFound'
    <2> SUFFICES ASSUME ChunkInv, ChunkInv', KeysFound, [ChunkNext]_chunkVars PROVE KeysFound'
      OBVIOUS
    <2>1. CASE Stage
      BY <2>1, StageFinds
    <2>2. CASE UNCHANGED chunkVars
      BY <2>2 DEF ChunkInv, KeysFound, chunkVars
    <2>3. CASE ChunkNext /\ ~ Stage
      <3>1. phase' # "staged" \/ UNCHANGED chunkVars
        BY <2>3 DEF ChunkNext, NextChunk, NewRequest, Scatter, ExchangeHistory, ExchangeTails,
                    CommitWindow, GatherHidden, ChunksServed
      <3> QED
        BY <2>2, <3>1 DEF KeysFound, ChunkInv
    <2> QED
      BY <2>1, <2>2, <2>3
  <1> QED
    BY <1>1, <1>2, ChunkInvariant, PTL DEF ChunkSpec

\* After the commit the cache holds the request's last window, whichever chunks
\* its positions came from (cp_swa_cache_commit).
THEOREM WindowCorrect == ChunkSpec => []WindowKept
  <1>1. ChunkInv => WindowKept
    <2> SUFFICES ASSUME ChunkInv, phase = "committed" PROVE WindowKept
      BY DEF WindowKept
    <2>1. CacheHolds(base + length)
      BY DEF ChunkInv, CacheExact
    <2>2. /\ base + length - TailRows = (base + length) - TailRows
          /\ base + length - 1 = (base + length) - 1
      BY ChunkSizes, Sizes DEF ChunkInv
    <2> QED
      BY <2>1, <2>2 DEF WindowKept, CacheHolds
  <1> QED
    BY <1>1, ChunkInvariant, PTL

\* The owner gets the chunk's rows back in order and zero beyond them, and its
\* last rows for the next stage (_prefill_cp_gather_hidden).
THEOREM OutputCorrect == ChunkSpec => []OutputInOrder
  <1>1. ChunkInit => OutputInOrder
    BY DEF ChunkInit, OutputInOrder
  <1>2. ChunkInv /\ OutputInOrder /\ [ChunkNext]_chunkVars => OutputInOrder'
    <2> SUFFICES ASSUME ChunkInv, OutputInOrder, [ChunkNext]_chunkVars PROVE OutputInOrder'
      OBVIOUS
    <2>1. CASE GatherHidden
      BY <2>1, GatherHiddenKeeps
    <2>2. CASE UNCHANGED chunkVars
      BY <2>2 DEF OutputInOrder, chunkVars
    <2>3. CASE ChunkNext /\ ~ GatherHidden
      <3>1. phase' # "gathered" \/ UNCHANGED chunkVars
        BY <2>3 DEF ChunkNext, NextChunk, NewRequest, Scatter, ExchangeHistory, ExchangeTails,
                    Stage, CommitWindow, ChunksServed
      <3> QED
        BY <2>2, <3>1 DEF OutputInOrder
    <2> QED
      BY <2>1, <2>2, <2>3
  <1> QED
    BY <1>1, <1>2, ChunkInvariant, PTL DEF ChunkSpec

-----------------------------------------------------------------------------
(***************************************************************************)
(* The compressor's leaves.                                                *)
(***************************************************************************)

\* The seed of a segment goes back to the start of the group before the one its
\* boundary cuts, and the predecessor's tail has it all.
LEMMA SeedWhole ==
    ASSUME NEW b \in Nat, NEW n \in 0 .. Capacity, NEW s \in Nat,
           s > 0, SegmentLength(n, s) > 0
    PROVE  LET start == SegmentStart(b, n, s)
           IN  /\ start \in Nat
               /\ SeedLength(b, n, s) = (start % CompressRatio) + CompressRatio
               /\ SeedLength(b, n, s) \in 0 .. TailRows
               /\ start % CompressRatio \in 0 .. CompressRatio - 1
  <1> DEFINE start == SegmentStart(b, n, s)
             m == start % CompressRatio
  <1>1. /\ CompressRatio \in Nat \ {0} /\ TailRows \in Nat \ {0}
        /\ 2 * CompressRatio <= TailRows
    BY SizesAssumption, CompressAssumption
  <1>2. start \in Nat
    <2>1. Span(n) \in Nat
      BY SpanFits
    <2>2. s * Span(n) \in Nat
      BY <2>1
    <2> QED
      BY <2>2 DEF SegmentStart
  <1>3. m \in 0 .. CompressRatio - 1
    <2>1. start \in Int
      BY <1>2
    <2> HIDE DEF start
    <2> QED
      BY <1>1, <2>1, DivMod
  <1>4. TailLength(n, s - 1) = TailRows
    BY BeforeIsFull
  <1>5. SeedLength(b, n, s) = Smaller(m + CompressRatio, TailRows)
    BY <1>4 DEF SeedLength
  <1> HIDE DEF m, start
  <1> QED
    BY <1>1, <1>2, <1>3, <1>5 DEF Smaller, m, start

\* What a part replays, from the predecessor's tail or its own rows, is each row
\* under its own position.
LEMMA LeafExact ==
    ASSUME ChunkInv, phase = "tails", NEW r \in Ranks, NEW part \in LocalParts,
           NEW leaf \in Leaves, NEW row \in Rows,
           row < LeafTokens(base, length, LocalSegment(r, part), leaf)
    PROVE  LeafRow(r, part, leaf, row) =
              <<prompt, LeafPosition(base, length, LocalSegment(r, part), leaf, row)>>
  <1> DEFINE s == LocalSegment(r, part)
             T == TailRows
             S == Span(length)
             start == SegmentStart(base, length, s)
             seed == SeedLength(base, length, s)
  <1>1. /\ ChunkTypeOK /\ ChunkOK /\ LocalExact /\ LogicalExact /\ phase # "idle"
        /\ base \in Nat /\ length \in 0 .. Capacity
    BY ChunkSizes DEF ChunkInv
  <1>2. s \in Segments /\ s \in Nat
    <2>1. s \in Segments
      BY Owners
    <2> QED
      BY <2>1, Sizes
  <1>3. T \in Nat \ {0} /\ Rows = 0 .. T - 1 /\ S \in Nat /\ row \in 0 .. T - 1 /\ MaxTiles \in Nat
    BY <1>1, Sizes, SpanFits, SizesAssumption
  <1>4. CASE leaf = 0
    <2>1. row < seed
      BY <1>4 DEF LeafTokens
    <2>2. s > 0 /\ SegmentLength(length, s) > 0
      BY <1>3, <2>1 DEF SeedLength
    <2>3. seed \in 0 .. T /\ start \in Nat
      BY <1>1, <1>2, <2>2, SeedWhole
    <2>4. /\ TailLength(length, s - 1) = T /\ TailStart(length, s - 1) = S - T
          /\ (s - 1) * S = s * S - S
      BY <1>1, <1>2, <2>2, BeforeIsFull
    <2>5. start = base + s * S /\ SegmentStart(base, length, s - 1) = base + (s - 1) * S
      BY DEF SegmentStart
    <2> DEFINE i == T - seed + row
    <2>6. i \in Rows /\ i < T /\ i \in Int
      <3> HIDE DEF seed, T
      <3> QED
        BY <1>3, <2>1, <2>3
    <2>7. s - 1 \in Segments
      BY <1>2, <2>2, Sizes
    <2>8. logical[s - 1][i] =
             <<prompt, SegmentStart(base, length, s - 1) + TailStart(length, s - 1) + i>>
      <3> HIDE DEF i
      <3> QED
        BY <1>1, <2>4, <2>6, <2>7 DEF LogicalExact
    <2>9. SegmentStart(base, length, s - 1) + TailStart(length, s - 1) + i = start - seed + row
      <3> DEFINE z == s * S
      <3>1. z \in Nat /\ start = base + z
            /\ SegmentStart(base, length, s - 1) = base + (z - S)
        BY <1>2, <1>3, <2>4, <2>5
      <3> HIDE DEF z, start, seed, T, S
      <3> QED
        BY <1>1, <1>3, <2>1, <2>3, <2>4, <3>1
    <2>10. LeafRow(r, part, leaf, row) = logical[s - 1][i]
      BY <1>4, <2>4 DEF LeafRow
    <2>11. LeafPosition(base, length, s, leaf, row) = start - seed + row
      BY <1>4 DEF LeafPosition
    <2> QED
      BY <2>8, <2>9, <2>10, <2>11
  <1>5. CASE leaf # 0
    <2> DEFINE tile == leaf - 1
               u == tile * T + row
    <2>1. tile \in Nat
      BY <1>3, <1>5 DEF Leaves
    <2>2. row < Active(length, s, tile)
      BY <1>5 DEF LeafTokens
    <2>3. tile * T \in Nat /\ u < SegmentLength(length, s)
      <3> HIDE DEF tile
      <3> QED
        BY <1>1, <1>2, <2>1, <2>2, ActiveRows
    <2>4. SegmentLength(length, s) \in 0 .. S
      BY <1>1, <1>2, LengthCases
    <2>5. u \in 0 .. SegmentLength(length, s) - 1
      <3> DEFINE z == tile * T
      <3>1. z \in Nat /\ u = z + row
        BY <2>3
      <3> HIDE DEF z, u
      <3> QED
        BY <1>3, <2>3, <2>4, <3>1
    <2>6. local[r][<<part, u>>] = <<prompt, start + u>> /\ start \in Nat
      <3>1. SegmentStart(base, length, s) = base + s * S /\ s * S \in Nat
        BY <1>1, <1>2, <2>5, PositionOfRow
      <3> HIDE DEF u
      <3> QED
        BY <1>1, <2>5, <3>1, LocalRow
    <2>7. LeafRow(r, part, leaf, row) = local[r][<<part, u>>]
      BY <1>5 DEF LeafRow
    <2>8. LeafPosition(base, length, s, leaf, row) = start + tile * T + row
      BY <1>5 DEF LeafPosition
    <2>9. start + tile * T + row = start + u
      <3> DEFINE z == tile * T
      <3>1. z \in Nat
        BY <2>3
      <3> HIDE DEF z, start
      <3> QED
        BY <1>3, <2>6, <3>1 DEF z
    <2> QED
      BY <2>6, <2>7, <2>8, <2>9
  <1> QED
    BY <1>4, <1>5

\* Two groups that end in one chunk never share a scratch row.
LEMMA ScratchDistinct ==
    ASSUME NEW p \in Nat, NEW q \in Nat, p - q < Capacity, q - p < Capacity,
           EndsGroup(p), EndsGroup(q), ScratchRow(p) = ScratchRow(q)
    PROVE  p = q
  <1> DEFINE R == CompressRatio
             W == ScratchRows
             c == (p + 1) \div R
             d == (q + 1) \div R
  <1>1. R \in Nat \ {0} /\ TailRows \in Nat \ {0} /\ MaxTiles \in Nat \ {0}
        /\ TailRows % R = 0 /\ NumSegments \in Nat \ {0}
    BY SizesAssumption, CompressAssumption, Sizes
  <1>2. W * R = Capacity /\ W \in Nat
    <2> DEFINE g == TailRows \div R
               m == NumSegments * MaxTiles
    <2>1. g \in Nat /\ TailRows = g * R
      <3>1. /\ TailRows \div R \in Int /\ TailRows \div R >= 0
            /\ TailRows = (TailRows \div R) * R + (TailRows % R)
        <4> HIDE DEF R
        <4>1. TailRows \in Int /\ TailRows >= 0
          BY <1>1
        <4> QED
          BY <1>1, <4>1, DivMod
      <3> QED
        BY <1>1, <3>1
    <2>2. W = m * g /\ Capacity = NumSegments * (MaxTiles * TailRows)
      BY DEF ScratchRows, Capacity, SegmentRows
    <2> HIDE DEF g
    <2>3. NumSegments * (MaxTiles * TailRows) = m * TailRows /\ m \in Nat
      BY <1>1
    <2> HIDE DEF m, W
    <2>4. (m * g) * R = m * (g * R) /\ m * g \in Nat
      BY <1>1, <2>1, <2>3
    <2> QED
      BY <2>1, <2>2, <2>3, <2>4
  <1>3. /\ c \in Int /\ p + 1 = c * R /\ d \in Int /\ q + 1 = d * R
    <2>1. (p + 1) % R = 0 /\ (q + 1) % R = 0 /\ p + 1 \in Int /\ q + 1 \in Int
      BY DEF EndsGroup
    <2>2. \A x \in Int : x % R = 0 => x \div R \in Int /\ x = (x \div R) * R
      <3> TAKE x \in Int
      <3>1. x \div R \in Int /\ x = (x \div R) * R + (x % R)
        BY <1>1, DivMod
      <3> QED
        BY <1>1, <3>1
    <2> QED
      BY <2>1, <2>2
  <1>4. (c - 1) % W = (d - 1) % W
    BY DEF ScratchRow
  <1> HIDE DEF c, d, W, R
  <1>5. ~ W <= c - d
    <2> SUFFICES ASSUME W <= c - d PROVE FALSE
      OBVIOUS
    <2>1. W * R <= (c - d) * R /\ (c - d) * R = c * R - d * R
      BY <1>1, <1>2, <1>3, Monotone
    <2>2. c * R - d * R = p - q
      BY <1>3
    <2> QED
      BY <1>2, <2>1, <2>2, Sizes
  <1>6. ~ W <= d - c
    <2> SUFFICES ASSUME W <= d - c PROVE FALSE
      OBVIOUS
    <2>1. W * R <= (d - c) * R /\ (d - c) * R = d * R - c * R
      BY <1>1, <1>2, <1>3, Monotone
    <2>2. d * R - c * R = q - p
      BY <1>3
    <2> QED
      BY <1>2, <2>1, <2>2, Sizes
  <1>7. c - 1 = d - 1
    <2>1. W \in Nat \ {0}
      BY <1>2, <1>3, <1>5, <1>6
    <2>2. /\ c - 1 \in Int /\ d - 1 \in Int
          /\ (c - 1) - (d - 1) < W /\ (d - 1) - (c - 1) < W
      BY <1>2, <1>3, <1>5, <1>6
    <2> QED
      BY <1>4, <2>1, <2>2, Congruent
  <1>8. c = d
    BY <1>3, <1>7
  <1> QED
    BY <1>3, <1>8

\* The two groups behind an emitted row are in the leaves that emit it.
LEMMA GroupReplayed ==
    ASSUME NEW b \in Nat, NEW n \in 0 .. Capacity, NEW p \in b .. b + n - 1, EndsGroup(p),
           NEW k \in b .. p, k > p - 2 * CompressRatio
    PROVE  LET s == (p - b) \div Span(n)
           IN  \E leaf \in Leaves, row \in Rows :
                   row < LeafTokens(b, n, s, leaf) /\ LeafPosition(b, n, s, leaf, row) = k
  <1> DEFINE S == Span(n)
             R == CompressRatio
             s == (p - b) \div S
             rest == (p - b) % S
             start == SegmentStart(b, n, s)
             total == SegmentLength(n, s)
  <1>1. /\ S \in Nat \ {0} /\ n \in Nat /\ TailRows \in Nat \ {0} /\ Rows = 0 .. TailRows - 1
        /\ R \in Nat \ {0} /\ 2 * R <= TailRows /\ MaxTiles \in Nat
    BY SpanFits, Sizes, SizesAssumption, CompressAssumption
  <1>2. s \in Segments /\ rest \in 0 .. total - 1 /\ p - b = s * S + rest
    <2>1. p - b \in 0 .. n - 1
      BY <1>1
    <2> QED
      BY <2>1, Located
  <1>3. s \in Nat
    BY <1>2, Sizes
  <1>4. start = b + s * S /\ s * S \in Nat
    BY <1>1, <1>3 DEF SegmentStart
  <1>5. total \in 0 .. S
    BY <1>3, LengthCases
  <1> DEFINE z == s * S
  <1>6. z \in Nat /\ start = b + z /\ p - b = z + rest
    BY <1>2, <1>4
  <1> HIDE DEF S, R, s, rest, start, total, z
  <1>7. /\ start \in Nat /\ p = start + rest /\ rest \in Nat /\ rest < total /\ total \in Nat
        /\ p \in Nat /\ k \in Nat /\ k <= p
    BY <1>1, <1>2, <1>5, <1>6
  <1>8. CASE k >= start
    <2> DEFINE u == k - start
               tile == u \div TailRows
               row == u % TailRows
    <2>1. u \in 0 .. total - 1
      BY <1>7, <1>8
    <2> HIDE DEF u
    <2>2. /\ tile \in Tiles /\ row \in Rows /\ u = tile * TailRows + row
          /\ row < Active(n, s, tile)
      BY <1>3, <2>1, TileOfRow DEF total
    <2> HIDE DEF tile, row
    <2>3. tile \in Nat /\ tile + 1 \in Leaves /\ tile + 1 # 0 /\ (tile + 1) - 1 = tile
      BY <1>1, <2>2 DEF Tiles, Leaves
    <2>4. row < LeafTokens(b, n, s, tile + 1)
      BY <2>2, <2>3 DEF LeafTokens
    <2>5. LeafPosition(b, n, s, tile + 1, row) = start + tile * TailRows + row
      BY <2>3 DEF LeafPosition, start
    <2>6. start + tile * TailRows + row = k
      <3> DEFINE y == tile * TailRows
      <3>1. y \in Nat /\ u = y + row /\ row \in Nat
        BY <1>1, <2>2, <2>3
      <3> HIDE DEF y
      <3> QED
        BY <1>7, <3>1 DEF u, y
    <2> QED
      BY <2>2, <2>3, <2>4, <2>5, <2>6 DEF s, S
  <1>9. CASE k < start
    <2> DEFINE m == start % R
               seed == SeedLength(b, n, s)
               row == k - start + seed
    <2>1. s > 0
      <3> SUFFICES ASSUME s = 0 PROVE FALSE
        BY <1>3
      <3>1. z = 0
        BY <1>1 DEF z
      <3> QED
        BY <1>6, <1>7, <1>9, <3>1
    <2>2. seed = m + R /\ seed \in 0 .. TailRows /\ m \in 0 .. R - 1
      <3>1. SegmentLength(n, s) > 0
        BY <1>7 DEF total
      <3> QED
        BY <1>3, <2>1, <3>1, SeedWhole DEF start, R
    <2>3. p + 1 >= start - m + R
      <3> DEFINE a == start \div R
                 c == (p + 1) \div R
      <3>1. a \in Int /\ start = a * R + m
        <4>1. start \in Int
          BY <1>7
        <4>2. start \div R \in Int /\ start = (start \div R) * R + (start % R)
          BY <1>1, <4>1, DivMod
        <4> QED
          BY <4>2
      <3>2. c \in Int /\ p + 1 = c * R
        <4>1. p + 1 \in Int /\ (p + 1) % R = 0
          BY <1>7 DEF EndsGroup, R
        <4>2. (p + 1) \div R \in Int /\ p + 1 = ((p + 1) \div R) * R + ((p + 1) % R)
          BY <1>1, <4>1, DivMod
        <4> HIDE DEF R
        <4> QED
          BY <1>1, <4>1, <4>2
      <3> HIDE DEF a, c, m
      <3>3. a + 1 <= c
        <4> SUFFICES ASSUME c <= a PROVE FALSE
          BY <3>1, <3>2
        <4>1. c * R <= a * R
          BY <1>1, <3>1, <3>2, Monotone
        <4>2. a * R \in Int /\ c * R \in Int /\ m \in Nat
          BY <1>1, <2>2, <3>1, <3>2
        <4> QED
          BY <1>7, <3>1, <3>2, <4>1, <4>2
      <3>4. (a + 1) * R <= c * R /\ (a + 1) * R = a * R + R
        BY <1>1, <3>1, <3>2, <3>3, Monotone, Successor
      <3>5. a * R \in Int /\ c * R \in Int /\ m \in Nat
        BY <1>1, <2>2, <3>1, <3>2
      <3> DEFINE y == a * R
                 w == c * R
      <3> HIDE DEF y, w
      <3>6. y \in Int /\ w \in Int /\ y + R <= w /\ start = y + m /\ p + 1 = w
        BY <3>1, <3>2, <3>4, <3>5 DEF y, w
      <3> QED
        BY <1>1, <1>7, <3>5, <3>6
    <2> HIDE DEF m, seed
    <2>4. k > p - 2 * R
      BY DEF R
    <2>5. row \in 0 .. seed - 1 /\ row \in Rows
      BY <1>1, <1>7, <1>9, <2>2, <2>3, <2>4
    <2>6. row < LeafTokens(b, n, s, 0)
      BY <2>2, <2>5 DEF LeafTokens, seed
    <2>7. LeafPosition(b, n, s, 0, row) = start - seed + row
      BY DEF LeafPosition, start, seed
    <2>8. start - seed + row = k
      BY <1>7, <2>2, <2>5
    <2>9. 0 \in Leaves
      BY <1>1 DEF Leaves
    <2> QED
      BY <2>5, <2>6, <2>7, <2>8, <2>9 DEF s, S
  <1> QED
    BY <1>7, <1>8, <1>9

\* Every compressed row a chunk completes has all its tokens, two groups of
\* them, in the leaves of the part that emits it, each under its own position,
\* and a scratch row of its own (cp_csa_leaf_coordinates).
THEOREM GroupsCorrect == ChunkSpec => []GroupsWhole
  <1> DEFINE emitted(r) == {p \in base .. base + length - 1 :
                               /\ EndsGroup(p)
                               /\ OwnerRank((p - base) \div Span(length)) = r}
             replayed(r, part) ==
                 {leaf \in Leaves \X Rows :
                     leaf[2] < LeafTokens(base, length, LocalSegment(r, part), leaf[1])}
  <1>1. ASSUME ChunkInv, phase = "tails", NEW r \in Ranks
        PROVE  /\ \A p, q \in emitted(r) : ScratchRow(p) = ScratchRow(q) => p = q
               /\ \A part \in LocalParts : \A x \in replayed(r, part) :
                      LeafRow(r, part, x[1], x[2]) =
                         <<prompt, LeafPosition(base, length, LocalSegment(r, part), x[1], x[2])>>
               /\ \A p \in emitted(r) :
                      LET s == (p - base) \div Span(length)
                      IN  {k \in base .. p : k > p - 2 * CompressRatio} \subseteq
                             {LeafPosition(base, length, s, x[1], x[2]) :
                                 x \in replayed(r, OwnerPart(s))}
    <2>1. base \in Nat /\ length \in 0 .. Capacity /\ length \in Nat /\ Capacity \in Nat
      BY <1>1, ChunkSizes, Sizes DEF ChunkInv
    <2>2. ASSUME NEW p \in emitted(r), NEW q \in emitted(r), ScratchRow(p) = ScratchRow(q)
          PROVE  p = q
      <3>1. /\ p \in Nat /\ q \in Nat /\ EndsGroup(p) /\ EndsGroup(q)
            /\ p - q < Capacity /\ q - p < Capacity
        BY <2>1
      <3> QED
        BY <2>2, <3>1, ScratchDistinct
    <2>3. ASSUME NEW part \in LocalParts, NEW x \in replayed(r, part)
          PROVE  LeafRow(r, part, x[1], x[2]) =
                    <<prompt, LeafPosition(base, length, LocalSegment(r, part), x[1], x[2])>>
      BY <1>1, LeafExact
    <2>4. ASSUME NEW p \in emitted(r), NEW k \in base .. p, k > p - 2 * CompressRatio
          PROVE  LET s == (p - base) \div Span(length)
                 IN  k \in {LeafPosition(base, length, s, x[1], x[2]) :
                               x \in replayed(r, OwnerPart(s))}
      <3> DEFINE s == (p - base) \div Span(length)
      <3>1. p \in base .. base + length - 1 /\ EndsGroup(p) /\ OwnerRank(s) = r
        OBVIOUS
      <3>2. p - base \in 0 .. length - 1
        BY <2>1, <3>1
      <3>3. s \in Segments
        BY <2>1, <3>2, Located
      <3>4. LocalSegment(r, OwnerPart(s)) = s
        BY <3>1, <3>3, Owners
      <3>5. PICK leaf \in Leaves, row \in Rows :
                row < LeafTokens(base, length, s, leaf) /\ LeafPosition(base, length, s, leaf, row) = k
        BY <2>1, <2>4, <3>1, GroupReplayed
      <3> HIDE DEF s
      <3>6. <<leaf, row>> \in replayed(r, OwnerPart(s))
        BY <3>4, <3>5
      <3>7. LeafPosition(base, length, s, <<leaf, row>>[1], <<leaf, row>>[2]) = k
        BY <3>5
      <3> HIDE DEF replayed
      <3>8. k \in {LeafPosition(base, length, s, x[1], x[2]) : x \in replayed(r, OwnerPart(s))}
        BY <3>6, <3>7
      <3> QED
        BY <3>8 DEF s
    <2> HIDE DEF replayed, emitted
    <2> QED
      BY <2>2, <2>3, <2>4
  <1>2. ChunkInv => GroupsWhole
    BY <1>1 DEF GroupsWhole
  <1> QED
    BY <1>2, ChunkInvariant, PTL

-----------------------------------------------------------------------------
(***************************************************************************)
(* The host's coordinates.                                                 *)
(***************************************************************************)

\* Walking the lengths, each segment begins at its span, or at the chunk's end.
LEMMA HostBoundsAre ==
    ASSUME NEW n \in 0 .. Capacity
    PROVE  \A s \in 0 .. NumSegments : HostBounds(n)[s] = Smaller(s * Span(n), n)
  <1> DEFINE S == Span(n)
             B == HostBounds(n)
             at(s) == Smaller(s * S, n)
             Walk(g) == [s \in 0 .. NumSegments |->
                            IF s = 0 THEN 0 ELSE g[s - 1] + SegmentLength(n, s - 1)]
             f == [s \in 0 .. NumSegments |-> at(s)]
  <1>1. S \in Nat \ {0} /\ n \in Nat /\ NumSegments \in Nat
    BY SpanFits, Sizes
  <1>2. at(0) = 0
    BY <1>1 DEF Smaller
  <1>3. ASSUME NEW s \in 1 .. NumSegments
        PROVE  at(s) = at(s - 1) + SegmentLength(n, s - 1)
    <2>1. s - 1 \in Nat /\ s \in Nat
      BY <1>1
    <2>2. (s - 1) * S = s * S - S /\ (s - 1) * S \in Nat /\ s * S \in Nat
      BY <1>1, <2>1, Successor
    <2>3. SegmentLength(n, s - 1) = IF n <= (s - 1) * S THEN 0
                                    ELSE IF n <= (s - 1) * S + S THEN n - (s - 1) * S ELSE S
      BY <2>1, LengthCases
    <2> DEFINE z == s * S
               y == (s - 1) * S
    <2>4. /\ y = z - S /\ y \in Nat /\ z \in Nat
          /\ SegmentLength(n, s - 1) = IF n <= y THEN 0 ELSE IF n <= y + S THEN n - y ELSE S
      BY <2>2, <2>3
    <2>5. at(s) = (IF z <= n THEN z ELSE n) /\ at(s - 1) = (IF y <= n THEN y ELSE n)
      BY DEF Smaller
    <2> HIDE DEF z, y, at, S
    <2> QED
      BY <1>1, <2>4, <2>5
  <1> HIDE DEF at
  <1>4. f = Walk(f)
    <2>1. \A s \in 0 .. NumSegments :
             at(s) = IF s = 0 THEN 0 ELSE f[s - 1] + SegmentLength(n, s - 1)
      <3> TAKE s \in 0 .. NumSegments
      <3>1. CASE s = 0
        BY <1>2, <3>1
      <3>2. CASE s # 0
        <4>1. s \in 1 .. NumSegments /\ s - 1 \in 0 .. NumSegments
          BY <1>1, <3>2
        <4> QED
          BY <1>3, <3>2, <4>1
      <3> QED
        BY <3>1, <3>2
    <2> QED
      BY <2>1
  <1>5. B = Walk(B)
    <2>1. B = CHOOSE g : g = Walk(g)
      BY DEF HostBounds
    <2> HIDE DEF Walk, f
    <2> QED
      BY <1>4, <2>1
  <1>6. B[0] = 0 /\ \A s \in 1 .. NumSegments : B[s] = B[s - 1] + SegmentLength(n, s - 1)
    <2> HIDE DEF B
    <2>1. \A s \in 0 .. NumSegments :
             B[s] = IF s = 0 THEN 0 ELSE B[s - 1] + SegmentLength(n, s - 1)
      BY <1>5
    <2> QED
      BY <1>1, <2>1
  <1> HIDE DEF B
  <1> DEFINE wrong == {s \in 0 .. NumSegments : B[s] # at(s)}
  <1>7. wrong = {}
    <2> SUFFICES ASSUME wrong # {} PROVE FALSE
      OBVIOUS
    <2>1. wrong \in SUBSET Nat
      BY <1>1
    <2>2. PICK m \in wrong : \A y \in wrong : m <= y
      <3> HIDE DEF wrong
      <3> QED
        BY <2>1, Least
    <2>3. m # 0
      BY <1>2, <1>6
    <2>4. m \in 1 .. NumSegments /\ m - 1 \in 0 .. NumSegments /\ ~ m <= m - 1
      BY <1>1, <2>3
    <2>5. B[m - 1] = at(m - 1)
      BY <2>2, <2>4
    <2>6. B[m] = at(m)
      BY <1>3, <1>6, <2>4, <2>5
    <2> QED
      BY <2>6
  <1> QED
    BY <1>7 DEF B, at, S

\* The last window's sources.
LEMMA HostSourcesAgree ==
    ASSUME NEW b \in Nat, NEW n \in 0 .. Capacity, NEW row \in Rows
    PROVE  WindowSource(b, n, row) = HostWindowSource(n, row)
  <1> DEFINE S == Span(n)
             B == HostBounds(n)
             i == n - TailRows + row
             s0 == i \div S
             holders == {s \in Segments : B[s] <= i /\ i < B[s + 1]}
             nowhere == [segment |-> -1, row |-> -1]
  <1>1. /\ S \in Nat \ {0} /\ n \in Nat /\ n <= NumSegments * S /\ NumSegments \in Nat \ {0}
        /\ TailRows \in Nat \ {0} /\ row \in 0 .. TailRows - 1
        /\ Segments = 0 .. NumSegments - 1
    BY SpanFits, Sizes
  <1>2. B[NumSegments] = n
    <2> DEFINE z == NumSegments * S
    <2>1. B[NumSegments] = IF z <= n THEN z ELSE n
      BY <1>1, HostBoundsAre DEF Smaller
    <2>2. z \in Nat /\ n <= z
      BY <1>1
    <2> HIDE DEF z, B
    <2> QED
      BY <1>1, <2>1, <2>2
  <1>3. i \in Int /\ i < n
    BY <1>1
  <1>4. HostWindowSource(n, row) =
           IF i < 0 \/ holders = {} THEN nowhere
           ELSE LET s == CHOOSE h \in holders : TRUE
                IN  [segment |-> s, row |-> i - B[s] - TailStart(n, s)]
    <2>1. HostWindowSource(n, row) =
           IF B[NumSegments] - TailRows + row < 0
              \/ {s \in Segments : B[s] <= B[NumSegments] - TailRows + row
                                   /\ B[NumSegments] - TailRows + row < B[s + 1]} = {}
           THEN nowhere
           ELSE LET s == CHOOSE h \in {s \in Segments : B[s] <= B[NumSegments] - TailRows + row
                                          /\ B[NumSegments] - TailRows + row < B[s + 1]} : TRUE
                IN  [segment |-> s, row |-> (B[NumSegments] - TailRows + row) - B[s] - TailStart(n, s)]
      BY DEF HostWindowSource
    <2> HIDE DEF B
    <2> QED
      BY <1>2, <2>1
  <1>5. WindowSource(b, n, row) =
           IF i < 0 THEN nowhere
           ELSE [segment |-> s0, row |-> i - s0 * S - TailStart(n, s0)]
    <2> DEFINE p == b + n - TailRows + row
    <2>1. p - b = i /\ (p < b <=> i < 0) /\ p = b + i
      BY <1>1
    <2>2. WindowSource(b, n, row) =
             IF p < b THEN nowhere
             ELSE [segment |-> (p - b) \div S,
                   row |-> p - SegmentStart(b, n, (p - b) \div S) - TailStart(n, (p - b) \div S)]
      BY DEF WindowSource
    <2> HIDE DEF p, i
    <2>3. CASE i < 0
      BY <2>1, <2>2, <2>3
    <2>4. CASE ~ i < 0
      <3>1. i \in 0 .. n - 1 /\ i >= n - TailRows
        BY <1>1, <1>3, <2>4 DEF i
      <3>2. /\ s0 * S \in Nat /\ TailStart(n, s0) \in Nat
        BY <3>1, TailHolds
      <3>3. SegmentStart(b, n, s0) = b + s0 * S
        BY DEF SegmentStart
      <3> DEFINE z == s0 * S
      <3> HIDE DEF s0, z, S
      <3>4. p - SegmentStart(b, n, s0) - TailStart(n, s0) = i - z - TailStart(n, s0)
        BY <1>3, <2>1, <3>2, <3>3 DEF z
      <3> QED
        BY <2>1, <2>2, <2>4, <3>4 DEF z, s0
    <2> QED
      BY <2>3, <2>4
  <1>6. CASE i < 0
    BY <1>4, <1>5, <1>6
  <1>7. CASE ~ i < 0
    <2> HIDE DEF i, B
    <2>1. i \in 0 .. n - 1 /\ i % S \in 0 .. S - 1
      <3>1. i \in 0 .. n - 1
        BY <1>1, <1>3, <1>7
      <3> HIDE DEF S
      <3> QED
        BY <1>1, <1>3, <3>1, DivMod
    <2>2. s0 \in Segments /\ i = s0 * S + (i % S)
      BY <2>1, Located
    <2>3. \A s \in Segments : /\ s \in Nat /\ s * S \in Nat
                              /\ B[s] = Smaller(s * S, n)
                              /\ B[s + 1] = Smaller(s * S + S, n)
      <3> TAKE s \in Segments
      <3>1. s \in Nat /\ s \in 0 .. NumSegments /\ s + 1 \in 0 .. NumSegments
        BY <1>1
      <3>2. (s + 1) * S = s * S + S /\ s * S \in Nat
        BY <1>1, <3>1, Successor
      <3>3. B[s] = Smaller(s * S, n) /\ B[s + 1] = Smaller((s + 1) * S, n)
        BY <3>1, HostBoundsAre DEF B
      <3> QED
        BY <3>1, <3>2, <3>3
    <2>4. \A s \in Segments : s \in holders <=> s * S <= i /\ i < s * S + S
      <3> TAKE s \in Segments
      <3> DEFINE z == s * S
      <3>1. z \in Nat /\ B[s] = (IF z <= n THEN z ELSE n)
            /\ B[s + 1] = (IF z + S <= n THEN z + S ELSE n)
        BY <2>3 DEF Smaller
      <3>2. s \in holders <=> B[s] <= i /\ i < B[s + 1]
        OBVIOUS
      <3> HIDE DEF z, holders, S
      <3>3. s \in holders <=> z <= i /\ i < z + S
        BY <1>1, <1>3, <2>1, <3>1, <3>2
      <3> QED
        BY <3>3 DEF z
    <2>5. s0 \in holders /\ B[s0] = s0 * S
      <3> DEFINE z == s0 * S
                 rest == i % S
      <3>1. z \in Nat /\ i = z + rest /\ rest \in 0 .. S - 1 /\ B[s0] = (IF z <= n THEN z ELSE n)
        BY <2>1, <2>2, <2>3 DEF Smaller
      <3>2. s0 \in holders <=> z <= i /\ i < z + S
        BY <2>2, <2>4
      <3> HIDE DEF z, rest, holders, s0, S
      <3>3. s0 \in holders /\ B[s0] = z
        BY <1>1, <1>3, <3>1, <3>2
      <3> QED
        BY <3>3 DEF z
    <2>6. \A s \in holders : s = s0
      <3> TAKE s \in holders
      <3>1. s \in Segments /\ s \in Nat /\ s * S \in Nat /\ s * S <= i /\ i < s * S + S
        BY <2>3, <2>4
      <3> DEFINE z == s * S
                 rest == i - z
      <3>2. rest \in 0 .. S - 1 /\ i = z + rest
        <4>1. z \in Nat /\ z <= i /\ i < z + S
          BY <3>1
        <4> HIDE DEF z, S
        <4> QED
          BY <1>1, <1>3, <4>1
      <3>3. s * S + rest = s0 * S + (i % S)
        BY <2>2, <3>2
      <3>4. s \in Int /\ s0 \in Int
        <4> HIDE DEF s0
        <4> QED
          BY <1>1, <2>2, <3>1
      <3> HIDE DEF rest, s0, S, holders
      <3> QED
        BY <1>1, <2>1, <3>2, <3>3, <3>4, Unique
    <2>7. holders # {} /\ (CHOOSE h \in holders : TRUE) = s0
      <3> HIDE DEF holders, s0
      <3> QED
        BY <2>5, <2>6
    <2> HIDE DEF holders, s0
    <2> QED
      BY <1>4, <1>5, <1>7, <2>5, <2>7
  <1> QED
    BY <1>6, <1>7

\* Both take the same overlay to lie before a tile that is not a chunk's first.
LEMMA HostPreviousAgrees ==
    ASSUME NEW b \in Nat, NEW n \in 0 .. Capacity, NEW s \in Nat, NEW tile \in Nat,
           Active(n, s, tile) > 0
    PROVE  LET start == SegmentStart(b, n, s) + tile * TailRows
               prev  == HostPrevious(b, n, s, tile)
           IN  s > 0 \/ tile > 0 => prev.rows = TailRows /\ prev.start = start - TailRows
  <1> DEFINE T == TailRows
             start == SegmentStart(b, n, s) + tile * T
             prev == HostPrevious(b, n, s, tile)
             device == Previous(b, n, s, tile)
  <1>1. s > 0 \/ tile > 0 => device.rows = T /\ device.start = start - T
    BY PreviousRows
  <1>2. ASSUME tile = 0, s > 0 PROVE prev.rows = T /\ prev.start = start - T
    <2>1. prev = [start |-> SegmentStart(b, n, s - 1) + Larger(0, SegmentLength(n, s - 1) - T),
                  rows  |-> Smaller(T, SegmentLength(n, s - 1))]
      BY <1>2 DEF HostPrevious
    <2>2. device = [start |-> SegmentStart(b, n, s - 1) + TailStart(n, s - 1), rows |-> TailLength(n, s - 1)]
      BY <1>2 DEF Previous
    <2>3. prev = device
      BY <2>1, <2>2 DEF TailStart, TailLength
    <2> QED
      BY <1>1, <1>2, <2>3
  <1>3. ASSUME tile > 0 PROVE prev.rows = T /\ prev.start = start - T
    <2>1. prev = [start |-> start - T, rows |-> Active(n, s, tile - 1)]
      BY ONLY <1>3, Zenon DEF HostPrevious
    <2>2. Active(n, s, tile - 1) = T
      BY <1>3, ActiveRows
    <2> HIDE DEF prev, start, T
    <2>3. prev.rows = Active(n, s, tile - 1) /\ prev.start = start - T
      BY <2>1
    <2> QED
      BY <2>2, <2>3 DEF T
  <1>4. s > 0 \/ tile > 0 => (tile = 0 /\ s > 0) \/ tile > 0
    OBVIOUS
  <1> QED
    BY <1>2, <1>3, <1>4

\* The index of every key: for one before the chunk, the row of the block table
\* that the harness names is in the table, since every position has a page.
LEMMA HostIndexAgrees ==
    ASSUME NEW b \in Nat, b <= OverlayBase, NEW n \in 0 .. Capacity, NEW s \in Nat, NEW tile \in Nat,
           NEW row \in Rows, NEW col \in Rows, row < Active(n, s, tile),
           KeyOf(SegmentStart(b, n, s) + tile * TailRows + row, col) >= 0
    PROVE  LET key  == KeyOf(SegmentStart(b, n, s) + tile * TailRows + row, col)
               host == HostKeyIndex(b, n, s, tile, key)
           IN  SwaIndex(b, n, s, tile, row, col) =
                  IF host \in 0 .. OverlayBase - 1 THEN Slot(host) ELSE host
  <1> DEFINE T == TailRows
             start == SegmentStart(b, n, s) + tile * T
             key == KeyOf(start + row, col)
             index == SwaIndex(b, n, s, tile, row, col)
             active == Active(n, s, tile)
             prev == HostPrevious(b, n, s, tile)
             host == HostKeyIndex(b, n, s, tile, key)
  <1>1. /\ T \in Nat \ {0} /\ row \in 0 .. T - 1 /\ Rows = 0 .. T - 1
        /\ OverlayBase \in Nat \ {0}
    BY Sizes, SizesAssumption
  <1>2. active \in 0 .. T
    BY ActiveRows
  <1>3. active > 0 /\ row < active
    BY <1>1, <1>2
  <1>4. /\ start \in Nat /\ start >= b
        /\ s = 0 /\ tile = 0 => start = b
        /\ s > 0 \/ tile > 0 => start - T >= b
    BY <1>3, PreviousRows
  <1>5. /\ key \in Int /\ key <= start + row /\ key >= 0
        /\ key >= start => index = OverlayBase + T + key - start
        /\ key < start /\ (s > 0 \/ tile > 0) =>
               index = OverlayBase + key - (start - T) /\ key - (start - T) \in Rows
        /\ key < start /\ s = 0 /\ tile = 0 => index = IF key \in 0 .. b - 1 THEN Slot(key) ELSE -1
    BY IndexOfKey
  <1>6. s > 0 \/ tile > 0 => prev.rows = T /\ prev.start = start - T
    BY <1>3, HostPreviousAgrees
  <1>7. host = CASE key < b -> RingRow(key)
                 [] key >= b /\ key \in start .. start + active - 1 -> OverlayBase + T + key - start
                 [] key >= b /\ key < start /\ key \in prev.start .. prev.start + prev.rows - 1 ->
                        OverlayBase + key - prev.start
                 [] OTHER -> -1
    BY DEF HostKeyIndex
  <1> DEFINE same == index = IF host \in 0 .. OverlayBase - 1 THEN Slot(host) ELSE host
  <1>8. same => index = IF host \in 0 .. OverlayBase - 1 THEN Slot(host) ELSE host
    OBVIOUS
  <1> HIDE DEF start, key, index, active, prev, host, T
  <1>9. ASSUME key >= start PROVE same
    <2>1. ~ key < b /\ key >= b /\ key \in start .. start + active - 1 /\ ~ key < start
      BY <1>1, <1>2, <1>3, <1>4, <1>5, <1>9
    <2>2. host = OverlayBase + T + key - start
      BY <1>7, <2>1
    <2>3. host \notin 0 .. OverlayBase - 1
      BY <1>1, <1>4, <1>5, <1>9, <2>2
    <2> QED
      BY <1>5, <1>9, <2>2, <2>3
  <1>10. ASSUME key < start /\ (s > 0 \/ tile > 0) PROVE same
    <2>1. prev.rows = T /\ prev.start = start - T
      BY <1>6, <1>10
    <2>2. /\ ~ key < b /\ key >= b /\ key \notin start .. start + active - 1
          /\ key \in prev.start .. prev.start + prev.rows - 1
      BY <1>1, <1>2, <1>4, <1>5, <1>10, <2>1
    <2>3. host = OverlayBase + key - (start - T)
      BY <1>7, <1>10, <2>1, <2>2
    <2>4. host \notin 0 .. OverlayBase - 1
      BY <1>1, <1>4, <1>5, <1>10, <2>3
    <2> QED
      BY <1>5, <1>10, <2>3, <2>4
  <1>11. ASSUME key < start /\ s = 0 /\ tile = 0 PROVE same
    <2>1. key < b /\ ~ key >= b /\ key \in 0 .. b - 1
      BY <1>4, <1>5, <1>11
    <2>2. host = key % OverlayBase
      BY <1>7, <2>1 DEF RingRow
    <2>3. key \in 0 .. OverlayBase - 1
      BY <1>1, <2>1
    <2>4. host = key
      BY <1>1, <2>2, <2>3
    <2>5. index = Slot(key)
      BY <1>5, <1>11, <2>1
    <2> QED
      BY <2>3, <2>4, <2>5
  <1>12. same
    BY <1>4, <1>5, <1>9, <1>10, <1>11
  <1> QED
    BY <1>8, <1>12 DEF index, host, key, start, T

\* The device's coordinates are the ones the host harness computes with other
\* formulas, a key before the chunk through the owner's block table
\* (cp_final_window_sources, lower_key_build).
THEOREM HostCorrect == ChunkSpec => []HostAgrees
  <1>1. ChunkInv => HostAgrees
    <2> SUFFICES ASSUME ChunkInv PROVE HostAgrees
      OBVIOUS
    <2>1. base \in Nat /\ length \in 0 .. Capacity /\ Segments \subseteq Nat /\ Tiles \subseteq Nat
      BY ChunkSizes, Sizes, SizesAssumption DEF ChunkInv, Tiles
    <2>4. base <= OverlayBase
      <3>1. base \in 0 .. MaxPosition /\ MaxPosition \in Nat /\ MaxPosition <= OverlayBase
        BY ChunkAssumption DEF ChunkInv, ChunkTypeOK
      <3> QED
        BY <3>1, SizesAssumption
    <2>2. \A row \in Rows : WindowSource(base, length, row) = HostWindowSource(length, row)
      BY <2>1, HostSourcesAgree
    <2>3. ASSUME NEW s \in Segments, NEW tile \in Tiles, NEW row \in Rows, NEW col \in Rows,
                 row < Active(length, s, tile),
                 KeyOf(SegmentStart(base, length, s) + tile * TailRows + row, col) >= 0
          PROVE  LET key  == KeyOf(SegmentStart(base, length, s) + tile * TailRows + row, col)
                     host == HostKeyIndex(base, length, s, tile, key)
                 IN  SwaIndex(base, length, s, tile, row, col) =
                        IF host \in 0 .. OverlayBase - 1 THEN Slot(host) ELSE host
      BY <2>1, <2>3, <2>4, HostIndexAgrees
    <2> QED
      BY <2>2, <2>3 DEF HostAgrees
  <1> QED
    BY <1>1, ChunkInvariant, PTL
=============================================================================
