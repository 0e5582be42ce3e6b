----------------------------- MODULE CPCompact -----------------------------
(***************************************************************************)
(* The exchanges of the compressed attention layers of context-parallel    *)
(* prefill.  Each HCA or CSA layer of a request first streams the cache    *)
(* owner's history through the compact windows, one window of records a    *)
(* phase, and then publishes the records and the state its own tokens      *)
(* complete; every rank gathers them into a root for its attention, the    *)
(* owner commits them to its paged cache as well.  HCA and CSA layers have *)
(* windows and ready/consumed banks of their own, shared by their layers;  *)
(* an HCA phase counts one credit, a CSA phase two, because a CSA layer    *)
(* announces its index records before the rest.                            *)
(*                                                                         *)
(* A segment is one token here, so a window has a row per segment.         *)
(***************************************************************************)
EXTENDS CPLayout, Sequences, FiniteSets

CONSTANTS
    LayerKinds,  \* the compressed layers of a forward, in order
    Ratio,       \* Ratio[k]: tokens a record of kind k compresses
    MaxSeqLen,   \* positions of a sequence (MAX_SEQ_LEN)
    Requests,    \* bound: requests served, owners taking turns
    Plans        \* plan[q]: tokens cached before request q, and tokens it brings

Kinds == {"hca", "csa"}

ASSUME LayerKindsAssumption == LayerKinds \in Seq(Kinds) /\ LayerKinds # <<>>
ASSUME RatioAssumption == Ratio \in [Kinds -> Nat \ {0}]
ASSUME RequestsAssumption == Requests \in Nat /\ MaxSeqLen \in Nat

\* Prefill requires CP > 1 (prefill_fwd.py:1912).
ASSUME GroupAssumption == CPSize > 1

\* A request continues its owner's last one, within the capacity of a chunk and
\* of a sequence.  One without tokens passes straight to the barrier.
ASSUME PlansAssumption ==
    /\ Plans \subseteq [0 .. Requests - 1 -> [base : Nat, length : 0 .. NumSegments]]
    /\ \A plan \in Plans : \A q \in 0 .. Requests - 1 :
         /\ plan[q].base + plan[q].length <= MaxSeqLen
         /\ q >= CPSize =>
              plan[q].base = plan[q - CPSize].base + plan[q - CPSize].length

VARIABLES
    plan,        \* what the requests ask for
    request, waiting,  \* request r is in, and whether r is in its barrier
    layer,       \* layer[r]: index into LayerKinds
    phase,       \* phase[r]: history phases of the layer that r has behind it
    stage,       \* stage[r]: what r is doing
    indexed,     \* indexed[r]: peers r's index blocks have served, this phase
    put,         \* put[r]: peers r has put its rows to, this phase
    told,        \* told[r]: peers r has announced those rows to
    taken,       \* taken[r]: reads of r's window done, this phase
    freed,       \* freed[r]: peers r has told that it has read
    window,      \* window[k][r]: part and row -> what it holds
    ready, consumed,   \* ready[k][r][p], consumed[k][r][p]: the banks of r
    root,        \* root[r]: what r's attention finds, in this layer
    cache,       \* cache[r][l]: r's paged pools of layer l
    retired      \* retired[r]: kinds whose banks r has cleared, this request

vars == <<plan, request, waiting, layer, phase, stage, indexed, put, told,
          taken, freed, window, ready, consumed, root, cache, retired>>

progress == <<request, waiting, layer, phase, stage, retired>>

Peers(r) == Ranks \ {r}

\* A tensor g after the cells of f have been written to it.
Over(f, g) ==
    [c \in DOMAIN f \cup DOMAIN g |-> IF c \in DOMAIN f THEN f[c] ELSE g[c]]

Owner(q) == q % CPSize

Kind(r) == LayerKinds[layer[r]]

\* Credits of one phase.
Unit(k) == IF k = "csa" THEN 2 ELSE 1

\* Tokens the owner has cached before request q, and after it.
Base(q) == plan[q].base

End(q) == plan[q].base + plan[q].length

LayersOf(k) == {l \in DOMAIN LayerKinds : LayerKinds[l] = k}

\* Position of a layer among the layers of its kind.
TypeIndex(l) == Cardinality({i \in LayersOf(LayerKinds[l]) : i < l})

WindowRows == NumSegments

Windows(records) == (records + WindowRows - 1) \div WindowRows

MaxRecords(k) == MaxSeqLen \div Ratio[k]

\* Cached records that the history phases stream: HCA clamps the count.
HistoryRows(k, q) ==
    LET cached == Base(q) \div Ratio[k]
    IN  IF k = "hca" /\ cached > MaxRecords(k) THEN MaxRecords(k) ELSE cached

\* Mutant: a last window that is not full is not streamed.
HistoryPhases_Floor(k, q) ==
    IF Base(q) = 0 THEN 0 ELSE 1 + HistoryRows(k, q) \div WindowRows

HistoryPhases(k, q) ==
    IF Base(q) = 0 THEN 0 ELSE 1 + Windows(HistoryRows(k, q))

\* Mutant: a first chunk retires as many credits as a continued one.
Completed_AlwaysPrefixed(k, q) ==
    Unit(k) * Cardinality(LayersOf(k)) * (2 + Windows(Base(q) \div Ratio[k]))

\* Credits of a bank that a rank must see consumed before it clears the bank;
\* the prefix is not clamped here.
Completed(k, q) ==
    Unit(k) * Cardinality(LayersOf(k))
        * IF Base(q) = 0 THEN 1 ELSE 2 + Windows(Base(q) \div Ratio[k])

InHistory(r) == phase[r] < HistoryPhases(Kind(r), request[r])

\* Credits of r's bank that its layers and phases so far have used.
Epoch(r) ==
    Unit(Kind(r)) * (TypeIndex(layer[r]) * (HistoryPhases(Kind(r), request[r]) + 1) + phase[r])

\* A CSA layer publishes its own records in two stages.
TwoStage(r) == Kind(r) = "csa" /\ ~InHistory(r)

-----------------------------------------------------------------------------
\* What windows, roots and pools hold: rows know where they come from.
Item(o, l, part, n) == [owner |-> o, layer |-> l, part |-> part, at |-> n]

Nothing == Item(-1, 0, "none", -1)

Slots(k) == 0 .. MaxRecords(k) - 1

\* Parts of an attention root and of a pool: records, and the compressor state.
Parts(k) == IF k = "csa" THEN {"main", "index"} ELSE {"main"}

Cells(k) == (Parts(k) \X Slots(k)) \cup {<<"state", 0>>, <<"raw", 0>>}

\* The pools of owner o, or a root, for the first n tokens of o's sequence.
Filled(o, l, n) ==
    LET k == LayerKinds[l]
    IN  [c \in Cells(k) |->
            CASE c[1] = "raw" -> Nothing
              [] c[1] = "state" -> IF n = 0 THEN Nothing ELSE Item(o, l, "state", n)
              [] OTHER -> IF c[2] < n \div Ratio[k] THEN Item(o, l, c[1], c[2]) ELSE Nothing]

Blank(l) == [c \in Cells(LayerKinds[l]) |-> Nothing]

\* Rows of a window: records and their index entries, the records' slots, and
\* a state lane per rank.  HCA ships its raw tail in the second state lane, CSA
\* in the first record row.
WindowCells == ({"main", "index", "meta"} \X Lanes) \cup ({"state"} \X Ranks)

RawCell(k) == IF k = "hca" THEN <<"state", 1>> ELSE <<"main", 0>>

\* Phase 0 of the history: the tails of the raw cache and of the state.
HistoryTail(r) ==
    LET o == Owner(request[r])
    IN  [c \in {RawCell(Kind(r)), <<"state", 0>>} |->
            IF c = <<"state", 0>> THEN cache[o][layer[r]][<<"state", 0>>]
            ELSE Item(o, layer[r], "raw", Base(request[r]))]

\* Records of the window that history phase phase[r] > 0 streams.
LogicalRow(r, row) == (phase[r] - 1) * WindowRows + row

Streamed(r, row) == LogicalRow(r, row) < HistoryRows(Kind(r), request[r])

\* HCA pads the last window with zeros, CSA puts the records alone.
HistoryWindow(r) ==
    LET rows == {i \in Lanes : Kind(r) = "hca" \/ Streamed(r, i)}
    IN  [c \in Parts(Kind(r)) \X rows |->
            IF Streamed(r, c[2])
            THEN cache[Owner(request[r])][layer[r]][<<c[1], LogicalRow(r, c[2])>>]
            ELSE Nothing]

\* Whether the token of segment s completes a record, and which.
Completes(r, s) ==
    /\ s < plan[request[r]].length
    /\ (Base(request[r]) + s + 1) % Ratio[Kind(r)] = 0

RecordSlot(r, s) == (Base(request[r]) + s + 1) \div Ratio[Kind(r)] - 1

OwnLanes(r) == {Lane(r, p) : p \in LocalParts}

\* r's own records, their slots ("meta") among them.
Records(r, parts) ==
    [c \in parts \X OwnLanes(r) |->
        LET s == LocalSegment(r, c[2] - 2 * r)
        IN  IF Completes(r, s)
            THEN Item(Owner(request[r]), layer[r], c[1], RecordSlot(r, s)) ELSE Nothing]

\* The state at the end of the chunk: valid from the rank of the last segment.
Snapshot(r) ==
    [c \in {<<"state", r>>} |->
        IF OwnerRank(plan[request[r]].length - 1) = r
        THEN Item(Owner(request[r]), layer[r], "state", End(request[r])) ELSE Nothing]

\* What r's puts leave in a peer's window.
Payload(r) ==
    IF InHistory(r) THEN IF phase[r] = 0 THEN HistoryTail(r) ELSE HistoryWindow(r)
    ELSE IF TwoStage(r) THEN Over(Records(r, {"main"}), Snapshot(r))
    ELSE Over(Records(r, {"main", "meta"}), Snapshot(r))

Publishes(r) == InHistory(r) => r = Owner(request[r])

-----------------------------------------------------------------------------
Barrier == INSTANCE RequestBarrier
    WITH Members <- Ranks, Rounds <- Requests, at <- request

\* What owner o has cached when the first request begins.
Cached0(o) == IF o < Requests THEN Base(o) ELSE 0

\* A request without tokens runs no layer.
StartStage(q) ==
    IF q = Requests THEN "stopped" ELSE IF plan[q].length = 0 THEN "arrive" ELSE "exchange"

Init ==
    /\ plan \in Plans
    /\ Barrier!Init
    /\ layer = [r \in Ranks |-> 1]
    /\ phase = [r \in Ranks |-> 0]
    /\ stage = [r \in Ranks |-> StartStage(0)]
    /\ indexed = [r \in Ranks |-> {}]
    /\ put = [r \in Ranks |-> {}]
    /\ told = [r \in Ranks |-> {}]
    /\ taken = [r \in Ranks |-> {}]
    /\ freed = [r \in Ranks |-> {}]
    /\ window = [k \in Kinds |-> [r \in Ranks |-> [c \in WindowCells |-> Nothing]]]
    /\ ready = [k \in Kinds |-> [r \in Ranks |-> [p \in Ranks |-> 0]]]
    /\ consumed = ready
    /\ root = [r \in Ranks |-> Blank(1)]
    /\ cache = [r \in Ranks |-> [l \in DOMAIN LayerKinds |-> Filled(r, l, Cached0(r))]]
    /\ retired = [r \in Ranks |-> {}]

\* Mutant: a publisher does not wait for its peers to have read the last phase.
Credit_NoWait(r, p) == TRUE

Credit(r, p) == p # r => consumed[Kind(r)][r][p] >= Epoch(r)

\* r's rows for peer p.  All credits come first, except that each block of a
\* CSA layer's own records waits for its own peer, after the index blocks.
Put(r, p) ==
    /\ stage[r] = "exchange" /\ Publishes(r) /\ p \notin put[r]
    /\ IF TwoStage(r) THEN indexed[r] = Ranks /\ Credit(r, p)
       ELSE \A q \in Ranks : Credit(r, q)
    /\ put' = [put EXCEPT ![r] = @ \cup {p}]
    /\ window' = [window EXCEPT ![Kind(r)][p] = Over(Payload(r), window[Kind(r)][p])]
    /\ UNCHANGED <<plan, progress, indexed, told, taken, freed, ready,
                   consumed, root, cache>>

\* In a history phase every rank announces, the owner after its last put.
Notify(r, p) ==
    /\ stage[r] = "exchange" /\ p \in Peers(r) \ told[r]
    /\ IF TwoStage(r) THEN p \in put[r]
       ELSE IF Publishes(r) THEN put[r] = Ranks ELSE \A q \in Ranks : Credit(r, q)
    /\ told' = [told EXCEPT ![r] = @ \cup {p}]
    /\ ready' = [ready EXCEPT ![Kind(r)][p][r] = @ + IF TwoStage(r) THEN 1 ELSE Unit(Kind(r))]
    /\ UNCHANGED <<plan, progress, indexed, put, taken, freed, window,
                   consumed, root, cache>>

\* An index block of a CSA layer: index records and slots, put and announced.
PublishIndex(r, p) ==
    /\ stage[r] = "exchange" /\ TwoStage(r) /\ p \notin indexed[r]
    /\ Credit(r, p)
    /\ indexed' = [indexed EXCEPT ![r] = @ \cup {p}]
    /\ window' = [window EXCEPT ![Kind(r)][p] =
                     Over(Records(r, {"index", "meta"}), window[Kind(r)][p])]
    /\ ready' = IF p = r THEN ready ELSE [ready EXCEPT ![Kind(r)][p][r] = @ + 1]
    /\ UNCHANGED <<plan, progress, put, told, taken, freed, consumed, root, cache>>

\* Every peer has announced n credits beyond this phase's epoch.
Announced(r, n) == \A p \in Peers(r) : ready[Kind(r)][r][p] >= Epoch(r) + n

\* Mutant: a phase counts as announced by its first credit.
Complete_FirstCredit(r) == told[r] = Peers(r) /\ Announced(r, 1)

\* r has announced its rows and every peer has announced all of its own.
Complete(r) == told[r] = Peers(r) /\ Announced(r, Unit(Kind(r)))

\* The tails of the history, or the records of one window of it.
TakeHistory(r) ==
    /\ stage[r] = "exchange" /\ InHistory(r) /\ taken[r] = {}
    /\ Complete(r)
    /\ taken' = [taken EXCEPT ![r] = {"history"}]
    /\ LET held == window[Kind(r)][r]
           streamed == {i \in Lanes : Streamed(r, i)}
           tails == [c \in {<<"state", 0>>, <<"raw", 0>>} |->
                        held[IF c[1] = "raw" THEN RawCell(Kind(r)) ELSE c]]
           records == [c \in Parts(Kind(r)) \X {LogicalRow(r, i) : i \in streamed} |->
                          held[<<c[1], c[2] - LogicalRow(r, 0)>>]]
       IN  root' = [root EXCEPT ![r] =
                       IF phase[r] = 0 THEN Over(tails, root[r]) ELSE Over(records, root[r])]
    /\ UNCHANGED <<plan, progress, indexed, put, told, freed, window, ready,
                   consumed, cache>>

\* What r's window says the records are: slot -> window row of its record.
Received(r) ==
    LET held == window[Kind(r)][r]
        valid == {i \in Lanes : held[<<"meta", i>>] # Nothing
                                /\ held[<<"meta", i>>].at \in Slots(Kind(r))}
    IN  [n \in {held[<<"meta", i>>].at : i \in valid} |->
            CHOOSE i \in valid : held[<<"meta", i>>].at = n]

\* The received records of one part, by slot.
Gathered(r, part) ==
    LET rows == Received(r)
    IN  [c \in {part} \X DOMAIN rows |-> window[Kind(r)][r][<<part, rows[c[2]]>>]]

\* Mutant: every rank commits to its pools.
Committed_Everywhere(r, cells) ==
    [cache EXCEPT ![r][layer[r]] = Over(cells, cache[r][layer[r]])]

\* Only the cache owner commits to its pools.
Committed(r, cells) ==
    IF r = Owner(request[r])
    THEN [cache EXCEPT ![r][layer[r]] = Over(cells, cache[r][layer[r]])]
    ELSE cache

\* The index records need the index announcements only.
CommitIndex(r) ==
    /\ stage[r] = "exchange" /\ TwoStage(r) /\ "index" \notin taken[r]
    /\ indexed[r] = Ranks /\ Announced(r, 1)
    /\ taken' = [taken EXCEPT ![r] = @ \cup {"index"}]
    /\ root' = [root EXCEPT ![r] = Over(Gathered(r, "index"), root[r])]
    /\ cache' = Committed(r, Gathered(r, "index"))
    /\ UNCHANGED <<plan, progress, indexed, put, told, freed, window, ready, consumed>>

CommitRecords(r) ==
    /\ stage[r] = "exchange" /\ ~InHistory(r) /\ "main" \notin taken[r]
    /\ put[r] = Ranks /\ Complete(r)
    /\ taken' = [taken EXCEPT ![r] = @ \cup {"main"}]
    /\ root' = [root EXCEPT ![r] = Over(Gathered(r, "main"), root[r])]
    /\ cache' = Committed(r, Gathered(r, "main"))
    /\ UNCHANGED <<plan, progress, indexed, put, told, freed, window, ready, consumed>>

\* Mutant: the state is committed, and the window given back, without waiting
\* for the index records to be committed.
StateReady_PayloadOnly(r) == "main" \in taken[r]

\* The state comes last: its commit gives the window back.
StateReady(r) == Parts(Kind(r)) \subseteq taken[r]

CommitState(r) ==
    /\ stage[r] = "exchange" /\ ~InHistory(r) /\ "state" \notin taken[r]
    /\ StateReady(r)
    /\ taken' = [taken EXCEPT ![r] = @ \cup {"state"}]
    /\ LET held == window[Kind(r)][r]
           valid == {i \in Ranks : held[<<"state", i>>] # Nothing}
       IN  cache' = Committed(r, [c \in {<<"state", 0>> : i \in valid} |->
                                     held[<<"state", CHOOSE i \in valid : TRUE>>]])
    /\ UNCHANGED <<plan, progress, indexed, put, told, freed, window, ready,
                   consumed, root>>

\* r has read all it wants of its window in this phase.
Finished(r) == taken[r] \cap {"history", "state"} # {}

Release(r, p) ==
    /\ stage[r] = "exchange" /\ Finished(r) /\ p \in Peers(r) \ freed[r]
    /\ freed' = [freed EXCEPT ![r] = @ \cup {p}]
    /\ consumed' = [consumed EXCEPT ![Kind(r)][p][r] = @ + Unit(Kind(r))]
    /\ UNCHANGED <<plan, progress, indexed, put, told, taken, window, ready,
                   root, cache>>

\* On to the next phase, the next compressed layer, or the retirement.
NextPhase(r) ==
    /\ stage[r] = "exchange" /\ Finished(r) /\ freed[r] = Peers(r)
    /\ \/ /\ InHistory(r)
          /\ phase' = [phase EXCEPT ![r] = @ + 1]
          /\ UNCHANGED <<layer, stage, root>>
       \/ /\ ~InHistory(r) /\ layer[r] < Len(LayerKinds)
          /\ phase' = [phase EXCEPT ![r] = 0]
          /\ layer' = [layer EXCEPT ![r] = @ + 1]
          /\ root' = [root EXCEPT ![r] = Blank(layer[r] + 1)]
          /\ UNCHANGED stage
       \/ /\ ~InHistory(r) /\ layer[r] = Len(LayerKinds)
          /\ stage' = [stage EXCEPT ![r] = "retire"]
          /\ UNCHANGED <<layer, phase, root>>
    /\ indexed' = [indexed EXCEPT ![r] = {}]
    /\ put' = [put EXCEPT ![r] = {}]
    /\ told' = [told EXCEPT ![r] = {}]
    /\ taken' = [taken EXCEPT ![r] = {}]
    /\ freed' = [freed EXCEPT ![r] = {}]
    /\ UNCHANGED <<plan, request, waiting, window, ready, consumed, cache, retired>>

\* Mutant: the banks are cleared without waiting for the last consumed notices.
Spent_NoWait(r, k) == TRUE

\* Every peer has read all the phases of the request.
Spent(r, k) == \A p \in Peers(r) : consumed[k][r][p] >= Completed(k, request[r])

\* Mutant: the bank of consumed notices is not cleared.
Zeroed_ReadyOnly(r, k) ==
    /\ ready' = [ready EXCEPT ![k][r] = [p \in Ranks |-> 0]]
    /\ UNCHANGED consumed

\* r's two banks of kind k are zero.
Zeroed(r, k) ==
    /\ ready' = [ready EXCEPT ![k][r] = [p \in Ranks |-> 0]]
    /\ consumed' = [consumed EXCEPT ![k][r] = [p \in Ranks |-> 0]]

Retire(r, k) ==
    /\ stage[r] = "retire" /\ k \notin retired[r]
    /\ Spent(r, k)
    /\ retired' = [retired EXCEPT ![r] = @ \cup {k}]
    /\ Zeroed(r, k)
    /\ UNCHANGED <<plan, request, waiting, layer, phase, stage, indexed, put,
                   told, taken, freed, window, root, cache>>

Arrive(r) ==
    /\ stage[r] = "arrive" \/ (stage[r] = "retire" /\ retired[r] = Kinds)
    /\ Barrier!Reach(r)
    /\ UNCHANGED <<plan, layer, phase, stage, indexed, put, told, taken, freed,
                   window, ready, consumed, root, cache, retired>>

\* Every rank is through: the next request starts its epochs from zero.
Leave(r) ==
    /\ Barrier!Leave(r)
    /\ layer' = [layer EXCEPT ![r] = 1]
    /\ phase' = [phase EXCEPT ![r] = 0]
    /\ stage' = [stage EXCEPT ![r] = StartStage(request[r] + 1)]
    /\ root' = [root EXCEPT ![r] = Blank(1)]
    /\ retired' = [retired EXCEPT ![r] = {}]
    /\ UNCHANGED <<plan, indexed, put, told, taken, freed, window, ready,
                   consumed, cache>>

RankStep(r) ==
    \/ \E p \in Ranks : Put(r, p) \/ Notify(r, p) \/ PublishIndex(r, p) \/ Release(r, p)
    \/ TakeHistory(r) \/ CommitIndex(r) \/ CommitRecords(r) \/ CommitState(r)
    \/ NextPhase(r)
    \/ \E k \in Kinds : Retire(r, k)
    \/ Arrive(r) \/ Leave(r)

\* All requests served: the host call has returned on every rank.
Stopped == (\A r \in Ranks : stage[r] = "stopped") /\ UNCHANGED vars

Next == (\E r \in Ranks : RankStep(r)) \/ Stopped

Spec == Init /\ [][Next]_vars

FairSpec == Spec /\ \A r \in Ranks : WF_vars(RankStep(r))

-----------------------------------------------------------------------------
Items == [owner : Ranks \cup {-1}, layer : 0 .. Len(LayerKinds),
          part : {"main", "index", "meta", "state", "raw", "none"}, at : -1 .. MaxSeqLen]

\* Credits a bank can hold within one request.
MaxCredits(k) == Unit(k) * Cardinality(LayersOf(k)) * (2 + Windows(MaxRecords(k)))

TypeOK ==
    /\ plan \in Plans
    /\ request \in [Ranks -> 0 .. Requests]
    /\ waiting \in [Ranks -> BOOLEAN]
    /\ layer \in [Ranks -> DOMAIN LayerKinds]
    /\ phase \in [Ranks -> Nat]
    /\ stage \in [Ranks -> {"exchange", "retire", "arrive", "stopped"}]
    /\ \A s \in {indexed, put, told, freed} : s \in [Ranks -> SUBSET Ranks]
    /\ taken \in [Ranks -> SUBSET {"history", "index", "main", "state"}]
    /\ retired \in [Ranks -> SUBSET Kinds]
    /\ window \in [Kinds -> [Ranks -> [WindowCells -> Items]]]
    /\ \A k \in Kinds : ready[k] \in [Ranks -> [Ranks -> 0 .. MaxCredits(k)]]
    /\ \A k \in Kinds : consumed[k] \in [Ranks -> [Ranks -> 0 .. MaxCredits(k)]]
    /\ \A r \in Ranks : root[r] \in [Cells(Kind(r)) -> Items]
    /\ \A r \in Ranks, l \in DOMAIN LayerKinds :
            cache[r][l] \in [Cells(LayerKinds[l]) -> Items]

\* Tokens whose records rank r's root must hold: what history has streamed so
\* far or, once the layer's own records are in, the whole sequence.
Covered(r, part) ==
    IF part \in taken[r] THEN End(request[r]) ELSE Base(request[r])

\* An attention root never misses, misplaces or mixes records: once a rank has
\* read all history phases it holds exactly the owner's cached records, with
\* the tails the compressor starts from, and after its commits also every
\* record of this chunk, whichever rank computed it.
RootExact ==
    \A r \in Ranks :
        LET q == request[r]
            whole(part) == Filled(Owner(q), layer[r], Covered(r, part))
        IN  stage[r] = "exchange" /\ ~InHistory(r) =>
                /\ \A c \in Parts(Kind(r)) \X Slots(Kind(r)) : root[r][c] = whole(c[1])[c]
                /\ Base(q) > 0 =>
                     /\ root[r][<<"state", 0>>] = Item(Owner(q), layer[r], "state", Base(q))
                     /\ root[r][<<"raw", 0>>] = Item(Owner(q), layer[r], "raw", Base(q))

\* Owner o has layer l of request q behind it.
Behind(o, l, q) ==
    \/ request[o] > q
    \/ request[o] = q /\ (stage[o] # "exchange" \/ layer[o] > l)

\* Tokens of owner o's sequence that layer l must have cached.
Cached(o, l) ==
    LET done == {q \in 0 .. Requests - 1 : Owner(q) = o /\ Behind(o, l, q)}
    IN  IF done = {} THEN Cached0(o) ELSE End(CHOOSE q \in done : \A i \in done : i <= q)

\* The pools of an owner hold exactly the records and the state of its own
\* sequence, request after request: nothing of a peer's request, nothing
\* overwritten, nothing lost, except in the layer it is committing.
CacheExact ==
    \A o \in Ranks, l \in DOMAIN LayerKinds :
        (stage[o] = "exchange" /\ layer[o] = l /\ Owner(request[o]) = o)
            \/ cache[o][l] = Filled(o, l, Cached(o, l))

\* No bank ever holds more credits than one request uses, and one that a rank
\* has cleared stays clear until every rank is through with the request: no
\* credit of it arrives late to be taken for the next one's.
RetiredQuiet ==
    /\ TypeOK
    /\ \A r \in Ranks : (\A p \in Ranks : request[p] <= request[r]) =>
         \A k \in retired[r], p \in Ranks : ready[k][r][p] = 0 /\ consumed[k][r][p] = 0

\* Every rank gets through every request, whatever has been cached before:
\* credits used and credits retired agree.
AllServed == <>(\A r \in Ranks : stage[r] = "stopped")
=============================================================================
