------------------------------ MODULE CPChunks ------------------------------
(***************************************************************************)
(* One attention layer of a prefill request served chunk by chunk: the     *)
(* owner's rows are scattered to the ranks, the ranks exchange history and *)
(* hidden tails, stage the sliding-window sources of their two segments,   *)
(* the owner commits the chunk's last window to the paged cache, and the   *)
(* rows are gathered back.  The cache is all a later chunk has of an       *)
(* earlier one.                                                            *)
(*                                                                         *)
(* A hidden row is <<request, position>>: rows are moved, never mixed, so  *)
(* a row's origin is all the properties need.  A KV row adds the position  *)
(* RoPE was applied at.  Phases that the exchange protocols separate are   *)
(* single steps here; the protocols have modules of their own.             *)
(*                                                                         *)
(* CPPrefillProofs extends this module and CPTailExchange, so a name both  *)
(* would use has a prefix here: ChunkInit, ChunkSpec, prompt for request.  *)
(***************************************************************************)
EXTENDS CPMetadata

CONSTANTS
    Lengths,      \* chunk lengths the host submits
    MaxPosition,  \* bound: positions of a request stay below it
    Prompts       \* bound: requests served one after the other

ASSUME ChunkAssumption ==
    /\ Lengths \subseteq 1 .. Capacity
    /\ MaxPosition \in Nat \ {0} /\ Prompts \in Nat
    /\ MaxPosition <= OverlayBase    \* the block table has a page for every position

VARIABLES
    phase,     \* the last phase of the chunk that has run
    prompt,    \* the request being served
    base,      \* absolute position of the chunk's first token
    length,    \* tokens of the chunk
    cache,     \* the owner's raw KV cache, row by row
    local,     \* local_x_hc: each rank's hidden rows, part by part
    history,   \* history_raw: the window the cache held before the chunk
    logical,   \* logical_hidden: the hidden tail of every segment
    staged,    \* sparse_kv: each part's shared window rows
    output     \* the owner's hidden_out and pre_hc_hidden_out

chunkVars == <<phase, prompt, base, length, cache, local, history, logical, staged, output>>

Phases == {"idle", "scattered", "history", "tails", "staged", "committed", "gathered"}
Zero == <<0, 0>>
ZeroKV == <<0, 0, 0>>
KV(hidden, position) == <<hidden[1], hidden[2], position>>

\* Rows of the owner's pages.
CacheRows == FirstPage * TailRows .. (FirstPage + Pages) * TailRows - 1

LocalRows == LocalParts \X (0 .. SegmentRows - 1)
SharedRows == LocalParts \X (0 .. SegmentRows + TailRows - 1)
NoOutput == [hidden |-> [i \in 0 .. Capacity - 1 |-> Zero], tail |-> [i \in Rows |-> Zero]]

-----------------------------------------------------------------------------
(***************************************************************************)
(* What each phase computes.                                               *)
(***************************************************************************)

\* Row `row' of segment s as the owner stores it into a rank's input window.
Scattered(req, b, n, s, row) ==
    IF row < SegmentLength(n, s)
      THEN <<req, SegmentStart(b, n, s) + row>> ELSE Zero

\* cp_tail_assemble: the last rows of a rank's part, from its first real one.
Tail(rank, part, row) ==
    LET total == SegmentLength(length, LocalSegment(rank, part))
        first == Larger(total - TailRows, 0)
    IN  IF first + row < total THEN local[rank][<<part, first + row>>] ELSE Zero

\* The two KV sources of a part: its own rows and its predecessor's tail.
LocalKV(rank, part, row) ==
    LET s == LocalSegment(rank, part)
    IN  IF row < SegmentLength(length, s)
          THEN KV(local[rank][<<part, row>>], SegmentStart(base, length, s) + row)
          ELSE ZeroKV

PredecessorKV(rank, part, row) ==
    LET s == LocalSegment(rank, part)
    IN  IF s > 0 /\ row < Previous(base, length, s, 0).rows
          THEN KV(logical[s - 1][row], TailPosition(base, length, s - 1, row))
          ELSE ZeroKV

\* An overlay index resolved to a row, if the overlay's position agrees.
FromOverlay(rank, part, tile, index, key) ==
    LET s    == LocalSegment(rank, part)
        prev == Previous(base, length, s, tile)
    IN  CASE /\ index >= TailRows
             /\ index - TailRows < Active(length, s, tile)
             /\ SegmentStart(base, length, s) + tile * TailRows + index - TailRows = key ->
                   LocalKV(rank, part, tile * TailRows + index - TailRows)
          [] index \in 0 .. TailRows - 1 /\ index < prev.rows /\ prev.start + index = key ->
                   IF tile = 0 THEN PredecessorKV(rank, part, index)
                   ELSE LocalKV(rank, part, (tile - 1) * TailRows + index)
          [] OTHER -> ZeroKV

\* Mutant: any index below the overlays is taken for a cache row.
Resolve_ByIndex(rank, part, tile, index, key) ==
    CASE index < 0 -> ZeroKV
      [] index \in 0 .. OverlayBase - 1 ->
             IF key - base + TailRows \in Rows THEN history[key - base + TailRows] ELSE ZeroKV
      [] index >= OverlayBase -> FromOverlay(rank, part, tile, index - OverlayBase, key)

\* Where a staged row is taken from: by the key, not by the index's range.
Resolve(rank, part, tile, index, key) ==
    CASE index < 0 -> ZeroKV
      [] index >= 0 /\ key < base ->
             IF key - base + TailRows >= 0 THEN history[key - base + TailRows] ELSE ZeroKV
      [] index >= 0 /\ key >= base ->
             FromOverlay(rank, part, tile, index - OverlayBase, key)

\* _cp_swa_stage_sources: shared row p stands for the key p - TailRows rows
\* into the segment, resolved as the earliest query that sees it does.
StagedRow(rank, part, p) ==
    LET s    == LocalSegment(rank, part)
        own  == Larger(p - TailRows, 0)
        tile == own \div TailRows
        row  == own % TailRows
        col  == p - 1 - own
        key  == KeyOf(SegmentStart(base, length, s) + own, col)
    IN  IF p >= 1 /\ row < Active(length, s, tile) /\ col < TailRows
          THEN Resolve(rank, part, tile, SwaIndex(base, length, s, tile, row, col), key)
          ELSE ZeroKV

\* Mutant: the destination is addressed within the chunk, not the request.
Committed_ChunkRelative(c) ==
    LET writers == {row \in Rows :
                       /\ WindowSource(base, length, row).segment >= 0
                       /\ Slot(length - TailRows + row) = c}
    IN  IF writers = {} THEN cache[c]
        ELSE LET from == WindowSource(base, length, CHOOSE row \in writers : TRUE)
             IN  KV(logical[from.segment][from.row],
                    TailPosition(base, length, from.segment, from.row))

\* The window row the owner writes to cache row c, ZeroKV when none is.
Committed(c) ==
    LET writers == {row \in Rows :
                       /\ WindowSource(base, length, row).segment >= 0
                       /\ Slot(base + length - TailRows + row) = c}
    IN  IF writers = {} THEN cache[c]
        ELSE LET from == WindowSource(base, length, CHOOSE row \in writers : TRUE)
             IN  KV(logical[from.segment][from.row],
                    TailPosition(base, length, from.segment, from.row))

\* A segment's row in the owner's slab window, part p of rank r at its own slab.
Slab(s, row) == local[OwnerRank(s)][<<OwnerPart(s), row>>]

\* Mutant: the tail row is addressed from the segment's start, not its tail's.
LastRow_FromSegment(tail) ==
    LET position == Larger(0, length - TailRows) + tail
        s        == position \div Span(length)
    IN  IF tail < Smaller(TailRows, length)
          THEN Tail(OwnerRank(s), OwnerPart(s), position - s * Span(length)) ELSE Zero

\* Row `tail' of pre_hc_hidden_out: the chunk's last rows, from the tails.
LastRow(tail) ==
    LET position == Larger(0, length - TailRows) + tail
        s        == position \div Span(length)
        offset   == position - s * Span(length) - TailStart(length, s)
    IN  IF tail < Smaller(TailRows, length)
          THEN Tail(OwnerRank(s), OwnerPart(s), offset) ELSE Zero

-----------------------------------------------------------------------------
(***************************************************************************)
(* Phases of a chunk.                                                      *)
(***************************************************************************)

ChunkInit ==
    /\ phase = "idle" /\ prompt = 0 /\ base = 0 /\ length = 0
    /\ cache = [c \in CacheRows |-> ZeroKV]
    /\ local = [r \in Ranks |-> [x \in LocalRows |-> Zero]]
    /\ history = [i \in Rows |-> ZeroKV]
    /\ logical = [s \in Segments |-> [i \in Rows |-> Zero]]
    /\ staged = [r \in Ranks |-> [x \in SharedRows |-> ZeroKV]]
    /\ output = NoOutput

\* The host submits a chunk at b, and the owner scatters its rows.  The
\* layer's scratch tensors are new in every forward.
Scatter(req, b, n) ==
    /\ phase \in {"idle", "gathered"}
    /\ b + n <= MaxPosition
    /\ phase' = "scattered" /\ prompt' = req /\ base' = b /\ length' = n
    /\ local' = [r \in Ranks |-> [x \in LocalRows |->
                    Scattered(req, b, n, LocalSegment(r, x[1]), x[2])]]
    /\ history' = [i \in Rows |-> ZeroKV]
    /\ logical' = [s \in Segments |-> [i \in Rows |-> Zero]]
    /\ staged' = [r \in Ranks |-> [x \in SharedRows |-> ZeroKV]]
    /\ UNCHANGED <<cache, output>>

\* The next chunk of the request, or the first one of another request.
NextChunk == \E n \in Lengths : prompt > 0 /\ Scatter(prompt, base + length, n)
NewRequest == \E n \in Lengths : prompt < Prompts /\ Scatter(prompt + 1, 0, n)

\* The owner publishes the window before the chunk; only a continued chunk has one.
ExchangeHistory ==
    /\ phase = "scattered"
    /\ phase' = "history"
    /\ history' = IF base > 0
                    THEN [i \in Rows |-> IF base - TailRows + i >= 0
                                           THEN cache[Slot(base - TailRows + i)] ELSE ZeroKV]
                    ELSE history
    /\ UNCHANGED <<prompt, base, length, cache, local, logical, staged, output>>

\* Every rank publishes its two tails and reads all of them in logical order.
ExchangeTails ==
    /\ phase = "history"
    /\ phase' = "tails"
    /\ LET lane == [x \in Lanes |-> [i \in Rows |-> Tail(x \div 2, x % 2, i)]]
       IN  logical' = [s \in Segments |-> lane[ReverseIndex(s)]]
    /\ UNCHANGED <<prompt, base, length, cache, local, history, staged, output>>

Stage ==
    /\ phase = "tails"
    /\ phase' = "staged"
    /\ staged' = [r \in Ranks |-> [x \in SharedRows |-> StagedRow(r, x[1], x[2])]]
    /\ UNCHANGED <<prompt, base, length, cache, local, history, logical, output>>

\* Both segments have been staged before the owner commits the last window.
CommitWindow ==
    /\ phase = "staged"
    /\ phase' = "committed"
    /\ cache' = [c \in CacheRows |-> Committed(c)]
    /\ UNCHANGED <<prompt, base, length, local, history, logical, staged, output>>

GatherHidden ==
    /\ phase = "committed"
    /\ phase' = "gathered"
    /\ output' = [hidden |-> [i \in 0 .. Capacity - 1 |->
                                 IF i < length THEN Slab(i \div Span(length), i % Span(length))
                                 ELSE Zero],
                  tail   |-> [i \in Rows |-> LastRow(i)]]
    /\ UNCHANGED <<prompt, base, length, cache, local, history, logical, staged>>

\* The host has no more chunks to submit.
ChunksServed ==
    /\ phase = "gathered"
    /\ UNCHANGED chunkVars

ChunkNext ==
    \/ NextChunk \/ NewRequest
    \/ ExchangeHistory \/ ExchangeTails \/ Stage \/ CommitWindow \/ GatherHidden
    \/ ChunksServed

ChunkSpec == ChunkInit /\ [][ChunkNext]_chunkVars

-----------------------------------------------------------------------------
(***************************************************************************)
(* Properties.                                                             *)
(***************************************************************************)

Hidden == (0 .. Prompts) \X (0 .. MaxPosition - 1)
KVRows == (0 .. Prompts) \X (0 .. MaxPosition - 1) \X (0 .. MaxPosition - 1)

\* Every row a rank, the cache or the owner's output holds is zero or a row of
\* a submitted chunk: no copy reads past the real rows of a segment.
ChunkTypeOK ==
    /\ phase \in Phases
    /\ prompt \in 0 .. Prompts
    /\ base \in 0 .. MaxPosition /\ length \in Lengths \cup {0}
    /\ cache \in [CacheRows -> KVRows]
    /\ local \in [Ranks -> [LocalRows -> Hidden]]
    /\ history \in [Rows -> KVRows]
    /\ logical \in [Segments -> [Rows -> Hidden]]
    /\ staged \in [Ranks -> [SharedRows -> KVRows]]
    /\ output \in [hidden : [0 .. Capacity - 1 -> Hidden], tail : [Rows -> Hidden]]

\* The state is well typed; and every key a real query attends is unmasked
\* exactly when it exists, and the shared row the attention reads for it is that
\* key's KV row, rotated at its own position: from the cache, a predecessor on
\* another rank or the tile itself (_cp_swa_stage_sources and the swa_indices
\* it follows).
KeysFound ==
    /\ ChunkTypeOK
    /\ phase = "staged" =>
         \A r \in Ranks, part \in LocalParts, tile \in Tiles, row \in Rows, col \in Rows :
             LET s   == LocalSegment(r, part)
                 key == KeyOf(SegmentStart(base, length, s) + tile * TailRows + row, col)
             IN  row < Active(length, s, tile) =>
                     /\ (SwaIndex(base, length, s, tile, row, col) >= 0) <=> (key >= 0)
                     /\ key >= 0 =>
                          staged[r][<<part, tile * TailRows + row + 1 + col>>] = <<prompt, key, key>>

\* After the commit the cache holds the request's last window, whichever
\* chunks its positions came from (cp_swa_cache_commit).
WindowKept ==
    phase = "committed" =>
        \A p \in Larger(0, base + length - TailRows) .. base + length - 1 :
            cache[Slot(p)] = <<prompt, p, p>>

\* The owner gets the chunk's rows back in order and zero beyond them, and its
\* last rows for the next stage (_prefill_cp_gather_hidden).
OutputInOrder ==
    phase = "gathered" =>
        /\ \A i \in 0 .. Capacity - 1 :
               output.hidden[i] = IF i < length THEN <<prompt, base + i>> ELSE Zero
        /\ \A i \in Rows :
               output.tail[i] = IF i < Smaller(TailRows, length)
                                  THEN <<prompt, base + Larger(0, length - TailRows) + i>>
                                  ELSE Zero

\* What leaf `leaf' of a part replays: the predecessor's tail, then own tiles.
LeafRow(rank, part, leaf, row) ==
    LET s == LocalSegment(rank, part)
    IN  IF leaf = 0
          THEN logical[s - 1][TailLength(length, s - 1) - SeedLength(base, length, s) + row]
          ELSE local[rank][<<part, (leaf - 1) * TailRows + row>>]

\* Every compressed row the chunk completes has all its tokens, two groups of
\* them since windows overlap, in the leaves of the part that emits it (tokens
\* before the chunk come from compressor state), each under its own position;
\* and no two rows a rank emits share a scratch row (cp_csa_leaf_coordinates).
GroupsWhole ==
    phase = "tails" =>
        \A r \in Ranks :
            LET emitted == {p \in base .. base + length - 1 :
                               /\ EndsGroup(p)
                               /\ OwnerRank((p - base) \div Span(length)) = r}
                replayed(part) ==
                    {leaf \in Leaves \X Rows :
                        leaf[2] < LeafTokens(base, length, LocalSegment(r, part), leaf[1])}
            IN  /\ \A p, q \in emitted : ScratchRow(p) = ScratchRow(q) => p = q
                /\ \A part \in LocalParts : \A x \in replayed(part) :
                       LeafRow(r, part, x[1], x[2]) =
                          <<prompt, LeafPosition(base, length, LocalSegment(r, part), x[1], x[2])>>
                /\ \A p \in emitted :
                       LET s == (p - base) \div Span(length)
                       IN  {k \in base .. p : k > p - 2 * CompressRatio} \subseteq
                              {LeafPosition(base, length, s, x[1], x[2]) : x \in replayed(OwnerPart(s))}

\* The device's coordinates are the ones the host harness computes with other
\* formulas: the last window's sources, and the index of every key, the harness's
\* cache row of a key before the chunk being the device's through the owner's
\* block table (cp_final_window_sources, lower_key_build).
HostAgrees ==
    phase = "scattered" =>
        /\ \A row \in Rows : WindowSource(base, length, row) = HostWindowSource(length, row)
        /\ \A s \in Segments, tile \in Tiles, row \in Rows, col \in Rows :
               LET key  == KeyOf(SegmentStart(base, length, s) + tile * TailRows + row, col)
                   host == HostKeyIndex(base, length, s, tile, key)
               IN  row < Active(length, s, tile) /\ key >= 0 =>
                       SwaIndex(base, length, s, tile, row, col)
                         = IF host \in 0 .. OverlayBase - 1 THEN Slot(host) ELSE host
=============================================================================
