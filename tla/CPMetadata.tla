----------------------------- MODULE CPMetadata -----------------------------
(***************************************************************************)
(* The coordinates of one chunk of a prefill request: where each segment   *)
(* starts and how much of it is real, which positions its tail carries,    *)
(* which source a query's key is read from, which rows the ratio-4         *)
(* compressor is seeded with, and where the chunk's last window lies.      *)
(* Every rank computes these on its own from the request header, and the   *)
(* host harness computes them again; a chunk has `length' tokens at        *)
(* absolute positions base .. base+length-1.                               *)
(***************************************************************************)
EXTENDS CPLayout

CONSTANTS
    TailRows,        \* rows of a tail, a tile and the sliding window (TAIL_ROWS = WIN)
    MaxTiles,        \* tiles a segment's storage holds (MAX_SEGMENT_TILES)
    CompressRatio,   \* tokens per compressed row (CSA_COMPRESS_RATIO)
    OverlayBase,     \* rows of the block table's pages, and the first index of the
                     \* overlay rows (ORI_CACHE_ROWS, OVERLAY_BASE)
    FirstPage,       \* first physical page of the owner's cache
    Pages            \* pages the block table cycles through

ASSUME SizesAssumption ==
    /\ TailRows \in Nat \ {0}
    /\ MaxTiles \in Nat \ {0}
    /\ CompressRatio \in Nat \ {0}
    /\ OverlayBase \in Nat \ {0}
    /\ FirstPage \in Nat
    /\ Pages \in Nat \ {0}

\* A tile holds whole groups, and a tail two of them.
ASSUME CompressAssumption ==
    /\ TailRows % CompressRatio = 0
    /\ 2 * CompressRatio <= TailRows

Rows == 0 .. TailRows - 1
Tiles == 0 .. MaxTiles - 1
SegmentRows == MaxTiles * TailRows
Capacity == NumSegments * SegmentRows
Larger(a, b) == IF a >= b THEN a ELSE b
Smaller(a, b) == IF a <= b THEN a ELSE b

\* x confined to 0 .. hi.
Clamp(hi, x) == Larger(0, Smaller(hi, x))

-----------------------------------------------------------------------------
(***************************************************************************)
(* Segments and their tails.                                               *)
(***************************************************************************)

\* Rows of a full segment: an even split of the chunk, at least one window.
Span(length) == Larger(TailRows, (length + NumSegments - 1) \div NumSegments)

SegmentStart(base, length, s) == base + s * Span(length)

SegmentLength(length, s) == Clamp(Span(length), length - s * Span(length))

\* The first row of segment s that belongs to its tail.
TailStart(length, s) == Larger(0, SegmentLength(length, s) - TailRows)

TailLength(length, s) == Smaller(TailRows, SegmentLength(length, s))

\* The position RoPE is given for row `row' of the tail of segment s.
TailPosition(base, length, s, row) ==
    IF row < TailLength(length, s)
      THEN SegmentStart(base, length, s) + TailStart(length, s) + row
      ELSE -1

\* Mutant: every segment's tail is taken to be that of a full segment.
WindowSource_FullSegments(base, length, row) ==
    LET position == base + length - TailRows + row
        s        == (position - base) \div Span(length)
    IN  IF position < base
          THEN [segment |-> -1, row |-> -1]
          ELSE [segment |-> s,
                row |-> position - SegmentStart(base, length, s) - (Span(length) - TailRows)]

\* Segment and tail row that hold row `row' of the chunk's last window.
WindowSource(base, length, row) ==
    LET position == base + length - TailRows + row
        s        == (position - base) \div Span(length)
    IN  IF position < base
          THEN [segment |-> -1, row |-> -1]
          ELSE [segment |-> s,
                row |-> position - SegmentStart(base, length, s) - TailStart(length, s)]

-----------------------------------------------------------------------------
(***************************************************************************)
(* Query tiles.  A tile reads its keys from two overlays, the tile or tail *)
(* before it and itself, and from the cache for keys before the chunk.     *)
(***************************************************************************)

Active(length, s, tile) == Clamp(TailRows, SegmentLength(length, s) - tile * TailRows)

Previous(base, length, s, tile) ==
    CASE tile > 0 -> [start |-> SegmentStart(base, length, s) + (tile - 1) * TailRows,
                      rows  |-> Active(length, s, tile - 1)]
      [] tile = 0 /\ s > 0 ->
                     [start |-> SegmentStart(base, length, s - 1) + TailStart(length, s - 1),
                      rows  |-> TailLength(length, s - 1)]
      [] OTHER    -> [start |-> 0, rows |-> 0]

\* The key that column col of query q's window stands for.
KeyOf(q, col) == q - TailRows + 1 + col

\* The paged cache row of position k: the block table cycles through Pages.
Slot(k) == (FirstPage + ((k \div TailRows) % Pages)) * TailRows + (k % TailRows)

\* What swa_indices holds for that key: a cache row, an overlay row or -1.
SwaIndex(base, length, s, tile, row, col) ==
    LET start == SegmentStart(base, length, s) + tile * TailRows
        key   == KeyOf(start + row, col)
        prev  == Previous(base, length, s, tile)
    IN  CASE row >= Active(length, s, tile) -> -1
          [] row < Active(length, s, tile) /\ key >= start ->
                 IF key < start + Active(length, s, tile)
                   THEN OverlayBase + TailRows + key - start ELSE -1
          [] row < Active(length, s, tile) /\ key < start
             /\ key \in prev.start .. prev.start + prev.rows - 1 ->
                 OverlayBase + key - prev.start
          [] OTHER -> IF key \in 0 .. base - 1 THEN Slot(key) ELSE -1

-----------------------------------------------------------------------------
(***************************************************************************)
(* Ratio-4 compressor leaves.  Leaf 0 replays the end of the predecessor,  *)
(* so that the groups that straddle the segment boundary are whole; leaf   *)
(* k+1 is tile k.  A compressed row is emitted where a group ends, in      *)
(* leaves 1 and up.                                                        *)
(***************************************************************************)

Leaves == 0 .. MaxTiles

\* Mutant: the replay starts at the straddling group, without the one it overlaps.
SeedLength_OneGroup(base, length, s) ==
    IF s > 0 /\ SegmentLength(length, s) > 0
      THEN Smaller(SegmentStart(base, length, s) % CompressRatio, TailLength(length, s - 1))
      ELSE 0

SeedLength(base, length, s) ==
    IF s > 0 /\ SegmentLength(length, s) > 0
      THEN Smaller((SegmentStart(base, length, s) % CompressRatio) + CompressRatio,
                   TailLength(length, s - 1))
      ELSE 0

LeafTokens(base, length, s, leaf) ==
    IF leaf = 0 THEN SeedLength(base, length, s) ELSE Active(length, s, leaf - 1)

LeafPosition(base, length, s, leaf, row) ==
    IF leaf = 0
      THEN SegmentStart(base, length, s) - SeedLength(base, length, s) + row
      ELSE SegmentStart(base, length, s) + (leaf - 1) * TailRows + row

EndsGroup(position) == (position + 1) % CompressRatio = 0

\* Rows of the compressor's cyclic scratch pool, one page per segment tile.
ScratchRows == NumSegments * MaxTiles * (TailRows \div CompressRatio)

ScratchRow(position) == ((position + 1) \div CompressRatio - 1) % ScratchRows

-----------------------------------------------------------------------------
(***************************************************************************)
(* The host harness's own computation of the same coordinates.             *)
(***************************************************************************)

\* Where each segment begins, by the real lengths of those before it.
HostBounds(length) ==
    LET bound[s \in 0 .. NumSegments] ==
            IF s = 0 THEN 0 ELSE bound[s - 1] + SegmentLength(length, s - 1)
    IN  bound

\* cp_final_window_sources: walks the real lengths, not the span.
HostWindowSource(length, row) ==
    LET bound == HostBounds(length)
        position == bound[NumSegments] - TailRows + row
        holders  == {s \in Segments : bound[s] <= position /\ position < bound[s + 1]}
    IN  IF position < 0 \/ holders = {}
          THEN [segment |-> -1, row |-> -1]
          ELSE LET s == CHOOSE h \in holders : TRUE
               IN  [segment |-> s, row |-> position - bound[s] - TailStart(length, s)]

\* Mutant: the cache is a ring of one window.
RingRow_OneWindow(position) == position % TailRows

\* The row of a position in a cache whose page i is that of block i (ring_phys_row).
RingRow(position) == position % OverlayBase

\* The overlay before a tile: the tail of the segment before, or the tile before.
HostPrevious(base, length, s, tile) ==
    IF tile > 0
      THEN [start |-> (SegmentStart(base, length, s) + tile * TailRows) - TailRows,
            rows  |-> Active(length, s, tile - 1)]
      ELSE LET before == SegmentLength(length, s - 1)
           IN  IF s > 0
                 THEN [start |-> SegmentStart(base, length, s - 1) + Larger(0, before - TailRows),
                       rows  |-> Smaller(TailRows, before)]
                 ELSE [start |-> 0, rows |-> 0]

\* lower_key_build: the index of a key, history first.
HostKeyIndex(base, length, s, tile, key) ==
    LET start == SegmentStart(base, length, s) + tile * TailRows
        prev  == HostPrevious(base, length, s, tile)
    IN  CASE key < base -> RingRow(key)
          [] key >= base /\ key \in start .. start + Active(length, s, tile) - 1 ->
                 OverlayBase + TailRows + key - start
          [] key >= base /\ key < start /\ key \in prev.start .. prev.start + prev.rows - 1 ->
                 OverlayBase + key - prev.start
          [] OTHER -> -1
=============================================================================
