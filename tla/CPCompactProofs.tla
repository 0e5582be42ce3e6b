-------------------------- MODULE CPCompactProofs --------------------------
(***************************************************************************)
(* Proofs about CPCompact, for every group size, list of layers, ratios    *)
(* and plans of requests: the arithmetic of turns and records first, then  *)
(* credits and counters, then what the windows, the roots and the pools    *)
(* hold.                                                                   *)
(***************************************************************************)
EXTENDS CPCompactInv, FiniteSetTheorems, TLAPS

-----------------------------------------------------------------------------
(***************************************************************************)
(* Numbers.                                                                *)
(***************************************************************************)

\* Quotient and remainder.
LEMMA DivMod ==
    ASSUME NEW a \in Int, NEW b \in Nat \ {0}
    PROVE  /\ a \div b \in Int /\ a % b \in 0 .. b - 1
           /\ a = (a \div b) * b + (a % b)
           /\ a >= 0 => a \div b >= 0
  OBVIOUS

LEMMA DivNat == \A a \in Nat, b \in Nat \ {0} : a \div b \in Nat
  <1> SUFFICES ASSUME NEW a \in Nat, NEW b \in Nat \ {0} PROVE a \div b \in Nat
    OBVIOUS
  <1>1. a \div b \in Int /\ (a >= 0 => a \div b >= 0)
    BY DivMod
  <1> QED
    BY <1>1

\* Multiplication by a natural number is monotone.
LEMMA Monotone ==
    ASSUME NEW a \in Int, NEW b \in Int, NEW c \in Nat, a <= b
    PROVE  a * c <= b * c
  OBVIOUS

LEMMA Successor ==
    ASSUME NEW a \in Int, NEW b \in Int
    PROVE  (a + 1) * b = a * b + b /\ (a - 1) * b = a * b - b
  OBVIOUS

\* Credits grow with turns.
LEMMA Scaled ==
    ASSUME NEW u \in {1, 2}, NEW a \in Nat, NEW b \in Nat
    PROVE  /\ u * a \in Nat /\ u * (a + 1) = u * a + u
           /\ a <= b => u * a <= u * b
           /\ a + 1 <= b => u * a + u <= u * b
           /\ u * a <= u * b => a <= b
           /\ u * a < u * b => a + 1 <= b
           /\ u * a < u * b + u => a <= b
  <1>1. CASE u = 1
    BY <1>1
  <1>2. CASE u = 2
    BY <1>2
  <1> QED
    BY <1>1, <1>2

LEMMA UnitIs == \A k \in Kinds : Unit(k) \in {1, 2}
  BY DEF Unit

\* The constants.
LEMMA Sizes ==
    /\ CPSize \in Nat /\ CPSize > 1 /\ Requests \in Nat /\ MaxSeqLen \in Nat
    /\ Len(LayerKinds) \in Nat \ {0} /\ DOMAIN LayerKinds = 1 .. Len(LayerKinds)
    /\ \A l \in DOMAIN LayerKinds : LayerKinds[l] \in Kinds
    /\ \A k \in Kinds : Ratio[k] \in Nat \ {0}
    /\ WindowRows \in Nat \ {0} /\ NumSegments \in Nat
  <1>1. LayerKinds \in Seq(Kinds) /\ LayerKinds # <<>>
    BY LayerKindsAssumption
  <1>2. /\ Len(LayerKinds) \in Nat \ {0} /\ DOMAIN LayerKinds = 1 .. Len(LayerKinds)
        /\ \A l \in DOMAIN LayerKinds : LayerKinds[l] \in Kinds
    BY <1>1
  <1>3. \A k \in Kinds : Ratio[k] \in Nat \ {0}
    BY RatioAssumption
  <1> QED
    BY <1>2, <1>3, CPSizeAssumption, GroupAssumption, RequestsAssumption
       DEF WindowRows, NumSegments

LEMMA PeersExist == \A r \in Ranks : Peers(r) # {} /\ Peers(r) \subseteq Ranks
  <1> SUFFICES ASSUME NEW r \in Ranks PROVE Peers(r) # {} /\ Peers(r) \subseteq Ranks
    OBVIOUS
  <1>1. 0 \in Ranks /\ 1 \in Ranks
    BY Sizes DEF Ranks
  <1> QED
    BY <1>1 DEF Peers

-----------------------------------------------------------------------------
(***************************************************************************)
(* Layers of a kind.                                                       *)
(***************************************************************************)

LEMMA LayersFinite ==
    ASSUME NEW k \in Kinds
    PROVE  IsFiniteSet(LayersOf(k)) /\ Cardinality(LayersOf(k)) \in Nat
  <1>1. IsFiniteSet(1 .. Len(LayerKinds))
    BY Sizes, FS_Interval
  <1>2. LayersOf(k) \subseteq 1 .. Len(LayerKinds)
    BY Sizes DEF LayersOf
  <1> QED
    BY <1>1, <1>2, FS_Subset, FS_CardinalityType

LEMMA BeforeType ==
    ASSUME NEW k \in Kinds, NEW l \in Int
    PROVE  Before(k, l) \in Nat /\ IsFiniteSet({i \in LayersOf(k) : i < l})
  <1>1. {i \in LayersOf(k) : i < l} \subseteq LayersOf(k)
    OBVIOUS
  <1> QED
    BY <1>1, LayersFinite, FS_Subset, FS_CardinalityType DEF Before

LEMMA BeforeMonotone ==
    ASSUME NEW k \in Kinds, NEW l \in Int, NEW m \in Int, l <= m
    PROVE  Before(k, l) <= Before(k, m)
  <1>1. {i \in LayersOf(k) : i < l} \subseteq {i \in LayersOf(k) : i < m}
    BY Sizes DEF LayersOf
  <1> QED
    BY <1>1, BeforeType, FS_Subset DEF Before

\* A layer adds itself to the layers of its kind.
LEMMA BeforeNext ==
    ASSUME NEW k \in Kinds, NEW l \in DOMAIN LayerKinds
    PROVE  Before(k, l + 1) = IF LayerKinds[l] = k THEN Before(k, l) + 1 ELSE Before(k, l)
  <1> DEFINE S == {i \in LayersOf(k) : i < l}
             T == {i \in LayersOf(k) : i < l + 1}
  <1>0. l \in Int
    BY Sizes
  <1>1. CASE LayerKinds[l] = k
    <2>1. T = S \cup {l} /\ l \notin S
      BY <1>1, Sizes DEF LayersOf
    <2>2. IsFiniteSet(S)
      BY <1>0, BeforeType
    <2>3. Cardinality(S \cup {l}) = Cardinality(S) + 1
      BY <2>1, <2>2, FS_AddElement
    <2> QED
      BY <1>1, <2>1, <2>3 DEF Before
  <1>2. CASE LayerKinds[l] # k
    <2>1. T = S
      BY <1>2, Sizes DEF LayersOf
    <2> QED
      BY <1>2, <2>1 DEF Before
  <1> QED
    BY <1>1, <1>2

\* Layers of k before the first one, and before the end.
LEMMA BeforeEnds ==
    ASSUME NEW k \in Kinds
    PROVE  /\ Before(k, 1) = 0
           /\ Before(k, Len(LayerKinds) + 1) = Cardinality(LayersOf(k))
  <1>1. {i \in LayersOf(k) : i < 1} = {}
    BY Sizes DEF LayersOf
  <1>2. {i \in LayersOf(k) : i < Len(LayerKinds) + 1} = LayersOf(k)
    BY Sizes DEF LayersOf
  <1> QED
    BY <1>1, <1>2, FS_EmptySet DEF Before

-----------------------------------------------------------------------------
(***************************************************************************)
(* Requests.                                                               *)
(***************************************************************************)

LEMMA PlanAt ==
    ASSUME plan \in Plans, NEW q \in 0 .. Requests - 1
    PROVE  /\ Base(q) \in Nat /\ plan[q].length \in 0 .. NumSegments
           /\ End(q) \in Nat /\ End(q) = Base(q) + plan[q].length /\ End(q) <= MaxSeqLen
           /\ q >= CPSize => Base(q) = End(q - CPSize)
  <1>1. /\ plan \in [0 .. Requests - 1 -> [base : Nat, length : 0 .. NumSegments]]
        /\ \A i \in 0 .. Requests - 1 :
             /\ plan[i].base + plan[i].length <= MaxSeqLen
             /\ i >= CPSize => plan[i].base = plan[i - CPSize].base + plan[i - CPSize].length
    BY PlansAssumption
  <1>2. plan[q] \in [base : Nat, length : 0 .. NumSegments]
    BY <1>1
  <1>3. q >= CPSize => q - CPSize \in 0 .. Requests - 1
    BY Sizes
  <1>4. plan[q].base \in Nat /\ plan[q].length \in 0 .. NumSegments
    BY <1>2
  <1>5. plan[q].base + plan[q].length <= MaxSeqLen
    BY <1>1
  <1>6. q >= CPSize => Base(q) = End(q - CPSize)
    BY <1>1 DEF Base, End
  <1>7. Base(q) = plan[q].base /\ End(q) = plan[q].base + plan[q].length
    BY DEF Base, End
  <1>8. NumSegments \in Nat
    BY Sizes
  <1> QED
    BY <1>4, <1>5, <1>6, <1>7, <1>8

\* Windows of records cover the records, and not one window less does.
LEMMA WindowsCover ==
    ASSUME NEW n \in Nat
    PROVE  /\ Windows(n) \in Nat
           /\ n <= Windows(n) * WindowRows /\ Windows(n) * WindowRows < n + WindowRows
  <1>1. WindowRows \in Nat \ {0} /\ n + WindowRows - 1 \in Int /\ n + WindowRows - 1 >= 0
    BY Sizes
  <1> DEFINE d == (n + WindowRows - 1) \div WindowRows
             m == (n + WindowRows - 1) % WindowRows
  <1>2. /\ d \in Int /\ d >= 0 /\ m \in 0 .. WindowRows - 1
        /\ n + WindowRows - 1 = d * WindowRows + m
    BY <1>1, DivMod
  <1>3. Windows(n) = d
    BY DEF Windows
  <1> HIDE DEF d, m
  <1>4. d * WindowRows \in Int
    BY <1>1, <1>2
  <1> QED
    BY <1>1, <1>2, <1>3, <1>4

\* More records take no fewer windows.
LEMMA WindowsMonotone ==
    ASSUME NEW n \in Nat, NEW m \in Nat, n <= m
    PROVE  Windows(n) <= Windows(m)
  <1>1. /\ Windows(n) \in Nat /\ Windows(m) \in Nat /\ WindowRows \in Nat \ {0}
        /\ Windows(n) * WindowRows < n + WindowRows /\ m <= Windows(m) * WindowRows
    BY WindowsCover, Sizes
  <1> DEFINE a == Windows(n)
             b == Windows(m)
             w == WindowRows
  <1>2. a \in Nat /\ b \in Nat /\ w \in Nat \ {0} /\ a * w < n + w /\ m <= b * w
    BY <1>1
  <1> HIDE DEF a, b, w
  <1>3. ~ b + 1 <= a
    <2> SUFFICES ASSUME b + 1 <= a PROVE FALSE
      OBVIOUS
    <2>1. (b + 1) * w <= a * w /\ (b + 1) * w = b * w + w /\ b * w \in Int /\ a * w \in Int
      BY <1>2, Monotone, Successor
    <2> QED
      BY <1>2, <2>1
  <1>4. a <= b
    BY <1>2, <1>3
  <1> QED
    BY <1>4 DEF a, b

\* Fewer tokens make no more records.
LEMMA DivMonotone ==
    ASSUME NEW a \in Nat, NEW b \in Nat, NEW c \in Nat \ {0}, a <= b
    PROVE  a \div c <= b \div c
  <1> DEFINE x == a \div c
             y == b \div c
  <1>1. /\ x \in Int /\ y \in Int /\ a % c \in 0 .. c - 1 /\ b % c \in 0 .. c - 1
        /\ a = x * c + (a % c) /\ b = y * c + (b % c)
    BY DivMod
  <1> DEFINE m == a % c
             n == b % c
  <1>2. m \in 0 .. c - 1 /\ n \in 0 .. c - 1 /\ a = x * c + m /\ b = y * c + n
    BY <1>1
  <1> HIDE DEF x, y, m, n
  <1>3. ~ y + 1 <= x
    <2> SUFFICES ASSUME y + 1 <= x PROVE FALSE
      OBVIOUS
    <2>1. (y + 1) * c <= x * c /\ (y + 1) * c = y * c + c /\ y * c \in Int /\ x * c \in Int
      BY <1>1, Monotone, Successor
    <2> QED
      BY <1>2, <2>1
  <1>4. x <= y
    BY <1>1, <1>3
  <1> QED
    BY <1>4 DEF x, y

LEMMA DivLess ==
    ASSUME NEW a \in Nat, NEW b \in Nat \ {0}
    PROVE  a \div b <= a
  <1> DEFINE m == a \div b
             x == a % b
  <1>1. m \in Int /\ m >= 0 /\ a = m * b + x /\ x \in 0 .. b - 1
    <2>1. a \in Int /\ a >= 0
      OBVIOUS
    <2>2. /\ a \div b \in Int /\ a % b \in 0 .. b - 1
          /\ a = (a \div b) * b + (a % b) /\ (a >= 0 => a \div b >= 0)
      BY <2>1, DivMod
    <2> QED
      BY <2>1, <2>2
  <1> HIDE DEF m, x
  <1>2. 1 * m <= b * m /\ b * m = m * b /\ m * b \in Int
    BY <1>1, Monotone
  <1>3. m <= a
    BY <1>1, <1>2
  <1> QED
    BY <1>3 DEF m

\* The clamp of the HCA history never bites within a sequence's capacity.
LEMMA HistoryRowsAre ==
    ASSUME plan \in Plans, NEW q \in 0 .. Requests - 1, NEW k \in Kinds
    PROVE  /\ HistoryRows(k, q) = Base(q) \div Ratio[k]
           /\ HistoryRows(k, q) \in Nat
           /\ HistoryRows(k, q) <= End(q) \div Ratio[k]
           /\ End(q) \div Ratio[k] \in Nat /\ End(q) \div Ratio[k] <= MaxRecords(k)
           /\ MaxRecords(k) \in Nat
  <1>1. /\ Base(q) \in Nat /\ End(q) \in Nat /\ Base(q) <= End(q) /\ End(q) <= MaxSeqLen
        /\ MaxSeqLen \in Nat /\ Ratio[k] \in Nat \ {0}
    <2>1. /\ Base(q) \in Nat /\ End(q) \in Nat /\ End(q) = Base(q) + plan[q].length
          /\ plan[q].length \in 0 .. NumSegments /\ End(q) <= MaxSeqLen
      BY PlanAt
    <2>2. NumSegments \in Nat /\ MaxSeqLen \in Nat /\ Ratio[k] \in Nat \ {0}
      BY Sizes
    <2> QED
      BY <2>1, <2>2
  <1>2. /\ Base(q) \div Ratio[k] \in Nat /\ End(q) \div Ratio[k] \in Nat
        /\ MaxSeqLen \div Ratio[k] \in Nat
    BY <1>1, DivNat
  <1>3. /\ Base(q) \div Ratio[k] <= End(q) \div Ratio[k]
        /\ End(q) \div Ratio[k] <= MaxSeqLen \div Ratio[k]
    BY <1>1, DivMonotone
  <1> DEFINE x == Base(q) \div Ratio[k]
             y == End(q) \div Ratio[k]
             z == MaxSeqLen \div Ratio[k]
  <1>4. x \in Nat /\ y \in Nat /\ z \in Nat /\ x <= y /\ y <= z /\ MaxRecords(k) = z
    BY <1>2, <1>3 DEF MaxRecords
  <1>5. HistoryRows(k, q) = IF k = "hca" /\ x > MaxRecords(k) THEN MaxRecords(k) ELSE x
    BY DEF HistoryRows
  <1> HIDE DEF x, y, z
  <1>6. HistoryRows(k, q) = x
    BY <1>4, <1>5
  <1> QED
    BY <1>4, <1>6 DEF x, y

LEMMA PhasesAre ==
    ASSUME plan \in Plans, NEW q \in 0 .. Requests - 1, NEW k \in Kinds
    PROVE  /\ HistoryPhases(k, q) \in Nat /\ Turns(k, q) \in Nat \ {0}
           /\ Turns(k, q) = HistoryPhases(k, q) + 1
           /\ HistoryPhases(k, q) > 0 <=> Base(q) > 0
           /\ Base(q) > 0 =>
                HistoryRows(k, q) <= (HistoryPhases(k, q) - 1) * WindowRows
           /\ Turns(k, q) <= 2 + Windows(MaxRecords(k))
           /\ Completed(k, q) = Unit(k) * (Cardinality(LayersOf(k)) * Turns(k, q))
  <1>1. /\ Base(q) \in Nat /\ HistoryRows(k, q) \in Nat /\ MaxRecords(k) \in Nat
        /\ HistoryRows(k, q) <= MaxRecords(k)
        /\ HistoryRows(k, q) = Base(q) \div Ratio[k]
    BY PlanAt, HistoryRowsAre
  <1> DEFINE n == HistoryRows(k, q)
             w == Windows(n)
  <1>2. /\ w \in Nat /\ n <= w * WindowRows /\ w <= Windows(MaxRecords(k))
        /\ Windows(MaxRecords(k)) \in Nat
    BY <1>1, WindowsCover, WindowsMonotone
  <1>3. HistoryPhases(k, q) = IF Base(q) = 0 THEN 0 ELSE 1 + w
    BY DEF HistoryPhases
  <1>4. HistoryPhases(k, q) \in Nat
    BY <1>2, <1>3
  <1>5. Base(q) > 0 => n <= (HistoryPhases(k, q) - 1) * WindowRows
    <2>1. Base(q) > 0 => HistoryPhases(k, q) - 1 = w
      BY <1>1, <1>2, <1>3
    <2> QED
      BY <1>2, <2>1
  <1>6. Completed(k, q) = Unit(k) * (Cardinality(LayersOf(k)) * Turns(k, q))
    <2> DEFINE c == Cardinality(LayersOf(k))
               u == Unit(k)
               t == Turns(k, q)
    <2>1. c \in Nat /\ u \in {1, 2}
      BY LayersFinite, UnitIs
    <2>2. t \in Nat /\ t = IF Base(q) = 0 THEN 1 ELSE 2 + w
      BY <1>2, <1>3 DEF Turns
    <2>3. Completed(k, q) = (u * c) * IF Base(q) = 0 THEN 1 ELSE 2 + w
      BY <1>1 DEF Completed
    <2> HIDE DEF c, u, t, w
    <2>4. Completed(k, q) = (u * c) * t
      BY <2>2, <2>3
    <2>5. (u * c) * t = u * (c * t)
      <3>1. CASE u = 1
        BY <2>1, <2>2, <3>1
      <3>2. CASE u = 2
        BY <2>1, <2>2, <3>2
      <3> QED
        BY <2>1, <3>1, <3>2
    <2> QED
      BY <2>4, <2>5 DEF c, u, t
  <1>7. Turns(k, q) <= 2 + Windows(MaxRecords(k))
    BY <1>2, <1>3 DEF Turns
  <1>8. HistoryPhases(k, q) > 0 <=> Base(q) > 0
    BY <1>1, <1>2, <1>3
  <1> QED
    BY <1>4, <1>5, <1>6, <1>7, <1>8 DEF Turns

-----------------------------------------------------------------------------
(***************************************************************************)
(* Turns.                                                                  *)
(***************************************************************************)

LEMMA Product == \A a \in Nat, b \in Nat : a * b \in Nat
  OBVIOUS

\* Where a rank is.
LEMMA Where ==
    ASSUME Shape, NEW r \in Ranks, PositionAt(r)
    PROVE  /\ plan \in Plans /\ request[r] \in 0 .. Requests /\ layer[r] \in DOMAIN LayerKinds
           /\ layer[r] \in Int /\ Kind(r) \in Kinds /\ phase[r] \in Nat
           /\ stage[r] \in {"exchange", "retire", "arrive", "stopped"}
           /\ stage[r] # "stopped" => request[r] \in 0 .. Requests - 1
  <1>1. /\ plan \in Plans /\ request[r] \in 0 .. Requests /\ layer[r] \in DOMAIN LayerKinds
        /\ phase[r] \in Nat /\ stage[r] \in {"exchange", "retire", "arrive", "stopped"}
    BY DEF Shape
  <1>2. layer[r] \in Int /\ Kind(r) \in Kinds
    BY <1>1, Sizes DEF Kind
  <1>3. stage[r] # "stopped" => request[r] # Requests
    BY DEF PositionAt
  <1> QED
    BY <1>1, <1>2, <1>3, Sizes

\* Turns of a layer's kind before and after the layer.
LEMMA DoneBetween ==
    ASSUME Shape, NEW r \in Ranks, PositionAt(r), NEW k \in Kinds, stage[r] = "exchange"
    PROVE  /\ Done(k, r) \in Nat
           /\ Before(k, layer[r]) * Turns(k, request[r]) <= Done(k, r)
           /\ Kind(r) = k =>
                /\ Done(k, r) = Before(k, layer[r]) * Turns(k, request[r]) + phase[r]
                /\ Done(k, r) + 1 <= Before(k, layer[r] + 1) * Turns(k, request[r])
           /\ Kind(r) # k => Done(k, r) = Before(k, layer[r] + 1) * Turns(k, request[r])
  <1> DEFINE b == Before(k, layer[r])
             n == Before(k, layer[r] + 1)
             t == Turns(k, request[r])
  <1>1. /\ Kind(r) \in Kinds /\ layer[r] \in DOMAIN LayerKinds /\ phase[r] \in Nat
        /\ request[r] \in 0 .. Requests - 1 /\ plan \in Plans /\ layer[r] \in Int
    BY Where
  <1>2. b \in Nat /\ n = IF Kind(r) = k THEN b + 1 ELSE b
    BY <1>1, BeforeType, BeforeNext DEF Kind
  <1>3. t \in Nat \ {0} /\ t = HistoryPhases(k, request[r]) + 1
        /\ HistoryPhases(k, request[r]) \in Nat
    BY <1>1, PhasesAre
  <1>4. Kind(r) = k => phase[r] <= HistoryPhases(k, request[r])
    BY DEF PositionAt
  <1>5. Done(k, r) = IF Kind(r) = k THEN b * t + phase[r] ELSE b * t
    BY DEF Done
  <1> HIDE DEF b, n, t
  <1>6. b * t \in Nat /\ (b + 1) * t = b * t + t
    BY <1>2, <1>3, Product, Successor
  <1>7. CASE Kind(r) = k
    <2>1. Done(k, r) = b * t + phase[r] /\ n * t = b * t + t
      BY <1>2, <1>5, <1>6, <1>7
    <2>2. phase[r] + 1 <= t
      BY <1>1, <1>3, <1>4, <1>7
    <2> QED
      BY <1>1, <1>3, <1>6, <1>7, <2>1, <2>2 DEF b, n, t
  <1>8. CASE Kind(r) # k
    <2>1. Done(k, r) = b * t /\ n * t = b * t
      BY <1>2, <1>5, <1>8
    <2> QED
      BY <1>6, <1>8, <2>1 DEF b, n, t
  <1> QED
    BY <1>7, <1>8

LEMMA DoneType ==
    ASSUME Shape, NEW r \in Ranks, PositionAt(r), NEW k \in Kinds
    PROVE  Done(k, r) \in Nat
  <1>1. CASE stage[r] \in {"arrive", "stopped"}
    BY <1>1 DEF Done
  <1>2. CASE stage[r] = "exchange"
    BY <1>2, DoneBetween
  <1>3. CASE stage[r] = "retire"
    <2>1. request[r] \in 0 .. Requests - 1 /\ plan \in Plans
      BY <1>3, Where
    <2>2. Cardinality(LayersOf(k)) \in Nat /\ Turns(k, request[r]) \in Nat
      BY <2>1, LayersFinite, PhasesAre
    <2>3. Cardinality(LayersOf(k)) * Turns(k, request[r]) \in Nat
      BY <2>2, Product
    <2> QED
      BY <1>3, <2>3 DEF Done
  <1> QED
    BY <1>1, <1>2, <1>3, Where

\* The turns of a layer end within those of the request.
LEMMA DoneBound ==
    ASSUME Shape, NEW r \in Ranks, PositionAt(r), NEW k \in Kinds, stage[r] = "exchange",
           NEW l \in Int, layer[r] < l
    PROVE  /\ Before(k, layer[r] + 1) * Turns(k, request[r]) <= Before(k, l) * Turns(k, request[r])
           /\ Before(k, layer[r] + 1) * Turns(k, request[r])
                <= Cardinality(LayersOf(k)) * Turns(k, request[r])
           /\ Before(k, layer[r] + 1) * Turns(k, request[r]) \in Nat
           /\ Before(k, l) * Turns(k, request[r]) \in Nat
           /\ Cardinality(LayersOf(k)) * Turns(k, request[r]) \in Nat
  <1>1. /\ layer[r] \in 1 .. Len(LayerKinds) /\ Len(LayerKinds) \in Nat
        /\ request[r] \in 0 .. Requests - 1 /\ plan \in Plans /\ layer[r] \in Int
    BY Where, Sizes
  <1>2. Turns(k, request[r]) \in Nat
    BY <1>1, PhasesAre
  <1> DEFINE a == Before(k, layer[r] + 1)
             b == Before(k, l)
             c == Before(k, Len(LayerKinds) + 1)
             t == Turns(k, request[r])
  <1>3. layer[r] + 1 \in Int /\ Len(LayerKinds) + 1 \in Int
    BY <1>1
  <1>4. a \in Nat /\ b \in Nat /\ c \in Nat
    BY <1>3, BeforeType
  <1>5. a <= b /\ a <= c
    BY <1>1, <1>3, BeforeMonotone
  <1>6. c = Cardinality(LayersOf(k))
    BY BeforeEnds
  <1> HIDE DEF a, b, c, t
  <1>7. a * t <= b * t /\ a * t <= c * t /\ a * t \in Nat /\ b * t \in Nat /\ c * t \in Nat
    BY <1>2, <1>4, <1>5, Monotone, Product DEF t
  <1> QED
    BY <1>6, <1>7 DEF a, b, t

\* A rank that has another's turn behind it has no fewer turns of any kind
\* behind it, and more of that kind.
LEMMA DoneOrder ==
    ASSUME Shape, NEW r \in Ranks, NEW p \in Ranks, PositionAt(r), PositionAt(p),
           NEW k \in Kinds, Past(p, r)
    PROVE  Done(k, r) <= Done(k, p) /\ (Kind(r) = k => Done(k, r) + 1 <= Done(k, p))
  <1> DEFINE x == Before(k, layer[r] + 1) * Turns(k, request[r])
  <1>1. stage[r] = "exchange" /\ request[p] = request[r]
    BY DEF Past
  <1>2. /\ Done(k, r) \in Nat /\ Done(k, p) \in Nat
        /\ Kind(r) = k => Done(k, r) + 1 <= x
        /\ Kind(r) # k => Done(k, r) = x
    BY <1>1, DoneBetween, DoneType
  <1>3. ASSUME x \in Nat, x <= Done(k, p)
        PROVE  Done(k, r) <= Done(k, p) /\ (Kind(r) = k => Done(k, r) + 1 <= Done(k, p))
    <2> HIDE DEF x
    <2> QED
      BY <1>2, <1>3
  <1>4. CASE stage[p] = "retire"
    <2>1. layer[r] + 1 \in Int /\ layer[r] < layer[r] + 1
      BY Where
    <2>2. x \in Nat /\ x <= Cardinality(LayersOf(k)) * Turns(k, request[r])
      BY <1>1, <2>1, DoneBound
    <2>3. Done(k, p) = Cardinality(LayersOf(k)) * Turns(k, request[r])
      BY <1>1, <1>4 DEF Done
    <2> QED
      BY <1>3, <2>2, <2>3
  <1>5. CASE stage[p] = "exchange" /\ layer[p] > layer[r]
    <2>1. layer[p] \in Int /\ layer[r] < layer[p]
      BY <1>5, Where
    <2>2. x \in Nat /\ x <= Before(k, layer[p]) * Turns(k, request[r])
          /\ Before(k, layer[p]) * Turns(k, request[r]) \in Nat
      BY <1>1, <2>1, DoneBound
    <2>3. Before(k, layer[p]) * Turns(k, request[r]) <= Done(k, p)
      BY <1>1, <1>5, DoneBetween
    <2> HIDE DEF x
    <2>4. x <= Done(k, p)
      BY <1>2, <2>2, <2>3
    <2> QED
      BY <1>3, <2>2, <2>4
  <1>6. CASE stage[p] = "exchange" /\ layer[p] = layer[r] /\ phase[p] > phase[r]
    <2>1. Kind(p) = Kind(r)
      BY <1>6 DEF Kind
    <2>2. phase[p] \in Nat /\ phase[r] \in Nat
      BY Where
    <2>3. CASE Kind(r) = k
      <3>1. /\ Done(k, r) = Before(k, layer[r]) * Turns(k, request[r]) + phase[r]
            /\ Done(k, p) = Before(k, layer[r]) * Turns(k, request[r]) + phase[p]
        BY <1>1, <1>6, <2>1, <2>3 DEF Done
      <3>2. layer[r] \in Int /\ request[r] \in 0 .. Requests - 1 /\ plan \in Plans
        BY <1>1, Where
      <3>3. Before(k, layer[r]) * Turns(k, request[r]) \in Nat
        BY <3>2, BeforeType, PhasesAre, Product
      <3> QED
        BY <1>6, <2>2, <3>1, <3>3
    <2>4. CASE Kind(r) # k
      <3>1. Done(k, r) = Done(k, p)
        BY <1>1, <1>6, <2>1, <2>4 DEF Done
      <3> QED
        BY <1>2, <2>4, <3>1
    <2> QED
      BY <2>3, <2>4
  <1> QED
    BY <1>4, <1>5, <1>6 DEF Past

\* Two ranks in one request, one of them at its layers.
LEMMA Compare ==
    ASSUME Shape, NEW r \in Ranks, NEW p \in Ranks, PositionAt(r), PositionAt(p),
           request[p] = request[r], stage[r] = "exchange", stage[p] \in {"exchange", "retire"}
    PROVE  Past(p, r) \/ SameTurn(p, r) \/ Past(r, p)
  <1>1. /\ layer[p] \in Int /\ layer[r] \in Int /\ phase[p] \in Nat /\ phase[r] \in Nat
    BY Where
  <1> QED
    BY <1>1 DEF Past, SameTurn

\* So the turns of a kind tell where ranks that use it are.
LEMMA TurnsTell ==
    ASSUME Shape, NEW r \in Ranks, NEW p \in Ranks, PositionAt(r), PositionAt(p),
           request[p] = request[r], Using(Kind(r), r), stage[p] \in {"exchange", "retire"}
    PROVE  /\ Done(Kind(r), r) < Done(Kind(r), p) => Past(p, r)
           /\ Done(Kind(r), r) <= Done(Kind(r), p) => Past(p, r) \/ SameTurn(p, r) \/ Kind(p) # Kind(r)
           /\ Done(Kind(r), r) = Done(Kind(r), p) /\ Using(Kind(r), p) => SameTurn(p, r)
  <1> DEFINE k == Kind(r)
  <1>1. k \in Kinds
    BY Where
  <1>2. Done(k, r) \in Nat /\ Done(k, p) \in Nat
    BY <1>1, DoneType
  <1>3. stage[r] = "exchange"
    BY DEF Using
  <1>4. SameTurn(p, r) => Done(k, p) = Done(k, r)
    BY DEF SameTurn, Done, Kind
  <1>5. Past(p, r) => Done(k, r) + 1 <= Done(k, p)
    BY <1>1, DoneOrder
  <1>6. Past(r, p) => Done(k, p) <= Done(k, r) /\ (Kind(p) = k => Done(k, p) + 1 <= Done(k, r))
    BY <1>1, DoneOrder
  <1>7. Past(p, r) \/ SameTurn(p, r) \/ Past(r, p)
    BY <1>3, Compare
  <1> HIDE DEF k
  <1> QED
    BY <1>2, <1>4, <1>5, <1>6, <1>7 DEF Using, k

LEMMA EpochIs ==
    ASSUME NEW r \in Ranks, stage[r] = "exchange"
    PROVE  Epoch(r) = Unit(Kind(r)) * Done(Kind(r), r)
  <1>1. TypeIndex(layer[r]) = Before(Kind(r), layer[r])
    BY DEF TypeIndex, Before, Kind
  <1> QED
    BY <1>1 DEF Epoch, Done, Turns

-----------------------------------------------------------------------------
(***************************************************************************)
(* What the credits imply.                                                 *)
(***************************************************************************)

\* A rank with something to read or to give back has announced its turn.
LEMMA FinishedTold ==
    ASSUME Shape, NEW r \in Ranks, PositionAt(r), stage[r] = "exchange",
           Finished(r) \/ freed[r] # {} \/ taken[r] \cap {"history", "main"} # {}
    PROVE  /\ told[r] = Peers(r) /\ taken[r] \cap {"history", "main"} # {}
           /\ (Publishes(r) => put[r] = Ranks) /\ (TwoStage(r) => indexed[r] = Ranks)
  <1>1. TasksAt(r)
    BY DEF PositionAt
  <1>2. Kind(r) \in Kinds /\ "main" \in Parts(Kind(r))
    BY Where DEF Parts
  <1>3. taken[r] \cap {"history", "main"} # {}
    <2>1. Finished(r) \/ taken[r] \cap {"history", "main"} # {}
      BY <1>1 DEF TasksAt
    <2>2. "state" \in taken[r] => "main" \in taken[r]
      BY <1>1, <1>2 DEF TasksAt
    <2> QED
      BY <2>1, <2>2 DEF Finished
  <1>4. told[r] = Peers(r)
    BY <1>1, <1>3 DEF TasksAt
  <1>5. PICK p \in Ranks : p \in told[r]
    BY <1>4, PeersExist
  <1>6. Publishes(r) => put[r] = Ranks
    <2>1. CASE TwoStage(r)
      <3>1. "history" \notin taken[r]
        BY <1>1, <2>1 DEF TasksAt, TwoStage
      <3> QED
        BY <1>1, <1>3, <3>1 DEF TasksAt
    <2>2. CASE ~TwoStage(r)
      BY <1>1, <1>5, <2>2 DEF TasksAt
    <2> QED
      BY <2>1, <2>2
  <1>7. TwoStage(r) => Publishes(r)
    BY DEF TwoStage, Publishes
  <1>8. TwoStage(r) => indexed[r] = Ranks
    <2>1. TwoStage(r) => put[r] # {}
      BY <1>5, <1>6, <1>7
    <2> QED
      BY <1>1, <2>1 DEF TasksAt
  <1> QED
    BY <1>3, <1>4, <1>6, <1>8

\* A full turn's credits are only there when the turn has been announced.
LEMMA NowIs ==
    ASSUME NEW p \in Ranks, NEW r \in Ranks, Kind(p) \in Kinds
    PROVE  /\ Now(p, r) \in 0 .. Unit(Kind(p))
           /\ Now(p, r) >= Unit(Kind(p)) <=> r \in told[p]
           /\ Now(p, r) >= 1 => r \in told[p] \/ (TwoStage(p) /\ r \in indexed[p])
  <1>1. TwoStage(p) => Unit(Kind(p)) = 2
    BY DEF TwoStage, Unit
  <1>2. Unit(Kind(p)) \in {1, 2}
    BY UnitIs
  <1> QED
    BY <1>1, <1>2 DEF Now

\* Who has read a turn was told of it by everyone.
LEMMA ReadTold ==
    ASSUME Shape, ControlOK, NEW r \in Ranks, NEW p \in Ranks, r # p,
           stage[p] = "exchange", HasRead(r, p)
    PROVE  /\ r \in told[p] /\ (Publishes(p) => r \in put[p])
           /\ TwoStage(p) => put[p] # {}
  <1> DEFINE k == Kind(p)
             u == Unit(k)
             a == Done(k, p)
             b == Done(k, r)
             n == Now(p, r)
  <1>0. PositionAt(r) /\ PositionAt(p) /\ r \in Peers(p) /\ p \in Peers(r)
    BY DEF ControlOK, Peers
  <1>1. k \in Kinds /\ u \in {1, 2} /\ a \in Nat /\ b \in Nat
    <2>1. k \in Kinds
      BY <1>0, Where
    <2> QED
      BY <1>0, <2>1, UnitIs, DoneType
  <1>2. n \in 0 .. u /\ (n >= u <=> r \in told[p])
    BY <1>1, NowIs
  <1>3. r \in told[p]
    <2>1. CASE Past(r, p) /\ k \notin retired[r]
      <3>1. a + 1 <= b
        BY <1>0, <1>1, <2>1, DoneOrder
      <3>2. ready[k][r][p] >= u * b
        BY <1>0, <1>1, <2>1 DEF ControlOK, Heard
      <3>3. ready[k][r][p] = u * a + n
        <4>1. ~Silent(k, r, p)
          BY <2>1, Where, <1>0 DEF Past, Silent
        <4> QED
          BY <1>1, <4>1 DEF ControlOK, CreditsOK, Sent, Using
      <3>4. u * a + u <= u * b /\ u * a \in Nat /\ u * b \in Nat
        BY <1>1, <3>1, Scaled
      <3> HIDE DEF a, b, u, n
      <3>5. n >= u
        BY <1>1, <1>2, <3>2, <3>3, <3>4
      <3> QED
        BY <1>2, <3>5
    <2>2. CASE Past(r, p) /\ k \in retired[r]
      <3> DEFINE c == Cardinality(LayersOf(k)) * Turns(k, request[p])
      <3>1. request[r] = request[p] /\ a + 1 <= c /\ c \in Nat
        <4>1. layer[p] \in Int /\ layer[p] < layer[p] + 1 /\ layer[p] + 1 \in Int
          BY <1>0, Where
        <4>2. c \in Nat /\ Before(k, layer[p] + 1) * Turns(k, request[p]) \in Nat
              /\ Before(k, layer[p] + 1) * Turns(k, request[p]) <= c
          BY <1>0, <1>1, <4>1, DoneBound
        <4>3. a + 1 <= Before(k, layer[p] + 1) * Turns(k, request[p])
          BY <1>0, <1>1, DoneBetween
        <4> HIDE DEF c, a
        <4> QED
          BY <1>1, <2>2, <4>2, <4>3 DEF Past
      <3>2. Given(k, p, r) >= u * c
        BY <1>0, <2>2, <3>1 DEF ControlOK, Settled
      <3>3. u * a + u <= u * c /\ u * a \in Nat /\ u * c \in Nat
        BY <1>1, <3>1, Scaled
      <3>4. Given(k, p, r) = IF r \in freed[p] THEN u * a + u ELSE u * a
        <4>1. Using(k, p)
          BY DEF Using
        <4>2. u * a + 0 = u * a
          BY <3>3
        <4> QED
          BY <4>1, <4>2 DEF Given
      <3> HIDE DEF a, b, u, n, c
      <3>5. r \in freed[p]
        BY <1>1, <3>2, <3>3, <3>4
      <3> QED
        BY <1>0, <3>5, FinishedTold
    <2>3. CASE SameTurn(r, p) /\ Finished(r)
      <3>1. stage[r] = "exchange" /\ Kind(r) = k /\ b = a /\ retired[r] = {}
        BY <1>0, <2>3 DEF SameTurn, Kind, Done, PositionAt
      <3>2. ready[k][r][p] >= u * b + u
        <4>1. taken[r] \cap {"history", "main"} # {}
          BY <1>0, <2>3, <3>1, FinishedTold
        <4> QED
          BY <1>0, <3>1, <4>1 DEF ControlOK, Heard
      <3>3. ready[k][r][p] = u * a + n
        <4>1. ~Silent(k, r, p)
          BY <2>3, <3>1, <1>0, Where DEF SameTurn, Silent
        <4> QED
          BY <1>1, <4>1 DEF ControlOK, CreditsOK, Sent, Using
      <3>4. u * a \in Nat
        BY <1>1, Scaled
      <3> HIDE DEF a, b, u, n
      <3>5. n >= u
        BY <1>1, <1>2, <3>1, <3>2, <3>3, <3>4
      <3> QED
        BY <1>2, <3>5
    <2> QED
      BY <2>1, <2>2, <2>3 DEF HasRead
  <1>4. TasksAt(p)
    BY <1>0 DEF PositionAt
  <1>5. Publishes(p) => r \in put[p]
    BY <1>3, <1>4 DEF TasksAt
  <1>6. TwoStage(p) => put[p] # {}
    BY <1>5 DEF TwoStage, Publishes
  <1> QED
    BY <1>3, <1>5, <1>6

\* A rank that hears more credits than the turns it has behind it hears them
\* from a rank in its turn, or further on.
LEMMA HeardFrom ==
    ASSUME Shape, ControlOK, NEW r \in Ranks, NEW p \in Ranks, r # p,
           stage[r] = "exchange", NEW n \in {1, Unit(Kind(r))},
           ready[Kind(r)][r][p] >= Unit(Kind(r)) * Done(Kind(r), r) + n
    PROVE  \/ Past(p, r)
           \/ SameTurn(p, r) /\ Now(p, r) >= n
  <1> DEFINE k == Kind(r)
             u == Unit(k)
             a == Done(k, p)
             b == Done(k, r)
  <1>0. PositionAt(r) /\ PositionAt(p)
    BY DEF ControlOK
  <1>1. k \in Kinds /\ u \in {1, 2} /\ a \in Nat /\ b \in Nat /\ n \in {1, 2}
    <2>1. k \in Kinds
      BY <1>0, Where
    <2> QED
      BY <1>0, <2>1, UnitIs, DoneType
  <1>2. u * a \in Nat /\ u * b \in Nat /\ (a < b => u * a + u <= u * b) /\ (u * a < u * b + u => a <= b)
        /\ (u * b < u * a => b + 1 <= a)
    <2>1. a < b => a + 1 <= b
      BY <1>1
    <2> QED
      BY <1>1, <2>1, Scaled
  <1>3. ~Silent(k, r, p)
    <2> SUFFICES ASSUME Silent(k, r, p) PROVE FALSE
      OBVIOUS
    <2>1. ready[k][r][p] = 0
      BY <1>1 DEF ControlOK, CreditsOK
    <2>2. ready[k][r][p] >= u * b + n
      OBVIOUS
    <2> HIDE DEF a, b, u, k
    <2> QED
      BY <1>1, <1>2, <2>1, <2>2
  <1>4. request[p] = request[r]
    <2>1. request[p] \in Int /\ request[r] \in Int
      BY <1>0, Where
    <2>2. ~ request[r] < request[p]
      BY <1>0 DEF ControlOK, Separated, PositionAt
    <2> QED
      BY <1>3, <2>1, <2>2 DEF Silent
  <1>5. ready[k][r][p] = IF Using(k, p) THEN u * a + Now(p, r) ELSE u * a
    <2>1. ready[k][r][p] = u * a + IF Using(k, p) THEN Now(p, r) ELSE 0
      BY <1>1, <1>3 DEF ControlOK, CreditsOK, Sent
    <2> QED
      BY <1>2, <2>1
  <1>6. Using(k, p) => Now(p, r) \in 0 .. u
    BY <1>1, NowIs DEF Using
  <1>7. b < a \/ (Using(k, p) /\ a = b /\ Now(p, r) >= n)
    <2>1. u * b + n <= IF Using(k, p) THEN u * a + Now(p, r) ELSE u * a
      BY <1>5
    <2> DEFINE now == Now(p, r)
    <2> HIDE DEF a, b, u, k, now
    <2>2. CASE Using(k, p)
      <3>1. now \in 0 .. u /\ u * b + n <= u * a + now
        BY <1>6, <2>1, <2>2 DEF now
      <3>2. b <= a
        BY <1>1, <1>2, <3>1
      <3>3. CASE a = b
        BY <1>1, <1>2, <2>2, <3>1, <3>3 DEF now
      <3> QED
        BY <1>1, <3>2, <3>3
    <2>3. CASE ~Using(k, p)
      BY <1>1, <1>2, <2>1, <2>3
    <2> QED
      BY <2>2, <2>3
  <1>8. stage[p] \in {"exchange", "retire"}
    <2>1. stage[p] \in {"arrive", "stopped"} => a = 0 /\ ~Using(k, p)
      BY DEF Done, Using
    <2> HIDE DEF a, b
    <2> QED
      BY <1>0, <1>1, <1>7, <2>1, Where
  <1>9. Using(k, r)
    BY DEF Using
  <1> QED
    BY <1>0, <1>4, <1>7, <1>8, <1>9, TurnsTell DEF k

\* Who gives back more turns than a rank has behind it has read that rank's.
LEMMA GivenRead ==
    ASSUME Shape, ControlOK, NEW x \in Ranks, NEW r \in Ranks, NEW y \in Ranks,
           stage[x] = "exchange", request[r] = request[x],
           NEW e \in Nat, Done(Kind(x), x) + 1 <= e,
           Given(Kind(x), r, y) >= Unit(Kind(x)) * e
    PROVE  HasRead(r, x)
  <1> DEFINE k == Kind(x)
             u == Unit(k)
             a == Done(k, x)
             d == Done(k, r)
  <1>0. PositionAt(r) /\ PositionAt(x)
    BY DEF ControlOK
  <1>1. k \in Kinds /\ u \in {1, 2} /\ a \in Nat /\ d \in Nat
    <2>1. k \in Kinds
      BY <1>0, Where
    <2> QED
      BY <1>0, <2>1, UnitIs, DoneType
  <1>2. u * a + u <= u * e /\ u * a \in Nat /\ u * d \in Nat /\ u * e \in Nat
        /\ (u * d + u >= u * a + u => a <= d) /\ (u * d > u * a => a + 1 <= d)
    BY <1>1, Scaled
  <1>3. Given(k, r, y) = IF Using(k, r) /\ y \in freed[r] THEN u * d + u ELSE u * d
    <2>1. Given(k, r, y) = u * d + IF Using(k, r) /\ y \in freed[r] THEN u ELSE 0
      BY DEF Given
    <2> QED
      BY <1>2, <2>1
  <1>4. a < d \/ (a = d /\ Using(k, r) /\ freed[r] # {})
    <2>1. u * e <= IF Using(k, r) /\ y \in freed[r] THEN u * d + u ELSE u * d
      BY <1>3
    <2> HIDE DEF a, d, u, k
    <2>2. CASE Using(k, r) /\ y \in freed[r]
      BY <1>1, <1>2, <2>1, <2>2
    <2>3. CASE ~ (Using(k, r) /\ y \in freed[r])
      BY <1>1, <1>2, <2>1, <2>3
    <2> QED
      BY <2>2, <2>3
  <1>5. stage[r] \in {"exchange", "retire"}
    <2>1. stage[r] \in {"arrive", "stopped"} => d = 0 /\ ~Using(k, r)
      BY DEF Done, Using
    <2> HIDE DEF a, d
    <2> QED
      BY <1>0, <1>1, <1>4, <2>1, Where
  <1>6. Using(k, x)
    BY DEF Using
  <1>7. CASE a < d
    BY <1>0, <1>5, <1>6, <1>7, TurnsTell DEF HasRead
  <1>8. CASE a = d /\ Using(k, r) /\ freed[r] # {}
    <2>1. SameTurn(r, x)
      BY <1>0, <1>5, <1>6, <1>8, TurnsTell
    <2>2. Finished(r)
      BY <1>0, <1>8, <2>1 DEF PositionAt, TasksAt, SameTurn
    <2> QED
      BY <2>1, <2>2 DEF HasRead
  <1> QED
    BY <1>4, <1>7, <1>8

\* w may still write to r in its turn, and has the credit to.
Writing(w, r) ==
    /\ stage[w] = "exchange" /\ Publishes(w)
    /\ r \notin put[w] \/ (TwoStage(w) /\ r \notin indexed[w])
    /\ w # r => consumed[Kind(w)][w][r] >= Unit(Kind(w)) * Done(Kind(w), w)

LEMMA NotTold ==
    ASSUME Shape, ControlOK, NEW w \in Ranks, NEW r \in Ranks, Writing(w, r)
    PROVE  r \notin told[w] /\ ~Finished(w) /\ freed[w] = {} /\ (w # r => ~HasRead(r, w))
  <1>1. stage[w] = "exchange" /\ PositionAt(w) /\ TasksAt(w) /\ Publishes(w)
    BY DEF Writing, ControlOK, PositionAt
  <1>2. ~Finished(w) /\ freed[w] = {}
    BY <1>1, FinishedTold DEF Writing
  <1>3. r \notin told[w]
    BY <1>1 DEF TasksAt, Writing
  <1>4. w # r => ~HasRead(r, w)
    BY <1>1, <1>3, ReadTold
  <1> QED
    BY <1>2, <1>3, <1>4

\* Nobody writes the window of a rank that has not read what another rank has
\* put there, but in the same turn.
LEMMA WritesFit ==
    ASSUME Shape, ControlOK, NEW w \in Ranks, NEW r \in Ranks, Writing(w, r),
           NEW p \in Ranks, stage[p] = "exchange", Kind(p) = Kind(w), ~HasRead(r, p),
           r \in put[p] \cup indexed[p]
    PROVE  SameTurn(p, w)
  <1> DEFINE k == Kind(w)
             u == Unit(k)
             a == Done(k, w)
             b == Done(k, p)
  <1>0. PositionAt(w) /\ PositionAt(p) /\ PositionAt(r) /\ stage[w] = "exchange"
    BY DEF ControlOK, Writing
  <1>1. k \in Kinds /\ u \in {1, 2} /\ a \in Nat /\ b \in Nat
    <2>1. k \in Kinds
      BY <1>0, Where
    <2> QED
      BY <1>0, <2>1, UnitIs, DoneType
  <1>2. u * a \in Nat /\ u * b \in Nat /\ (u * a <= 0 => a = 0) /\ (u * b <= 0 => b = 0)
    <2>1. u * 0 = 0
      BY <1>1
    <2> QED
      BY <1>1, <2>1, Scaled
  <1>3. request[w] \in Int /\ request[p] \in Int /\ request[r] \in Int
    BY <1>0, Where
  <1>4. request[w] = request[p] /\ request[r] <= request[p]
    BY <1>0, <1>3 DEF ControlOK, Separated, PositionAt
  <1>5. retired[w] = {} /\ retired[p] = {} /\ Using(k, w) /\ Using(k, p)
    BY <1>0 DEF PositionAt, Using
  <1>6. p # r => consumed[k][p][r] >= u * b
    BY DEF ControlOK, Allowed, Peers
  <1>7. w # r => consumed[k][w][r] >= u * a
    BY DEF Writing
  <1>8. CASE request[r] < request[p]
    <2>1. r # p /\ r # w /\ Silent(k, w, r) /\ Silent(k, p, r)
      BY <1>3, <1>4, <1>8 DEF Silent
    <2>2. consumed[k][p][r] = 0 /\ consumed[k][w][r] = 0
      BY <1>1, <2>1 DEF ControlOK, CreditsOK
    <2>3. a = b
      BY <1>2, <1>6, <1>7, <2>1, <2>2
    <2> QED
      BY <1>0, <1>4, <1>5, <2>3, TurnsTell
  <1>9. CASE request[r] = request[p]
    <2>1. ASSUME a < b PROVE FALSE
      <3>1. a + 1 <= b
        BY <1>1, <2>1
      <3>2. HasRead(r, w) \/ freed[w] # {}
        <4>1. CASE r = p
          <5>1. Past(r, w)
            BY <1>0, <1>4, <1>5, <2>1, <4>1, TurnsTell
          <5> QED
            BY <5>1 DEF HasRead
        <4>2. CASE r # p
          <5>1. ~Silent(k, p, r)
            BY <1>3, <1>5, <1>9 DEF Silent
          <5>2. Given(k, r, p) >= u * b
            BY <1>1, <1>6, <4>2, <5>1 DEF ControlOK, CreditsOK
          <5> QED
            BY <1>0, <1>1, <1>4, <1>9, <3>1, <5>2, GivenRead
        <4> QED
          BY <4>1, <4>2
      <3>3. r = w => freed[w] # {}
        <4>1. CASE r # w
          BY <4>1
        <4>2. CASE r = w
          <5>1. ~Past(w, w)
            BY <1>0, Where DEF Past
          <5>2. HasRead(r, w) => Finished(w)
            BY <4>2, <5>1 DEF HasRead
          <5> QED
            BY <3>2, <5>2, NotTold
        <4> QED
          BY <4>1, <4>2
      <3> QED
        BY <3>2, <3>3, NotTold
    <2>2. ASSUME b < a PROVE FALSE
      <3>1. b + 1 <= a
        BY <1>1, <2>2
      <3>2. CASE r = w
        <4>1. Past(r, p)
          BY <1>0, <1>4, <1>5, <2>2, <3>2, TurnsTell
        <4> QED
          BY <4>1 DEF HasRead
      <3>3. CASE r # w
        <4>1. ~Silent(k, w, r)
          BY <1>3, <1>4, <1>5, <1>9 DEF Silent
        <4>2. Given(k, r, w) >= u * a
          BY <1>1, <1>7, <3>3, <4>1 DEF ControlOK, CreditsOK
        <4>3. HasRead(r, p)
          BY <1>0, <1>1, <1>9, <3>1, <4>2, GivenRead
        <4> QED
          BY <4>3
      <3> QED
        BY <3>2, <3>3
    <2>3. a = b
      BY <1>1, <2>1, <2>2
    <2> QED
      BY <1>0, <1>4, <1>5, <2>3, TurnsTell
  <1> QED
    BY <1>3, <1>4, <1>8, <1>9

\* Nor of a rank that has something to read.
LEMMA WritesWait ==
    ASSUME Shape, ControlOK, NEW w \in Ranks, NEW r \in Ranks, Writing(w, r),
           stage[r] = "exchange", ~Finished(r), Kind(r) = Kind(w)
    PROVE  SameTurn(r, w)
  <1> DEFINE k == Kind(w)
             u == Unit(k)
             a == Done(k, w)
             d == Done(k, r)
  <1>0. PositionAt(w) /\ PositionAt(r) /\ stage[w] = "exchange"
    BY DEF ControlOK, Writing
  <1>1. CASE r = w
    BY <1>0, <1>1 DEF SameTurn
  <1>2. CASE r # w
    <2>1. k \in Kinds /\ u \in {1, 2} /\ a \in Nat /\ d \in Nat
      <3>1. k \in Kinds
        BY <1>0, Where
      <3> QED
        BY <1>0, <3>1, UnitIs, DoneType
    <2>2. request[w] = request[r] /\ request[r] \in Int
      BY <1>0, Where DEF ControlOK, Separated, PositionAt
    <2>3. retired[w] = {} /\ Using(k, w) /\ Using(k, r)
      BY <1>0 DEF PositionAt, Using
    <2>4. freed[r] = {}
      BY <1>0 DEF PositionAt, TasksAt
    <2>5. ~Silent(k, w, r)
      BY <2>2, <2>3 DEF Silent
    <2>6. Given(k, r, w) >= u * a
      BY <1>2, <2>1, <2>5 DEF ControlOK, CreditsOK, Writing
    <2>7. Given(k, r, w) = u * d + 0
      BY <2>4 DEF Given
    <2>8. u * a \in Nat /\ u * d \in Nat /\ (u * a <= u * d => a <= d)
      BY <2>1, Scaled
    <2> HIDE DEF a, d, u, k
    <2>9. a <= d
      BY <2>6, <2>7, <2>8
    <2>10. ~ a < d
      <3> SUFFICES ASSUME a < d PROVE FALSE
        OBVIOUS
      <3>1. Past(r, w)
        BY <1>0, <2>2, <2>3, TurnsTell DEF a, d, u, k
      <3> QED
        BY <1>2, <3>1, NotTold DEF HasRead
    <2>11. a = d
      BY <2>1, <2>9, <2>10
    <2> QED
      BY <1>0, <2>2, <2>3, <2>11, TurnsTell DEF a, d, k
  <1> QED
    BY <1>1, <1>2

\* A rank that has not yet given a peer's credits back is heard by the peer.
LEMMA NotSilent ==
    ASSUME Shape, ControlOK, NEW r \in Ranks, NEW p \in Ranks, p # r,
           stage[r] = "exchange", p \notin freed[r]
    PROVE  ~Silent(Kind(r), p, r)
  <1> SUFFICES ASSUME Silent(Kind(r), p, r) PROVE FALSE
    OBVIOUS
  <1> DEFINE k == Kind(r)
             u == Unit(k)
             a == Done(k, r)
             c == Cardinality(LayersOf(k)) * Turns(k, request[r])
  <1>0. PositionAt(r) /\ PositionAt(p) /\ r \in Peers(p)
    BY DEF ControlOK, Peers
  <1>1. ~ request[r] < request[p]
    BY <1>0 DEF ControlOK, Separated, PositionAt
  <1>2. request[r] = request[p] /\ k \in retired[p]
    BY <1>1 DEF Silent
  <1>3. k \in Kinds /\ u \in {1, 2} /\ a \in Nat
    <2>1. k \in Kinds
      BY <1>0, Where
    <2> QED
      BY <1>0, <2>1, UnitIs, DoneType
  <1>4. a + 1 <= c /\ c \in Nat
    <2>1. layer[r] \in Int /\ layer[r] < layer[r] + 1 /\ layer[r] + 1 \in Int
      BY <1>0, Where
    <2>2. c \in Nat /\ Before(k, layer[r] + 1) * Turns(k, request[r]) \in Nat
          /\ Before(k, layer[r] + 1) * Turns(k, request[r]) <= c
      BY <1>0, <1>3, <2>1, DoneBound
    <2>3. a + 1 <= Before(k, layer[r] + 1) * Turns(k, request[r])
      BY <1>0, <1>3, DoneBetween
    <2> HIDE DEF c, a
    <2> QED
      BY <1>3, <2>2, <2>3
  <1>5. Given(k, r, p) >= u * c
    BY <1>0, <1>2 DEF ControlOK, Settled
  <1>6. u * a + u <= u * c /\ u * a \in Nat /\ u * c \in Nat
    BY <1>3, <1>4, Scaled
  <1>7. Given(k, r, p) = u * a + 0
    BY DEF Given
  <1> HIDE DEF a, u, c
  <1> QED
    BY <1>3, <1>5, <1>6, <1>7

-----------------------------------------------------------------------------
(***************************************************************************)
(* What steps leave alone.                                                 *)
(***************************************************************************)

place == <<plan, request, layer, phase, stage>>

LEMMA SamePlace ==
    ASSUME UNCHANGED place
    PROVE  /\ \A q : Base(q)' = Base(q) /\ End(q)' = End(q)
           /\ \A k, q : HistoryRows(k, q)' = HistoryRows(k, q)
           /\ \A k, q : HistoryPhases(k, q)' = HistoryPhases(k, q) /\ Turns(k, q)' = Turns(k, q)
           /\ \A r : Kind(r)' = Kind(r) /\ InHistory(r)' = InHistory(r)
           /\ \A r : TwoStage(r)' = TwoStage(r) /\ Publishes(r)' = Publishes(r)
           /\ \A k, r : Done(k, r)' = Done(k, r) /\ Using(k, r)' = Using(k, r)
           /\ \A p, r : Past(p, r)' = Past(p, r) /\ SameTurn(p, r)' = SameTurn(p, r)
  <1>0. plan' = plan /\ request' = request /\ layer' = layer /\ phase' = phase /\ stage' = stage
    BY DEF place
  <1>1. \A q : Base(q)' = Base(q) /\ End(q)' = End(q)
    BY <1>0 DEF Base, End
  <1>2. \A k, q : HistoryRows(k, q)' = HistoryRows(k, q)
    BY <1>0 DEF HistoryRows, Base
  <1>3. \A k, q : HistoryPhases(k, q)' = HistoryPhases(k, q) /\ Turns(k, q)' = Turns(k, q)
    BY <1>1, <1>2 DEF HistoryPhases, Turns
  <1>4. \A r : Kind(r)' = Kind(r)
    BY <1>0 DEF Kind
  <1>5. \A r : InHistory(r)' = InHistory(r)
    BY <1>0, <1>3, <1>4 DEF InHistory
  <1>6. \A r : TwoStage(r)' = TwoStage(r) /\ Publishes(r)' = Publishes(r)
    BY <1>0, <1>4, <1>5 DEF TwoStage, Publishes, Owner
  <1>7. \A k, r : Done(k, r)' = Done(k, r) /\ Using(k, r)' = Using(k, r)
    BY <1>0, <1>3, <1>4 DEF Done, Using, Before
  <1>8. \A p, r : Past(p, r)' = Past(p, r) /\ SameTurn(p, r)' = SameTurn(p, r)
    BY <1>0 DEF Past, SameTurn
  <1> QED
    BY <1>1, <1>2, <1>3, <1>4, <1>5, <1>6, <1>7, <1>8

\* A step in which only r does one of its tasks.
Only(r) ==
    /\ UNCHANGED <<plan, progress>>
    /\ stage[r] = "exchange"
    /\ \A x \in Ranks \ {r} :
         /\ indexed'[x] = indexed[x] /\ put'[x] = put[x] /\ told'[x] = told[x]
         /\ taken'[x] = taken[x] /\ freed'[x] = freed[x]

LEMMA OnlyKeeps ==
    ASSUME NEW r \in Ranks, Only(r)
    PROVE  /\ UNCHANGED place /\ request' = request /\ stage' = stage /\ retired' = retired
           /\ \A k, x, y : Silent(k, x, y)' = Silent(k, x, y)
           /\ \A x \in Ranks \ {r}, y \in Ranks, k \in Kinds :
                /\ Now(x, y)' = Now(x, y)
                /\ Sent(k, x, y)' = Sent(k, x, y) /\ Given(k, x, y)' = Given(k, x, y)
  <1>1. UNCHANGED place /\ request' = request /\ stage' = stage /\ retired' = retired
    BY DEF Only, progress, place
  <1>2. \A k, x, y : Silent(k, x, y)' = Silent(k, x, y)
    BY <1>1 DEF Silent
  <1>3. \A x \in Ranks \ {r}, y \in Ranks : Now(x, y)' = Now(x, y)
    BY <1>1, SamePlace DEF Now, Only
  <1>4. \A x \in Ranks \ {r}, y \in Ranks, k \in Kinds :
            Sent(k, x, y)' = Sent(k, x, y) /\ Given(k, x, y)' = Given(k, x, y)
    BY <1>1, <1>3, SamePlace DEF Sent, Given, Only
  <1> QED
    BY <1>1, <1>2, <1>3, <1>4

LEMMA OnlyPosition ==
    ASSUME Shape, ControlOK, NEW r \in Ranks, Only(r), TasksAt(r)'
    PROVE  /\ \A x \in Ranks : PositionAt(x)'
           /\ Separated'
  <1>1. UNCHANGED place /\ request' = request /\ stage' = stage /\ retired' = retired
        /\ plan' = plan /\ phase' = phase /\ waiting' = waiting
    BY OnlyKeeps DEF Only, progress
  <1>2. Separated'
    BY <1>1 DEF ControlOK, Separated
  <1>3. ASSUME NEW x \in Ranks PROVE PositionAt(x)'
    <2>1. PositionAt(x)
      BY DEF ControlOK
    <2>2. CASE x = r
      BY <1>1, <2>1, <2>2, SamePlace DEF PositionAt, Only
    <2>3. CASE x # r
      <3>1. /\ indexed'[x] = indexed[x] /\ put'[x] = put[x] /\ told'[x] = told[x]
            /\ taken'[x] = taken[x] /\ freed'[x] = freed[x]
        BY <2>3 DEF Only
      <3>2. TasksAt(x) => TasksAt(x)'
        BY <1>1, <3>1, SamePlace DEF TasksAt, Finished
      <3> QED
        BY <1>1, <2>1, <3>1, <3>2, SamePlace DEF PositionAt
    <2> QED
      BY <2>2, <2>3
  <1> QED
    BY <1>2, <1>3

-----------------------------------------------------------------------------
(***************************************************************************)
(* Positions and credits, step by step.                                    *)
(***************************************************************************)

\* A task of r that announces n credits to p and gives m back.
Counts(r, p, n, m) ==
    /\ n > 0 \/ m > 0 => p # r /\ p \notin freed[r]
    /\ \A k \in Kinds, x, y \in Ranks :
         /\ ready'[k][x][y] =
              IF k = Kind(r) /\ x = p /\ y = r THEN ready[k][x][y] + n ELSE ready[k][x][y]
         /\ consumed'[k][x][y] =
              IF k = Kind(r) /\ x = p /\ y = r THEN consumed[k][x][y] + m ELSE consumed[k][x][y]
    /\ \A y \in Peers(r) :
         /\ Now(r, y)' = IF y = p THEN Now(r, y) + n ELSE Now(r, y)
         /\ Given(Kind(r), r, y)' =
              IF y = p THEN Given(Kind(r), r, y) + m ELSE Given(Kind(r), r, y)

LEMMA CountsType ==
    ASSUME Shape, ControlOK, NEW x \in Ranks, NEW y \in Ranks, NEW k \in Kinds
    PROVE  /\ Sent(k, x, y) \in Nat /\ Given(k, x, y) \in Nat
           /\ ready[k][x][y] \in Nat /\ consumed[k][x][y] \in Nat
  <1>1. PositionAt(x) /\ Kind(x) \in Kinds
    BY Where DEF ControlOK
  <1>2. Unit(k) \in {1, 2} /\ Done(k, x) \in Nat /\ Now(x, y) \in 0 .. Unit(Kind(x))
        /\ Unit(Kind(x)) \in {1, 2}
    BY <1>1, UnitIs, DoneType, NowIs
  <1>3. Unit(k) * Done(k, x) \in Nat
    BY <1>2, Scaled
  <1>4. ready[k][x][y] \in Nat /\ consumed[k][x][y] \in Nat
    BY DEF Shape
  <1> QED
    BY <1>2, <1>3, <1>4 DEF Sent, Given

LEMMA CreditsCounted ==
    ASSUME Shape, ControlOK, NEW r \in Ranks, NEW p \in Ranks, NEW n \in Nat, NEW m \in Nat,
           Only(r), Counts(r, p, n, m)
    PROVE  CreditsOK'
  <1>0. Kind(r)' = Kind(r)
    BY OnlyKeeps, SamePlace
  <1>0a. p = r => n = 0 /\ m = 0
    <2>1. n > 0 \/ m > 0 => p # r
      BY DEF Counts
    <2> QED
      BY <2>1
  <1>1. stage[r] = "exchange" /\ Kind(r) \in Kinds /\ PositionAt(r)
    BY Where DEF Only, ControlOK
  <1>2. ASSUME NEW k \in Kinds, NEW x \in Ranks, NEW y \in Ranks, x # y, k = Kind(r), y = r,
               x = p, ~Silent(k, x, y)
        PROVE  /\ ready'[k][x][y] = Sent(k, y, x)' /\ consumed'[k][x][y] = Given(k, y, x)'
    <2>1. ready[k][x][y] = Sent(k, y, x) /\ consumed[k][x][y] = Given(k, y, x)
      BY <1>2 DEF ControlOK, CreditsOK
    <2>2. Sent(k, y, x) = Unit(k) * Done(k, y) + Now(y, x)
      BY <1>1, <1>2 DEF Sent, Using
    <2>3. Sent(k, y, x)' = Unit(k) * Done(k, y) + Now(y, x)'
      BY <1>1, <1>2, OnlyKeeps, SamePlace DEF Sent, Using
    <2>4. Now(y, x)' = Now(y, x) + n /\ Given(k, y, x)' = Given(k, y, x) + m
      BY <1>0, <1>2 DEF Counts, Peers
    <2>5. Unit(k) * Done(k, y) \in Nat /\ Now(y, x) \in Nat
      <3>1. Unit(k) \in {1, 2} /\ Done(k, y) \in Nat /\ Now(y, x) \in 0 .. Unit(k)
        BY <1>1, <1>2, UnitIs, DoneType, NowIs
      <3> QED
        BY <3>1, Scaled
    <2>6. ready'[k][x][y] = ready[k][x][y] + n /\ consumed'[k][x][y] = consumed[k][x][y] + m
      BY <1>2 DEF Counts
    <2> DEFINE d == Unit(k) * Done(k, y)
               now == Now(y, x)
    <2>7. ready'[k][x][y] = (d + now) + n /\ Sent(k, y, x)' = d + (now + n)
          /\ d \in Nat /\ now \in Nat
      BY <2>1, <2>2, <2>3, <2>4, <2>5, <2>6
    <2> HIDE DEF d, now
    <2>8. ready'[k][x][y] = Sent(k, y, x)'
      BY <2>7
    <2> QED
      BY <2>1, <2>4, <2>6, <2>8
  <1>3. ASSUME NEW k \in Kinds, NEW x \in Ranks, NEW y \in Ranks, x # y,
               ~ (k = Kind(r) /\ y = r /\ x = p)
        PROVE  /\ Sent(k, y, x)' = Sent(k, y, x) /\ Given(k, y, x)' = Given(k, y, x)
               /\ ready'[k][x][y] = ready[k][x][y] /\ consumed'[k][x][y] = consumed[k][x][y]
    <2>1. ready'[k][x][y] = ready[k][x][y] /\ consumed'[k][x][y] = consumed[k][x][y]
      BY <1>3 DEF Counts
    <2>2. CASE y # r
      BY <2>1, <2>2, OnlyKeeps
    <2>3. CASE y = r /\ k # Kind(r)
      <3>1. ~Using(k, r) /\ ~Using(k, r)' /\ Done(k, r)' = Done(k, r)
        BY <2>3, OnlyKeeps, SamePlace DEF Using
      <3> QED
        BY <2>1, <2>3, <3>1 DEF Sent, Given
    <2>4. CASE y = r /\ k = Kind(r) /\ x # p
      <3>1. Using(k, r) /\ Using(k, r)' /\ Done(k, r)' = Done(k, r)
        BY <1>1, <2>4, OnlyKeeps, SamePlace DEF Using
      <3>2. Now(r, x)' = Now(r, x) /\ Given(k, r, x)' = Given(k, r, x)
        BY <1>0, <1>3, <2>4 DEF Counts, Peers
      <3> QED
        BY <2>1, <2>4, <3>1, <3>2 DEF Sent
    <2> QED
      BY <1>3, <2>2, <2>3, <2>4
  <1>4. ASSUME NEW k \in Kinds, NEW x \in Ranks, NEW y \in Ranks
        PROVE  /\ ready'[k][x][y] = IF y = x \/ Silent(k, x, y)' THEN 0 ELSE Sent(k, y, x)'
               /\ consumed'[k][x][y] = IF y = x \/ Silent(k, x, y)' THEN 0 ELSE Given(k, y, x)'
    <2>0. /\ ready[k][x][y] = IF y = x \/ Silent(k, x, y) THEN 0 ELSE Sent(k, y, x)
          /\ consumed[k][x][y] = IF y = x \/ Silent(k, x, y) THEN 0 ELSE Given(k, y, x)
          /\ Silent(k, x, y)' = Silent(k, x, y)
      BY OnlyKeeps DEF ControlOK, CreditsOK
    <2>1. CASE x = y
      <3>1. ready'[k][x][y] = ready[k][x][y] /\ consumed'[k][x][y] = consumed[k][x][y]
        <4>1. x = p /\ y = r => n = 0 /\ m = 0
          BY <1>0a, <2>1
        <4>2. ready[k][x][y] \in Nat /\ consumed[k][x][y] \in Nat
          BY CountsType
        <4> QED
          BY <4>1, <4>2 DEF Counts
      <3> QED
        BY <2>0, <2>1, <3>1
    <2>2. CASE x # y /\ k = Kind(r) /\ y = r /\ x = p
      <3>1. CASE ~Silent(k, x, y)
        BY <1>2, <2>0, <2>2, <3>1
      <3>2. CASE Silent(k, x, y)
        <4>1. n = 0 /\ m = 0
          BY <1>1, <2>2, <3>2, NotSilent DEF Counts
        <4>2. ready[k][x][y] \in Nat /\ consumed[k][x][y] \in Nat
          BY CountsType
        <4>3. ready'[k][x][y] = ready[k][x][y] /\ consumed'[k][x][y] = consumed[k][x][y]
          BY <2>2, <4>1, <4>2 DEF Counts
        <4> QED
          BY <2>0, <2>2, <3>2, <4>3
      <3> QED
        BY <3>1, <3>2
    <2>3. CASE x # y /\ ~ (k = Kind(r) /\ y = r /\ x = p)
      BY <1>3, <2>0, <2>3
    <2> QED
      BY <2>1, <2>2, <2>3
  <1> QED
    BY <1>4 DEF CreditsOK

LEMMA LocalControl ==
    ASSUME Shape, ControlOK, NEW r \in Ranks, NEW p \in Ranks, NEW n \in Nat, NEW m \in Nat,
           Only(r), Counts(r, p, n, m), TasksAt(r)',
           \A y \in Peers(r) :
             /\ taken'[r] \cap {"history", "main"} # {} =>
                  ready[Kind(r)][r][y] >= Unit(Kind(r)) * Done(Kind(r), r) + Unit(Kind(r))
             /\ "index" \in taken'[r] =>
                  ready[Kind(r)][r][y] >= Unit(Kind(r)) * Done(Kind(r), r) + 1
             /\ y \in put'[r] \cup indexed'[r] =>
                  consumed[Kind(r)][r][y] >= Unit(Kind(r)) * Done(Kind(r), r)
    PROVE  ControlOK'
  <1>1. /\ UNCHANGED place /\ request' = request /\ stage' = stage /\ retired' = retired
    BY OnlyKeeps
  <1>2. (\A x \in Ranks : PositionAt(x)') /\ Separated'
    BY OnlyPosition
  <1>3. CreditsOK'
    BY CreditsCounted
  <1>4. \A k \in Kinds, x, y \in Ranks :
            ready'[k][x][y] >= ready[k][x][y] /\ consumed'[k][x][y] >= consumed[k][x][y]
    BY CountsType DEF Counts
  <1>5. \A x \in Ranks : Kind(x) \in Kinds
    BY Where DEF ControlOK
  <1>6. \A x \in Ranks, k \in Kinds : Unit(k) * Done(k, x) \in Nat /\ Unit(k) \in {1, 2}
    BY DoneType, UnitIs, Scaled DEF ControlOK
  <1>7. \A k \in Kinds, x, y \in Ranks : ready[k][x][y] \in Nat /\ consumed[k][x][y] \in Nat
          /\ ready'[k][x][y] \in Int /\ consumed'[k][x][y] \in Int
    BY CountsType DEF Counts
  <1>8. Heard'
    <2> SUFFICES ASSUME NEW x \in Ranks, NEW y \in Peers(x)
                 PROVE  /\ \A k \in Kinds \ retired'[x] : ready'[k][x][y] >= Unit(k) * Done(k, x)'
                        /\ taken'[x] \cap {"history", "main"} # {} =>
                             ready'[Kind(x)'][x][y] >=
                               Unit(Kind(x)') * Done(Kind(x), x)' + Unit(Kind(x)')
                        /\ "index" \in taken'[x] =>
                             ready'[Kind(x)'][x][y] >= Unit(Kind(x)') * Done(Kind(x), x)' + 1
      BY DEF Heard
    <2>0. y \in Ranks /\ Kind(x)' = Kind(x) /\ \A k \in Kinds : Done(k, x)' = Done(k, x)
      BY <1>1, SamePlace DEF Peers
    <2>0a. Done(Kind(x), x)' = Done(Kind(x), x)
      BY <1>1, SamePlace
    <2>1. \A k \in Kinds \ retired'[x] : ready'[k][x][y] >= Unit(k) * Done(k, x)'
      <3> SUFFICES ASSUME NEW k \in Kinds \ retired'[x] PROVE ready'[k][x][y] >= Unit(k) * Done(k, x)'
        OBVIOUS
      <3>1. ready[k][x][y] >= Unit(k) * Done(k, x)
        BY <1>1 DEF ControlOK, Heard
      <3> DEFINE d == Unit(k) * Done(k, x)
      <3>2. d \in Nat /\ ready[k][x][y] \in Nat /\ ready'[k][x][y] \in Int
            /\ ready'[k][x][y] >= ready[k][x][y] /\ ready[k][x][y] >= d
        BY <1>4, <1>6, <1>7, <2>0, <3>1
      <3> HIDE DEF d
      <3>3. ready'[k][x][y] >= d
        BY <3>2
      <3> QED
        BY <2>0, <3>3 DEF d
    <2> DEFINE k == Kind(x)
               d == Unit(k) * Done(k, x)
    <2>2. k \in Kinds /\ d \in Nat /\ Unit(k) \in {1, 2} /\ ready[k][x][y] \in Nat
          /\ ready'[k][x][y] \in Int /\ ready'[k][x][y] >= ready[k][x][y]
      BY <1>4, <1>5, <1>6, <1>7, <2>0
    <2>3. /\ taken'[x] \cap {"history", "main"} # {} => ready[k][x][y] >= d + Unit(k)
          /\ "index" \in taken'[x] => ready[k][x][y] >= d + 1
      <3>1. CASE x = r
        BY <3>1
      <3>2. CASE x # r
        <4>1. taken'[x] = taken[x]
          BY <3>2 DEF Only
        <4> QED
          BY <4>1 DEF ControlOK, Heard
      <3> QED
        BY <3>1, <3>2
    <2>4. /\ taken'[x] \cap {"history", "main"} # {} => ready'[k][x][y] >= d + Unit(k)
          /\ "index" \in taken'[x] => ready'[k][x][y] >= d + 1
      <3> HIDE DEF k, d
      <3> QED
        BY <2>2, <2>3
    <2> QED
      BY <2>0, <2>0a, <2>1, <2>4
  <1>9. Allowed'
    <2> SUFFICES ASSUME NEW x \in Ranks, NEW y \in Peers(x), y \in put'[x] \cup indexed'[x]
                 PROVE  consumed'[Kind(x)'][x][y] >= Unit(Kind(x)') * Done(Kind(x), x)'
      BY DEF Allowed
    <2>0. y \in Ranks /\ Kind(x)' = Kind(x) /\ Done(Kind(x), x)' = Done(Kind(x), x)
      BY <1>1, SamePlace DEF Peers
    <2> DEFINE k == Kind(x)
               d == Unit(k) * Done(k, x)
    <2>1. consumed[k][x][y] >= d
      <3>1. CASE x = r
        BY <3>1
      <3>2. CASE x # r
        BY <3>2 DEF Only, ControlOK, Allowed
      <3> QED
        BY <3>1, <3>2
    <2>2. d \in Nat /\ consumed[k][x][y] \in Nat /\ consumed'[k][x][y] \in Int
          /\ consumed'[k][x][y] >= consumed[k][x][y]
      BY <1>4, <1>5, <1>6, <1>7, <2>0
    <2>3. consumed'[k][x][y] >= d
      <3> HIDE DEF k, d
      <3> QED
        BY <2>1, <2>2
    <2> QED
      BY <2>0, <2>3
  <1>10. Settled'
    <2>1. ASSUME NEW x \in Ranks, NEW y \in Ranks, NEW k \in Kinds
          PROVE  Given(k, x, y)' >= Given(k, x, y)
      <3>1. Given(k, x, y) \in Nat
        BY CountsType
      <3>2. CASE x # r
        BY <3>1, <3>2, OnlyKeeps
      <3>3. CASE x = r /\ k = Kind(r) /\ y # r
        <4>1. Kind(r)' = Kind(r)
          BY <1>1, SamePlace
        <4> QED
          BY <3>1, <3>3, <4>1 DEF Counts, Peers
      <3>4. CASE x = r /\ k # Kind(r)
        <4>1. ~Using(k, r) /\ ~Using(k, r)' /\ Done(k, r)' = Done(k, r)
          BY <1>1, <3>4, SamePlace DEF Using
        <4> QED
          BY <3>1, <3>4, <4>1 DEF Given
      <3>5. CASE x = r /\ y = r
        <4>1. r \notin freed[r] /\ r \notin freed'[r]
          <5>1. TasksAt(r)
            BY DEF ControlOK, PositionAt, Only
          <5> QED
            BY <5>1 DEF TasksAt, Peers
        <4>2. Given(k, r, r)' = Given(k, r, r)
          BY <1>1, <4>1, SamePlace DEF Given
        <4> QED
          BY <3>1, <3>5, <4>2
      <3> QED
        BY <3>2, <3>3, <3>4, <3>5
    <2> SUFFICES ASSUME NEW x \in Ranks, NEW k \in retired'[x], NEW y \in Peers(x)
                 PROVE  /\ request'[y] = request'[x] =>
                             Given(k, y, x)' >= Unit(k) * (Cardinality(LayersOf(k)) * Turns(k, request[x])')
                        /\ request'[y] < request'[x] => LayersOf(k) = {}
      BY DEF Settled
    <2>2. k \in retired[x] /\ k \in Kinds /\ y \in Ranks
      BY <1>1 DEF Shape, Peers
    <2>3. /\ request[y] = request[x] =>
               Given(k, y, x) >= Unit(k) * (Cardinality(LayersOf(k)) * Turns(k, request[x]))
          /\ request[y] < request[x] => LayersOf(k) = {}
      BY <2>2 DEF ControlOK, Settled
    <2>4. Turns(k, request[x])' = Turns(k, request[x])
      BY <1>1, SamePlace
    <2>5. request[y] = request[x] =>
            Given(k, y, x)' >= Unit(k) * (Cardinality(LayersOf(k)) * Turns(k, request[x]))
      <3> SUFFICES ASSUME request[y] = request[x]
                   PROVE Given(k, y, x)' >= Unit(k) * (Cardinality(LayersOf(k)) * Turns(k, request[x]))
        OBVIOUS
      <3>1. request[x] \in 0 .. Requests - 1 /\ plan \in Plans
        <4>1. stage[x] = "retire" /\ PositionAt(x)
          BY <2>2 DEF ControlOK, PositionAt
        <4> QED
          BY <4>1, Where
      <3>2. Cardinality(LayersOf(k)) * Turns(k, request[x]) \in Nat
        BY <2>2, <3>1, LayersFinite, PhasesAre, Product
      <3>3. Unit(k) * (Cardinality(LayersOf(k)) * Turns(k, request[x])) \in Nat
        BY <2>2, <3>2, UnitIs, Scaled
      <3>4. Given(k, y, x)' \in Int
        <4>1. Given(k, y, x)' >= Given(k, y, x) /\ Given(k, y, x) \in Nat
          BY <2>1, <2>2, CountsType
        <4>2. y \in Ranks /\ Unit(k) * Done(k, y) \in Nat /\ Unit(k) \in {1, 2}
              /\ Done(k, y)' = Done(k, y)
          BY <1>1, <1>6, <2>2, SamePlace
        <4> QED
          BY <4>2 DEF Given
      <3> DEFINE c == Unit(k) * (Cardinality(LayersOf(k)) * Turns(k, request[x]))
                 g == Given(k, y, x)
                 h == Given(k, y, x)'
      <3>5. c \in Nat /\ h \in Int /\ g \in Nat /\ h >= g /\ g >= c
        BY <2>1, <2>2, <2>3, <3>3, <3>4, CountsType
      <3> HIDE DEF c, g, h
      <3>6. h >= c
        BY <3>5
      <3> QED
        BY <3>6 DEF c, h
    <2> QED
      BY <1>1, <2>3, <2>4, <2>5
  <1> QED
    BY <1>2, <1>3, <1>8, <1>9, <1>10 DEF ControlOK

\* Tasks that announce and give back nothing.
LEMMA Uncounted ==
    ASSUME Shape, ControlOK, NEW r \in Ranks, Only(r), UNCHANGED <<ready, consumed>>,
           indexed'[r] = indexed[r], told'[r] = told[r], freed'[r] = freed[r]
    PROVE  Counts(r, r, 0, 0)
  <1>1. UNCHANGED place /\ Kind(r)' = Kind(r) /\ TwoStage(r)' = TwoStage(r)
        /\ stage' = stage /\ \A k : Done(k, r)' = Done(k, r) /\ Using(k, r)' = Using(k, r)
    BY OnlyKeeps, SamePlace
  <1>2. \A y \in Peers(r) : Now(r, y)' = Now(r, y)
    BY <1>1 DEF Now
  <1>3. \A k, y : Given(k, r, y)' = Given(k, r, y)
    BY <1>1 DEF Given
  <1>3a. \A y : Given(Kind(r), r, y)' = Given(Kind(r), r, y)
    BY <1>1, <1>3
  <1>4. \A y \in Peers(r) : y # r
    BY DEF Peers
  <1>5. \A k \in Kinds, x, y \in Ranks :
            ready'[k][x][y] = ready[k][x][y] /\ consumed'[k][x][y] = consumed[k][x][y]
            /\ ready[k][x][y] + 0 = ready[k][x][y] /\ consumed[k][x][y] + 0 = consumed[k][x][y]
    BY CountsType
  <1> QED
    BY <1>2, <1>3a, <1>4, <1>5 DEF Counts

\* Credits as the guards ask for them.
LEMMA CreditIs ==
    ASSUME Shape, NEW r \in Ranks, NEW p \in Ranks, stage[r] = "exchange", Credit(r, p)
    PROVE  p # r => consumed[Kind(r)][r][p] >= Unit(Kind(r)) * Done(Kind(r), r)
  BY EpochIs DEF Credit

LEMMA AnnouncedIs ==
    ASSUME Shape, NEW r \in Ranks, NEW n, stage[r] = "exchange", Announced(r, n)
    PROVE  \A y \in Peers(r) :
             ready[Kind(r)][r][y] >= Unit(Kind(r)) * Done(Kind(r), r) + n
  BY EpochIs DEF Announced

\* What a rank has heard when it has taken something.
LEMMA TakenHeard ==
    ASSUME ControlOK, NEW r \in Ranks, NEW y \in Peers(r)
    PROVE  /\ taken[r] \cap {"history", "main"} # {} =>
                ready[Kind(r)][r][y] >= Unit(Kind(r)) * Done(Kind(r), r) + Unit(Kind(r))
           /\ "index" \in taken[r] =>
                ready[Kind(r)][r][y] >= Unit(Kind(r)) * Done(Kind(r), r) + 1
           /\ y \in put[r] \cup indexed[r] =>
                consumed[Kind(r)][r][y] >= Unit(Kind(r)) * Done(Kind(r), r)
  BY DEF ControlOK, Heard, Allowed

LEMMA TasksBefore ==
    ASSUME ControlOK, NEW r \in Ranks, stage[r] = "exchange"
    PROVE  TasksAt(r) /\ PositionAt(r)
  BY DEF ControlOK, PositionAt

LEMMA PutControl ==
    ASSUME Shape, ControlOK, NEW r \in Ranks, NEW p \in Ranks, Put(r, p)
    PROVE  ControlOK' /\ Only(r)
  <1>1. stage[r] = "exchange" /\ Publishes(r) /\ put'[r] = put[r] \cup {p}
        /\ \A x \in Ranks \ {r} : put'[x] = put[x]
    BY DEF Put, Shape
  <1>2. Only(r)
    BY <1>1 DEF Put, Only
  <1>3. Counts(r, r, 0, 0)
    BY <1>2, Uncounted DEF Put
  <1>4. UNCHANGED place
    BY <1>2, OnlyKeeps
  <1>5. TasksAt(r)'
    <2>1. TasksAt(r)
      BY <1>1, TasksBefore
    <2>2. indexed' = indexed /\ told' = told /\ taken' = taken /\ freed' = freed
      BY DEF Put
    <2>3. TwoStage(r) => indexed[r] = Ranks
      BY DEF Put
    <2>4. put[r] = Ranks => put'[r] = Ranks
      BY <1>1
    <2> QED
      BY <1>1, <1>4, <2>1, <2>2, <2>3, <2>4, SamePlace DEF TasksAt, Finished
  <1>6. \A y \in Peers(r) :
             /\ taken'[r] \cap {"history", "main"} # {} =>
                  ready[Kind(r)][r][y] >= Unit(Kind(r)) * Done(Kind(r), r) + Unit(Kind(r))
             /\ "index" \in taken'[r] =>
                  ready[Kind(r)][r][y] >= Unit(Kind(r)) * Done(Kind(r), r) + 1
             /\ y \in put'[r] \cup indexed'[r] =>
                  consumed[Kind(r)][r][y] >= Unit(Kind(r)) * Done(Kind(r), r)
    <2> SUFFICES ASSUME NEW y \in Peers(r) PROVE
             /\ taken'[r] \cap {"history", "main"} # {} =>
                  ready[Kind(r)][r][y] >= Unit(Kind(r)) * Done(Kind(r), r) + Unit(Kind(r))
             /\ "index" \in taken'[r] =>
                  ready[Kind(r)][r][y] >= Unit(Kind(r)) * Done(Kind(r), r) + 1
             /\ y \in put'[r] \cup indexed'[r] =>
                  consumed[Kind(r)][r][y] >= Unit(Kind(r)) * Done(Kind(r), r)
      OBVIOUS
    <2>1. taken' = taken /\ indexed' = indexed
      BY DEF Put
    <2>2. y = p => consumed[Kind(r)][r][y] >= Unit(Kind(r)) * Done(Kind(r), r)
      <3>1. Credit(r, p)
        BY DEF Put
      <3> QED
        BY <1>1, <3>1, CreditIs DEF Peers
    <2> QED
      BY <1>1, <2>1, <2>2, TakenHeard
  <1>7. 0 \in Nat
    OBVIOUS
  <1> QED
    BY <1>2, <1>3, <1>5, <1>6, <1>7, LocalControl

\* The cells of the banks after a rank has added to one of them.
LEMMA Bumped ==
    ASSUME NEW bank, bank \in [Kinds -> [Ranks -> [Ranks -> Nat]]],
           NEW kind \in Kinds, NEW p \in Ranks, NEW r \in Ranks, NEW n \in Nat,
           NEW new, new = [bank EXCEPT ![kind][p][r] = @ + n]
    PROVE  /\ new \in [Kinds -> [Ranks -> [Ranks -> Nat]]]
           /\ \A k \in Kinds, x, y \in Ranks :
                new[k][x][y] = IF k = kind /\ x = p /\ y = r THEN bank[k][x][y] + n
                               ELSE bank[k][x][y]
  OBVIOUS

LEMMA NotifyControl ==
    ASSUME Shape, ControlOK, NEW r \in Ranks, NEW p \in Ranks, Notify(r, p)
    PROVE  ControlOK' /\ Only(r) /\ ready' \in [Kinds -> [Ranks -> [Ranks -> Nat]]]
  <1> DEFINE n == IF TwoStage(r) THEN 1 ELSE Unit(Kind(r))
  <1>1. stage[r] = "exchange" /\ told'[r] = told[r] \cup {p} /\ p \in Peers(r) /\ p \notin told[r]
        /\ \A x \in Ranks \ {r} : told'[x] = told[x]
    BY DEF Notify, Shape
  <1>2. Only(r)
    BY <1>1 DEF Notify, Only
  <1>3. UNCHANGED place /\ Kind(r)' = Kind(r) /\ TwoStage(r)' = TwoStage(r)
        /\ \A k : Done(k, r)' = Done(k, r) /\ Using(k, r)' = Using(k, r)
    BY <1>2, OnlyKeeps, SamePlace
  <1>4. TasksAt(r) /\ PositionAt(r) /\ Kind(r) \in Kinds
    BY <1>1, TasksBefore, Where
  <1>5. n \in Nat /\ Unit(Kind(r)) \in {1, 2}
    BY <1>4, UnitIs
  <1>6. /\ ready' \in [Kinds -> [Ranks -> [Ranks -> Nat]]]
        /\ \A k \in Kinds, x, y \in Ranks :
             ready'[k][x][y] = IF k = Kind(r) /\ x = p /\ y = r THEN ready[k][x][y] + n
                               ELSE ready[k][x][y]
    <2>1. ready' = [ready EXCEPT ![Kind(r)][p][r] = @ + n]
      BY DEF Notify
    <2>2. ready \in [Kinds -> [Ranks -> [Ranks -> Nat]]]
      BY DEF Shape
    <2> HIDE DEF n
    <2> QED
      BY <1>4, <1>5, <2>1, <2>2, Bumped
  <1>7. p \notin freed[r] /\ p # r
    BY <1>1, <1>4, FinishedTold DEF Peers
  <1>8. \A y \in Peers(r) : Now(r, y)' = IF y = p THEN Now(r, y) + n ELSE Now(r, y)
    <2>1. indexed' = indexed /\ (TwoStage(r) => p \in put[r])
      BY DEF Notify
    <2>2. TwoStage(r) => indexed[r] = Ranks
      BY <1>4, <2>1 DEF TasksAt
    <2>3. TwoStage(r) => p \in indexed[r]
      BY <2>2
    <2> QED
      BY <1>1, <1>3, <1>5, <2>1, <2>3 DEF Now
  <1>9. Counts(r, p, n, 0)
    <2>1. \A k \in Kinds, x, y \in Ranks :
             consumed'[k][x][y] = consumed[k][x][y] /\ consumed[k][x][y] + 0 = consumed[k][x][y]
      BY CountsType DEF Notify
    <2>2. \A k, y : Given(k, r, y)' = Given(k, r, y)
      BY <1>3 DEF Given, Notify
    <2>3. \A y \in Peers(r) : Given(Kind(r), r, y)' = Given(Kind(r), r, y)
            /\ Given(Kind(r), r, y) + 0 = Given(Kind(r), r, y)
      BY <1>3, <1>4, <2>2, CountsType DEF Peers
    <2> HIDE DEF n
    <2> QED
      BY <1>6, <1>7, <1>8, <2>1, <2>3 DEF Counts
  <1>10. TasksAt(r)'
    <2>1. indexed' = indexed /\ put' = put /\ taken' = taken /\ freed' = freed
      BY DEF Notify
    <2>2. (Publishes(r) => p \in put[r]) /\ (Publishes(r) /\ ~TwoStage(r) => put[r] = Ranks)
      BY DEF Notify
    <2>3. taken[r] \cap {"history", "main"} = {}
      BY <1>1, <1>4 DEF TasksAt
    <2> QED
      BY <1>1, <1>3, <1>4, <2>1, <2>2, <2>3, SamePlace DEF TasksAt, Finished
  <1>11. put' = put /\ indexed' = indexed /\ taken' = taken
    BY DEF Notify
  <1>12. 0 \in Nat
    OBVIOUS
  <1> HIDE DEF n
  <1> QED
    BY <1>2, <1>5, <1>6, <1>9, <1>10, <1>11, <1>12, TakenHeard, LocalControl

LEMMA IndexControl ==
    ASSUME Shape, ControlOK, NEW r \in Ranks, NEW p \in Ranks, PublishIndex(r, p)
    PROVE  ControlOK' /\ Only(r) /\ ready' \in [Kinds -> [Ranks -> [Ranks -> Nat]]]
  <1> DEFINE n == IF p = r THEN 0 ELSE 1
  <1>1. stage[r] = "exchange" /\ TwoStage(r) /\ indexed'[r] = indexed[r] \cup {p}
        /\ p \notin indexed[r] /\ \A x \in Ranks \ {r} : indexed'[x] = indexed[x]
    BY DEF PublishIndex, Shape
  <1>2. Only(r)
    BY <1>1 DEF PublishIndex, Only
  <1>3. UNCHANGED place /\ Kind(r)' = Kind(r) /\ TwoStage(r)' = TwoStage(r)
        /\ \A k : Done(k, r)' = Done(k, r) /\ Using(k, r)' = Using(k, r)
    BY <1>2, OnlyKeeps, SamePlace
  <1>4. TasksAt(r) /\ PositionAt(r) /\ Kind(r) \in Kinds
    BY <1>1, TasksBefore, Where
  <1>5. n \in Nat
    OBVIOUS
  <1>6. /\ ready' \in [Kinds -> [Ranks -> [Ranks -> Nat]]]
        /\ \A k \in Kinds, x, y \in Ranks :
             ready'[k][x][y] = IF k = Kind(r) /\ x = p /\ y = r THEN ready[k][x][y] + n
                               ELSE ready[k][x][y]
    <2>1. ready \in [Kinds -> [Ranks -> [Ranks -> Nat]]]
      BY DEF Shape
    <2>2. CASE p = r
      <3>1. ready' = ready
        BY <2>2 DEF PublishIndex
      <3>2. \A k \in Kinds, x, y \in Ranks : ready[k][x][y] + 0 = ready[k][x][y]
        BY CountsType
      <3> QED
        BY <2>1, <2>2, <3>1, <3>2
    <2>3. CASE p # r
      <3>1. ready' = [ready EXCEPT ![Kind(r)][p][r] = @ + n]
        BY <2>3 DEF PublishIndex
      <3> HIDE DEF n
      <3> QED
        BY <1>4, <1>5, <2>1, <3>1, Bumped
    <2> QED
      BY <2>2, <2>3
  <1>7. put[r] = {} /\ told[r] = {} /\ freed[r] = {} /\ taken[r] \cap {"history", "main"} = {}
    <2>1. put[r] = {}
      BY <1>1, <1>4 DEF TasksAt
    <2>2. told[r] = {}
      BY <1>1, <1>4, <2>1 DEF TasksAt, TwoStage, Publishes
    <2>3. ~ Finished(r) /\ freed[r] = {} /\ taken[r] \cap {"history", "main"} = {}
      BY <1>1, <1>4, <2>2, FinishedTold, PeersExist
    <2> QED
      BY <2>1, <2>2, <2>3
  <1>8. \A y \in Peers(r) : Now(r, y)' = IF y = p THEN Now(r, y) + n ELSE Now(r, y)
    <2>1. told' = told
      BY DEF PublishIndex
    <2> QED
      BY <1>1, <1>3, <1>7, <2>1 DEF Now, Peers
  <1>9. Counts(r, p, n, 0)
    <2>1. \A k \in Kinds, x, y \in Ranks :
             consumed'[k][x][y] = consumed[k][x][y] /\ consumed[k][x][y] + 0 = consumed[k][x][y]
      BY CountsType DEF PublishIndex
    <2>2. \A k, y : Given(k, r, y)' = Given(k, r, y)
      BY <1>3 DEF Given, PublishIndex
    <2>3. \A y \in Peers(r) : Given(Kind(r), r, y)' = Given(Kind(r), r, y)
            /\ Given(Kind(r), r, y) + 0 = Given(Kind(r), r, y)
      BY <1>3, <1>4, <2>2, CountsType DEF Peers
    <2>4. n > 0 \/ 0 > 0 => p # r /\ p \notin freed[r]
      BY <1>7
    <2> HIDE DEF n
    <2> QED
      BY <1>6, <1>8, <2>1, <2>3, <2>4 DEF Counts
  <1>10. TasksAt(r)'
    <2>1. put' = put /\ told' = told /\ taken' = taken /\ freed' = freed
      BY DEF PublishIndex
    <2>2. "index" \notin taken[r]
      BY <1>1, <1>4 DEF TasksAt
    <2> QED
      BY <1>1, <1>3, <1>4, <1>7, <2>1, <2>2, SamePlace DEF TasksAt, Finished
  <1>11. put' = put /\ taken' = taken
    BY DEF PublishIndex
  <1>12. \A y \in Peers(r) :
             y \in put'[r] \cup indexed'[r] =>
                  consumed[Kind(r)][r][y] >= Unit(Kind(r)) * Done(Kind(r), r)
    <2> SUFFICES ASSUME NEW y \in Peers(r), y \in put'[r] \cup indexed'[r]
                 PROVE  consumed[Kind(r)][r][y] >= Unit(Kind(r)) * Done(Kind(r), r)
      OBVIOUS
    <2>1. CASE y = p
      <3>1. Credit(r, p)
        BY DEF PublishIndex
      <3> QED
        BY <1>1, <2>1, <3>1, CreditIs DEF Peers
    <2>2. CASE y # p
      BY <1>1, <1>11, <2>2, TakenHeard
    <2> QED
      BY <2>1, <2>2
  <1>13. 0 \in Nat
    OBVIOUS
  <1> HIDE DEF n
  <1> QED
    BY <1>2, <1>5, <1>6, <1>9, <1>10, <1>11, <1>12, <1>13, TakenHeard, LocalControl

LEMMA ReleaseControl ==
    ASSUME Shape, ControlOK, NEW r \in Ranks, NEW p \in Ranks, Release(r, p)
    PROVE  ControlOK' /\ Only(r) /\ consumed' \in [Kinds -> [Ranks -> [Ranks -> Nat]]]
  <1> DEFINE m == Unit(Kind(r))
  <1>1. stage[r] = "exchange" /\ freed'[r] = freed[r] \cup {p} /\ p \in Peers(r) /\ p \notin freed[r]
        /\ Finished(r) /\ \A x \in Ranks \ {r} : freed'[x] = freed[x]
    BY DEF Release, Shape
  <1>2. Only(r)
    BY <1>1 DEF Release, Only
  <1>3. UNCHANGED place /\ Kind(r)' = Kind(r) /\ TwoStage(r)' = TwoStage(r)
        /\ \A k : Done(k, r)' = Done(k, r) /\ Using(k, r)' = Using(k, r)
    BY <1>2, OnlyKeeps, SamePlace
  <1>4. TasksAt(r) /\ PositionAt(r) /\ Kind(r) \in Kinds
    BY <1>1, TasksBefore, Where
  <1>5. m \in Nat
    BY <1>4, UnitIs
  <1>6. /\ consumed' \in [Kinds -> [Ranks -> [Ranks -> Nat]]]
        /\ \A k \in Kinds, x, y \in Ranks :
             consumed'[k][x][y] = IF k = Kind(r) /\ x = p /\ y = r THEN consumed[k][x][y] + m
                                  ELSE consumed[k][x][y]
    <2>1. consumed' = [consumed EXCEPT ![Kind(r)][p][r] = @ + m]
      BY DEF Release
    <2>2. consumed \in [Kinds -> [Ranks -> [Ranks -> Nat]]]
      BY DEF Shape
    <2> HIDE DEF m
    <2> QED
      BY <1>4, <1>5, <2>1, <2>2, Bumped
  <1>7. told' = told /\ indexed' = indexed /\ put' = put /\ taken' = taken
    BY DEF Release
  <1>8. \A y \in Peers(r) : Now(r, y)' = IF y = p THEN Now(r, y) + 0 ELSE Now(r, y)
    <2>1. \A y \in Peers(r) : Now(r, y)' = Now(r, y)
      BY <1>3, <1>7 DEF Now
    <2>2. \A y \in Peers(r) : Now(r, y) \in 0 .. m
      BY <1>4, NowIs DEF Peers
    <2>3. \A y \in Peers(r) : Now(r, y) + 0 = Now(r, y)
      BY <1>5, <2>2
    <2> QED
      BY <2>1, <2>3
  <1>9. \A y \in Peers(r) :
            Given(Kind(r), r, y)' =
              IF y = p THEN Given(Kind(r), r, y) + m ELSE Given(Kind(r), r, y)
    <2> DEFINE d == Unit(Kind(r)) * Done(Kind(r), r)
    <2>1. Using(Kind(r), r)
      BY <1>1 DEF Using
    <2>1a. Using(Kind(r), r)' /\ Done(Kind(r), r)' = Done(Kind(r), r)
      BY <1>3, <2>1
    <2>2. \A y : Given(Kind(r), r, y) = d + IF y \in freed[r] THEN m ELSE 0
      BY <2>1 DEF Given
    <2>3. \A y : Given(Kind(r), r, y)' = d + IF y \in freed'[r] THEN m ELSE 0
      BY <1>3, <2>1a DEF Given
    <2>4. d \in Nat
      BY <1>4, UnitIs, DoneType, Scaled
    <2> HIDE DEF d, m
    <2>5. \A y : y \in freed'[r] <=> y \in freed[r] \/ y = p
      BY <1>1
    <2> QED
      BY <1>1, <1>5, <2>2, <2>3, <2>4, <2>5
  <1>10. Counts(r, p, 0, m)
    <2>1. \A k \in Kinds, x, y \in Ranks :
             ready'[k][x][y] = ready[k][x][y] /\ ready[k][x][y] + 0 = ready[k][x][y]
      BY CountsType DEF Release
    <2>2. p # r /\ p \notin freed[r]
      BY <1>1 DEF Peers
    <2> HIDE DEF m
    <2> QED
      BY <1>6, <1>8, <1>9, <2>1, <2>2 DEF Counts
  <1>11. TasksAt(r)'
    <2>1. Finished(r)'
      BY <1>1, <1>7 DEF Finished
    <2> QED
      BY <1>1, <1>3, <1>4, <1>7, <2>1, SamePlace DEF TasksAt
  <1>12. 0 \in Nat
    OBVIOUS
  <1> HIDE DEF m
  <1> QED
    BY <1>2, <1>5, <1>6, <1>7, <1>10, <1>11, <1>12, TakenHeard, LocalControl

\* A task that only reads.
Takes(r, t) ==
    /\ stage[r] = "exchange"
    /\ taken' = [taken EXCEPT ![r] = @ \cup {t}]
    /\ UNCHANGED <<plan, progress, indexed, put, told, freed, window, ready, consumed>>

LEMMA TakesControl ==
    ASSUME Shape, ControlOK, NEW r \in Ranks, NEW t, Takes(r, t),
           t \in {"history", "main"} => Complete(r), t = "index" => Announced(r, 1),
           t = "history" => InHistory(r) /\ taken[r] = {}, t # "history" => ~InHistory(r),
           t = "index" => TwoStage(r) /\ indexed[r] = Ranks,
           t = "main" => put[r] = Ranks,
           t = "state" => Parts(Kind(r)) \subseteq taken[r]
    PROVE  ControlOK' /\ Only(r)
  <1>1. stage[r] = "exchange" /\ taken'[r] = taken[r] \cup {t}
        /\ \A x \in Ranks \ {r} : taken'[x] = taken[x]
    BY DEF Takes, Shape
  <1>2. Only(r)
    BY <1>1 DEF Takes, Only
  <1>3. UNCHANGED place /\ Kind(r)' = Kind(r)
    BY <1>2, OnlyKeeps, SamePlace
  <1>4. indexed' = indexed /\ put' = put /\ told' = told /\ freed' = freed /\ ready' = ready
        /\ consumed' = consumed
    BY DEF Takes
  <1>5. Counts(r, r, 0, 0)
    BY <1>2, <1>4, Uncounted
  <1>6. TasksAt(r)'
    <2>1. TasksAt(r)
      BY <1>1, TasksBefore
    <2>2. Parts(Kind(r))' = Parts(Kind(r))
      BY <1>3 DEF Parts
    <2>3. t \in {"history", "main"} => told[r] = Peers(r)
      BY DEF Complete
    <2>4. InHistory(r)' = InHistory(r) /\ TwoStage(r)' = TwoStage(r) /\ Publishes(r)' = Publishes(r)
      BY <1>3, SamePlace
    <2>5. Finished(r) => Finished(r)'
      BY <1>1 DEF Finished
    <2> QED
      BY <1>1, <1>3, <1>4, <2>1, <2>2, <2>3, <2>4, <2>5 DEF TasksAt
  <1>7. \A y \in Peers(r) :
             /\ taken'[r] \cap {"history", "main"} # {} =>
                  ready[Kind(r)][r][y] >= Unit(Kind(r)) * Done(Kind(r), r) + Unit(Kind(r))
             /\ "index" \in taken'[r] =>
                  ready[Kind(r)][r][y] >= Unit(Kind(r)) * Done(Kind(r), r) + 1
             /\ y \in put'[r] \cup indexed'[r] =>
                  consumed[Kind(r)][r][y] >= Unit(Kind(r)) * Done(Kind(r), r)
    <2>1. t \in {"history", "main"} => \A y \in Peers(r) :
             ready[Kind(r)][r][y] >= Unit(Kind(r)) * Done(Kind(r), r) + Unit(Kind(r))
      BY <1>1, AnnouncedIs DEF Complete
    <2>2. t = "index" => \A y \in Peers(r) :
             ready[Kind(r)][r][y] >= Unit(Kind(r)) * Done(Kind(r), r) + 1
      BY <1>1, AnnouncedIs
    <2> QED
      BY <1>1, <1>4, <2>1, <2>2, TakenHeard
  <1>8. 0 \in Nat
    OBVIOUS
  <1> QED
    BY <1>2, <1>5, <1>6, <1>7, <1>8, LocalControl

LEMMA HistoryControl ==
    ASSUME Shape, ControlOK, NEW r \in Ranks, TakeHistory(r)
    PROVE  Takes(r, "history") /\ ControlOK' /\ Only(r)
  <1>1. taken[r] = {} /\ taken' = [taken EXCEPT ![r] = {"history"}] /\ InHistory(r)
    BY DEF TakeHistory
  <1>2. [taken EXCEPT ![r] = @ \cup {"history"}] = [taken EXCEPT ![r] = {"history"}]
    BY <1>1
  <1>3. Takes(r, "history")
    BY <1>1, <1>2 DEF TakeHistory, Takes
  <1>4. Complete(r)
    BY DEF TakeHistory
  <1> QED
    BY <1>1, <1>3, <1>4, TakesControl

LEMMA CommitIndexControl ==
    ASSUME Shape, ControlOK, NEW r \in Ranks, CommitIndex(r)
    PROVE  Takes(r, "index") /\ ControlOK' /\ Only(r)
  <1>1. Takes(r, "index")
    BY DEF CommitIndex, Takes
  <1>2. TwoStage(r) /\ indexed[r] = Ranks /\ Announced(r, 1) /\ ~InHistory(r)
    BY DEF CommitIndex, TwoStage
  <1> QED
    BY <1>1, <1>2, TakesControl

LEMMA CommitRecordsControl ==
    ASSUME Shape, ControlOK, NEW r \in Ranks, CommitRecords(r)
    PROVE  Takes(r, "main") /\ ControlOK' /\ Only(r)
  <1>1. Takes(r, "main")
    BY DEF CommitRecords, Takes
  <1>2. put[r] = Ranks /\ Complete(r) /\ ~InHistory(r)
    BY DEF CommitRecords
  <1> QED
    BY <1>1, <1>2, TakesControl

LEMMA CommitStateControl ==
    ASSUME Shape, ControlOK, NEW r \in Ranks, CommitState(r)
    PROVE  Takes(r, "state") /\ ControlOK' /\ Only(r)
  <1>1. Takes(r, "state")
    BY DEF CommitState, Takes
  <1>2. Parts(Kind(r)) \subseteq taken[r] /\ ~InHistory(r)
    BY DEF CommitState, StateReady
  <1> QED
    BY <1>1, <1>2, TakesControl

-----------------------------------------------------------------------------
(***************************************************************************)
(* Positions and credits: steps that move a rank on.                       *)
(***************************************************************************)

\* A step of r leaves the other ranks where they are.
Apart(r) ==
    /\ plan' = plan
    /\ \A x \in Ranks \ {r} :
         /\ request'[x] = request[x] /\ waiting'[x] = waiting[x] /\ layer'[x] = layer[x]
         /\ phase'[x] = phase[x] /\ stage'[x] = stage[x] /\ indexed'[x] = indexed[x]
         /\ put'[x] = put[x] /\ told'[x] = told[x] /\ taken'[x] = taken[x]
         /\ freed'[x] = freed[x] /\ retired'[x] = retired[x]

LEMMA SamePlan ==
    ASSUME plan' = plan
    PROVE  /\ \A q : Base(q)' = Base(q) /\ End(q)' = End(q)
           /\ \A k, q : HistoryRows(k, q)' = HistoryRows(k, q)
           /\ \A k, q : HistoryPhases(k, q)' = HistoryPhases(k, q) /\ Turns(k, q)' = Turns(k, q)
  <1>1. \A q : Base(q)' = Base(q) /\ End(q)' = End(q)
    BY DEF Base, End
  <1>2. \A k, q : HistoryRows(k, q)' = HistoryRows(k, q)
    BY DEF HistoryRows, Base
  <1>3. \A k, q : HistoryPhases(k, q)' = HistoryPhases(k, q) /\ Turns(k, q)' = Turns(k, q)
    BY <1>1, <1>2 DEF HistoryPhases, Turns
  <1> QED
    BY <1>1, <1>2, <1>3

LEMMA ApartKeeps ==
    ASSUME NEW r \in Ranks, Apart(r), NEW x \in Ranks \ {r}
    PROVE  /\ Kind(x)' = Kind(x) /\ InHistory(x)' = InHistory(x) /\ TwoStage(x)' = TwoStage(x)
           /\ Publishes(x)' = Publishes(x) /\ Finished(x)' = Finished(x)
           /\ PositionAt(x) => PositionAt(x)'
           /\ \A k : Done(k, x)' = Done(k, x) /\ Using(k, x)' = Using(k, x)
           /\ \A y : Now(x, y)' = Now(x, y)
           /\ \A k, y : Sent(k, x, y)' = Sent(k, x, y) /\ Given(k, x, y)' = Given(k, x, y)
  <1>0. /\ request'[x] = request[x] /\ waiting'[x] = waiting[x] /\ layer'[x] = layer[x]
        /\ phase'[x] = phase[x] /\ stage'[x] = stage[x] /\ indexed'[x] = indexed[x]
        /\ put'[x] = put[x] /\ told'[x] = told[x] /\ taken'[x] = taken[x]
        /\ freed'[x] = freed[x] /\ retired'[x] = retired[x] /\ plan' = plan
    BY DEF Apart
  <1>1. \A k, q : HistoryPhases(k, q)' = HistoryPhases(k, q) /\ Turns(k, q)' = Turns(k, q)
    BY <1>0, SamePlan
  <1>2. Kind(x)' = Kind(x)
    BY <1>0 DEF Kind
  <1>3. InHistory(x)' = InHistory(x)
    BY <1>0, <1>1, <1>2 DEF InHistory
  <1>4. TwoStage(x)' = TwoStage(x) /\ Publishes(x)' = Publishes(x) /\ Finished(x)' = Finished(x)
    BY <1>0, <1>2, <1>3 DEF TwoStage, Publishes, Owner, Finished
  <1>5. \A k : Done(k, x)' = Done(k, x) /\ Using(k, x)' = Using(k, x)
    BY <1>0, <1>1, <1>2 DEF Done, Using, Before
  <1>6. \A y : Now(x, y)' = Now(x, y)
    BY <1>0, <1>2, <1>4 DEF Now
  <1>7. \A k, y : Sent(k, x, y)' = Sent(k, x, y) /\ Given(k, x, y)' = Given(k, x, y)
    BY <1>0, <1>5, <1>6 DEF Sent, Given
  <1>8. TasksAt(x) => TasksAt(x)'
    BY <1>0, <1>2, <1>3, <1>4 DEF TasksAt, Parts
  <1>9. PositionAt(x) => PositionAt(x)'
    BY <1>0, <1>1, <1>2, <1>8 DEF PositionAt
  <1> QED
    BY <1>2, <1>3, <1>4, <1>5, <1>6, <1>7, <1>9

\* What a rank that moves on has behind it, and what it has cleared.
LEMMA NextFacts ==
    ASSUME Shape, ControlOK, NEW r \in Ranks, NextPhase(r)
    PROVE  /\ Apart(r) /\ stage[r] = "exchange" /\ TasksAt(r) /\ PositionAt(r) /\ Kind(r) \in Kinds
           /\ request' = request /\ retired' = retired /\ waiting' = waiting /\ plan' = plan
           /\ indexed'[r] = {} /\ put'[r] = {} /\ told'[r] = {} /\ taken'[r] = {} /\ freed'[r] = {}
           /\ ready' = ready /\ consumed' = consumed /\ window' = window /\ cache' = cache
           /\ told[r] = Peers(r) /\ freed[r] = Peers(r)
           /\ taken[r] \cap {"history", "main"} # {}
           /\ (Publishes(r) => put[r] = Ranks) /\ (TwoStage(r) => indexed[r] = Ranks)
           /\ request[r] \in 0 .. Requests - 1 /\ plan \in Plans /\ waiting[r] = FALSE
  <1>1. stage[r] = "exchange"
    BY DEF NextPhase
  <1>2. TasksAt(r) /\ PositionAt(r)
    BY <1>1, TasksBefore
  <1>3. Kind(r) \in Kinds /\ request[r] \in 0 .. Requests - 1 /\ plan \in Plans
    BY <1>1, <1>2, Where
  <1>4. told[r] = Peers(r) /\ taken[r] \cap {"history", "main"} # {}
        /\ (Publishes(r) => put[r] = Ranks) /\ (TwoStage(r) => indexed[r] = Ranks)
    BY <1>1, <1>2, FinishedTold DEF NextPhase
  <1>5. /\ indexed'[r] = {} /\ put'[r] = {} /\ told'[r] = {} /\ taken'[r] = {} /\ freed'[r] = {}
        /\ \A x \in Ranks \ {r} :
             /\ indexed'[x] = indexed[x] /\ put'[x] = put[x] /\ told'[x] = told[x]
             /\ taken'[x] = taken[x] /\ freed'[x] = freed[x]
    BY DEF NextPhase, Shape
  <1>6. \A x \in Ranks \ {r} : layer'[x] = layer[x] /\ phase'[x] = phase[x] /\ stage'[x] = stage[x]
    BY DEF NextPhase, Shape
  <1>7. Apart(r)
    BY <1>5, <1>6 DEF NextPhase, Apart
  <1>8. waiting[r] = FALSE
    BY <1>1, <1>2 DEF PositionAt, Shape
  <1> QED
    BY <1>1, <1>2, <1>3, <1>4, <1>5, <1>7, <1>8 DEF NextPhase

\* Where a rank goes next.
LEMMA NextPlace ==
    ASSUME Shape, ControlOK, NEW r \in Ranks, NextPhase(r)
    PROVE  \/ /\ InHistory(r) /\ phase[r] + 1 <= HistoryPhases(Kind(r), request[r])
              /\ phase'[r] = phase[r] + 1 /\ layer'[r] = layer[r] /\ stage'[r] = "exchange"
              /\ root' = root /\ layer' = layer
           \/ /\ ~InHistory(r) /\ phase[r] = HistoryPhases(Kind(r), request[r])
              /\ layer[r] < Len(LayerKinds) /\ phase'[r] = 0
              /\ layer'[r] = layer[r] + 1 /\ stage'[r] = "exchange"
              /\ root' = [root EXCEPT ![r] = Blank(layer[r] + 1)]
           \/ /\ ~InHistory(r) /\ phase[r] = HistoryPhases(Kind(r), request[r])
              /\ layer[r] = Len(LayerKinds) /\ stage'[r] = "retire"
              /\ phase'[r] = phase[r] /\ layer'[r] = layer[r] /\ root' = root /\ layer' = layer
  <1>1. PositionAt(r) /\ stage[r] = "exchange" /\ Kind(r) \in Kinds
        /\ request[r] \in 0 .. Requests - 1 /\ plan \in Plans
    BY NextFacts
  <1>2. phase[r] \in Nat /\ HistoryPhases(Kind(r), request[r]) \in Nat
    BY <1>1, PhasesAre DEF Shape
  <1>3. phase[r] <= HistoryPhases(Kind(r), request[r])
    BY <1>1 DEF PositionAt
  <1>4. CASE InHistory(r)
    <2>1. phase'[r] = phase[r] + 1 /\ layer' = layer /\ stage' = stage /\ root' = root
      BY <1>4 DEF NextPhase, Shape
    <2>2. phase[r] + 1 <= HistoryPhases(Kind(r), request[r])
      BY <1>2, <1>4 DEF InHistory
    <2> QED
      BY <1>1, <1>4, <2>1, <2>2
  <1>5. CASE ~InHistory(r)
    <2>1. phase[r] = HistoryPhases(Kind(r), request[r])
      BY <1>2, <1>3, <1>5 DEF InHistory
    <2>2. \/ /\ layer[r] < Len(LayerKinds) /\ phase'[r] = 0 /\ layer'[r] = layer[r] + 1
             /\ stage' = stage /\ root' = [root EXCEPT ![r] = Blank(layer[r] + 1)]
          \/ /\ layer[r] = Len(LayerKinds) /\ stage'[r] = "retire"
             /\ layer' = layer /\ phase' = phase /\ root' = root
      BY <1>5 DEF NextPhase, Shape
    <2> QED
      BY <1>1, <1>5, <2>1, <2>2
  <1> QED
    BY <1>4, <1>5

\* It has one more turn of its kind behind it.
LEMMA NextDone ==
    ASSUME Shape, ControlOK, NEW r \in Ranks, NextPhase(r)
    PROVE  \A k \in Kinds :
             Done(k, r)' = IF k = Kind(r) THEN Done(k, r) + 1 ELSE Done(k, r)
  <1> SUFFICES ASSUME NEW k \in Kinds
               PROVE Done(k, r)' = IF k = Kind(r) THEN Done(k, r) + 1 ELSE Done(k, r)
    OBVIOUS
  <1>1. PositionAt(r) /\ stage[r] = "exchange" /\ Kind(r) \in Kinds /\ plan' = plan
        /\ request[r] \in 0 .. Requests - 1 /\ plan \in Plans /\ request' = request
    BY NextFacts
  <1>2. layer[r] \in DOMAIN LayerKinds /\ layer[r] \in Int /\ phase[r] \in Nat
    BY <1>1, Where
  <1> DEFINE b == Before(k, layer[r])
             n == Before(k, layer[r] + 1)
             t == Turns(k, request[r])
  <1>3. Turns(k, request[r])' = t /\ t \in Nat \ {0} /\ t = HistoryPhases(k, request[r]) + 1
        /\ HistoryPhases(k, request[r]) \in Nat
    BY <1>1, PhasesAre, SamePlan
  <1>4. b \in Nat /\ n = IF Kind(r) = k THEN b + 1 ELSE b
    BY <1>2, BeforeType, BeforeNext DEF Kind
  <1>5. b * t \in Nat /\ (b + 1) * t = b * t + t
    <2> HIDE DEF b, t
    <2> QED
      BY <1>3, <1>4, Product, Successor
  <1>6. Done(k, r) = IF Kind(r) = k THEN b * t + phase[r] ELSE b * t
    BY <1>1 DEF Done
  <1>7. \/ phase'[r] = phase[r] + 1 /\ layer'[r] = layer[r] /\ stage'[r] = "exchange"
        \/ /\ phase[r] = HistoryPhases(Kind(r), request[r]) /\ phase'[r] = 0
           /\ layer'[r] = layer[r] + 1 /\ stage'[r] = "exchange"
        \/ /\ phase[r] = HistoryPhases(Kind(r), request[r])
           /\ layer[r] = Len(LayerKinds) /\ stage'[r] = "retire"
    BY NextPlace
  <1>8. CASE phase'[r] = phase[r] + 1 /\ layer'[r] = layer[r] /\ stage'[r] = "exchange"
    <2>1. Kind(r)' = Kind(r)
      BY <1>8 DEF Kind
    <2>2. Done(k, r)' = IF Kind(r) = k THEN b * t + phase'[r] ELSE b * t
      BY <1>1, <1>3, <1>8, <2>1 DEF Done, Before
    <2> HIDE DEF b, t
    <2> QED
      BY <1>2, <1>5, <1>6, <1>8, <2>2
  <1>9. CASE /\ phase[r] = HistoryPhases(Kind(r), request[r]) /\ phase'[r] = 0
             /\ layer'[r] = layer[r] + 1 /\ stage'[r] = "exchange"
    <2>1. Done(k, r)' = IF Kind(r)' = k THEN n * t + 0 ELSE n * t
      BY <1>1, <1>3, <1>9 DEF Done, Before
    <2> HIDE DEF b, n, t
    <2>2. n * t \in Nat
      BY <1>3, <1>4, Product
    <2>3. Done(k, r)' = n * t
      BY <2>1, <2>2
    <2>4. CASE Kind(r) = k
      <3>1. n * t = b * t + t /\ phase[r] + 1 = t
        BY <1>3, <1>4, <1>5, <1>9, <2>4
      <3> QED
        BY <1>2, <1>3, <1>5, <1>6, <2>3, <2>4, <3>1
    <2>5. CASE Kind(r) # k
      BY <1>4, <1>6, <2>3, <2>5
    <2> QED
      BY <2>4, <2>5
  <1>10. CASE /\ phase[r] = HistoryPhases(Kind(r), request[r])
              /\ layer[r] = Len(LayerKinds) /\ stage'[r] = "retire"
    <2>1. Done(k, r)' = Cardinality(LayersOf(k)) * t
      BY <1>1, <1>3, <1>10 DEF Done
    <2>2. n = Cardinality(LayersOf(k))
      BY <1>10, BeforeEnds
    <2> HIDE DEF b, n, t
    <2>3. Done(k, r)' = n * t
      BY <2>1, <2>2
    <2>4. CASE Kind(r) = k
      <3>1. n * t = b * t + t /\ phase[r] + 1 = t
        BY <1>3, <1>4, <1>5, <1>10, <2>4
      <3> QED
        BY <1>2, <1>3, <1>5, <1>6, <2>3, <2>4, <3>1
    <2>5. CASE Kind(r) # k
      BY <1>4, <1>6, <2>3, <2>5
    <2> QED
      BY <2>4, <2>5
  <1> QED
    BY <1>7, <1>8, <1>9, <1>10

LEMMA NextControl ==
    ASSUME Shape, ControlOK, NEW r \in Ranks, NextPhase(r)
    PROVE  ControlOK'
  <1>1. /\ Apart(r) /\ stage[r] = "exchange" /\ TasksAt(r) /\ PositionAt(r) /\ Kind(r) \in Kinds
        /\ request' = request /\ retired' = retired /\ waiting' = waiting /\ plan' = plan
        /\ indexed'[r] = {} /\ put'[r] = {} /\ told'[r] = {} /\ taken'[r] = {} /\ freed'[r] = {}
        /\ ready' = ready /\ consumed' = consumed
        /\ told[r] = Peers(r) /\ freed[r] = Peers(r)
        /\ taken[r] \cap {"history", "main"} # {}
    BY NextFacts
  <1>2. \A k \in Kinds : Done(k, r)' = IF k = Kind(r) THEN Done(k, r) + 1 ELSE Done(k, r)
    BY NextDone
  <1>3. \A x \in Ranks \ {r} : (PositionAt(x) => PositionAt(x)')
    BY <1>1, ApartKeeps
  <1>4. PositionAt(r)'
    <2>1. HistoryPhases(Kind(r), request[r])' = HistoryPhases(Kind(r)', request[r])
      BY <1>1, SamePlan
    <2>2. stage'[r] \in {"exchange", "retire"}
          /\ (stage'[r] = "exchange" => phase'[r] <= HistoryPhases(Kind(r)', request[r]))
      <3>1. CASE phase'[r] = 0
        <4>1. layer'[r] \in DOMAIN LayerKinds
          <5>1. layer[r] \in 1 .. Len(LayerKinds) /\ Len(LayerKinds) \in Nat
                /\ DOMAIN LayerKinds = 1 .. Len(LayerKinds)
            BY Sizes DEF Shape
          <5>2. \/ layer'[r] = layer[r]
                \/ layer[r] < Len(LayerKinds) /\ layer'[r] = layer[r] + 1
            BY NextPlace
          <5> QED
            BY <5>1, <5>2
        <4>2. Kind(r)' \in Kinds
          BY <4>1, Sizes DEF Kind
        <4>3. HistoryPhases(Kind(r)', request[r]) \in Nat
          BY <1>1, <4>2, NextFacts, PhasesAre
        <4> QED
          BY <3>1, <4>3, NextPlace
      <3>2. CASE phase'[r] # 0
        <4>1. layer'[r] = layer[r] => Kind(r)' = Kind(r)
          BY DEF Kind
        <4> QED
          BY <3>2, <4>1, NextPlace
      <3> QED
        BY <3>1, <3>2
    <2>3. TasksAt(r)'
      BY <1>1 DEF TasksAt, Finished
    <2>4. plan[request[r]].length > 0 /\ ~ request[r] = Requests /\ retired[r] = {} /\ ~ waiting[r]
      BY <1>1, NextFacts DEF PositionAt
    <2> QED
      BY <1>1, <2>1, <2>2, <2>3, <2>4 DEF PositionAt
  <1>5. Separated'
    BY <1>1 DEF ControlOK, Separated
  <1>6. \A x \in Ranks, y \in Ranks, k \in Kinds :
            x # y => Sent(k, x, y)' = Sent(k, x, y) /\ Given(k, x, y)' = Given(k, x, y)
    <2> SUFFICES ASSUME NEW x \in Ranks, NEW y \in Ranks, NEW k \in Kinds, x # y
                 PROVE  Sent(k, x, y)' = Sent(k, x, y) /\ Given(k, x, y)' = Given(k, x, y)
      OBVIOUS
    <2>1. CASE x # r
      BY <1>1, <2>1, ApartKeeps
    <2>2. CASE x = r
      <3> DEFINE u == Unit(k)
                 d == Done(k, r)
      <3>1. u \in {1, 2} /\ d \in Nat
        BY <1>1, UnitIs, DoneType
      <3>2. u * (d + 1) = u * d + u /\ u * d \in Nat
        BY <3>1, Scaled
      <3>3. Now(r, y)' = 0
        BY <1>1 DEF Now
      <3>4. k = Kind(r) => Now(r, y) = u
        BY <1>1, <2>2 DEF Now, Peers, TwoStage, Unit
      <3>5. y \in freed[r]
        BY <1>1, <2>2 DEF Peers
      <3>6. Sent(k, r, y)' = u * Done(k, r)' + 0 /\ Given(k, r, y)' = u * Done(k, r)' + 0
        BY <1>1, <3>3 DEF Sent, Given
      <3>7. Sent(k, r, y) = IF k = Kind(r) THEN u * d + u ELSE u * d + 0
        BY <1>1, <3>4 DEF Sent, Using
      <3>8. Given(k, r, y) = IF k = Kind(r) THEN u * d + u ELSE u * d + 0
        BY <1>1, <3>5 DEF Given, Using
      <3>9. Done(k, r)' = IF k = Kind(r) THEN d + 1 ELSE d
        BY <1>2
      <3> HIDE DEF u, d
      <3> QED
        BY <2>2, <3>1, <3>2, <3>6, <3>7, <3>8, <3>9
    <2> QED
      BY <2>1, <2>2
  <1>7. \A k, x, y : Silent(k, x, y)' = Silent(k, x, y)
    BY <1>1 DEF Silent
  <1>8. CreditsOK'
    <2> SUFFICES ASSUME NEW k \in Kinds, NEW x \in Ranks, NEW y \in Ranks
          PROVE  /\ ready'[k][x][y] = IF y = x \/ Silent(k, x, y)' THEN 0 ELSE Sent(k, y, x)'
                 /\ consumed'[k][x][y] = IF y = x \/ Silent(k, x, y)' THEN 0 ELSE Given(k, y, x)'
      BY DEF CreditsOK
    <2>1. /\ ready[k][x][y] = IF y = x \/ Silent(k, x, y) THEN 0 ELSE Sent(k, y, x)
          /\ consumed[k][x][y] = IF y = x \/ Silent(k, x, y) THEN 0 ELSE Given(k, y, x)
      BY DEF ControlOK, CreditsOK
    <2> QED
      BY <1>1, <1>6, <1>7, <2>1
  <1>9. Heard'
    <2> SUFFICES ASSUME NEW x \in Ranks, NEW y \in Peers(x)
                 PROVE  /\ \A k \in Kinds \ retired'[x] : ready'[k][x][y] >= Unit(k) * Done(k, x)'
                        /\ taken'[x] \cap {"history", "main"} # {} =>
                             ready'[Kind(x)'][x][y] >=
                               Unit(Kind(x)') * Done(Kind(x), x)' + Unit(Kind(x)')
                        /\ "index" \in taken'[x] =>
                             ready'[Kind(x)'][x][y] >= Unit(Kind(x)') * Done(Kind(x), x)' + 1
      BY DEF Heard
    <2>1. CASE x # r
      <3>1. Kind(x)' = Kind(x) /\ (\A k : Done(k, x)' = Done(k, x)) /\ taken'[x] = taken[x]
        BY <1>1, <2>1, ApartKeeps DEF Apart
      <3>2. Done(Kind(x), x)' = Done(Kind(x), x)
        BY <3>1
      <3> QED
        BY <1>1, <3>1, <3>2 DEF ControlOK, Heard
    <2>2. CASE x = r
      <3> SUFFICES ASSUME NEW k \in Kinds, k \notin retired[r]
                   PROVE ready[k][r][y] >= Unit(k) * Done(k, r)'
        BY <1>1, <2>2
      <3>1. ready[k][r][y] >= Unit(k) * Done(k, r)
            /\ (k = Kind(r) => ready[k][r][y] >= Unit(k) * Done(k, r) + Unit(k))
        BY <1>1, <2>2 DEF ControlOK, Heard
      <3>2. Unit(k) * (Done(k, r) + 1) = Unit(k) * Done(k, r) + Unit(k)
        BY <1>1, UnitIs, DoneType, Scaled
      <3> QED
        BY <1>2, <3>1, <3>2
    <2> QED
      BY <2>1, <2>2
  <1>10. Allowed'
    <2> SUFFICES ASSUME NEW x \in Ranks, NEW y \in Peers(x), y \in put'[x] \cup indexed'[x]
                 PROVE  consumed'[Kind(x)'][x][y] >= Unit(Kind(x)') * Done(Kind(x), x)'
      BY DEF Allowed
    <2>1. x # r
      BY <1>1
    <2>2. Kind(x)' = Kind(x) /\ (\A k : Done(k, x)' = Done(k, x))
          /\ put'[x] = put[x] /\ indexed'[x] = indexed[x]
      BY <1>1, <2>1, ApartKeeps DEF Apart
    <2>3. Done(Kind(x), x)' = Done(Kind(x), x)
      BY <2>2
    <2> QED
      BY <1>1, <2>2, <2>3 DEF ControlOK, Allowed
  <1>11. Settled'
    <2> SUFFICES ASSUME NEW x \in Ranks, NEW k \in retired'[x], NEW y \in Peers(x)
                 PROVE  /\ request'[y] = request'[x] =>
                             Given(k, y, x)' >= Unit(k) * (Cardinality(LayersOf(k)) * Turns(k, request[x])')
                        /\ request'[y] < request'[x] => LayersOf(k) = {}
      BY DEF Settled
    <2>1. k \in retired[x] /\ k \in Kinds /\ y \in Ranks /\ x # y
      BY <1>1 DEF Shape, Peers
    <2>2. Turns(k, request[x])' = Turns(k, request[x])
      BY <1>1, SamePlan
    <2> QED
      BY <1>1, <1>6, <2>1, <2>2 DEF ControlOK, Settled
  <1>12. \A x \in Ranks : PositionAt(x)'
    BY <1>3, <1>4 DEF ControlOK
  <1> QED
    BY <1>5, <1>8, <1>9, <1>10, <1>11, <1>12 DEF ControlOK

\* A rank clears its banks when all of the request has been given back.
LEMMA RetireControl ==
    ASSUME Shape, ControlOK, NEW r \in Ranks, NEW kind \in Kinds, Retire(r, kind)
    PROVE  /\ ControlOK' /\ Apart(r) /\ UNCHANGED <<place, taken, put, indexed>>
           /\ ready' \in [Kinds -> [Ranks -> [Ranks -> Nat]]]
           /\ consumed' \in [Kinds -> [Ranks -> [Ranks -> Nat]]]
  <1>1. /\ stage[r] = "retire" /\ PositionAt(r) /\ kind \notin retired[r] /\ retired[r] \in SUBSET Kinds
        /\ \A x \in Ranks : retired'[x] = IF x = r THEN retired[x] \cup {kind} ELSE retired[x]
    BY DEF Retire, ControlOK, Shape
  <1>2. /\ UNCHANGED place /\ Apart(r) /\ waiting' = waiting /\ request' = request /\ stage' = stage
        /\ UNCHANGED <<taken, put, indexed>>
        /\ indexed' = indexed /\ told' = told /\ freed' = freed /\ taken' = taken
    BY <1>1 DEF Retire, place, Apart
  <1>3. /\ ready' \in [Kinds -> [Ranks -> [Ranks -> Nat]]]
        /\ consumed' \in [Kinds -> [Ranks -> [Ranks -> Nat]]]
        /\ \A k \in Kinds, x, y \in Ranks :
             /\ ready'[k][x][y] = IF k = kind /\ x = r THEN 0 ELSE ready[k][x][y]
             /\ consumed'[k][x][y] = IF k = kind /\ x = r THEN 0 ELSE consumed[k][x][y]
    BY DEF Retire, Zeroed, Shape
  <1>4. request[r] \in 0 .. Requests - 1 /\ plan \in Plans
    BY <1>1, Where
  <1>5. ~waiting[r]
    BY <1>1 DEF PositionAt
  <1>6. \A y \in Ranks : request[y] <= request[r] /\ request[y] \in Int
    <2>1. \A y \in Ranks : request[y] \in Int
      BY Where DEF ControlOK
    <2> QED
      BY <1>5, <2>1 DEF ControlOK, Separated
  <1>7. \A k, x, y : Sent(k, x, y)' = Sent(k, x, y) /\ Given(k, x, y)' = Given(k, x, y)
    <2>1. \A x, y : Now(x, y)' = Now(x, y)
      BY <1>2, SamePlace DEF Now
    <2> QED
      BY <1>2, <2>1, SamePlace DEF Sent, Given
  <1>8. \A x \in Ranks : PositionAt(x)'
    <2> SUFFICES ASSUME NEW x \in Ranks PROVE PositionAt(x)'
      OBVIOUS
    <2>1. PositionAt(x)
      BY DEF ControlOK
    <2>2. CASE x # r
      BY <1>2, <2>1, <2>2, ApartKeeps
    <2>3. CASE x = r
      <3>1. /\ indexed[r] = {} /\ put[r] = {} /\ told[r] = {} /\ taken[r] = {} /\ freed[r] = {}
            /\ request[r] # Requests /\ plan[request[r]].length > 0
        BY <1>1 DEF PositionAt
      <3>2. put' = put /\ plan' = plan
        BY <1>2 DEF place
      <3> QED
        BY <1>1, <1>2, <1>5, <2>3, <3>1, <3>2 DEF PositionAt
    <2> QED
      BY <2>2, <2>3
  <1>9. Separated'
    BY <1>2 DEF ControlOK, Separated
  <1>10. CreditsOK'
    <2> SUFFICES ASSUME NEW k \in Kinds, NEW x \in Ranks, NEW y \in Ranks
          PROVE  /\ ready'[k][x][y] = IF y = x \/ Silent(k, x, y)' THEN 0 ELSE Sent(k, y, x)'
                 /\ consumed'[k][x][y] = IF y = x \/ Silent(k, x, y)' THEN 0 ELSE Given(k, y, x)'
      BY DEF CreditsOK
    <2>1. /\ ready[k][x][y] = IF y = x \/ Silent(k, x, y) THEN 0 ELSE Sent(k, y, x)
          /\ consumed[k][x][y] = IF y = x \/ Silent(k, x, y) THEN 0 ELSE Given(k, y, x)
      BY DEF ControlOK, CreditsOK
    <2>2. CASE k = kind /\ x = r
      <3>1. Silent(k, x, y)'
        <4>1. request[y] < request[x] \/ request[y] = request[x]
          BY <1>6, <2>2
        <4>2. k \in retired'[x]
          BY <1>1, <2>2
        <4> QED
          BY <1>2, <4>1, <4>2 DEF Silent
      <3> QED
        BY <1>3, <2>2, <3>1
    <2>3. CASE ~ (k = kind /\ x = r)
      <3>1. Silent(k, x, y)' = Silent(k, x, y)
        BY <1>1, <1>2, <2>3 DEF Silent
      <3> QED
        BY <1>3, <1>7, <2>1, <2>3, <3>1
    <2> QED
      BY <2>2, <2>3
  <1>11. taken[r] = {} /\ put[r] = {} /\ indexed[r] = {}
    BY <1>1 DEF PositionAt
  <1>12. Heard'
    <2> SUFFICES ASSUME NEW x \in Ranks, NEW y \in Peers(x)
                 PROVE  /\ \A k \in Kinds \ retired'[x] : ready'[k][x][y] >= Unit(k) * Done(k, x)'
                        /\ taken'[x] \cap {"history", "main"} # {} =>
                             ready'[Kind(x)'][x][y] >=
                               Unit(Kind(x)') * Done(Kind(x), x)' + Unit(Kind(x)')
                        /\ "index" \in taken'[x] =>
                             ready'[Kind(x)'][x][y] >= Unit(Kind(x)') * Done(Kind(x), x)' + 1
      BY DEF Heard
    <2>1. Kind(x)' = Kind(x) /\ (\A k : Done(k, x)' = Done(k, x)) /\ y \in Ranks /\ Kind(x) \in Kinds
      BY <1>2, SamePlace, Where DEF Peers, ControlOK
    <2>2. Done(Kind(x), x)' = Done(Kind(x), x)
      BY <2>1
    <2>3. ASSUME NEW k \in Kinds \ retired'[x]
          PROVE  ready'[k][x][y] = ready[k][x][y] /\ k \notin retired[x]
      <3>1. k \notin retired[x] /\ ~ (k = kind /\ x = r)
        BY <1>1, <1>3
      <3> QED
        BY <1>1, <1>3, <2>1, <3>1
    <2>4. taken'[x] # {} => ready'[Kind(x)][x][y] = ready[Kind(x)][x][y]
      BY <1>2, <1>3, <1>11, <2>1
    <2> QED
      BY <1>2, <2>1, <2>2, <2>3, <2>4 DEF ControlOK, Heard
  <1>13. Allowed'
    <2> SUFFICES ASSUME NEW x \in Ranks, NEW y \in Peers(x), y \in put'[x] \cup indexed'[x]
                 PROVE  consumed'[Kind(x)'][x][y] >= Unit(Kind(x)') * Done(Kind(x), x)'
      BY DEF Allowed
    <2>1. x # r /\ put' = put
      BY <1>2, <1>11
    <2>2. Kind(x)' = Kind(x) /\ Done(Kind(x), x)' = Done(Kind(x), x) /\ Kind(x) \in Kinds
      BY <1>2, SamePlace, Where DEF ControlOK
    <2>3. consumed'[Kind(x)][x][y] = consumed[Kind(x)][x][y]
      BY <1>3, <2>1, <2>2 DEF Peers
    <2> QED
      BY <1>2, <2>1, <2>2, <2>3 DEF ControlOK, Allowed
  <1>14. Settled'
    <2> SUFFICES ASSUME NEW x \in Ranks, NEW k \in retired'[x], NEW y \in Peers(x)
                 PROVE  /\ request'[y] = request'[x] =>
                             Given(k, y, x)' >= Unit(k) * (Cardinality(LayersOf(k)) * Turns(k, request[x])')
                        /\ request'[y] < request'[x] => LayersOf(k) = {}
      BY DEF Settled
    <2>1. Turns(k, request[x])' = Turns(k, request[x]) /\ y \in Ranks /\ y # x
          /\ Given(k, y, x)' = Given(k, y, x)
      BY <1>2, <1>7, SamePlace DEF Peers
    <2>2. CASE k \in retired[x]
      BY <1>2, <2>1, <2>2 DEF ControlOK, Settled
    <2>3. CASE k \notin retired[x]
      <3>1. x = r /\ k = kind
        BY <1>1, <2>3
      <3> DEFINE c == Cardinality(LayersOf(k))
                 t == Turns(k, request[r])
                 u == Unit(k)
      <3>2. consumed[k][r][y] >= u * (c * t)
        <4>1. Spent(r, kind)
          BY DEF Retire
        <4>2. Completed(k, request[r]) = u * (c * t)
          BY <1>4, <3>1, PhasesAre
        <4> QED
          BY <3>1, <4>1, <4>2 DEF Spent
      <3>3. c \in Nat /\ t \in Nat \ {0} /\ u \in {1, 2}
        BY <1>4, <3>1, LayersFinite, PhasesAre, UnitIs
      <3>4. consumed[k][r][y] = IF Silent(k, r, y) THEN 0 ELSE Given(k, y, r)
        BY <2>1, <3>1 DEF ControlOK, CreditsOK
      <3>5. request[y] = request[r] => ~Silent(k, r, y)
        BY <1>1, <1>6, <2>1, <3>1 DEF Silent
      <3>6. CASE request[y] < request[r]
        <4>1. Silent(k, r, y)
          BY <3>6 DEF Silent
        <4>2. u * (c * t) <= 0
          BY <3>2, <3>4, <4>1
        <4>3. c = 0
          <5> HIDE DEF c, t, u
          <5>1. c * t \in Nat /\ u * 0 = 0
            BY <3>3, Product
          <5>2. c * t <= 0
            BY <3>3, <4>2, <5>1, Scaled
          <5>3. 1 <= c => 1 * t <= c * t
            BY <3>3, Monotone
          <5> QED
            BY <3>3, <5>1, <5>2, <5>3
        <4>4. LayersOf(k) = {}
          BY <3>1, <4>3, LayersFinite, FS_EmptySet
        <4> QED
          BY <1>2, <1>6, <2>1, <3>1, <3>6, <4>4
      <3>7. CASE ~ request[y] < request[r]
        BY <1>2, <2>1, <3>1, <3>2, <3>4, <3>5, <3>7
      <3> QED
        BY <3>6, <3>7
    <2> QED
      BY <2>2, <2>3
  <1> QED
    BY <1>2, <1>3, <1>8, <1>9, <1>10, <1>12, <1>13, <1>14 DEF ControlOK

LEMMA ArriveControl ==
    ASSUME Shape, ControlOK, NEW r \in Ranks, Arrive(r)
    PROVE  /\ ControlOK' /\ Apart(r) /\ UNCHANGED <<place, taken, put, indexed, ready, consumed>>
           /\ waiting' \in [Ranks -> BOOLEAN]
  <1>1. /\ UNCHANGED place /\ UNCHANGED <<taken, put, indexed, ready, consumed, retired, told, freed>>
        /\ request' = request /\ waiting' = [waiting EXCEPT ![r] = TRUE]
    BY DEF Arrive, place, Barrier!Reach
  <1>2. waiting' \in [Ranks -> BOOLEAN]
        /\ \A x \in Ranks : waiting'[x] = IF x = r THEN TRUE ELSE waiting[x]
    BY <1>1 DEF Shape
  <1>3. Apart(r)
    BY <1>1, <1>2 DEF Apart, place
  <1>4. indexed' = indexed /\ put' = put /\ told' = told /\ taken' = taken /\ freed' = freed
        /\ retired' = retired /\ ready' = ready /\ consumed' = consumed /\ stage' = stage
        /\ phase' = phase /\ plan' = plan
    BY <1>1 DEF place
  <1>5. \A x \in Ranks : PositionAt(x)'
    <2> SUFFICES ASSUME NEW x \in Ranks PROVE PositionAt(x)'
      OBVIOUS
    <2>1. PositionAt(x)
      BY DEF ControlOK
    <2>2. CASE x # r
      BY <1>3, <2>1, <2>2, ApartKeeps
    <2>3. CASE x = r
      <3>1. stage[r] = "arrive" \/ (stage[r] = "retire" /\ retired[r] = Kinds)
        BY DEF Arrive
      <3> QED
        BY <1>1, <1>4, <2>1, <2>3, <3>1 DEF PositionAt
    <2> QED
      BY <2>2, <2>3
  <1>6. Separated'
    BY <1>1, <1>2 DEF ControlOK, Separated
  <1>7. \A k, x, y : Sent(k, x, y)' = Sent(k, x, y) /\ Given(k, x, y)' = Given(k, x, y)
    <2>1. \A x, y : Now(x, y)' = Now(x, y)
      BY <1>1, <1>4, SamePlace DEF Now
    <2> QED
      BY <1>1, <1>4, <2>1, SamePlace DEF Sent, Given
  <1>8. \A k, x, y : Silent(k, x, y)' = Silent(k, x, y)
    BY <1>1, <1>4 DEF Silent
  <1>9. CreditsOK'
    <2> SUFFICES ASSUME NEW k \in Kinds, NEW x \in Ranks, NEW y \in Ranks
          PROVE  /\ ready'[k][x][y] = IF y = x \/ Silent(k, x, y)' THEN 0 ELSE Sent(k, y, x)'
                 /\ consumed'[k][x][y] = IF y = x \/ Silent(k, x, y)' THEN 0 ELSE Given(k, y, x)'
      BY DEF CreditsOK
    <2>1. /\ ready[k][x][y] = IF y = x \/ Silent(k, x, y) THEN 0 ELSE Sent(k, y, x)
          /\ consumed[k][x][y] = IF y = x \/ Silent(k, x, y) THEN 0 ELSE Given(k, y, x)
      BY DEF ControlOK, CreditsOK
    <2> QED
      BY <1>4, <1>7, <1>8, <2>1
  <1>10. \A x \in Ranks : Kind(x)' = Kind(x) /\ (\A k : Done(k, x)' = Done(k, x))
         /\ Done(Kind(x), x)' = Done(Kind(x), x)
    BY <1>1, SamePlace
  <1>11. Heard'
    BY <1>4, <1>10 DEF ControlOK, Heard
  <1>12. Allowed'
    BY <1>4, <1>10 DEF ControlOK, Allowed
  <1>13. Settled'
    <2> SUFFICES ASSUME NEW x \in Ranks, NEW k \in retired'[x], NEW y \in Peers(x)
                 PROVE  /\ request'[y] = request'[x] =>
                             Given(k, y, x)' >= Unit(k) * (Cardinality(LayersOf(k)) * Turns(k, request[x])')
                        /\ request'[y] < request'[x] => LayersOf(k) = {}
      BY DEF Settled
    <2>1. Turns(k, request[x])' = Turns(k, request[x])
      BY <1>1, SamePlace
    <2> QED
      BY <1>1, <1>4, <1>7, <2>1 DEF ControlOK, Settled
  <1> QED
    BY <1>1, <1>2, <1>3, <1>5, <1>6, <1>9, <1>11, <1>12, <1>13 DEF ControlOK

\* Where a rank that leaves the barrier comes from, and goes to.
LEMMA LeaveFacts ==
    ASSUME Shape, ControlOK, NEW r \in Ranks, Leave(r)
    PROVE  /\ Apart(r) /\ PositionAt(r) /\ plan \in Plans
           /\ waiting[r] /\ request[r] \in 0 .. Requests - 1
           /\ waiting' = [waiting EXCEPT ![r] = FALSE] /\ request' = [request EXCEPT ![r] = @ + 1]
           /\ ~waiting'[r] /\ request'[r] = request[r] + 1
           /\ layer'[r] = 1 /\ phase'[r] = 0 /\ stage'[r] = StartStage(request[r] + 1)
           /\ retired'[r] = {}
           /\ indexed[r] = {} /\ put[r] = {} /\ told[r] = {} /\ taken[r] = {} /\ freed[r] = {}
           /\ UNCHANGED <<plan, indexed, put, told, taken, freed, window, ready, consumed, cache>>
           /\ stage[r] = "arrive" \/ (stage[r] = "retire" /\ retired[r] = Kinds)
           /\ \A x \in Ranks : /\ request[x] \in Int
                               /\ \/ request[x] = request[r] /\ waiting[x]
                                  \/ request[x] = request[r] + 1
  <1>1. /\ waiting[r] /\ request' = [request EXCEPT ![r] = @ + 1]
        /\ waiting' = [waiting EXCEPT ![r] = FALSE]
        /\ \A x \in Ranks : request[x] > request[r] \/ (request[x] = request[r] /\ waiting[x])
    BY DEF Leave, Barrier!Leave, Barrier!Through
  <1>2. UNCHANGED <<plan, indexed, put, told, taken, freed, window, ready, consumed, cache>>
    BY DEF Leave
  <1>3. /\ layer'[r] = 1 /\ phase'[r] = 0 /\ stage'[r] = StartStage(request[r] + 1)
        /\ retired'[r] = {} /\ request'[r] = request[r] + 1 /\ ~waiting'[r]
        /\ \A x \in Ranks \ {r} :
             /\ layer'[x] = layer[x] /\ phase'[x] = phase[x] /\ stage'[x] = stage[x]
             /\ retired'[x] = retired[x] /\ request'[x] = request[x] /\ waiting'[x] = waiting[x]
    BY <1>1 DEF Leave, Shape
  <1>4. Apart(r)
    BY <1>2, <1>3 DEF Apart
  <1>5. PositionAt(r)
    BY DEF ControlOK
  <1>6. stage[r] = "arrive" \/ (stage[r] = "retire" /\ retired[r] = Kinds)
    BY <1>1, <1>5 DEF PositionAt
  <1>7. request[r] \in 0 .. Requests - 1 /\ plan \in Plans
    BY <1>5, <1>6, Where
  <1>8. indexed[r] = {} /\ put[r] = {} /\ told[r] = {} /\ taken[r] = {} /\ freed[r] = {}
    BY <1>5, <1>6 DEF PositionAt
  <1>9. \A x \in Ranks : request[x] \in Int
    BY Where DEF ControlOK
  <1>10. \A x \in Ranks : request[x] > request[r] => request[x] = request[r] + 1
    BY <1>9 DEF ControlOK, Separated
  <1> QED
    BY <1>1, <1>2, <1>3, <1>4, <1>5, <1>6, <1>7, <1>8, <1>9, <1>10

LEMMA LeaveControl ==
    ASSUME Shape, ControlOK, NEW r \in Ranks, Leave(r)
    PROVE  ControlOK'
  <1> DEFINE q == request[r]
  <1>1. /\ Apart(r) /\ PositionAt(r) /\ plan \in Plans /\ plan' = plan
        /\ waiting[r] /\ q \in 0 .. Requests - 1 /\ ~waiting'[r] /\ request'[r] = q + 1
        /\ layer'[r] = 1 /\ phase'[r] = 0 /\ stage'[r] = StartStage(q + 1) /\ retired'[r] = {}
        /\ stage[r] = "arrive" \/ (stage[r] = "retire" /\ retired[r] = Kinds)
        /\ \A x \in Ranks : /\ request[x] \in Int
                            /\ \/ request[x] = q /\ waiting[x]
                               \/ request[x] = q + 1
    BY LeaveFacts
  <1>2. /\ indexed'[r] = {} /\ put'[r] = {} /\ told'[r] = {} /\ taken'[r] = {} /\ freed'[r] = {}
        /\ ready' = ready /\ consumed' = consumed
    BY LeaveFacts
  <1>3. \A x \in Ranks \ {r} :
          /\ request'[x] = request[x] /\ waiting'[x] = waiting[x] /\ retired'[x] = retired[x]
          /\ taken'[x] = taken[x] /\ put'[x] = put[x] /\ indexed'[x] = indexed[x]
    BY <1>1 DEF Apart
  <1>4. stage'[r] \in {"exchange", "arrive", "stopped"}
        /\ (stage'[r] = "stopped" <=> q + 1 = Requests)
        /\ (stage'[r] = "arrive" => plan[q + 1].length = 0)
        /\ (stage'[r] = "exchange" => plan[q + 1].length > 0)
    <2>1. q + 1 # Requests => plan[q + 1].length \in 0 .. NumSegments
      <3>1. q + 1 # Requests => q + 1 \in 0 .. Requests - 1
        BY <1>1, Sizes
      <3> QED
        BY <1>1, <3>1, PlanAt
    <2> QED
      BY <1>1, <2>1, Sizes DEF StartStage
  <1>5. PositionAt(r)'
    <2>1. stage'[r] = "exchange" => phase'[r] <= HistoryPhases(Kind(r), request[r])'
      <3>1. CASE stage'[r] = "exchange"
        <4>1. q + 1 \in 0 .. Requests - 1
          BY <1>1, <1>4, <3>1, Sizes
        <4>2. Kind(r)' \in Kinds
          BY <1>1, Sizes DEF Kind
        <4>3. HistoryPhases(Kind(r)', q + 1) \in Nat
          BY <1>1, <4>1, <4>2, PhasesAre
        <4>4. HistoryPhases(Kind(r), request[r])' = HistoryPhases(Kind(r)', q + 1)
          BY <1>1, SamePlan
        <4> QED
          BY <1>1, <4>3, <4>4
      <3> QED
        BY <3>1
    <2>2. TasksAt(r)'
      BY <1>2 DEF TasksAt, Finished
    <2> QED
      BY <1>1, <1>2, <1>4, <2>1, <2>2 DEF PositionAt
  <1>6. \A x \in Ranks : PositionAt(x)'
    BY <1>1, <1>5, ApartKeeps DEF ControlOK
  <1>7. Separated'
    <2> SUFFICES ASSUME NEW x \in Ranks, NEW y \in Ranks, request'[y] < request'[x]
                 PROVE  request'[x] = request'[y] + 1 /\ waiting'[y]
      BY DEF Separated
    <2>1. request'[x] = IF x = r THEN q + 1 ELSE request[x]
      BY <1>1, <1>3
    <2>2. request'[y] = IF y = r THEN q + 1 ELSE request[y]
      BY <1>1, <1>3
    <2>3. y # r
      BY <1>1, <2>1, <2>2
    <2>4. CASE x = r
      BY <1>1, <1>3, <2>1, <2>2, <2>3, <2>4
    <2>5. CASE x # r
      BY <1>3, <2>1, <2>2, <2>3, <2>5 DEF ControlOK, Separated
    <2> QED
      BY <2>4, <2>5
  <1>8. \A k \in Kinds : Done(k, r)' = 0
    <2> SUFFICES ASSUME NEW k \in Kinds PROVE Done(k, r)' = 0
      OBVIOUS
    <2>1. CASE stage'[r] # "exchange"
      BY <1>4, <2>1 DEF Done
    <2>2. CASE stage'[r] = "exchange"
      <3>1. Before(k, 1) = 0
        BY BeforeEnds
      <3>2. q + 1 \in 0 .. Requests - 1
        BY <1>1, <1>4, <2>2, Sizes
      <3>3. Turns(k, request[r])' = Turns(k, q + 1) /\ Turns(k, q + 1) \in Nat
        BY <1>1, <3>2, PhasesAre, SamePlan
      <3>4. Done(k, r)' = IF Kind(r)' = k THEN 0 * Turns(k, q + 1) + 0 ELSE 0 * Turns(k, q + 1)
        BY <1>1, <2>2, <3>1, <3>3 DEF Done, Before
      <3> QED
        BY <3>3, <3>4
    <2> QED
      BY <2>1, <2>2
  <1>9. \A k \in Kinds : \A y : Sent(k, r, y)' = 0 /\ Given(k, r, y)' = 0
    <2>1. \A y : Now(r, y)' = 0
      BY <1>2 DEF Now
    <2>2. \A k \in Kinds : Unit(k) * 0 = 0
      BY UnitIs
    <2> QED
      BY <1>2, <1>8, <2>1, <2>2 DEF Sent, Given
  <1>10. \A k, y : \A x \in Ranks \ {r} : Sent(k, x, y)' = Sent(k, x, y) /\ Given(k, x, y)' = Given(k, x, y)
    BY <1>1, ApartKeeps
  <1>11. ASSUME NEW x \in Ranks, request[x] = q, NEW k \in Kinds, NEW y \in Ranks, request[y] = q
         PROVE  ready[k][x][y] = 0 /\ consumed[k][x][y] = 0
    <2>1. PositionAt(x) /\ PositionAt(y) /\ waiting[x] /\ waiting[y]
      BY <1>1, <1>11 DEF ControlOK
    <2>2. /\ ready[k][x][y] = IF y = x \/ Silent(k, x, y) THEN 0 ELSE Sent(k, y, x)
          /\ consumed[k][x][y] = IF y = x \/ Silent(k, x, y) THEN 0 ELSE Given(k, y, x)
      BY DEF ControlOK, CreditsOK
    <2>3. CASE stage[x] = "retire"
      <3>1. Silent(k, x, y)
        BY <1>11, <2>1, <2>3 DEF PositionAt, Silent
      <3> QED
        BY <2>2, <3>1
    <2>4. CASE stage[x] # "retire"
      <3>1. stage[x] = "arrive" /\ plan[q].length = 0
        BY <1>11, <2>1, <2>4 DEF PositionAt
      <3>2. stage[y] = "arrive"
        BY <1>11, <2>1, <3>1 DEF PositionAt
      <3>3. Done(k, y) = 0 /\ ~Using(k, y) /\ Unit(k) * 0 = 0
        BY <3>2, UnitIs DEF Done, Using
      <3>4. Sent(k, y, x) = 0 /\ Given(k, y, x) = 0
        BY <3>3 DEF Sent, Given
      <3> QED
        BY <2>2, <3>4
    <2> QED
      BY <2>3, <2>4
  <1>12. CreditsOK'
    <2> SUFFICES ASSUME NEW k \in Kinds, NEW x \in Ranks, NEW y \in Ranks
          PROVE  /\ ready'[k][x][y] = IF y = x \/ Silent(k, x, y)' THEN 0 ELSE Sent(k, y, x)'
                 /\ consumed'[k][x][y] = IF y = x \/ Silent(k, x, y)' THEN 0 ELSE Given(k, y, x)'
      BY DEF CreditsOK
    <2>1. /\ ready[k][x][y] = IF y = x \/ Silent(k, x, y) THEN 0 ELSE Sent(k, y, x)
          /\ consumed[k][x][y] = IF y = x \/ Silent(k, x, y) THEN 0 ELSE Given(k, y, x)
      BY DEF ControlOK, CreditsOK
    <2>2. CASE y = x
      BY <1>2, <2>1, <2>2
    <2>3. CASE y # x /\ y = r
      <3>1. ready[k][x][r] = 0 /\ consumed[k][x][r] = 0
        <4>1. CASE request[x] = q
          BY <1>1, <1>11, <4>1
        <4>2. CASE request[x] = q + 1
          <5>1. Silent(k, x, r)
            BY <1>1, <4>2 DEF Silent
          <5> QED
            BY <2>1, <2>3, <5>1
        <4> QED
          BY <1>1, <4>1, <4>2
      <3> QED
        BY <1>2, <1>9, <2>3, <3>1
    <2>4. CASE y # x /\ x = r
      <3>1. request'[y] = request[y]
        BY <1>3, <2>4
      <3>2. CASE request[y] = q
        <4>1. Silent(k, r, y)'
          BY <1>1, <3>1, <3>2 DEF Silent
        <4> QED
          BY <1>1, <1>2, <1>11, <2>4, <3>2, <4>1
      <3>3. CASE request[y] = q + 1
        <4>1. ~Silent(k, r, y)' /\ ~Silent(k, r, y)
          BY <1>1, <3>1, <3>3 DEF Silent
        <4> QED
          BY <1>2, <1>10, <2>1, <2>4, <4>1
      <3> QED
        BY <1>1, <3>2, <3>3
    <2>5. CASE x # r /\ y # r
      <3>1. Silent(k, x, y)' = Silent(k, x, y)
        BY <1>3, <2>5 DEF Silent
      <3> QED
        BY <1>2, <1>10, <2>1, <2>5, <3>1
    <2> QED
      BY <2>2, <2>3, <2>4, <2>5
  <1>13. \A x \in Ranks \ {r} : Kind(x)' = Kind(x) /\ (\A k : Done(k, x)' = Done(k, x))
         /\ Done(Kind(x), x)' = Done(Kind(x), x)
    BY <1>1, ApartKeeps
  <1>14. Heard'
    <2> SUFFICES ASSUME NEW x \in Ranks, NEW y \in Peers(x)
                 PROVE  /\ \A k \in Kinds \ retired'[x] : ready'[k][x][y] >= Unit(k) * Done(k, x)'
                        /\ taken'[x] \cap {"history", "main"} # {} =>
                             ready'[Kind(x)'][x][y] >=
                               Unit(Kind(x)') * Done(Kind(x), x)' + Unit(Kind(x)')
                        /\ "index" \in taken'[x] =>
                             ready'[Kind(x)'][x][y] >= Unit(Kind(x)') * Done(Kind(x), x)' + 1
      BY DEF Heard
    <2>1. CASE x # r
      BY <1>2, <1>3, <1>13, <2>1 DEF ControlOK, Heard
    <2>2. CASE x = r
      <3>1. \A k \in Kinds : Unit(k) * 0 = 0 /\ ready[k][r][y] \in Nat
        BY <2>2, UnitIs, CountsType DEF Peers
      <3> QED
        BY <1>2, <1>8, <2>2, <3>1
    <2> QED
      BY <2>1, <2>2
  <1>15. Allowed'
    <2> SUFFICES ASSUME NEW x \in Ranks, NEW y \in Peers(x), y \in put'[x] \cup indexed'[x]
                 PROVE  consumed'[Kind(x)'][x][y] >= Unit(Kind(x)') * Done(Kind(x), x)'
      BY DEF Allowed
    <2>1. x # r
      BY <1>2
    <2> QED
      BY <1>2, <1>3, <1>13, <2>1 DEF ControlOK, Allowed
  <1>16. Settled'
    <2> SUFFICES ASSUME NEW x \in Ranks, NEW k \in retired'[x], NEW y \in Peers(x)
                 PROVE  /\ request'[y] = request'[x] =>
                             Given(k, y, x)' >= Unit(k) * (Cardinality(LayersOf(k)) * Turns(k, request[x])')
                        /\ request'[y] < request'[x] => LayersOf(k) = {}
      BY DEF Settled
    <2>1. x # r
      BY <1>1
    <2>2. retired'[x] = retired[x] /\ request'[x] = request[x] /\ k \in retired[x] /\ k \in Kinds
      BY <1>3, <2>1 DEF Shape
    <2>3. Turns(k, request[x])' = Turns(k, request[x])
      BY <1>1, <2>2, SamePlan
    <2>4. /\ request[y] = request[x] =>
             Given(k, y, x) >= Unit(k) * (Cardinality(LayersOf(k)) * Turns(k, request[x]))
          /\ request[y] < request[x] => LayersOf(k) = {}
      BY <2>2 DEF ControlOK, Settled
    <2>5. CASE y # r
      BY <1>3, <1>10, <2>2, <2>3, <2>4, <2>5 DEF Peers
    <2>6. CASE y = r
      <3>1. CASE request[x] = q
        BY <1>1, <2>2, <2>6, <3>1
      <3>2. CASE request[x] = q + 1
        <4>1. LayersOf(k) = {}
          BY <1>1, <2>4, <2>6, <3>2
        <4>2. Cardinality(LayersOf(k)) = 0 /\ Unit(k) \in {1, 2}
          BY <2>2, <4>1, FS_EmptySet, UnitIs
        <4>3. Turns(k, request[x]) \in Nat
          <5>1. stage[x] = "retire" /\ PositionAt(x)
            BY <2>2 DEF ControlOK, PositionAt
          <5>2. request[x] \in 0 .. Requests - 1 /\ plan \in Plans
            BY <5>1, Where
          <5> QED
            BY <2>2, <5>2, PhasesAre
        <4>4. Unit(k) * (Cardinality(LayersOf(k)) * Turns(k, request[x])) = 0
          BY <4>2, <4>3
        <4> QED
          BY <1>1, <1>9, <2>2, <2>3, <2>6, <3>2, <4>1, <4>4
      <3> QED
        BY <1>1, <3>1, <3>2
    <2> QED
      BY <2>5, <2>6
  <1> QED
    BY <1>6, <1>7, <1>12, <1>14, <1>15, <1>16 DEF ControlOK

-----------------------------------------------------------------------------
(***************************************************************************)
(* Cells and what is written to them.                                      *)
(***************************************************************************)

LEMMA OverIs ==
    ASSUME NEW A, NEW B, NEW V, NEW f, f \in [A -> V], NEW g, g \in [B -> V], A \subseteq B
    PROVE  /\ Over(f, g) \in [B -> V]
           /\ \A c \in B : Over(f, g)[c] = IF c \in A THEN f[c] ELSE g[c]
  <1>1. DOMAIN f = A /\ DOMAIN g = B /\ A \cup B = B
    OBVIOUS
  <1>2. Over(f, g) = [c \in B |-> IF c \in A THEN f[c] ELSE g[c]]
    BY <1>1 DEF Over
  <1> QED
    BY <1>2

Named == {"main", "index", "meta", "state", "raw", "none"}

LEMMA ItemIs ==
    ASSUME NEW o \in Ranks \cup {-1}, NEW l \in 0 .. Len(LayerKinds), NEW part \in Named,
           NEW n \in -1 .. MaxSeqLen
    PROVE  Item(o, l, part, n) \in Items
  BY DEF Item, Items, Named

LEMMA NothingIs == Nothing \in Items
  <1>1. -1 \in Ranks \cup {-1} /\ 0 \in 0 .. Len(LayerKinds) /\ "none" \in Named
        /\ -1 \in -1 .. MaxSeqLen
    BY Sizes DEF Named
  <1> QED
    BY <1>1, ItemIs DEF Nothing

\* Items are told apart by their fields.
LEMMA ItemsDiffer ==
    ASSUME NEW o, NEW l, NEW a, NEW n, NEW p, NEW m, NEW b, NEW i
    PROVE  /\ Item(o, l, a, n) = Item(p, m, b, i) <=> o = p /\ l = m /\ a = b /\ n = i
           /\ Item(o, l, a, n).at = n
  <1>1. /\ Item(o, l, a, n).owner = o /\ Item(o, l, a, n).layer = l
        /\ Item(o, l, a, n).part = a /\ Item(o, l, a, n).at = n
        /\ Item(p, m, b, i).owner = p /\ Item(p, m, b, i).layer = m
        /\ Item(p, m, b, i).part = b /\ Item(p, m, b, i).at = i
    BY DEF Item
  <1> QED
    BY <1>1 DEF Item

LEMMA OwnerIs == \A q \in Nat : Owner(q) \in Ranks
  <1> SUFFICES ASSUME NEW q \in Nat PROVE Owner(q) \in Ranks
    OBVIOUS
  <1>1. q \in Int /\ CPSize \in Nat \ {0}
    BY Sizes
  <1>2. q % CPSize \in 0 .. CPSize - 1
    BY <1>1, DivMod
  <1> QED
    BY <1>2 DEF Owner, Ranks

\* The lanes of a rank, and the segments of its parts.
LEMMA LanesOwn ==
    ASSUME NEW p \in Ranks
    PROVE  /\ OwnLanes(p) = {2 * p, 2 * p + 1} /\ OwnLanes(p) \subseteq Lanes
           /\ \A i \in OwnLanes(p) : LocalSegment(p, i - 2 * p) \in Segments
           /\ \A r \in Ranks \ {p} : OwnLanes(r) \cap OwnLanes(p) = {}
  <1>1. CPSize \in Nat /\ p \in 0 .. CPSize - 1
    BY Sizes DEF Ranks
  <1>2. OwnLanes(p) = {2 * p, 2 * p + 1}
    <2>1. 2 * p + 0 = 2 * p
      BY <1>1
    <2> QED
      BY <2>1 DEF OwnLanes, Lane, LocalParts
  <1>3. OwnLanes(p) \subseteq Lanes
    BY <1>1, <1>2 DEF Lanes, NumSegments
  <1>4. \A i \in OwnLanes(p) : LocalSegment(p, i - 2 * p) \in Segments
    <2> SUFFICES ASSUME NEW i \in OwnLanes(p) PROVE LocalSegment(p, i - 2 * p) \in Segments
      OBVIOUS
    <2>1. LocalSegment(p, i - 2 * p) = p \/ LocalSegment(p, i - 2 * p) = 2 * CPSize - 1 - p
      BY DEF LocalSegment, NumSegments
    <2> QED
      BY <1>1, <2>1 DEF Segments, NumSegments
  <1>5. \A r \in Ranks \ {p} : OwnLanes(r) \cap OwnLanes(p) = {}
    <2> SUFFICES ASSUME NEW r \in Ranks \ {p}, NEW i \in OwnLanes(r), i \in OwnLanes(p) PROVE FALSE
      OBVIOUS
    <2>1. i = 2 * p \/ i = 2 * p + 1
      BY <1>2
    <2>2. r \in Ranks /\ r \in Int /\ (i = 2 * r \/ i = 2 * r + 1)
      <3>1. 2 * r + 0 = 2 * r /\ r \in Int
        BY <1>1 DEF Ranks
      <3> QED
        BY <3>1 DEF OwnLanes, Lane, LocalParts
    <2> QED
      BY <1>1, <2>1, <2>2
  <1> QED
    BY <1>2, <1>3, <1>4, <1>5

\* Every segment has a lane, its owner's.
LEMMA LaneOfSegment ==
    ASSUME NEW s \in Segments
    PROVE  /\ OwnerRank(s) \in Ranks /\ ReverseIndex(s) \in OwnLanes(OwnerRank(s))
           /\ LocalSegment(OwnerRank(s), ReverseIndex(s) - 2 * OwnerRank(s)) = s
  <1>1. CPSize \in Nat /\ s \in 0 .. 2 * CPSize - 1
    BY Sizes DEF Segments, NumSegments
  <1>2. CASE s < CPSize
    <2>1. OwnerRank(s) = s /\ OwnerPart(s) = 0
      BY <1>2 DEF OwnerRank, OwnerPart
    <2>2. s \in Ranks /\ ReverseIndex(s) = 2 * s /\ ReverseIndex(s) - 2 * s = 0
      BY <1>1, <1>2, <2>1 DEF Ranks, ReverseIndex
    <2>3. LocalSegment(s, 0) = s
      BY DEF LocalSegment
    <2> QED
      BY <2>1, <2>2, <2>3, LanesOwn
  <1>3. CASE ~ s < CPSize
    <2> DEFINE r == 2 * CPSize - 1 - s
    <2>1. OwnerRank(s) = r /\ OwnerPart(s) = 1
      BY <1>3 DEF OwnerRank, OwnerPart, NumSegments
    <2>2. r \in Ranks /\ ReverseIndex(s) = 2 * r + 1 /\ ReverseIndex(s) - 2 * r = 1
      BY <1>1, <1>3, <2>1 DEF Ranks, ReverseIndex
    <2>3. LocalSegment(r, 1) = s
      BY <1>1 DEF LocalSegment, NumSegments
    <2> HIDE DEF r
    <2> QED
      BY <2>1, <2>2, <2>3, LanesOwn
  <1> QED
    BY <1>2, <1>3

\* Every lane is somebody's.
LEMMA LaneOwner == \A i \in Lanes : \E p \in Ranks : i \in OwnLanes(p)
  <1> SUFFICES ASSUME NEW i \in Lanes PROVE \E p \in Ranks : i \in OwnLanes(p)
    OBVIOUS
  <1> DEFINE p == i \div 2
  <1>1. CPSize \in Nat /\ i \in 0 .. 2 * CPSize - 1
    BY Sizes DEF Lanes, NumSegments
  <1>2. p \in Int /\ (i = 2 * p \/ i = 2 * p + 1)
    BY <1>1
  <1> HIDE DEF p
  <1>3. p \in Ranks
    BY <1>1, <1>2 DEF Ranks
  <1> QED
    BY <1>2, <1>3, LanesOwn

-----------------------------------------------------------------------------
(***************************************************************************)
(* Payloads.                                                               *)
(***************************************************************************)

\* The record that a segment's token may complete.
LEMMA RowIs ==
    ASSUME plan \in Plans, NEW q \in 0 .. Requests - 1, NEW l \in DOMAIN LayerKinds,
           NEW p \in Ranks, NEW part \in {"main", "index", "meta"}, NEW i \in OwnLanes(p)
    PROVE  /\ Row(q, l, p, part, i) \in Items
           /\ LET n == Base(q) + LocalSegment(p, i - 2 * p) + 1
                  k == LayerKinds[l]
              IN  IF n <= End(q) /\ n % Ratio[k] = 0
                  THEN /\ n \div Ratio[k] - 1 \in Slots(k)
                       /\ n \div Ratio[k] - 1 >= Base(q) \div Ratio[k]
                       /\ n \div Ratio[k] - 1 < End(q) \div Ratio[k]
                       /\ Row(q, l, p, part, i) = Item(Owner(q), l, part, n \div Ratio[k] - 1)
                  ELSE Row(q, l, p, part, i) = Nothing
  <1> DEFINE s == LocalSegment(p, i - 2 * p)
             n == Base(q) + s + 1
             k == LayerKinds[l]
             d == n \div Ratio[k]
  <1>1. /\ s \in Nat /\ Base(q) \in Nat /\ End(q) \in Nat /\ End(q) <= MaxSeqLen
        /\ k \in Kinds /\ Ratio[k] \in Nat \ {0} /\ MaxSeqLen \in Nat
        /\ NumSegments \in Nat
    BY LanesOwn, PlanAt, Sizes DEF Segments
  <1>2. n \in Nat \ {0} /\ n > Base(q)
    BY <1>1
  <1>3. Row(q, l, p, part, i) =
            IF n <= End(q) /\ n % Ratio[k] = 0 THEN Item(Owner(q), l, part, d - 1) ELSE Nothing
    BY DEF Row
  <1>4. CASE n <= End(q) /\ n % Ratio[k] = 0
    <2> DEFINE b == Base(q) \div Ratio[k]
               e == End(q) \div Ratio[k]
               m == MaxSeqLen \div Ratio[k]
    <2>1. /\ d \in Int /\ n = d * Ratio[k] + (n % Ratio[k]) /\ b \in Int
          /\ Base(q) = b * Ratio[k] + (Base(q) % Ratio[k])
          /\ Base(q) % Ratio[k] \in 0 .. Ratio[k] - 1 /\ b >= 0 /\ e \in Nat /\ m \in Nat
      <3> DEFINE c == Ratio[k]
                 h == Base(q)
      <3>0. c \in Nat \ {0} /\ h \in Int /\ n \in Int
        BY <1>1, <1>2
      <3>1. d \in Int /\ n = d * c + (n % c)
        <4> HIDE DEF n
        <4> QED
          BY <3>0, DivMod
      <3>2. b \in Int /\ h = b * c + (h % c) /\ h % c \in 0 .. c - 1
        <4> HIDE DEF c, h
        <4> QED
          BY <3>0, DivMod DEF c, h
      <3>3. b \in Nat /\ e \in Nat /\ m \in Nat
        BY <1>1, DivNat
      <3> HIDE DEF d, b, e, m, n
      <3> QED
        BY <3>1, <3>2, <3>3
    <2>2. d <= e /\ e <= m
      BY <1>1, <1>2, <1>4, DivMonotone
    <2>3. b * Ratio[k] \in Int /\ d * Ratio[k] \in Int
      <3> HIDE DEF b, d
      <3> QED
        BY <1>1, <2>1
    <2> DEFINE c == Ratio[k]
               h == Base(q)
               x == h % c
    <2>4. /\ c \in Nat \ {0} /\ n = d * c /\ h = b * c + x /\ x \in 0 .. c - 1 /\ n > h
          /\ b * c \in Int /\ d * c \in Int /\ d \in Int /\ b \in Int /\ n \in Int /\ h \in Int
      BY <1>1, <1>2, <1>4, <2>1, <2>3
    <2> HIDE DEF d, b, e, m, n, c, h, x
    <2>5. ~ d <= b
      <3> SUFFICES ASSUME d <= b PROVE FALSE
        OBVIOUS
      <3>1. d * c <= b * c
        BY <2>4, Monotone
      <3> QED
        BY <2>4, <3>1
    <2>6. d - 1 >= b /\ d - 1 < e /\ d - 1 \in 0 .. m - 1
      BY <2>1, <2>2, <2>4, <2>5
    <2>7. d - 1 \in Slots(k)
      BY <2>6 DEF Slots, MaxRecords, m
    <2>8. Item(Owner(q), l, part, d - 1) \in Items
      <3>1. m <= MaxSeqLen
        BY <1>1, DivLess DEF m
      <3>2. d - 1 \in -1 .. MaxSeqLen
        BY <1>1, <2>1, <2>6, <3>1
      <3>3. Owner(q) \in Ranks \cup {-1} /\ l \in 0 .. Len(LayerKinds) /\ part \in Named
        BY OwnerIs, Sizes DEF Named
      <3> QED
        BY <3>2, <3>3, ItemIs
    <2> QED
      BY <1>3, <1>4, <2>6, <2>7, <2>8 DEF d, b, e, n
  <1>5. CASE ~ (n <= End(q) /\ n % Ratio[k] = 0)
    BY <1>3, <1>5, NothingIs
  <1> QED
    BY <1>4, <1>5

\* The records a rank publishes are the rows of its segments.
LEMMA RecordsAre ==
    ASSUME Shape, NEW r \in Ranks, PositionAt(r), stage[r] = "exchange",
           NEW parts \in SUBSET {"main", "index", "meta"}
    PROVE  /\ Records(r, parts) \in [parts \X OwnLanes(r) -> Items]
           /\ \A part \in parts, i \in OwnLanes(r) :
                Records(r, parts)[<<part, i>>] = Row(request[r], layer[r], r, part, i)
  <1>1. /\ plan \in Plans /\ request[r] \in 0 .. Requests - 1 /\ layer[r] \in DOMAIN LayerKinds
        /\ Kind(r) = LayerKinds[layer[r]]
    BY Where DEF Kind
  <1>2. ASSUME NEW part \in parts, NEW i \in OwnLanes(r)
        PROVE  Records(r, parts)[<<part, i>>] = Row(request[r], layer[r], r, part, i)
    <2> DEFINE q == request[r]
               s == LocalSegment(r, i - 2 * r)
    <2>1. s \in Nat /\ Base(q) \in Nat /\ plan[q].length \in Nat /\ End(q) = Base(q) + plan[q].length
      <3>1. s \in 0 .. NumSegments - 1 /\ NumSegments \in Nat
        BY LanesOwn, Sizes DEF Segments
      <3> QED
        BY <1>1, <3>1, PlanAt
    <2>2. s < plan[q].length <=> Base(q) + s + 1 <= End(q)
      BY <2>1
    <2>3. Records(r, parts)[<<part, i>>] =
            IF Completes(r, s) THEN Item(Owner(q), layer[r], part, RecordSlot(r, s)) ELSE Nothing
      BY DEF Records
    <2> QED
      BY <1>1, <2>2, <2>3 DEF Completes, RecordSlot, Row
  <1>3. Records(r, parts) = [c \in parts \X OwnLanes(r) |-> Records(r, parts)[c]]
    BY DEF Records
  <1>4. ASSUME NEW c \in parts \X OwnLanes(r)
        PROVE  Records(r, parts)[c] \in Items
    <2>1. c[1] \in parts /\ c[2] \in OwnLanes(r) /\ c = <<c[1], c[2]>>
      OBVIOUS
    <2>2. c[1] \in {"main", "index", "meta"}
      BY <2>1
    <2>3. Row(request[r], layer[r], r, c[1], c[2]) \in Items
      BY <1>1, <2>1, <2>2, RowIs
    <2>4. Records(r, parts)[<<c[1], c[2]>>] = Row(request[r], layer[r], r, c[1], c[2])
      BY <1>2, <2>1
    <2> QED
      BY <2>1, <2>3, <2>4
  <1> QED
    BY <1>2, <1>3, <1>4

\* The cells of r's puts and blocks in a turn of its own records.
OwnCells(r) == ({"main", "index", "meta"} \X OwnLanes(r)) \cup {<<"state", r>>}

LEMMA OwnCellsIn == \A r \in Ranks : OwnCells(r) \subseteq WindowCells
  BY LanesOwn DEF OwnCells, WindowCells

LEMMA CacheCell ==
    ASSUME Shape, NEW o \in Ranks, NEW l \in DOMAIN LayerKinds, NEW c \in Cells(LayerKinds[l])
    PROVE  cache[o][l][c] \in Items
  BY DEF Shape

LEMMA HistoryTailType ==
    ASSUME Shape, NEW r \in Ranks, PositionAt(r), stage[r] = "exchange"
    PROVE  /\ {RawCell(Kind(r)), <<"state", 0>>} \subseteq WindowCells
           /\ HistoryTail(r) \in [{RawCell(Kind(r)), <<"state", 0>>} -> Items]
           /\ RawCell(Kind(r)) # <<"state", 0>>
           /\ HistoryTail(r)[<<"state", 0>>] =
                cache[Owner(request[r])][layer[r]][<<"state", 0>>]
           /\ HistoryTail(r)[RawCell(Kind(r))] =
                Item(Owner(request[r]), layer[r], "raw", Base(request[r]))
  <1> DEFINE o == Owner(request[r])
             D == {RawCell(Kind(r)), <<"state", 0>>}
  <1>1. /\ plan \in Plans /\ request[r] \in 0 .. Requests - 1 /\ layer[r] \in DOMAIN LayerKinds
        /\ Kind(r) = LayerKinds[layer[r]] /\ Kind(r) \in Kinds
    BY Where DEF Kind
  <1>2. D \subseteq WindowCells
    <2>1. 0 \in Ranks /\ 1 \in Ranks /\ 0 \in Lanes
      BY Sizes DEF Ranks, Lanes, NumSegments
    <2> QED
      BY <2>1 DEF RawCell, WindowCells
  <1>3. RawCell(Kind(r)) # <<"state", 0>>
    BY DEF RawCell
  <1>4. o \in Ranks
    BY <1>1, OwnerIs, Sizes
  <1>5. cache[o][layer[r]][<<"state", 0>>] \in Items
    <2>1. <<"state", 0>> \in Cells(LayerKinds[layer[r]])
      BY DEF Cells
    <2> QED
      BY <1>1, <1>4, <2>1, CacheCell
  <1>6. Item(o, layer[r], "raw", Base(request[r])) \in Items
    <2>1. Base(request[r]) \in -1 .. MaxSeqLen
      <3>1. /\ Base(request[r]) \in Nat /\ End(request[r]) <= MaxSeqLen
            /\ End(request[r]) = Base(request[r]) + plan[request[r]].length
            /\ plan[request[r]].length \in Nat /\ MaxSeqLen \in Nat
        BY <1>1, PlanAt, Sizes
      <3> QED
        BY <3>1
    <2>2. o \in Ranks \cup {-1} /\ layer[r] \in 0 .. Len(LayerKinds) /\ "raw" \in Named
      BY <1>1, <1>4, Sizes DEF Named
    <2> QED
      BY <2>1, <2>2, ItemIs
  <1>7. HistoryTail(r) = [c \in D |->
            IF c = <<"state", 0>> THEN cache[o][layer[r]][<<"state", 0>>]
            ELSE Item(o, layer[r], "raw", Base(request[r]))]
    BY DEF HistoryTail
  <1> QED
    BY <1>2, <1>3, <1>5, <1>6, <1>7

\* Rows of the window that a history phase streams.
StreamRows(r) == {i \in Lanes : Kind(r) = "hca" \/ Streamed(r, i)}

LEMMA StreamedIs ==
    ASSUME Shape, NEW r \in Ranks, PositionAt(r), stage[r] = "exchange", phase[r] # 0,
           NEW i \in Lanes
    PROVE  /\ LogicalRow(r, i) \in Nat
           /\ LogicalRow(r, i) = (phase[r] - 1) * WindowRows + i
           /\ Streamed(r, i) => LogicalRow(r, i) \in Slots(Kind(r))
           /\ Streamed(r, i) <=> LogicalRow(r, i) < HistoryRows(Kind(r), request[r])
  <1>1. /\ plan \in Plans /\ request[r] \in 0 .. Requests - 1 /\ Kind(r) \in Kinds
        /\ phase[r] - 1 \in Nat /\ WindowRows \in Nat /\ i \in Nat
    <2>1. phase[r] \in Nat
      BY Where
    <2> QED
      BY <2>1, Where, Sizes DEF Lanes
  <1>2. LogicalRow(r, i) = (phase[r] - 1) * WindowRows + i
    BY DEF LogicalRow
  <1>3. (phase[r] - 1) * WindowRows \in Nat
    BY <1>1, Product
  <1>4. LogicalRow(r, i) \in Nat
    BY <1>1, <1>2, <1>3
  <1>5. /\ HistoryRows(Kind(r), request[r]) \in Nat /\ MaxRecords(Kind(r)) \in Nat
        /\ HistoryRows(Kind(r), request[r]) <= MaxRecords(Kind(r))
    <2>1. /\ HistoryRows(Kind(r), request[r]) \in Nat /\ MaxRecords(Kind(r)) \in Nat
          /\ End(request[r]) \div Ratio[Kind(r)] \in Nat
          /\ HistoryRows(Kind(r), request[r]) <= End(request[r]) \div Ratio[Kind(r)]
          /\ End(request[r]) \div Ratio[Kind(r)] <= MaxRecords(Kind(r))
      BY <1>1, HistoryRowsAre
    <2> QED
      BY <2>1
  <1>6. Streamed(r, i) <=> LogicalRow(r, i) < HistoryRows(Kind(r), request[r])
    BY DEF Streamed
  <1> QED
    BY <1>2, <1>4, <1>5, <1>6 DEF Slots

LEMMA HistoryWindowType ==
    ASSUME Shape, NEW r \in Ranks, PositionAt(r), stage[r] = "exchange", phase[r] # 0
    PROVE  /\ Parts(Kind(r)) \X StreamRows(r) \subseteq WindowCells
           /\ HistoryWindow(r) \in [Parts(Kind(r)) \X StreamRows(r) -> Items]
           /\ \A part \in Parts(Kind(r)), i \in Lanes : Streamed(r, i) =>
                /\ <<part, i>> \in Parts(Kind(r)) \X StreamRows(r)
                /\ HistoryWindow(r)[<<part, i>>] =
                     cache[Owner(request[r])][layer[r]][<<part, LogicalRow(r, i)>>]
  <1> DEFINE o == Owner(request[r])
             D == Parts(Kind(r)) \X StreamRows(r)
  <1>1. /\ request[r] \in 0 .. Requests - 1 /\ layer[r] \in DOMAIN LayerKinds
        /\ Kind(r) = LayerKinds[layer[r]] /\ Kind(r) \in Kinds
    BY Where DEF Kind
  <1>2. D \subseteq WindowCells
    BY DEF Parts, StreamRows, WindowCells
  <1>3. o \in Ranks
    BY <1>1, OwnerIs, Sizes
  <1>4. HistoryWindow(r) = [c \in D |->
            IF Streamed(r, c[2]) THEN cache[o][layer[r]][<<c[1], LogicalRow(r, c[2])>>]
            ELSE Nothing]
    BY DEF HistoryWindow, StreamRows
  <1>5. ASSUME NEW part \in Parts(Kind(r)), NEW i \in Lanes, Streamed(r, i)
        PROVE  cache[o][layer[r]][<<part, LogicalRow(r, i)>>] \in Items
    <2>1. <<part, LogicalRow(r, i)>> \in Cells(LayerKinds[layer[r]])
      BY <1>1, <1>5, StreamedIs DEF Cells
    <2> QED
      BY <1>1, <1>3, <2>1, CacheCell
  <1>6. \A part \in Parts(Kind(r)), i \in StreamRows(r) :
          (IF Streamed(r, i) THEN cache[o][layer[r]][<<part, LogicalRow(r, i)>>]
            ELSE Nothing) \in Items
    BY <1>5, NothingIs DEF StreamRows
  <1>7. HistoryWindow(r) \in [D -> Items]
    BY <1>4, <1>6
  <1>8. \A part \in Parts(Kind(r)), i \in Lanes : Streamed(r, i) => <<part, i>> \in D
    BY DEF StreamRows
  <1> QED
    BY <1>2, <1>4, <1>7, <1>8

\* What a turn's own records are sent as: index records apart, for CSA.
PutParts(k) == IF k = "csa" THEN {"main"} ELSE {"main", "meta"}

LEMMA SnapshotIs ==
    ASSUME Shape, NEW r \in Ranks, PositionAt(r), stage[r] = "exchange"
    PROVE  /\ Snapshot(r) \in [{<<"state", r>>} -> Items]
           /\ Snapshot(r)[<<"state", r>>] =
                IF OwnerRank(plan[request[r]].length - 1) = r
                THEN Item(Owner(request[r]), layer[r], "state", End(request[r])) ELSE Nothing
  <1>1. /\ plan \in Plans /\ request[r] \in 0 .. Requests - 1 /\ layer[r] \in DOMAIN LayerKinds
    BY Where
  <1>2. Item(Owner(request[r]), layer[r], "state", End(request[r])) \in Items
    <2>1. End(request[r]) \in -1 .. MaxSeqLen
      BY <1>1, PlanAt, Sizes
    <2>2. Owner(request[r]) \in Ranks \cup {-1} /\ layer[r] \in 0 .. Len(LayerKinds)
          /\ "state" \in Named
      BY <1>1, OwnerIs, Sizes DEF Named
    <2> QED
      BY <2>1, <2>2, ItemIs
  <1> QED
    BY <1>2, NothingIs DEF Snapshot

\* Records and the state, in a turn of the rank's own.
LEMMA OwnPayload ==
    ASSUME Shape, NEW r \in Ranks, PositionAt(r), stage[r] = "exchange", ~InHistory(r)
    PROVE  /\ (PutParts(Kind(r)) \X OwnLanes(r)) \cup {<<"state", r>>} \subseteq OwnCells(r)
           /\ Payload(r) \in [(PutParts(Kind(r)) \X OwnLanes(r)) \cup {<<"state", r>>} -> Items]
           /\ \A part \in PutParts(Kind(r)), i \in OwnLanes(r) :
                Payload(r)[<<part, i>>] = Row(request[r], layer[r], r, part, i)
           /\ Payload(r)[<<"state", r>>] = Snapshot(r)[<<"state", r>>]
  <1> DEFINE parts == PutParts(Kind(r))
             A == parts \X OwnLanes(r)
             S == {<<"state", r>>}
             f == Records(r, parts)
             g == Snapshot(r)
  <1>1. parts \in SUBSET {"main", "index", "meta"}
    BY DEF PutParts
  <1>2. Payload(r) = Over(f, g)
    BY DEF Payload, TwoStage, PutParts
  <1>3. /\ f \in [A -> Items]
        /\ \A part \in parts, i \in OwnLanes(r) : f[<<part, i>>] = Row(request[r], layer[r], r, part, i)
    BY <1>1, RecordsAre
  <1>4. g \in [S -> Items]
    BY SnapshotIs
  <1>5. <<"state", r>> \notin A
    BY <1>1
  <1>6. DOMAIN f = A /\ DOMAIN g = S
    BY <1>3, <1>4
  <1>7. Over(f, g) = [c \in A \cup S |-> IF c \in A THEN f[c] ELSE g[c]]
    BY <1>6 DEF Over
  <1>8. A \cup S \subseteq OwnCells(r)
    BY <1>1 DEF OwnCells
  <1> HIDE DEF f, g, parts
  <1>9. Over(f, g) \in [A \cup S -> Items]
    BY <1>3, <1>4, <1>7
  <1>10. \A part \in parts, i \in OwnLanes(r) : Over(f, g)[<<part, i>>] = f[<<part, i>>]
    BY <1>7
  <1>11. Over(f, g)[<<"state", r>>] = g[<<"state", r>>]
    BY <1>5, <1>7
  <1> QED
    BY <1>2, <1>3, <1>8, <1>9, <1>10, <1>11 DEF f, g, parts

\* The cells that r's puts write.
PayloadCells(r) ==
    IF InHistory(r)
    THEN IF phase[r] = 0 THEN {RawCell(Kind(r)), <<"state", 0>>}
         ELSE Parts(Kind(r)) \X StreamRows(r)
    ELSE (PutParts(Kind(r)) \X OwnLanes(r)) \cup {<<"state", r>>}

LEMMA PayloadType ==
    ASSUME Shape, NEW r \in Ranks, PositionAt(r), stage[r] = "exchange"
    PROVE  /\ PayloadCells(r) \subseteq WindowCells
           /\ Payload(r) \in [PayloadCells(r) -> Items]
  <1>1. CASE InHistory(r) /\ phase[r] = 0
    BY <1>1, HistoryTailType DEF Payload, PayloadCells
  <1>2. CASE InHistory(r) /\ phase[r] # 0
    BY <1>2, HistoryWindowType DEF Payload, PayloadCells
  <1>3. CASE ~InHistory(r)
    BY <1>3, OwnPayload, OwnCellsIn DEF PayloadCells
  <1> QED
    BY <1>1, <1>2, <1>3

\* A write to one window.
Rewritten(k, x, D) ==
    \A kind \in Kinds, y \in Ranks, c \in WindowCells :
        ~ (kind = k /\ y = x /\ c \in D) => window'[kind][y][c] = window[kind][y][c]

Written(k, x, D, f) == \A c \in D : window'[k][x][c] = f[c]

LEMMA WindowWritten ==
    ASSUME Shape, NEW k \in Kinds, NEW x \in Ranks, NEW D, D \subseteq WindowCells,
           NEW f, f \in [D -> Items],
           window' = [window EXCEPT ![k][x] = Over(f, window[k][x])]
    PROVE  /\ window' \in [Kinds -> [Ranks -> [WindowCells -> Items]]]
           /\ Rewritten(k, x, D) /\ Written(k, x, D, f)
  <1>1. window \in [Kinds -> [Ranks -> [WindowCells -> Items]]]
    BY DEF Shape
  <1> DEFINE g == window[k][x]
             h == Over(f, g)
  <1>2. g \in [WindowCells -> Items]
    BY <1>1
  <1>3. /\ h \in [WindowCells -> Items]
        /\ \A c \in WindowCells : h[c] = IF c \in D THEN f[c] ELSE g[c]
    <2> HIDE DEF g
    <2>1. DOMAIN f = D /\ DOMAIN g = WindowCells /\ D \cup WindowCells = WindowCells
      BY <1>2
    <2>2. Over(f, g) = [c \in WindowCells |-> IF c \in D THEN f[c] ELSE g[c]]
      BY <2>1 DEF Over
    <2> QED
      BY <1>2, <2>2
  <1> HIDE DEF h
  <1>4. window' = [window EXCEPT ![k][x] = h]
    BY DEF h
  <1>5. window' \in [Kinds -> [Ranks -> [WindowCells -> Items]]]
    BY <1>1, <1>3, <1>4
  <1>6. \A kind \in Kinds, y \in Ranks :
           window'[kind][y] = IF kind = k /\ y = x THEN h ELSE window[kind][y]
    BY <1>1, <1>4
  <1>7. Rewritten(k, x, D)
    BY <1>3, <1>6 DEF Rewritten
  <1>8. Written(k, x, D, f)
    BY <1>3, <1>6 DEF Written
  <1> QED
    BY <1>5, <1>7, <1>8

\* Puts and index blocks write their window.
LEMMA PutWrites ==
    ASSUME Shape, NEW r \in Ranks, NEW p \in Ranks, PositionAt(r), Put(r, p)
    PROVE  /\ window' \in [Kinds -> [Ranks -> [WindowCells -> Items]]]
           /\ Rewritten(Kind(r), p, PayloadCells(r))
           /\ \A c \in PayloadCells(r) : window'[Kind(r)][p][c] = Payload(r)[c]
  <1>1. stage[r] = "exchange" /\ window' = [window EXCEPT ![Kind(r)][p] = Over(Payload(r), window[Kind(r)][p])]
    BY DEF Put
  <1> DEFINE D == PayloadCells(r)
             f == Payload(r)
             k == Kind(r)
  <1>2. D \subseteq WindowCells /\ f \in [D -> Items] /\ k \in Kinds
        /\ window' = [window EXCEPT ![k][p] = Over(f, window[k][p])]
    BY <1>1, PayloadType, Where
  <1> HIDE DEF D, f, k
  <1>3. window' \in [Kinds -> [Ranks -> [WindowCells -> Items]]]
    BY <1>2, WindowWritten
  <1>4. Rewritten(k, p, D)
    BY <1>2, WindowWritten
  <1>5. Written(k, p, D, f)
    BY <1>2, WindowWritten
  <1> QED
    BY <1>3, <1>4, <1>5 DEF D, f, k, Written

LEMMA IndexWrites ==
    ASSUME Shape, NEW r \in Ranks, NEW p \in Ranks, PositionAt(r), PublishIndex(r, p)
    PROVE  /\ window' \in [Kinds -> [Ranks -> [WindowCells -> Items]]]
           /\ Rewritten(Kind(r), p, {"index", "meta"} \X OwnLanes(r))
           /\ \A part \in {"index", "meta"}, i \in OwnLanes(r) :
                window'[Kind(r)][p][<<part, i>>] = Row(request[r], layer[r], r, part, i)
  <1> DEFINE parts == {"index", "meta"}
             D == parts \X OwnLanes(r)
             f == Records(r, parts)
  <1>1. stage[r] = "exchange" /\ window' = [window EXCEPT ![Kind(r)][p] = Over(f, window[Kind(r)][p])]
    BY DEF PublishIndex
  <1>2. D \subseteq WindowCells /\ Kind(r) \in Kinds
    BY <1>1, LanesOwn, Where DEF WindowCells
  <1>3. /\ f \in [D -> Items]
        /\ \A part \in parts, i \in OwnLanes(r) : f[<<part, i>>] = Row(request[r], layer[r], r, part, i)
    BY <1>1, RecordsAre
  <1> HIDE DEF f, parts
  <1>4. /\ window' \in [Kinds -> [Ranks -> [WindowCells -> Items]]]
        /\ Rewritten(Kind(r), p, D) /\ Written(Kind(r), p, D, f)
    BY <1>1, <1>2, <1>3, WindowWritten
  <1>5. \A part \in parts, i \in OwnLanes(r) :
                window'[Kind(r)][p][<<part, i>>] = Row(request[r], layer[r], r, part, i)
    BY <1>3, <1>4 DEF Written
  <1> QED
    BY <1>4, <1>5 DEF parts

-----------------------------------------------------------------------------
(***************************************************************************)
(* What stays in the windows.                                              *)
(***************************************************************************)

\* Rows that a write does not reach.
LEMMA RowsKept ==
    ASSUME plan' = plan, NEW q, NEW l \in DOMAIN LayerKinds, NEW p \in Ranks, NEW r \in Ranks,
           NEW parts, parts \subseteq {"main", "index", "meta"},
           NEW k, NEW x, NEW D, Rewritten(k, x, D),
           LayerKinds[l] = k /\ r = x => (parts \X OwnLanes(p)) \cap D = {},
           RowsHeld(q, l, p, parts, r)
    PROVE  RowsHeld(q, l, p, parts, r)'
  <1> SUFFICES ASSUME NEW part \in parts, NEW i \in OwnLanes(p)
               PROVE window'[LayerKinds[l]][r][<<part, i>>] = Row(q, l, p, part, i)'
    BY DEF RowsHeld
  <1>1. Row(q, l, p, part, i)' = Row(q, l, p, part, i)
    BY SamePlan DEF Row
  <1>2. <<part, i>> \in WindowCells /\ LayerKinds[l] \in Kinds
    BY LanesOwn, Sizes DEF WindowCells
  <1>3. ~ (LayerKinds[l] = k /\ r = x /\ <<part, i>> \in D)
    OBVIOUS
  <1>4. window'[LayerKinds[l]][r][<<part, i>>] = window[LayerKinds[l]][r][<<part, i>>]
    BY <1>2, <1>3 DEF Rewritten
  <1> QED
    BY <1>1, <1>4 DEF RowsHeld

LEMMA StateKept ==
    ASSUME plan' = plan, NEW q, NEW l \in DOMAIN LayerKinds, NEW p \in Ranks, NEW r \in Ranks,
           NEW k, NEW x, NEW D, Rewritten(k, x, D),
           LayerKinds[l] = k /\ r = x => <<"state", p>> \notin D,
           StateHeld(q, l, p, r)
    PROVE  StateHeld(q, l, p, r)'
  <1>1. <<"state", p>> \in WindowCells /\ LayerKinds[l] \in Kinds
    BY Sizes DEF WindowCells
  <1>2. window'[LayerKinds[l]][r][<<"state", p>>] = window[LayerKinds[l]][r][<<"state", p>>]
    BY <1>1 DEF Rewritten
  <1>3. End(q)' = End(q)
    BY SamePlan
  <1> QED
    BY <1>2, <1>3 DEF StateHeld

LEMMA TailsKept ==
    ASSUME plan' = plan, NEW q, NEW l \in DOMAIN LayerKinds, NEW r \in Ranks,
           NEW k, NEW x, NEW D, Rewritten(k, x, D), ~ (LayerKinds[l] = k /\ r = x),
           TailsHeld(q, l, r)
    PROVE  TailsHeld(q, l, r)'
  <1>1. LayerKinds[l] \in Kinds /\ <<"state", 0>> \in WindowCells
        /\ RawCell(LayerKinds[l]) \in WindowCells
    <2>1. 0 \in Ranks /\ 1 \in Ranks /\ 0 \in Lanes
      BY Sizes DEF Ranks, Lanes, NumSegments
    <2> QED
      BY <2>1, Sizes DEF RawCell, WindowCells
  <1>2. /\ window'[LayerKinds[l]][r][<<"state", 0>>] = window[LayerKinds[l]][r][<<"state", 0>>]
        /\ window'[LayerKinds[l]][r][RawCell(LayerKinds[l])]
             = window[LayerKinds[l]][r][RawCell(LayerKinds[l])]
    BY <1>1 DEF Rewritten
  <1>3. Base(q)' = Base(q)
    BY SamePlan
  <1> QED
    BY <1>2, <1>3 DEF TailsHeld

LEMMA StreamKept ==
    ASSUME plan' = plan, NEW q, NEW l \in DOMAIN LayerKinds, NEW f, NEW r \in Ranks,
           NEW k, NEW x, NEW D, Rewritten(k, x, D), ~ (LayerKinds[l] = k /\ r = x),
           StreamHeld(q, l, f, r)
    PROVE  StreamHeld(q, l, f, r)'
  <1> DEFINE kind == LayerKinds[l]
  <1> SUFFICES ASSUME NEW part \in Parts(kind), NEW i \in Lanes,
                      (f - 1) * WindowRows + i < HistoryRows(kind, q)'
               PROVE  window'[kind][r][<<part, i>>] =
                          Item(Owner(q), l, part, (f - 1) * WindowRows + i)
    BY DEF StreamHeld
  <1>1. kind \in Kinds /\ <<part, i>> \in WindowCells
    BY Sizes DEF Parts, WindowCells
  <1>2. window'[kind][r][<<part, i>>] = window[kind][r][<<part, i>>]
    BY <1>1 DEF Rewritten
  <1>3. HistoryRows(kind, q)' = HistoryRows(kind, q)
    BY SamePlan
  <1> QED
    BY <1>2, <1>3 DEF StreamHeld

LEMMA PutKept ==
    ASSUME plan' = plan, NEW q, NEW l \in DOMAIN LayerKinds, NEW f, NEW p \in Ranks,
           NEW r \in Ranks, NEW k, NEW x, NEW D, Rewritten(k, x, D),
           LayerKinds[l] = k /\ r = x =>
             IF f < HistoryPhases(LayerKinds[l], q) THEN p # Owner(q)
             ELSE ((PutParts(LayerKinds[l]) \X OwnLanes(p)) \cup {<<"state", p>>}) \cap D = {},
           PutHeld(q, l, f, p, r)
    PROVE  PutHeld(q, l, f, p, r)'
  <1> DEFINE kind == LayerKinds[l]
  <1>1. HistoryPhases(kind, q)' = HistoryPhases(kind, q)
    BY SamePlan
  <1>2. CASE f < HistoryPhases(kind, q)
    <2>1. p = Owner(q) => IF f = 0 THEN TailsHeld(q, l, r)' ELSE StreamHeld(q, l, f, r)'
      <3> SUFFICES ASSUME p = Owner(q)
                   PROVE IF f = 0 THEN TailsHeld(q, l, r)' ELSE StreamHeld(q, l, f, r)'
        OBVIOUS
      <3>1. ~ (LayerKinds[l] = k /\ r = x)
        BY <1>2
      <3>2. IF f = 0 THEN TailsHeld(q, l, r) ELSE StreamHeld(q, l, f, r)
        BY <1>2 DEF PutHeld
      <3> QED
        BY <3>1, <3>2, TailsKept, StreamKept
    <2> QED
      BY <1>1, <1>2, <2>1 DEF PutHeld
  <1>3. CASE ~ f < HistoryPhases(kind, q)
    <2>1. RowsHeld(q, l, p, PutParts(kind), r) /\ StateHeld(q, l, p, r)
      BY <1>3 DEF PutHeld, PutParts
    <2>2. PutParts(kind) \subseteq {"main", "index", "meta"}
      BY DEF PutParts
    <2>3. kind = k /\ r = x => (PutParts(kind) \X OwnLanes(p)) \cap D = {} /\ <<"state", p>> \notin D
      BY <1>3
    <2>4. RowsHeld(q, l, p, PutParts(kind), r)'
      BY <2>1, <2>2, <2>3, RowsKept
    <2>5. StateHeld(q, l, p, r)'
      BY <2>1, <2>3, StateKept
    <2> QED
      BY <1>1, <1>3, <2>4, <2>5 DEF PutHeld, PutParts
  <1> QED
    BY <1>2, <1>3

\* What Present and Remaining say of a rank and a reader.
PresentAt(p, r) ==
    stage[p] = "exchange" /\ ~HasRead(r, p) =>
        /\ r \in indexed[p] => RowsHeld(request[p], layer[p], p, {"index", "meta"}, r)
        /\ r \in put[p] => PutHeld(request[p], layer[p], phase[p], p, r)

RemainingAt(p, r) ==
    Past(p, r) /\ ~Finished(r) =>
        /\ TwoStage(r) => RowsHeld(request[r], layer[r], p, {"index", "meta"}, r)
        /\ PutHeld(request[r], layer[r], phase[r], p, r)

LEMMA OwnApart ==
    ASSUME NEW p \in Ranks, NEW w \in Ranks, p # w, NEW D, D \subseteq OwnCells(w)
    PROVE  /\ \A parts \in SUBSET {"main", "index", "meta"} : (parts \X OwnLanes(p)) \cap D = {}
           /\ <<"state", p>> \notin D
  <1>1. OwnLanes(p) \cap OwnLanes(w) = {}
    BY LanesOwn
  <1> QED
    BY <1>1 DEF OwnCells

\* A turn is one for all who are in it.
LEMMA SameTurnIs ==
    ASSUME NEW x, NEW w, SameTurn(x, w)
    PROVE  /\ Kind(x) = Kind(w) /\ InHistory(x) = InHistory(w) /\ TwoStage(x) = TwoStage(w)
           /\ request[x] = request[w] /\ layer[x] = layer[w] /\ phase[x] = phase[w]
  <1>1. request[x] = request[w] /\ layer[x] = layer[w] /\ phase[x] = phase[w]
    BY DEF SameTurn
  <1>2. Kind(x) = Kind(w)
    BY <1>1 DEF Kind
  <1>3. InHistory(x) = InHistory(w)
    BY <1>1, <1>2 DEF InHistory
  <1> QED
    BY <1>1, <1>2, <1>3 DEF TwoStage

\* A write in a turn leaves the rows of the others in it alone.
LEMMA WriteMisses ==
    ASSUME NEW w \in Ranks, NEW p \in Ranks, p # w, NEW x \in Ranks, SameTurn(x, w), Publishes(w),
           NEW D, ~InHistory(w) => D \subseteq OwnCells(w)
    PROVE  /\ TwoStage(x) => ({"index", "meta"} \X OwnLanes(p)) \cap D = {}
           /\ IF phase[x] < HistoryPhases(Kind(x), request[x]) THEN p # Owner(request[x])
              ELSE ((PutParts(Kind(x)) \X OwnLanes(p)) \cup {<<"state", p>>}) \cap D = {}
  <1>1. /\ Kind(x) = Kind(w) /\ InHistory(x) = InHistory(w) /\ TwoStage(x) = TwoStage(w)
        /\ request[x] = request[w]
    BY SameTurnIs
  <1>2. CASE InHistory(w)
    <2>1. w = Owner(request[x])
      BY <1>1, <1>2 DEF Publishes
    <2> QED
      BY <1>1, <1>2, <2>1 DEF InHistory, TwoStage
  <1>3. CASE ~InHistory(w)
    <2>1. /\ \A parts \in SUBSET {"main", "index", "meta"} : (parts \X OwnLanes(p)) \cap D = {}
          /\ <<"state", p>> \notin D
      BY <1>3, OwnApart
    <2>2. PutParts(Kind(x)) \in SUBSET {"main", "index", "meta"}
      BY DEF PutParts
    <2>3. {"index", "meta"} \in SUBSET {"main", "index", "meta"}
      OBVIOUS
    <2>4. ((PutParts(Kind(x)) \X OwnLanes(p)) \cup {<<"state", p>>}) \cap D = {}
      BY <2>1, <2>2
    <2>5. ({"index", "meta"} \X OwnLanes(p)) \cap D = {}
      BY <2>1, <2>3
    <2>6. ~ phase[x] < HistoryPhases(Kind(x), request[x])
      BY <1>1, <1>3 DEF InHistory
    <2> QED
      BY <2>4, <2>5, <2>6
  <1> QED
    BY <1>2, <1>3

LEMMA WriteKeeps ==
    ASSUME Shape, ControlOK, Present, Remaining, NEW w \in Ranks, NEW t \in Ranks,
           Writing(w, t), Only(w), taken' = taken,
           NEW D, Rewritten(Kind(w), t, D), ~InHistory(w) => D \subseteq OwnCells(w)
    PROVE  /\ \A p \in Ranks \ {w}, r \in Ranks : PresentAt(p, r)'
           /\ \A p, r \in Ranks : RemainingAt(p, r)'
  <1>1. UNCHANGED place /\ plan' = plan /\ request' = request /\ layer' = layer /\ phase' = phase
        /\ stage' = stage
    BY OnlyKeeps DEF place
  <1>2. /\ \A x, y : Past(x, y)' = Past(x, y) /\ SameTurn(x, y)' = SameTurn(x, y)
        /\ \A x : Kind(x)' = Kind(x) /\ TwoStage(x)' = TwoStage(x) /\ Finished(x)' = Finished(x)
    BY <1>1, SamePlace DEF Finished
  <1>3. \A x, y : HasRead(x, y)' = HasRead(x, y)
    BY <1>2 DEF HasRead
  <1>4. Publishes(w)
    BY DEF Writing
  <1>5. ASSUME NEW p \in Ranks \ {w}, NEW r \in Ranks
        PROVE  PresentAt(p, r)'
    <2> SUFFICES ASSUME stage[p] = "exchange", ~HasRead(r, p)
                 PROVE  /\ r \in indexed'[p] =>
                             RowsHeld(request[p], layer[p], p, {"index", "meta"}, r)'
                        /\ r \in put'[p] => PutHeld(request[p], layer[p], phase[p], p, r)'
      BY <1>1, <1>3 DEF PresentAt
    <2>0. indexed'[p] = indexed[p] /\ put'[p] = put[p]
      BY DEF Only
    <2>1. layer[p] \in DOMAIN LayerKinds /\ LayerKinds[layer[p]] = Kind(p)
      BY DEF Shape, Kind
    <2>2. r \in put[p] \cup indexed[p] /\ Kind(p) = Kind(w) /\ r = t => SameTurn(p, w)
      BY WritesFit
    <2>3. ASSUME r \in indexed[p]
          PROVE  RowsHeld(request[p], layer[p], p, {"index", "meta"}, r)'
      <3>1. RowsHeld(request[p], layer[p], p, {"index", "meta"}, r)
        BY <2>3 DEF Present
      <3>2. TwoStage(p)
        <4>1. TasksAt(p)
          BY TasksBefore
        <4> QED
          BY <2>3, <4>1 DEF TasksAt
      <3>3. LayerKinds[layer[p]] = Kind(w) /\ r = t => ({"index", "meta"} \X OwnLanes(p)) \cap D = {}
        BY <1>4, <2>1, <2>2, <2>3, <3>2, WriteMisses
      <3>4. {"index", "meta"} \subseteq {"main", "index", "meta"}
        OBVIOUS
      <3>5. ASSUME NEW q, q = request[p], NEW l, l = layer[p]
            PROVE RowsHeld(q, l, p, {"index", "meta"}, r)'
        BY <1>1, <2>1, <3>1, <3>3, <3>4, <3>5, RowsKept
      <3> QED
        BY <1>1, <3>5
    <2>4. ASSUME r \in put[p]
          PROVE  PutHeld(request[p], layer[p], phase[p], p, r)'
      <3>1. PutHeld(request[p], layer[p], phase[p], p, r)
        BY <2>4 DEF Present
      <3>2. LayerKinds[layer[p]] = Kind(w) /\ r = t =>
              IF phase[p] < HistoryPhases(LayerKinds[layer[p]], request[p]) THEN p # Owner(request[p])
              ELSE ((PutParts(LayerKinds[layer[p]]) \X OwnLanes(p)) \cup {<<"state", p>>}) \cap D = {}
        <4>1. ASSUME Kind(p) = Kind(w), r = t
              PROVE  IF phase[p] < HistoryPhases(Kind(p), request[p]) THEN p # Owner(request[p])
                     ELSE ((PutParts(Kind(p)) \X OwnLanes(p)) \cup {<<"state", p>>}) \cap D = {}
          BY <1>4, <2>2, <2>4, <4>1, WriteMisses
        <4> QED
          BY <2>1, <4>1
      <3>3. ASSUME NEW q, q = request[p], NEW l, l = layer[p], NEW f, f = phase[p]
            PROVE PutHeld(q, l, f, p, r)'
        BY <1>1, <2>1, <3>1, <3>2, <3>3, PutKept
      <3> QED
        BY <1>1, <3>3
    <2> QED
      BY <2>0, <2>3, <2>4
  <1>6. ASSUME NEW p \in Ranks, NEW r \in Ranks
        PROVE  RemainingAt(p, r)'
    <2> SUFFICES ASSUME Past(p, r), ~Finished(r)
                 PROVE  /\ TwoStage(r) =>
                             RowsHeld(request[r], layer[r], p, {"index", "meta"}, r)'
                        /\ PutHeld(request[r], layer[r], phase[r], p, r)'
      BY <1>1, <1>2 DEF RemainingAt
    <2>1. layer[r] \in DOMAIN LayerKinds /\ LayerKinds[layer[r]] = Kind(r) /\ stage[r] = "exchange"
      BY DEF Shape, Kind, Past
    <2>2. Kind(r) = Kind(w) /\ r = t => SameTurn(r, w) /\ p # w
      <3>1. Kind(r) = Kind(w) /\ r = t => SameTurn(r, w)
        BY <2>1, WritesWait
      <3>2. SameTurn(r, w) => ~Past(w, r)
        <4>1. layer[r] \in Int /\ phase[r] \in Nat
          BY Where DEF ControlOK
        <4> QED
          BY <4>1 DEF SameTurn, Past
      <3> QED
        BY <3>1, <3>2
    <2>3. ASSUME TwoStage(r)
          PROVE  RowsHeld(request[r], layer[r], p, {"index", "meta"}, r)'
      <3>1. RowsHeld(request[r], layer[r], p, {"index", "meta"}, r)
        BY <2>3 DEF Remaining
      <3>3. LayerKinds[layer[r]] = Kind(w) /\ r = t => ({"index", "meta"} \X OwnLanes(p)) \cap D = {}
        BY <1>4, <2>1, <2>2, <2>3, WriteMisses
      <3>4. {"index", "meta"} \subseteq {"main", "index", "meta"}
        OBVIOUS
      <3>5. ASSUME NEW q, q = request[r], NEW l, l = layer[r]
            PROVE RowsHeld(q, l, p, {"index", "meta"}, r)'
        BY <1>1, <2>1, <3>1, <3>3, <3>4, <3>5, RowsKept
      <3> QED
        BY <1>1, <3>5
    <2>4. PutHeld(request[r], layer[r], phase[r], p, r)'
      <3>1. PutHeld(request[r], layer[r], phase[r], p, r)
        BY DEF Remaining
      <3>2. LayerKinds[layer[r]] = Kind(w) /\ r = t =>
              IF phase[r] < HistoryPhases(LayerKinds[layer[r]], request[r]) THEN p # Owner(request[r])
              ELSE ((PutParts(LayerKinds[layer[r]]) \X OwnLanes(p)) \cup {<<"state", p>>}) \cap D = {}
        <4>1. ASSUME Kind(r) = Kind(w), r = t
              PROVE  IF phase[r] < HistoryPhases(Kind(r), request[r]) THEN p # Owner(request[r])
                     ELSE ((PutParts(Kind(r)) \X OwnLanes(p)) \cup {<<"state", p>>}) \cap D = {}
          BY <1>4, <2>2, <4>1, WriteMisses
        <4> QED
          BY <2>1, <4>1
      <3>3. ASSUME NEW q, q = request[r], NEW l, l = layer[r], NEW f, f = phase[r]
            PROVE PutHeld(q, l, f, p, r)'
        BY <1>1, <2>1, <3>1, <3>2, <3>3, PutKept
      <3> QED
        BY <1>1, <3>3
    <2> QED
      BY <2>3, <2>4
  <1> QED
    BY <1>5, <1>6

-----------------------------------------------------------------------------
(***************************************************************************)
(* What owners have cached.                                                *)
(***************************************************************************)

\* Quotient and remainder are the only ones.
LEMMA Divided ==
    ASSUME NEW a \in Int, NEW b \in Nat \ {0}, NEW d \in Int, NEW m \in 0 .. b - 1, a = d * b + m
    PROVE  a \div b = d /\ a % b = m
  <1> DEFINE e == a \div b
             n == a % b
  <1>1. e \in Int /\ n \in 0 .. b - 1 /\ a = e * b + n
    BY DivMod
  <1> HIDE DEF e, n
  <1>2. d * b \in Int /\ e * b \in Int
    BY <1>1
  <1>3. ~ d + 1 <= e
    <2> SUFFICES ASSUME d + 1 <= e PROVE FALSE
      OBVIOUS
    <2>1. (d + 1) * b <= e * b /\ (d + 1) * b = d * b + b
      BY <1>1, Monotone, Successor
    <2> QED
      BY <1>1, <1>2, <2>1
  <1>4. ~ e + 1 <= d
    <2> SUFFICES ASSUME e + 1 <= d PROVE FALSE
      OBVIOUS
    <2>1. (e + 1) * b <= d * b /\ (e + 1) * b = e * b + b
      BY <1>1, Monotone, Successor
    <2> QED
      BY <1>1, <1>2, <2>1
  <1>5. d = e
    BY <1>1, <1>3, <1>4
  <1>6. n = m
    BY <1>1, <1>2, <1>5
  <1> QED
    BY <1>5, <1>6 DEF e, n

\* An owner's turns come around every CPSize requests.
LEMMA OwnerTurns ==
    ASSUME NEW n \in Nat
    PROVE  /\ n >= CPSize => Owner(n - CPSize) = Owner(n)
           /\ n < CPSize => Owner(n) = n
           /\ \A a \in Nat : a < n /\ Owner(a) = Owner(n) => a + CPSize <= n
  <1> DEFINE c == CPSize
             d == n \div c
             m == n % c
  <1>1. c \in Nat \ {0} /\ n \in Int
    BY Sizes
  <1>2. d \in Int /\ m \in 0 .. c - 1 /\ n = d * c + m
    BY <1>1, DivMod
  <1>3. Owner(n) = m
    BY DEF Owner
  <1> HIDE DEF c, d, m
  <1>4. d * c \in Int /\ (d - 1) * c = d * c - c
    BY <1>1, <1>2, Successor
  <1>5. n >= c => Owner(n - c) = m
    <2> SUFFICES ASSUME n >= c PROVE Owner(n - c) = m
      OBVIOUS
    <2>1. n - c = (d - 1) * c + m /\ d - 1 \in Int /\ n - c \in Int
      BY <1>1, <1>2, <1>4
    <2>2. (n - c) % c = m
      BY <1>1, <1>2, <2>1, Divided
    <2> QED
      BY <2>2 DEF Owner, c
  <1>6. n < c => m = n
    <2> SUFFICES ASSUME n < c PROVE m = n
      OBVIOUS
    <2>1. n = 0 * c + n /\ 0 \in Int /\ n \in 0 .. c - 1
      BY <1>1
    <2>2. n % c = n
      BY <1>1, <2>1, Divided
    <2> QED
      BY <2>2 DEF m
  <1>7. ASSUME NEW a \in Nat, a < n, Owner(a) = m
        PROVE  a + c <= n
    <2> DEFINE e == a \div c
    <2>1. e \in Int /\ a = e * c + m
      <3>1. a \in Int
        OBVIOUS
      <3>2. e \in Int /\ a = e * c + (a % c)
        BY <1>1, <3>1, DivMod
      <3>3. a % c = m
        BY <1>7 DEF Owner, c
      <3> QED
        BY <3>2, <3>3
    <2> HIDE DEF e
    <2>2. e * c \in Int
      BY <1>1, <2>1
    <2>3. e + 1 <= d
      <3>1. ~ d <= e
        <4> SUFFICES ASSUME d <= e PROVE FALSE
          OBVIOUS
        <4>1. d * c <= e * c
          BY <1>1, <1>2, <2>1, Monotone
        <4> QED
          BY <1>2, <1>4, <1>7, <2>1, <2>2, <4>1
      <3> QED
        BY <1>2, <2>1, <3>1
    <2>4. (e + 1) * c <= d * c /\ (e + 1) * c = e * c + c
      BY <1>1, <1>2, <2>1, <2>3, Monotone, Successor
    <2> QED
      BY <1>1, <1>2, <1>4, <2>1, <2>2, <2>4
  <1> QED
    BY <1>3, <1>5, <1>6, <1>7 DEF c

\* Its request adds its tokens.
LEMMA TokensNext ==
    ASSUME NEW o \in Ranks, NEW n \in Nat
    PROVE  TokensBefore(o, n + 1) = IF Owner(n) = o THEN End(n) ELSE TokensBefore(o, n)
  <1> DEFINE S == {q \in 0 .. n - 1 : Owner(q) = o}
             T == {q \in 0 .. n : Owner(q) = o}
  <1>1. (n + 1) - 1 = n
    OBVIOUS
  <1>2. TokensBefore(o, n + 1) =
          IF T = {} THEN Cached0(o) ELSE End(CHOOSE q \in T : \A i \in T : i <= q)
    BY <1>1 DEF TokensBefore
  <1>3. CASE Owner(n) = o
    <2>1. n \in T /\ \A i \in T : i <= n
      BY <1>3
    <2>2. \A q \in T : (\A i \in T : i <= q) => q = n
      BY <2>1
    <2>3. (CHOOSE q \in T : \A i \in T : i <= q) = n
      <3> HIDE DEF T
      <3> QED
        BY <2>1, <2>2
    <2> QED
      BY <1>2, <1>3, <2>1, <2>3
  <1>4. CASE Owner(n) # o
    <2>1. S = T
      BY <1>4
    <2>2. TokensBefore(o, n) =
            IF S = {} THEN Cached0(o) ELSE End(CHOOSE q \in S : \A i \in S : i <= q)
      BY DEF TokensBefore
    <2> HIDE DEF S, T
    <2> QED
      BY <1>2, <1>4, <2>1, <2>2
  <1> QED
    BY <1>3, <1>4

\* Before its request an owner has the request's prefix.
LEMMA TokensAre ==
    ASSUME plan \in Plans, NEW n \in 0 .. Requests - 1
    PROVE  TokensBefore(Owner(n), n) = Base(n)
  <1> DEFINE o == Owner(n)
             S == {q \in 0 .. n - 1 : Owner(q) = o}
  <1>0. n \in Nat /\ CPSize \in Nat /\ CPSize > 1
    BY Sizes
  <1>1. TokensBefore(o, n) =
          IF S = {} THEN Cached0(o) ELSE End(CHOOSE q \in S : \A i \in S : i <= q)
    BY DEF TokensBefore
  <1>2. \A q \in S : q \in Nat /\ q + CPSize <= n
    BY <1>0, OwnerTurns
  <1>3. CASE n < CPSize
    <2>1. o = n /\ S = {}
      BY <1>0, <1>2, <1>3, OwnerTurns
    <2>2. Cached0(o) = Base(n)
      BY <2>1, Sizes DEF Cached0
    <2> QED
      BY <1>1, <2>1, <2>2
  <1>4. CASE n >= CPSize
    <2> DEFINE m == n - CPSize
    <2>1. m \in S
      BY <1>0, <1>4, OwnerTurns
    <2>2. \A i \in S : i <= m /\ i \in Int
      BY <1>0, <1>2
    <2>3. \A q \in S : (\A i \in S : i <= q) => q = m
      BY <2>1, <2>2
    <2>4. (CHOOSE q \in S : \A i \in S : i <= q) = m
      <3> HIDE DEF S, m
      <3> QED
        BY <2>1, <2>2, <2>3
    <2>5. Base(n) = End(m)
      BY <1>4, PlanAt
    <2> QED
      BY <1>1, <2>1, <2>4, <2>5
  <1> QED
    BY <1>0, <1>3, <1>4

\* The cells of full pools.
LEMMA FilledIs ==
    ASSUME NEW o, NEW l, NEW n
    PROVE  /\ Filled(o, l, n)[<<"state", 0>>] = IF n = 0 THEN Nothing ELSE Item(o, l, "state", n)
           /\ Filled(o, l, n)[<<"raw", 0>>] = Nothing
           /\ \A part \in Parts(LayerKinds[l]), i \in Slots(LayerKinds[l]) :
                Filled(o, l, n)[<<part, i>>] =
                  IF i < n \div Ratio[LayerKinds[l]] THEN Item(o, l, part, i) ELSE Nothing
  <1> DEFINE k == LayerKinds[l]
  <1>1. <<"state", 0>> \in Cells(k) /\ <<"raw", 0>> \in Cells(k)
        /\ \A part \in Parts(k), i \in Slots(k) : <<part, i>> \in Cells(k)
    BY DEF Cells
  <1>2. \A part \in Parts(k) : part # "raw" /\ part # "state"
    BY DEF Parts
  <1>3. Filled(o, l, n) =
            [c \in Cells(k) |->
                IF c[1] = "raw" THEN Nothing
                ELSE IF c[1] = "state" THEN IF n = 0 THEN Nothing ELSE Item(o, l, "state", n)
                ELSE IF c[2] < n \div Ratio[k] THEN Item(o, l, c[1], c[2]) ELSE Nothing]
    BY DEF Filled
  <1> HIDE DEF k
  <1>4. Filled(o, l, n)[<<"state", 0>>] = IF n = 0 THEN Nothing ELSE Item(o, l, "state", n)
    BY <1>1, <1>3
  <1>5. Filled(o, l, n)[<<"raw", 0>>] = Nothing
    BY <1>1, <1>3
  <1>6. ASSUME NEW part \in Parts(k), NEW i \in Slots(k)
        PROVE  Filled(o, l, n)[<<part, i>>] =
                 IF i < n \div Ratio[k] THEN Item(o, l, part, i) ELSE Nothing
    BY <1>1, <1>2, <1>3
  <1> QED
    BY <1>4, <1>5, <1>6 DEF k

\* An owner streams the pools of its own sequence.
LEMMA OwnerHolds ==
    ASSUME Shape, ControlOK, CacheOK, NEW r \in Ranks, stage[r] = "exchange", InHistory(r),
           Publishes(r), NEW c \in Cells(Kind(r)), c[1] \notin {"history"}
    PROVE  cache[r][layer[r]][c] = Filled(r, layer[r], Base(request[r]))[c]
  <1>1. TasksAt(r) /\ PositionAt(r)
    BY TasksBefore
  <1>2. request[r] \in 0 .. Requests - 1 /\ layer[r] \in DOMAIN LayerKinds /\ plan \in Plans
        /\ Kind(r) = LayerKinds[layer[r]] /\ layer[r] \in Int
    BY <1>1, Where DEF Kind
  <1>3. r = Owner(request[r]) /\ c[1] \notin taken[r]
    BY <1>1 DEF Publishes, TasksAt
  <1>4. Requested(r, layer[r]) = request[r]
    BY <1>2 DEF Requested
  <1>5. TokensBefore(r, request[r]) = Base(request[r])
    BY <1>2, <1>3, TokensAre
  <1> QED
    BY <1>2, <1>3, <1>4, <1>5 DEF CacheOK

\* A put leaves what the invariant says of it.
LEMMA PutLeaves ==
    ASSUME Shape, ControlOK, CacheOK, NEW r \in Ranks, NEW p \in Ranks, Put(r, p)
    PROVE  PutHeld(request[r], layer[r], phase[r], r, p)'
  <1> DEFINE q == request[r]
             l == layer[r]
             f == phase[r]
             k == Kind(r)
             o == Owner(q)
  <1>1. stage[r] = "exchange" /\ Publishes(r) /\ PositionAt(r)
        /\ plan' = plan /\ request' = request /\ layer' = layer /\ phase' = phase
    BY DEF Put, progress, ControlOK
  <1>2. /\ q \in 0 .. Requests - 1 /\ l \in DOMAIN LayerKinds /\ k \in Kinds
        /\ k = LayerKinds[l] /\ plan \in Plans /\ f \in Nat
    BY <1>1, Where DEF Kind
  <1>3. \A c \in PayloadCells(r) : window'[k][p][c] = Payload(r)[c]
    BY <1>1, PutWrites
  <1>4. /\ Base(q)' = Base(q) /\ End(q)' = End(q) /\ HistoryRows(k, q)' = HistoryRows(k, q)
        /\ HistoryPhases(k, q)' = HistoryPhases(k, q)
    <2>1. /\ \A i : Base(i)' = Base(i) /\ End(i)' = End(i)
          /\ \A j, i : HistoryRows(j, i)' = HistoryRows(j, i) /\ HistoryPhases(j, i)' = HistoryPhases(j, i)
      BY <1>1, SamePlan
    <2>2. q' = q /\ k' = k
      BY <1>1 DEF Kind
    <2> QED
      BY <2>1, <2>2
  <1>5. SUFFICES ASSUME NEW qq, qq = q, NEW ll, ll = l, NEW ff, ff = f
                 PROVE PutHeld(qq, ll, ff, r, p)'
    BY <1>1
  <1>6. HistoryPhases(LayerKinds[ll], qq)' = HistoryPhases(k, q)
        /\ HistoryRows(LayerKinds[ll], qq)' = HistoryRows(k, q)
        /\ Base(qq)' = Base(q) /\ End(qq)' = End(q)
    BY <1>1, <1>2, <1>5, SamePlan
  <1>7. CASE InHistory(r) /\ f = 0
    <2>1. Payload(r) = HistoryTail(r) /\ PayloadCells(r) = {RawCell(k), <<"state", 0>>}
      BY <1>7 DEF Payload, PayloadCells
    <2>2. window'[k][p][RawCell(k)] = Item(o, l, "raw", Base(q))
      BY <1>1, <1>3, <2>1, HistoryTailType
    <2>3. window'[k][p][<<"state", 0>>] = cache[o][l][<<"state", 0>>]
      BY <1>1, <1>3, <2>1, HistoryTailType
    <2>4. o = r /\ Base(q) > 0
      <3>1. HistoryPhases(k, q) > 0
        BY <1>2, <1>7 DEF InHistory
      <3> QED
        BY <1>1, <1>2, <1>7, <3>1, PhasesAre DEF Publishes
    <2>5. cache[o][l][<<"state", 0>>] = Item(o, l, "state", Base(q))
      <3>1. <<"state", 0>> \in Cells(k)
        BY DEF Cells
      <3>2. cache[r][l][<<"state", 0>>] = Filled(r, l, Base(q))[<<"state", 0>>]
        BY <1>1, <1>7, <3>1, OwnerHolds
      <3>3. Filled(r, l, Base(q))[<<"state", 0>>] =
              IF Base(q) = 0 THEN Nothing ELSE Item(r, l, "state", Base(q))
        BY FilledIs
      <3> QED
        BY <2>4, <3>2, <3>3
    <2>6. TailsHeld(qq, ll, p)'
      BY <1>2, <1>5, <1>6, <2>2, <2>3, <2>5 DEF TailsHeld
    <2>7. ff < HistoryPhases(LayerKinds[ll], qq)' /\ ff = 0
      BY <1>5, <1>6, <1>7 DEF InHistory
    <2> QED
      BY <2>6, <2>7 DEF PutHeld
  <1>8. CASE InHistory(r) /\ f # 0
    <2>1. Payload(r) = HistoryWindow(r) /\ PayloadCells(r) = Parts(k) \X StreamRows(r)
      BY <1>8 DEF Payload, PayloadCells
    <2>2. o = r
      BY <1>1, <1>8 DEF Publishes
    <2>3. ASSUME NEW part \in Parts(k), NEW i \in Lanes,
                 (f - 1) * WindowRows + i < HistoryRows(k, q)
          PROVE  window'[k][p][<<part, i>>] = Item(o, l, part, (f - 1) * WindowRows + i)
      <3> DEFINE n == (f - 1) * WindowRows + i
      <3>1. LogicalRow(r, i) = n /\ Streamed(r, i) /\ n \in Slots(k)
        BY <1>1, <1>8, <2>3, StreamedIs
      <3>2. window'[k][p][<<part, i>>] = cache[o][l][<<part, n>>]
        <4>1. /\ <<part, i>> \in Parts(k) \X StreamRows(r)
              /\ HistoryWindow(r)[<<part, i>>] = cache[o][l][<<part, LogicalRow(r, i)>>]
          BY <1>1, <1>8, <3>1, HistoryWindowType
        <4> QED
          BY <1>3, <2>1, <3>1, <4>1
      <3>3. <<part, n>> \in Cells(k) /\ <<part, n>>[1] # "history"
        BY <3>1 DEF Cells, Parts
      <3>4. cache[r][l][<<part, n>>] = Filled(r, l, Base(q))[<<part, n>>]
        BY <1>1, <1>8, <3>3, OwnerHolds
      <3>5. n < Base(q) \div Ratio[k]
        BY <1>2, <2>3, HistoryRowsAre
      <3>6. Filled(r, l, Base(q))[<<part, n>>] = Item(r, l, part, n)
        BY <1>2, <3>1, <3>5, FilledIs
      <3> QED
        BY <2>2, <3>2, <3>4, <3>6
    <2>4. StreamHeld(qq, ll, ff, p)'
      BY <1>2, <1>5, <1>6, <2>3 DEF StreamHeld
    <2>5. ff < HistoryPhases(LayerKinds[ll], qq)' /\ ff # 0
      BY <1>5, <1>6, <1>8 DEF InHistory
    <2> QED
      BY <2>4, <2>5 DEF PutHeld
  <1>9. CASE ~InHistory(r)
    <2>1. PayloadCells(r) = (PutParts(k) \X OwnLanes(r)) \cup {<<"state", r>>}
      BY <1>9 DEF PayloadCells
    <2>2. ASSUME NEW part \in PutParts(k), NEW i \in OwnLanes(r)
          PROVE  window'[k][p][<<part, i>>] = Row(q, l, r, part, i)
      <3>1. Payload(r)[<<part, i>>] = Row(q, l, r, part, i)
        BY <1>1, <1>9, OwnPayload
      <3> QED
        BY <1>3, <2>1, <3>1
    <2>3. window'[k][p][<<"state", r>>] =
            IF OwnerRank(plan[q].length - 1) = r THEN Item(o, l, "state", End(q)) ELSE Nothing
      <3>1. Payload(r)[<<"state", r>>] = Snapshot(r)[<<"state", r>>]
        BY <1>1, <1>9, OwnPayload
      <3> QED
        BY <1>1, <1>3, <2>1, <3>1, SnapshotIs
    <2>4. RowsHeld(qq, ll, r, PutParts(LayerKinds[ll]), p)'
      <3>1. PutParts(LayerKinds[ll]) = PutParts(k) /\ LayerKinds[ll] = k
        BY <1>2, <1>5
      <3>2. ASSUME NEW part \in PutParts(LayerKinds[ll]), NEW i \in OwnLanes(r)
            PROVE  window'[LayerKinds[ll]][p][<<part, i>>] = Row(qq, ll, r, part, i)'
        <4>1. Row(qq, ll, r, part, i)' = Row(qq, ll, r, part, i)
          BY <1>1, SamePlan DEF Row
        <4>2. Row(qq, ll, r, part, i) = Row(q, l, r, part, i)
          BY <1>5
        <4> QED
          BY <2>2, <3>1, <3>2, <4>1, <4>2
      <3> QED
        BY <3>2 DEF RowsHeld
    <2>5. StateHeld(qq, ll, r, p)'
      BY <1>1, <1>2, <1>5, <1>6, <2>3 DEF StateHeld
    <2>6. ~ ff < HistoryPhases(LayerKinds[ll], qq)'
      BY <1>5, <1>6, <1>9 DEF InHistory
    <2> QED
      BY <2>4, <2>5, <2>6 DEF PutHeld, PutParts
  <1> QED
    BY <1>7, <1>8, <1>9

LEMMA PutPresent ==
    ASSUME Shape, ControlOK, Present, Remaining, CacheOK, NEW r \in Ranks, NEW p \in Ranks, Put(r, p)
    PROVE  Present' /\ Remaining'
  <1>1. stage[r] = "exchange" /\ Publishes(r) /\ p \notin put[r] /\ taken' = taken
        /\ plan' = plan /\ request' = request /\ layer' = layer /\ phase' = phase /\ stage' = stage
        /\ indexed' = indexed
    BY DEF Put, progress
  <1>2. TasksAt(r) /\ PositionAt(r) /\ Only(r)
    BY <1>1, TasksBefore, PutControl
  <1>3. Credit(r, p)
    BY DEF Put
  <1>4. Writing(r, p)
    BY <1>1, <1>3, CreditIs DEF Writing
  <1> DEFINE D == PayloadCells(r)
  <1>5. Rewritten(Kind(r), p, D)
    BY <1>2, PutWrites
  <1>6. ~InHistory(r) => D \subseteq OwnCells(r)
    BY <1>1, <1>2, OwnPayload DEF PayloadCells
  <1>7. indexed[r] # {} => ({"index", "meta"} \X OwnLanes(r)) \cap D = {}
    <2> SUFFICES ASSUME indexed[r] # {} PROVE ({"index", "meta"} \X OwnLanes(r)) \cap D = {}
      OBVIOUS
    <2>1. D = ({"main"} \X OwnLanes(r)) \cup {<<"state", r>>}
      BY <1>2 DEF TasksAt, TwoStage, PayloadCells, PutParts
    <2> QED
      BY <2>1
  <1> HIDE DEF D
  <1>8. /\ \A x \in Ranks \ {r}, y \in Ranks : PresentAt(x, y)'
        /\ \A x, y \in Ranks : RemainingAt(x, y)'
    BY <1>1, <1>2, <1>4, <1>5, <1>6, WriteKeeps
  <1>9. ASSUME NEW y \in Ranks
        PROVE  PresentAt(r, y)'
    <2>0. HasRead(y, r)' = HasRead(y, r)
      <3>1. UNCHANGED place
        BY <1>1 DEF place
      <3> QED
        BY <1>1, <3>1, SamePlace DEF HasRead, Finished
    <2> SUFFICES ASSUME ~HasRead(y, r)
                 PROVE  /\ y \in indexed[r] =>
                             RowsHeld(request[r], layer[r], r, {"index", "meta"}, y)'
                        /\ y \in put'[r] => PutHeld(request[r], layer[r], phase[r], r, y)'
      BY <1>1, <2>0 DEF PresentAt
    <2>1. layer[r] \in DOMAIN LayerKinds /\ LayerKinds[layer[r]] = Kind(r)
      BY DEF Shape, Kind
    <2>2. ASSUME y \in indexed[r]
          PROVE  RowsHeld(request[r], layer[r], r, {"index", "meta"}, y)'
      <3>1. RowsHeld(request[r], layer[r], r, {"index", "meta"}, y)
        BY <1>1, <2>2 DEF Present
      <3>2. ({"index", "meta"} \X OwnLanes(r)) \cap D = {}
        BY <1>7, <2>2
      <3>3. {"index", "meta"} \subseteq {"main", "index", "meta"}
        OBVIOUS
      <3>4. ASSUME NEW q, q = request[r], NEW l, l = layer[r]
            PROVE RowsHeld(q, l, r, {"index", "meta"}, y)'
        BY <1>1, <1>5, <2>1, <3>1, <3>2, <3>3, <3>4, RowsKept
      <3> QED
        BY <1>1, <3>4
    <2>3. ASSUME y \in put'[r]
          PROVE  PutHeld(request[r], layer[r], phase[r], r, y)'
      <3>1. CASE y = p
        BY <3>1, PutLeaves
      <3>2. CASE y # p
        <4>1. y \in put[r]
          BY <2>3, <3>2 DEF Put, Shape
        <4>2. PutHeld(request[r], layer[r], phase[r], r, y)
          BY <1>1, <4>1 DEF Present
        <4>3. ASSUME NEW q, q = request[r], NEW l, l = layer[r], NEW f, f = phase[r]
              PROVE PutHeld(q, l, f, r, y)'
          BY <1>1, <1>5, <2>1, <3>2, <4>2, <4>3, PutKept
        <4> QED
          BY <1>1, <4>3
      <3> QED
        BY <3>1, <3>2
    <2> QED
      BY <2>2, <2>3
  <1>10. \A x, y \in Ranks : PresentAt(x, y)'
    BY <1>8, <1>9
  <1> QED
    BY <1>8, <1>10 DEF Present, Remaining, PresentAt, RemainingAt

LEMMA IndexPresent ==
    ASSUME Shape, ControlOK, Present, Remaining, NEW r \in Ranks, NEW p \in Ranks, PublishIndex(r, p)
    PROVE  Present' /\ Remaining'
  <1>1. stage[r] = "exchange" /\ TwoStage(r) /\ p \notin indexed[r] /\ taken' = taken
        /\ plan' = plan /\ request' = request /\ layer' = layer /\ phase' = phase /\ stage' = stage
        /\ put' = put /\ Credit(r, p)
    BY DEF PublishIndex, progress
  <1>2. TasksAt(r) /\ PositionAt(r) /\ Only(r)
    BY <1>1, TasksBefore, IndexControl
  <1>3. put[r] = {} /\ Publishes(r)
    BY <1>1, <1>2 DEF TasksAt, TwoStage, Publishes
  <1>4. Writing(r, p)
    BY <1>1, <1>3, CreditIs DEF Writing
  <1> DEFINE D == {"index", "meta"} \X OwnLanes(r)
  <1>5. /\ Rewritten(Kind(r), p, D)
        /\ \A part \in {"index", "meta"}, i \in OwnLanes(r) :
             window'[Kind(r)][p][<<part, i>>] = Row(request[r], layer[r], r, part, i)
    BY <1>2, IndexWrites
  <1>6. ~InHistory(r) => D \subseteq OwnCells(r)
    BY DEF OwnCells
  <1> HIDE DEF D
  <1>8. /\ \A x \in Ranks \ {r}, y \in Ranks : PresentAt(x, y)'
        /\ \A x, y \in Ranks : RemainingAt(x, y)'
    BY <1>1, <1>2, <1>4, <1>5, <1>6, WriteKeeps
  <1>9. ASSUME NEW y \in Ranks
        PROVE  PresentAt(r, y)'
    <2>0. HasRead(y, r)' = HasRead(y, r)
      <3>1. UNCHANGED place
        BY <1>1 DEF place
      <3> QED
        BY <1>1, <3>1, SamePlace DEF HasRead, Finished
    <2> SUFFICES ASSUME ~HasRead(y, r), y \in indexed'[r]
                 PROVE  RowsHeld(request[r], layer[r], r, {"index", "meta"}, y)'
      BY <1>1, <1>3, <2>0 DEF PresentAt
    <2>1. layer[r] \in DOMAIN LayerKinds /\ LayerKinds[layer[r]] = Kind(r)
      BY DEF Shape, Kind
    <2>2. CASE y = p
      <3>1. ASSUME NEW q, q = request[r], NEW l, l = layer[r]
            PROVE RowsHeld(q, l, r, {"index", "meta"}, y)'
        <4>1. ASSUME NEW part \in {"index", "meta"}, NEW i \in OwnLanes(r)
              PROVE  window'[LayerKinds[l]][y][<<part, i>>] = Row(q, l, r, part, i)'
          <5>1. Row(q, l, r, part, i)' = Row(q, l, r, part, i)
            BY <1>1, SamePlan DEF Row
          <5>2. window'[Kind(r)][p][<<part, i>>] = Row(request[r], layer[r], r, part, i)
            BY <1>5
          <5> QED
            BY <2>1, <2>2, <3>1, <5>1, <5>2
        <4> QED
          BY <4>1 DEF RowsHeld
      <3> QED
        BY <1>1, <3>1
    <2>3. CASE y # p
      <3>0. y \in indexed[r]
        BY <2>3 DEF PublishIndex, Shape
      <3>1. RowsHeld(request[r], layer[r], r, {"index", "meta"}, y)
        BY <1>1, <3>0 DEF Present
      <3>3. {"index", "meta"} \subseteq {"main", "index", "meta"}
        OBVIOUS
      <3>4. ASSUME NEW q, q = request[r], NEW l, l = layer[r]
            PROVE RowsHeld(q, l, r, {"index", "meta"}, y)'
        BY <1>1, <1>5, <2>1, <2>3, <3>1, <3>3, <3>4, RowsKept
      <3> QED
        BY <1>1, <3>4
    <2> QED
      BY <2>2, <2>3
  <1>10. \A x, y \in Ranks : PresentAt(x, y)'
    BY <1>8, <1>9
  <1> QED
    BY <1>8, <1>10 DEF Present, Remaining, PresentAt, RemainingAt

\* Windows that nobody writes hold what they held.
LEMMA WindowSame ==
    ASSUME plan' = plan, window' = window,
           NEW q, NEW l, NEW p, NEW r
    PROVE  /\ \A parts : RowsHeld(q, l, p, parts, r) => RowsHeld(q, l, p, parts, r)'
           /\ \A f : PutHeld(q, l, f, p, r) => PutHeld(q, l, f, p, r)'
  <1>1. /\ Base(q)' = Base(q) /\ End(q)' = End(q)
        /\ \A k : HistoryRows(k, q)' = HistoryRows(k, q) /\ HistoryPhases(k, q)' = HistoryPhases(k, q)
    BY SamePlan
  <1>2. \A part, i : Row(q, l, p, part, i)' = Row(q, l, p, part, i)
    BY <1>1 DEF Row
  <1>3. \A parts : RowsHeld(q, l, p, parts, r)' = RowsHeld(q, l, p, parts, r)
    BY <1>2 DEF RowsHeld
  <1>4. StateHeld(q, l, p, r)' = StateHeld(q, l, p, r) /\ TailsHeld(q, l, r)' = TailsHeld(q, l, r)
    BY <1>1 DEF StateHeld, TailsHeld
  <1>5. \A f : StreamHeld(q, l, f, r)' = StreamHeld(q, l, f, r)
    BY <1>1 DEF StreamHeld
  <1>6. ASSUME NEW f, PutHeld(q, l, f, p, r)
        PROVE  PutHeld(q, l, f, p, r)'
    <2>1. HistoryPhases(LayerKinds[l], q)' = HistoryPhases(LayerKinds[l], q)
      BY <1>1
    <2>2. CASE f < HistoryPhases(LayerKinds[l], q)
      BY <1>4, <1>5, <1>6, <2>1, <2>2 DEF PutHeld
    <2>3. CASE ~ f < HistoryPhases(LayerKinds[l], q)
      <3>1. RowsHeld(q, l, p, PutParts(LayerKinds[l]), r)' /\ StateHeld(q, l, p, r)'
        BY <1>3, <1>4, <1>6, <2>3 DEF PutHeld, PutParts
      <3> QED
        BY <2>1, <2>3, <3>1 DEF PutHeld, PutParts
    <2> QED
      BY <2>2, <2>3
  <1> QED
    BY <1>3, <1>6

LEMMA StillPresent ==
    ASSUME Present, Remaining, UNCHANGED <<place, put, indexed, window>>,
           \A x \in Ranks : Finished(x) => Finished(x)'
    PROVE  Present' /\ Remaining'
  <1>1. /\ plan' = plan /\ request' = request /\ layer' = layer /\ phase' = phase /\ stage' = stage
        /\ put' = put /\ indexed' = indexed /\ window' = window /\ UNCHANGED place
    BY DEF place
  <1>2. /\ \A x, y : Past(x, y)' = Past(x, y) /\ SameTurn(x, y)' = SameTurn(x, y)
        /\ \A x : Kind(x)' = Kind(x) /\ TwoStage(x)' = TwoStage(x)
    BY <1>1, SamePlace
  <1>3. ASSUME NEW p \in Ranks, NEW r \in Ranks
        PROVE  PresentAt(p, r)'
    <2> SUFFICES ASSUME stage[p] = "exchange", ~HasRead(r, p)
                 PROVE  /\ r \in indexed[p] => RowsHeld(request[p], layer[p], p, {"index", "meta"}, r)'
                        /\ r \in put[p] => PutHeld(request[p], layer[p], phase[p], p, r)'
      BY <1>1, <1>2 DEF PresentAt, HasRead
    <2>1. /\ r \in indexed[p] => RowsHeld(request[p], layer[p], p, {"index", "meta"}, r)
          /\ r \in put[p] => PutHeld(request[p], layer[p], phase[p], p, r)
      BY DEF Present
    <2>2. ASSUME NEW q, q = request[p], NEW l, l = layer[p], NEW f, f = phase[p]
          PROVE  /\ r \in indexed[p] => RowsHeld(q, l, p, {"index", "meta"}, r)'
                 /\ r \in put[p] => PutHeld(q, l, f, p, r)'
      BY <1>1, <2>1, <2>2, WindowSame
    <2> QED
      BY <1>1, <2>2
  <1>4. ASSUME NEW p \in Ranks, NEW r \in Ranks
        PROVE  RemainingAt(p, r)'
    <2> SUFFICES ASSUME Past(p, r), ~Finished(r)
                 PROVE  /\ TwoStage(r) => RowsHeld(request[r], layer[r], p, {"index", "meta"}, r)'
                        /\ PutHeld(request[r], layer[r], phase[r], p, r)'
      BY <1>1, <1>2 DEF RemainingAt
    <2>1. /\ TwoStage(r) => RowsHeld(request[r], layer[r], p, {"index", "meta"}, r)
          /\ PutHeld(request[r], layer[r], phase[r], p, r)
      BY DEF Remaining
    <2>2. ASSUME NEW q, q = request[r], NEW l, l = layer[r], NEW f, f = phase[r]
          PROVE  /\ TwoStage(r) => RowsHeld(q, l, p, {"index", "meta"}, r)'
                 /\ PutHeld(q, l, f, p, r)'
      BY <1>1, <2>1, <2>2, WindowSame
    <2> QED
      BY <1>1, <2>2
  <1> QED
    BY <1>3, <1>4 DEF Present, Remaining, PresentAt, RemainingAt

-----------------------------------------------------------------------------
(***************************************************************************)
(* Roots and pools after a write.                                          *)
(***************************************************************************)

RootType ==
    /\ root = [r \in Ranks |-> root[r]]
    /\ \A r \in Ranks : root[r] \in [Cells(Kind(r)) -> Items]

CacheType ==
    /\ cache = [r \in Ranks |-> [l \in DOMAIN LayerKinds |-> cache[r][l]]]
    /\ \A r \in Ranks, l \in DOMAIN LayerKinds : cache[r][l] \in [Cells(LayerKinds[l]) -> Items]

\* f is written to the cells D of r's root.
RootGets(r, D, f) ==
    /\ RootType'
    /\ \A x \in Ranks \ {r} : root'[x] = root[x]
    /\ \A c \in Cells(Kind(r)) : root'[r][c] = IF c \in D THEN f[c] ELSE root[r][c]

LEMMA RootWritten ==
    ASSUME Shape, NEW r \in Ranks, NEW D, D \subseteq Cells(Kind(r)), NEW f, f \in [D -> Items],
           root' = [root EXCEPT ![r] = Over(f, root[r])], layer' = layer
    PROVE  RootGets(r, D, f)
  <1>1. root = [x \in Ranks |-> root[x]] /\ \A x \in Ranks : root[x] \in [Cells(Kind(x)) -> Items]
    BY DEF Shape
  <1> DEFINE g == root[r]
             h == Over(f, g)
             B == Cells(Kind(r))
  <1>2. g \in [B -> Items]
    BY <1>1
  <1>3. h \in [B -> Items] /\ \A c \in B : h[c] = IF c \in D THEN f[c] ELSE g[c]
    <2> HIDE DEF g, B
    <2>1. DOMAIN f = D /\ DOMAIN g = B /\ D \cup B = B
      BY <1>2 DEF B
    <2>2. Over(f, g) = [c \in B |-> IF c \in D THEN f[c] ELSE g[c]]
      BY <2>1 DEF Over
    <2> QED
      BY <1>2, <2>2 DEF B
  <1> HIDE DEF h
  <1>4. root' = [x \in Ranks |-> IF x = r THEN h ELSE root[x]]
    BY <1>1 DEF h
  <1>5. \A x : Kind(x)' = Kind(x)
    BY DEF Kind
  <1>6. RootType'
    <2>1. root' = [x \in Ranks |-> root'[x]]
      BY <1>4
    <2>2. \A x \in Ranks : root'[x] \in [Cells(Kind(x)) -> Items]
      BY <1>1, <1>3, <1>4
    <2> QED
      BY <1>5, <2>1, <2>2 DEF RootType
  <1> QED
    BY <1>3, <1>4, <1>6 DEF RootGets

\* f is committed to the cells D of the owner's pools, if r is the owner.
CacheGets(r, D, f) ==
    /\ CacheType'
    /\ \A o \in Ranks, l \in DOMAIN LayerKinds : \A c \in Cells(LayerKinds[l]) :
         cache'[o][l][c] =
            IF o = r /\ l = layer[r] /\ r = Owner(request[r]) /\ c \in D THEN f[c]
            ELSE cache[o][l][c]

LEMMA CacheWritten ==
    ASSUME Shape, NEW r \in Ranks, NEW D, D \subseteq Cells(Kind(r)), NEW f, f \in [D -> Items],
           cache' = Committed(r, f)
    PROVE  CacheGets(r, D, f)
  <1>1. CacheType
    BY DEF Shape, CacheType
  <1> DEFINE m == layer[r]
             g == cache[r][m]
             h == Over(f, g)
             B == Cells(LayerKinds[m])
  <1>2. m \in DOMAIN LayerKinds /\ LayerKinds[m] = Kind(r)
    BY DEF Shape, Kind
  <1>3. g \in [B -> Items] /\ D \subseteq B
    BY <1>1, <1>2 DEF CacheType
  <1>4. h \in [B -> Items] /\ \A c \in B : h[c] = IF c \in D THEN f[c] ELSE g[c]
    <2> HIDE DEF g, B
    <2>1. DOMAIN f = D /\ DOMAIN g = B /\ D \cup B = B
      BY <1>3
    <2>2. Over(f, g) = [c \in B |-> IF c \in D THEN f[c] ELSE g[c]]
      BY <2>1 DEF Over
    <2> QED
      BY <1>3, <2>2
  <1>5. CASE r # Owner(request[r])
    <2>1. cache' = cache
      BY <1>5 DEF Committed
    <2> QED
      BY <1>1, <1>5, <2>1 DEF CacheGets, CacheType
  <1>6. CASE r = Owner(request[r])
    <2>1. cache' = [cache EXCEPT ![r][m] = h]
      BY <1>6 DEF Committed
    <2> HIDE DEF h, m
    <2>2. cache = [x \in Ranks |-> [l \in DOMAIN LayerKinds |-> cache[x][l]]]
      BY <1>1 DEF CacheType
    <2>3. cache' = [x \in Ranks |-> [l \in DOMAIN LayerKinds |->
                       IF x = r /\ l = m THEN h ELSE cache[x][l]]]
      <3>1. cache[r] = [l \in DOMAIN LayerKinds |-> cache[r][l]]
        BY <2>2
      <3>2. [cache[r] EXCEPT ![m] = h] = [l \in DOMAIN LayerKinds |-> IF l = m THEN h ELSE cache[r][l]]
        BY <3>1
      <3>3. cache' = [cache EXCEPT ![r] = [cache[r] EXCEPT ![m] = h]]
        BY <2>1
      <3>4. cache' = [x \in Ranks |-> IF x = r THEN [cache[r] EXCEPT ![m] = h] ELSE cache[x]]
        BY <2>2, <3>3
      <3>5. \A x \in Ranks : cache[x] = [l \in DOMAIN LayerKinds |-> cache[x][l]]
        BY <2>2
      <3>6. \A x \in Ranks :
              (IF x = r THEN [cache[r] EXCEPT ![m] = h] ELSE cache[x]) =
              [l \in DOMAIN LayerKinds |-> IF x = r /\ l = m THEN h ELSE cache[x][l]]
        BY <3>2, <3>5
      <3> QED
        BY <3>4, <3>6
    <2>4. \A x \in Ranks, l \in DOMAIN LayerKinds :
             cache'[x][l] = IF x = r /\ l = m THEN h ELSE cache[x][l]
      BY <2>3
    <2>5. CacheType'
      <3>1. cache' = [x \in Ranks |-> [l \in DOMAIN LayerKinds |-> cache'[x][l]]]
        BY <2>3
      <3>2. \A x \in Ranks, l \in DOMAIN LayerKinds : cache'[x][l] \in [Cells(LayerKinds[l]) -> Items]
        BY <1>1, <1>4, <2>4 DEF CacheType
      <3> QED
        BY <3>1, <3>2 DEF CacheType
    <2> QED
      BY <1>4, <1>6, <2>4, <2>5 DEF CacheGets, m
  <1> QED
    BY <1>5, <1>6

\* A window cell holds an item.
LEMMA WindowCell ==
    ASSUME Shape, NEW r \in Ranks, NEW c \in WindowCells
    PROVE  Kind(r) \in Kinds /\ window[Kind(r)][r][c] \in Items
  <1>1. Kind(r) \in Kinds
    BY Sizes DEF Shape, Kind
  <1>2. window \in [Kinds -> [Ranks -> [WindowCells -> Items]]]
    BY DEF Shape
  <1> QED
    BY <1>1, <1>2

\* What a rank takes of the history.
LEMMA HistoryWrites ==
    ASSUME Shape, NEW r \in Ranks, PositionAt(r), TakeHistory(r)
    PROVE  /\ RootType' /\ \A x \in Ranks \ {r} : root'[x] = root[x]
           /\ phase[r] = 0 =>
                /\ root'[r][<<"state", 0>>] = window[Kind(r)][r][<<"state", 0>>]
                /\ root'[r][<<"raw", 0>>] = window[Kind(r)][r][RawCell(Kind(r))]
                /\ \A part \in Parts(Kind(r)), n \in Slots(Kind(r)) :
                     root'[r][<<part, n>>] = root[r][<<part, n>>]
           /\ phase[r] # 0 =>
                /\ root'[r][<<"state", 0>>] = root[r][<<"state", 0>>]
                /\ root'[r][<<"raw", 0>>] = root[r][<<"raw", 0>>]
                /\ \A part \in Parts(Kind(r)), n \in Slots(Kind(r)) :
                     \/ \E i \in Lanes : /\ Streamed(r, i) /\ n = LogicalRow(r, i)
                                         /\ root'[r][<<part, n>>] = window[Kind(r)][r][<<part, i>>]
                     \/ /\ \A i \in Lanes : Streamed(r, i) => n # LogicalRow(r, i)
                        /\ root'[r][<<part, n>>] = root[r][<<part, n>>]
  <1> DEFINE k == Kind(r)
             held == window[k][r]
             A == {<<"state", 0>>, <<"raw", 0>>}
             tails == [c \in A |-> held[IF c[1] = "raw" THEN RawCell(k) ELSE c]]
             streamed == {i \in Lanes : Streamed(r, i)}
             B == Parts(k) \X {LogicalRow(r, i) : i \in streamed}
             records == [c \in B |-> held[<<c[1], c[2] - LogicalRow(r, 0)>>]]
  <1>1. /\ stage[r] = "exchange" /\ layer' = layer
        /\ root' = [root EXCEPT ![r] = IF phase[r] = 0 THEN Over(tails, root[r])
                                       ELSE Over(records, root[r])]
    BY DEF TakeHistory, progress
  <1>2. k \in Kinds /\ \A c \in WindowCells : held[c] \in Items
    BY WindowCell, Sizes DEF Shape, Kind
  <1>3. \A part \in Parts(k) : part \in {"main", "index"}
    BY DEF Parts
  <1>4. A \subseteq Cells(k) /\ <<"state", 0>> \in A /\ <<"raw", 0>> \in A
        /\ \A part \in Parts(k), n \in Slots(k) : <<part, n>> \in Cells(k) /\ <<part, n>> \notin A
    BY <1>3 DEF Cells
  <1>5. CASE phase[r] = 0
    <2>1. /\ tails \in [A -> Items]
          /\ tails[<<"state", 0>>] = held[<<"state", 0>>] /\ tails[<<"raw", 0>>] = held[RawCell(k)]
      <3>1. <<"state", 0>> \in WindowCells /\ RawCell(k) \in WindowCells
        BY <1>1, HistoryTailType
      <3>2. held[<<"state", 0>>] \in Items /\ held[RawCell(k)] \in Items
        BY <1>2, <3>1
      <3> HIDE DEF held
      <3> QED
        BY <3>2
    <2>2. root' = [root EXCEPT ![r] = Over(tails, root[r])]
      BY <1>1, <1>5
    <2> HIDE DEF tails, held, A
    <2>3. RootGets(r, A, tails)
      BY <1>1, <1>4, <2>1, <2>2, RootWritten
    <2> QED
      BY <1>4, <1>5, <2>1, <2>3 DEF RootGets, held, k
  <1>6. CASE phase[r] # 0
    <2>1. \A i \in Lanes : /\ LogicalRow(r, i) \in Nat
                           /\ LogicalRow(r, i) = (phase[r] - 1) * WindowRows + i
                           /\ Streamed(r, i) => LogicalRow(r, i) \in Slots(k)
      BY <1>1, <1>6, StreamedIs
    <2>2. \A i \in Lanes : i \in Nat /\ LogicalRow(r, i) - LogicalRow(r, 0) = i
      <3>1. 0 \in Lanes
        BY Sizes DEF Lanes, NumSegments
      <3>2. \A i \in Lanes : i \in Nat
        BY DEF Lanes
      <3>3. (phase[r] - 1) * WindowRows \in Int
        BY Sizes DEF Shape
      <3> DEFINE a == (phase[r] - 1) * WindowRows
      <3>4. \A i \in Lanes : LogicalRow(r, i) = a + i
        BY <2>1
      <3> HIDE DEF a
      <3> QED
        BY <3>1, <3>2, <3>3, <3>4 DEF a
    <2>3. B \subseteq Cells(k) /\ <<"state", 0>> \notin B /\ <<"raw", 0>> \notin B
      BY <1>3, <1>4, <2>1
    <2>4. ASSUME NEW part \in Parts(k), NEW i \in Lanes, Streamed(r, i)
          PROVE  /\ <<part, LogicalRow(r, i)>> \in B /\ held[<<part, i>>] \in Items
                 /\ records[<<part, LogicalRow(r, i)>>] = held[<<part, i>>]
      <3>1. <<part, LogicalRow(r, i)>> \in B
        BY <2>4
      <3>2. <<part, i>> \in WindowCells
        BY <1>3 DEF WindowCells
      <3>3. records[<<part, LogicalRow(r, i)>>] = held[<<part, LogicalRow(r, i) - LogicalRow(r, 0)>>]
        BY <3>1
      <3> QED
        BY <1>2, <2>2, <3>1, <3>2, <3>3
    <2>5. records \in [B -> Items]
      <3>1. \A c \in B : held[<<c[1], c[2] - LogicalRow(r, 0)>>] \in Items
        <4> SUFFICES ASSUME NEW c \in B PROVE held[<<c[1], c[2] - LogicalRow(r, 0)>>] \in Items
          OBVIOUS
        <4>1. PICK i \in Lanes : Streamed(r, i) /\ c[2] = LogicalRow(r, i)
          OBVIOUS
        <4>2. c[1] \in Parts(k) /\ c[2] - LogicalRow(r, 0) = i
          BY <2>2, <4>1
        <4> QED
          BY <2>4, <4>1, <4>2
      <3> QED
        BY <3>1
    <2>6. root' = [root EXCEPT ![r] = Over(records, root[r])]
      BY <1>1, <1>6
    <2>7. \A n : (\A i \in Lanes : Streamed(r, i) => n # LogicalRow(r, i)) =>
                   \A part : <<part, n>> \notin B
      OBVIOUS
    <2> HIDE DEF records, held, B
    <2>8. RootGets(r, B, records)
      BY <1>1, <2>3, <2>5, <2>6, RootWritten
    <2>9. ASSUME NEW part \in Parts(k), NEW n \in Slots(k)
          PROVE  \/ \E i \in Lanes : /\ Streamed(r, i) /\ n = LogicalRow(r, i)
                                     /\ root'[r][<<part, n>>] = held[<<part, i>>]
                 \/ /\ \A i \in Lanes : Streamed(r, i) => n # LogicalRow(r, i)
                    /\ root'[r][<<part, n>>] = root[r][<<part, n>>]
      <3>1. <<part, n>> \in Cells(k)
        BY <1>4
      <3>2. CASE \E i \in Lanes : Streamed(r, i) /\ n = LogicalRow(r, i)
        BY <2>4, <2>8, <3>1, <3>2 DEF RootGets
      <3>3. CASE \A i \in Lanes : Streamed(r, i) => n # LogicalRow(r, i)
        BY <2>7, <2>8, <3>1, <3>3 DEF RootGets
      <3> QED
        BY <3>2, <3>3
    <2> QED
      BY <1>4, <1>6, <2>3, <2>8, <2>9 DEF RootGets, held, k
  <1> QED
    BY <1>5, <1>6

\* The record of slot n, by the window of r, is in row i.
MetaAt(r, i, n) ==
    window[Kind(r)][r][<<"meta", i>>] # Nothing /\ window[Kind(r)][r][<<"meta", i>>].at = n

LEMMA ReceivedIs ==
    ASSUME NEW r \in Ranks
    PROVE  /\ \A n : n \in DOMAIN Received(r) <=>
                       n \in Slots(Kind(r)) /\ \E i \in Lanes : MetaAt(r, i, n)
           /\ \A n \in DOMAIN Received(r) : Received(r)[n] \in Lanes /\ MetaAt(r, Received(r)[n], n)
  <1> DEFINE held == window[Kind(r)][r]
             valid == {i \in Lanes : held[<<"meta", i>>] # Nothing
                                     /\ held[<<"meta", i>>].at \in Slots(Kind(r))}
             D == {held[<<"meta", i>>].at : i \in valid}
  <1>1. Received(r) = [n \in D |-> CHOOSE i \in valid : held[<<"meta", i>>].at = n]
    BY DEF Received
  <1>2. \A n : n \in D <=> n \in Slots(Kind(r)) /\ \E i \in Lanes : MetaAt(r, i, n)
    BY DEF MetaAt
  <1>3. ASSUME NEW n \in D
        PROVE  Received(r)[n] \in Lanes /\ MetaAt(r, Received(r)[n], n)
    <2>1. \E i \in valid : held[<<"meta", i>>].at = n
      OBVIOUS
    <2>2. (CHOOSE i \in valid : held[<<"meta", i>>].at = n) \in valid
          /\ held[<<"meta", CHOOSE i \in valid : held[<<"meta", i>>].at = n>>].at = n
      BY <2>1
    <2>3. Received(r)[n] = CHOOSE i \in valid : held[<<"meta", i>>].at = n
      BY <1>1
    <2> QED
      BY <2>2, <2>3 DEF MetaAt
  <1>4. DOMAIN Received(r) = D
    BY <1>1
  <1> QED
    BY <1>2, <1>3, <1>4

LEMMA GatheredIs ==
    ASSUME Shape, NEW r \in Ranks, NEW part \in Parts(Kind(r))
    PROVE  /\ {part} \X DOMAIN Received(r) \subseteq Cells(Kind(r))
           /\ Gathered(r, part) \in [{part} \X DOMAIN Received(r) -> Items]
           /\ \A n \in DOMAIN Received(r) :
                Gathered(r, part)[<<part, n>>] = window[Kind(r)][r][<<part, Received(r)[n]>>]
  <1> DEFINE D == DOMAIN Received(r)
             held == window[Kind(r)][r]
             rows == Received(r)
  <1>1. D \subseteq Slots(Kind(r)) /\ \A n \in D : rows[n] \in Lanes
    BY ReceivedIs
  <1>2. part \in {"main", "index"}
    BY DEF Parts
  <1>3. \A n \in D : held[<<part, rows[n]>>] \in Items
    <2>1. \A n \in D : <<part, rows[n]>> \in WindowCells
      BY <1>1, <1>2 DEF WindowCells
    <2> QED
      BY <2>1, WindowCell
  <1>4. Gathered(r, part) = [c \in {part} \X D |-> held[<<part, rows[c[2]]>>]]
    BY DEF Gathered
  <1>5. {part} \X D \subseteq Cells(Kind(r))
    BY <1>1 DEF Cells
  <1> HIDE DEF D, held, rows
  <1>6. Gathered(r, part) \in [{part} \X D -> Items]
    BY <1>3, <1>4
  <1>7. \A n \in D : Gathered(r, part)[<<part, n>>] = held[<<part, rows[n]>>]
    BY <1>4
  <1> QED
    BY <1>5, <1>6, <1>7 DEF D, held, rows

\* What the commit of the state writes.
LEMMA StateWrites ==
    ASSUME Shape, NEW r \in Ranks, CommitState(r)
    PROVE  /\ CacheType'
           /\ \A o \in Ranks, l \in DOMAIN LayerKinds : \A c \in Cells(LayerKinds[l]) :
                \/ /\ o = r /\ l = layer[r] /\ r = Owner(request[r]) /\ c = <<"state", 0>>
                   /\ \E i \in Ranks : /\ window[Kind(r)][r][<<"state", i>>] # Nothing
                                       /\ cache'[o][l][c] = window[Kind(r)][r][<<"state", i>>]
                \/ /\ \/ ~ (o = r /\ l = layer[r] /\ r = Owner(request[r]) /\ c = <<"state", 0>>)
                      \/ \A i \in Ranks : window[Kind(r)][r][<<"state", i>>] = Nothing
                   /\ cache'[o][l][c] = cache[o][l][c]
  <1> DEFINE held == window[Kind(r)][r]
             valid == {i \in Ranks : held[<<"state", i>>] # Nothing}
             D == {<<"state", 0>> : i \in valid}
             j == CHOOSE i \in valid : TRUE
             f == [c \in D |-> held[<<"state", j>>]]
  <1>1. cache' = Committed(r, f)
    BY DEF CommitState
  <1>2. D \subseteq Cells(Kind(r)) /\ D \subseteq {<<"state", 0>>}
    BY DEF Cells
  <1>3. D # {} => j \in Ranks /\ held[<<"state", j>>] # Nothing /\ held[<<"state", j>>] \in Items
                  /\ <<"state", 0>> \in D
    <2> SUFFICES ASSUME D # {} PROVE j \in valid /\ held[<<"state", j>>] \in Items /\ <<"state", 0>> \in D
      OBVIOUS
    <2>1. \E i \in valid : TRUE
      OBVIOUS
    <2>2. j \in valid
      BY <2>1
    <2>3. \A i \in Ranks : <<"state", i>> \in WindowCells
      BY DEF WindowCells
    <2>4. \A i \in Ranks : held[<<"state", i>>] \in Items
      BY <2>3, WindowCell
    <2> QED
      BY <2>1, <2>2, <2>4
  <1>4. D = {} => \A i \in Ranks : held[<<"state", i>>] = Nothing
    OBVIOUS
  <1> HIDE DEF held, D, j
  <1>5. f \in [D -> Items] /\ \A c \in D : f[c] = held[<<"state", j>>]
    BY <1>3
  <1> HIDE DEF f
  <1>6. CacheGets(r, D, f)
    BY <1>1, <1>2, <1>5, CacheWritten
  <1>7. ASSUME NEW o \in Ranks, NEW l \in DOMAIN LayerKinds, NEW c \in Cells(LayerKinds[l])
        PROVE  \/ /\ o = r /\ l = layer[r] /\ r = Owner(request[r]) /\ c = <<"state", 0>>
                  /\ \E i \in Ranks : /\ held[<<"state", i>>] # Nothing
                                      /\ cache'[o][l][c] = held[<<"state", i>>]
               \/ /\ \/ ~ (o = r /\ l = layer[r] /\ r = Owner(request[r]) /\ c = <<"state", 0>>)
                     \/ \A i \in Ranks : held[<<"state", i>>] = Nothing
                  /\ cache'[o][l][c] = cache[o][l][c]
    <2>1. CASE o = r /\ l = layer[r] /\ r = Owner(request[r]) /\ c \in D
      <3>1. cache'[o][l][c] = f[c]
        BY <1>6, <2>1 DEF CacheGets
      <3> QED
        BY <1>2, <1>3, <1>5, <2>1, <3>1
    <2>2. CASE ~ (o = r /\ l = layer[r] /\ r = Owner(request[r]) /\ c \in D)
      <3>1. cache'[o][l][c] = cache[o][l][c]
        BY <1>6, <2>2 DEF CacheGets
      <3> QED
        BY <1>3, <1>4, <2>2, <3>1
    <2> QED
      BY <2>1, <2>2
  <1> QED
    BY <1>6, <1>7 DEF CacheGets, held

-----------------------------------------------------------------------------
(***************************************************************************)
(* Types.                                                                  *)
(***************************************************************************)

LEMMA RootSame ==
    ASSUME Shape, root' = root, layer' = layer
    PROVE  RootType'
  <1>1. \A r : Kind(r)' = Kind(r)
    BY DEF Kind
  <1>2. RootType
    BY DEF Shape, RootType
  <1> QED
    BY <1>1, <1>2 DEF RootType

LEMMA CacheSame ==
    ASSUME Shape, cache' = cache
    PROVE  CacheType'
  BY DEF Shape, CacheType

LEMMA TasksShape ==
    ASSUME Shape, UNCHANGED <<plan, progress>>,
           indexed' \in [Ranks -> SUBSET Ranks], put' \in [Ranks -> SUBSET Ranks],
           told' \in [Ranks -> SUBSET Ranks], freed' \in [Ranks -> SUBSET Ranks],
           taken' \in [Ranks -> SUBSET {"history", "index", "main", "state"}],
           window' \in [Kinds -> [Ranks -> [WindowCells -> Items]]],
           ready' \in [Kinds -> [Ranks -> [Ranks -> Nat]]],
           consumed' \in [Kinds -> [Ranks -> [Ranks -> Nat]]],
           RootType', CacheType'
    PROVE  Shape'
  <1>1. plan' \in Plans /\ request' \in [Ranks -> 0 .. Requests] /\ waiting' \in [Ranks -> BOOLEAN]
    BY DEF Shape, progress
  <1>2. layer' \in [Ranks -> DOMAIN LayerKinds] /\ phase' \in [Ranks -> Nat]
    BY DEF Shape, progress
  <1>3. stage' \in [Ranks -> {"exchange", "retire", "arrive", "stopped"}]
        /\ retired' \in [Ranks -> SUBSET Kinds]
    BY DEF Shape, progress
  <1> QED
    BY <1>1, <1>2, <1>3 DEF Shape, RootType, CacheType

LEMMA PutShape ==
    ASSUME Shape, ControlOK, NEW r \in Ranks, NEW p \in Ranks, Put(r, p)
    PROVE  Shape'
  <1>1. /\ UNCHANGED <<plan, progress>> /\ stage[r] = "exchange" /\ layer' = layer
        /\ indexed' = indexed /\ told' = told /\ freed' = freed /\ taken' = taken
        /\ ready' = ready /\ consumed' = consumed /\ root' = root /\ cache' = cache
        /\ put' = [put EXCEPT ![r] = @ \cup {p}]
    BY DEF Put, progress
  <1>2. window' \in [Kinds -> [Ranks -> [WindowCells -> Items]]]
    BY <1>1, TasksBefore, PutWrites
  <1>3. put' \in [Ranks -> SUBSET Ranks]
    BY <1>1 DEF Shape
  <1>4. RootType' /\ CacheType'
    BY <1>1, RootSame, CacheSame
  <1>5. /\ indexed' \in [Ranks -> SUBSET Ranks] /\ told' \in [Ranks -> SUBSET Ranks]
        /\ freed' \in [Ranks -> SUBSET Ranks]
        /\ taken' \in [Ranks -> SUBSET {"history", "index", "main", "state"}]
        /\ ready' \in [Kinds -> [Ranks -> [Ranks -> Nat]]]
        /\ consumed' \in [Kinds -> [Ranks -> [Ranks -> Nat]]]
    BY <1>1 DEF Shape
  <1> QED
    BY <1>1, <1>2, <1>3, <1>4, <1>5, TasksShape

LEMMA NotifyShape ==
    ASSUME Shape, ControlOK, NEW r \in Ranks, NEW p \in Ranks, Notify(r, p)
    PROVE  Shape'
  <1>1. /\ UNCHANGED <<plan, progress>> /\ stage[r] = "exchange" /\ layer' = layer
        /\ indexed' = indexed /\ put' = put /\ freed' = freed /\ taken' = taken
        /\ consumed' = consumed /\ root' = root /\ cache' = cache /\ window' = window
        /\ told' = [told EXCEPT ![r] = @ \cup {p}]
    BY DEF Notify, progress
  <1>2. ready' \in [Kinds -> [Ranks -> [Ranks -> Nat]]]
    BY NotifyControl
  <1>3. told' \in [Ranks -> SUBSET Ranks]
    BY <1>1 DEF Shape
  <1>4. RootType' /\ CacheType'
    BY <1>1, RootSame, CacheSame
  <1>5. /\ indexed' \in [Ranks -> SUBSET Ranks] /\ put' \in [Ranks -> SUBSET Ranks]
        /\ freed' \in [Ranks -> SUBSET Ranks]
        /\ taken' \in [Ranks -> SUBSET {"history", "index", "main", "state"}]
        /\ window' \in [Kinds -> [Ranks -> [WindowCells -> Items]]]
        /\ consumed' \in [Kinds -> [Ranks -> [Ranks -> Nat]]]
    BY <1>1 DEF Shape
  <1> QED
    BY <1>1, <1>2, <1>3, <1>4, <1>5, TasksShape

LEMMA IndexShape ==
    ASSUME Shape, ControlOK, NEW r \in Ranks, NEW p \in Ranks, PublishIndex(r, p)
    PROVE  Shape'
  <1>1. /\ UNCHANGED <<plan, progress>> /\ stage[r] = "exchange" /\ layer' = layer
        /\ put' = put /\ told' = told /\ freed' = freed /\ taken' = taken
        /\ consumed' = consumed /\ root' = root /\ cache' = cache
        /\ indexed' = [indexed EXCEPT ![r] = @ \cup {p}]
    BY DEF PublishIndex, progress
  <1>2. window' \in [Kinds -> [Ranks -> [WindowCells -> Items]]]
    BY <1>1, TasksBefore, IndexWrites
  <1>3. indexed' \in [Ranks -> SUBSET Ranks]
    BY <1>1 DEF Shape
  <1>4. RootType' /\ CacheType'
    BY <1>1, RootSame, CacheSame
  <1>5. /\ put' \in [Ranks -> SUBSET Ranks] /\ told' \in [Ranks -> SUBSET Ranks]
        /\ freed' \in [Ranks -> SUBSET Ranks]
        /\ taken' \in [Ranks -> SUBSET {"history", "index", "main", "state"}]
        /\ consumed' \in [Kinds -> [Ranks -> [Ranks -> Nat]]]
    BY <1>1 DEF Shape
  <1>6. ready' \in [Kinds -> [Ranks -> [Ranks -> Nat]]]
    BY IndexControl
  <1> QED
    BY <1>1, <1>2, <1>3, <1>4, <1>5, <1>6, TasksShape

LEMMA ReleaseShape ==
    ASSUME Shape, ControlOK, NEW r \in Ranks, NEW p \in Ranks, Release(r, p)
    PROVE  Shape'
  <1>1. /\ UNCHANGED <<plan, progress>> /\ stage[r] = "exchange" /\ layer' = layer
        /\ indexed' = indexed /\ put' = put /\ told' = told /\ taken' = taken
        /\ ready' = ready /\ root' = root /\ cache' = cache /\ window' = window
        /\ freed' = [freed EXCEPT ![r] = @ \cup {p}]
    BY DEF Release, progress
  <1>2. consumed' \in [Kinds -> [Ranks -> [Ranks -> Nat]]]
    BY ReleaseControl
  <1>3. freed' \in [Ranks -> SUBSET Ranks]
    BY <1>1 DEF Shape
  <1>4. RootType' /\ CacheType'
    BY <1>1, RootSame, CacheSame
  <1>5. /\ indexed' \in [Ranks -> SUBSET Ranks] /\ put' \in [Ranks -> SUBSET Ranks]
        /\ told' \in [Ranks -> SUBSET Ranks]
        /\ taken' \in [Ranks -> SUBSET {"history", "index", "main", "state"}]
        /\ window' \in [Kinds -> [Ranks -> [WindowCells -> Items]]]
        /\ ready' \in [Kinds -> [Ranks -> [Ranks -> Nat]]]
    BY <1>1 DEF Shape
  <1> QED
    BY <1>1, <1>2, <1>3, <1>4, <1>5, TasksShape

LEMMA TakesShape ==
    ASSUME Shape, NEW r \in Ranks, NEW t \in {"history", "index", "main", "state"}, Takes(r, t),
           RootType', CacheType'
    PROVE  Shape'
  <1>1. /\ UNCHANGED <<plan, progress>>
        /\ indexed' = indexed /\ put' = put /\ told' = told /\ freed' = freed
        /\ ready' = ready /\ window' = window /\ consumed' = consumed
        /\ taken' = [taken EXCEPT ![r] = @ \cup {t}]
    BY DEF Takes
  <1>2. taken' \in [Ranks -> SUBSET {"history", "index", "main", "state"}]
    BY <1>1 DEF Shape
  <1>3. /\ indexed' \in [Ranks -> SUBSET Ranks] /\ put' \in [Ranks -> SUBSET Ranks]
        /\ told' \in [Ranks -> SUBSET Ranks] /\ freed' \in [Ranks -> SUBSET Ranks]
        /\ window' \in [Kinds -> [Ranks -> [WindowCells -> Items]]]
        /\ ready' \in [Kinds -> [Ranks -> [Ranks -> Nat]]]
        /\ consumed' \in [Kinds -> [Ranks -> [Ranks -> Nat]]]
    BY <1>1 DEF Shape
  <1> QED
    BY <1>1, <1>2, <1>3, TasksShape

LEMMA HistoryShape ==
    ASSUME Shape, ControlOK, NEW r \in Ranks, TakeHistory(r)
    PROVE  Shape'
  <1>1. Takes(r, "history") /\ cache' = cache /\ stage[r] = "exchange"
    BY HistoryControl DEF TakeHistory
  <1>2. RootType'
    BY <1>1, TasksBefore, HistoryWrites
  <1>3. CacheType'
    BY <1>1, CacheSame
  <1> QED
    BY <1>1, <1>2, <1>3, TakesShape

\* What the commits of records write.
LEMMA GatherWrites ==
    ASSUME Shape, NEW r \in Ranks, NEW part \in Parts(Kind(r)), layer' = layer,
           root' = [root EXCEPT ![r] = Over(Gathered(r, part), root[r])],
           cache' = Committed(r, Gathered(r, part))
    PROVE  /\ RootGets(r, {part} \X DOMAIN Received(r), Gathered(r, part))
           /\ CacheGets(r, {part} \X DOMAIN Received(r), Gathered(r, part))
  BY GatheredIs, RootWritten, CacheWritten

LEMMA CommitIndexShape ==
    ASSUME Shape, ControlOK, NEW r \in Ranks, CommitIndex(r)
    PROVE  Shape' /\ RootGets(r, {"index"} \X DOMAIN Received(r), Gathered(r, "index"))
                  /\ CacheGets(r, {"index"} \X DOMAIN Received(r), Gathered(r, "index"))
  <1>1. /\ Takes(r, "index") /\ layer' = layer
        /\ root' = [root EXCEPT ![r] = Over(Gathered(r, "index"), root[r])]
        /\ cache' = Committed(r, Gathered(r, "index"))
    BY CommitIndexControl DEF CommitIndex, progress
  <1>2. "index" \in Parts(Kind(r))
    BY DEF CommitIndex, TwoStage, Parts
  <1>3. /\ RootGets(r, {"index"} \X DOMAIN Received(r), Gathered(r, "index"))
        /\ CacheGets(r, {"index"} \X DOMAIN Received(r), Gathered(r, "index"))
    BY <1>1, <1>2, GatherWrites
  <1> QED
    BY <1>1, <1>3, TakesShape DEF RootGets, CacheGets

LEMMA CommitRecordsShape ==
    ASSUME Shape, ControlOK, NEW r \in Ranks, CommitRecords(r)
    PROVE  Shape' /\ RootGets(r, {"main"} \X DOMAIN Received(r), Gathered(r, "main"))
                  /\ CacheGets(r, {"main"} \X DOMAIN Received(r), Gathered(r, "main"))
  <1>1. /\ Takes(r, "main") /\ layer' = layer
        /\ root' = [root EXCEPT ![r] = Over(Gathered(r, "main"), root[r])]
        /\ cache' = Committed(r, Gathered(r, "main"))
    BY CommitRecordsControl DEF CommitRecords, progress
  <1>2. "main" \in Parts(Kind(r))
    BY DEF Parts
  <1>3. /\ RootGets(r, {"main"} \X DOMAIN Received(r), Gathered(r, "main"))
        /\ CacheGets(r, {"main"} \X DOMAIN Received(r), Gathered(r, "main"))
    BY <1>1, <1>2, GatherWrites
  <1> QED
    BY <1>1, <1>3, TakesShape DEF RootGets, CacheGets

LEMMA CommitStateShape ==
    ASSUME Shape, ControlOK, NEW r \in Ranks, CommitState(r)
    PROVE  Shape'
  <1>1. Takes(r, "state") /\ root' = root /\ layer' = layer
    BY CommitStateControl DEF CommitState, progress
  <1>2. RootType' /\ CacheType'
    BY <1>1, RootSame, StateWrites
  <1> QED
    BY <1>1, <1>2, TakesShape

LEMMA BlankIs ==
    ASSUME NEW l \in DOMAIN LayerKinds
    PROVE  /\ Blank(l) \in [Cells(LayerKinds[l]) -> Items]
           /\ \A c \in Cells(LayerKinds[l]) : Blank(l)[c] = Nothing
  BY NothingIs DEF Blank

\* A root replaced by the empty one of another layer.
LEMMA RootBlank ==
    ASSUME Shape, NEW r \in Ranks, NEW l \in DOMAIN LayerKinds,
           root' = [root EXCEPT ![r] = Blank(l)], layer' = [layer EXCEPT ![r] = l]
    PROVE  RootType' /\ root'[r] = Blank(l) /\ \A x \in Ranks \ {r} : root'[x] = root[x]
  <1>1. root = [x \in Ranks |-> root[x]] /\ \A x \in Ranks : root[x] \in [Cells(Kind(x)) -> Items]
    BY DEF Shape
  <1> DEFINE h == Blank(l)
  <1>2. h \in [Cells(LayerKinds[l]) -> Items]
    BY BlankIs
  <1>3. layer \in [Ranks -> DOMAIN LayerKinds]
    BY DEF Shape
  <1>4. \A x \in Ranks : Kind(x)' = IF x = r THEN LayerKinds[l] ELSE Kind(x)
    BY <1>3 DEF Kind
  <1> HIDE DEF h
  <1>5. root' = [x \in Ranks |-> IF x = r THEN h ELSE root[x]]
    BY <1>1 DEF h
  <1>6. root' = [x \in Ranks |-> root'[x]]
    BY <1>5
  <1>7. \A x \in Ranks : root'[x] = IF x = r THEN h ELSE root[x]
    BY <1>5
  <1>8. \A x \in Ranks : root'[x] \in [Cells(Kind(x)') -> Items]
    BY <1>1, <1>2, <1>4, <1>7
  <1> QED
    BY <1>6, <1>7, <1>8 DEF RootType, h

LEMMA NextShape ==
    ASSUME Shape, ControlOK, NEW r \in Ranks, NextPhase(r)
    PROVE  Shape'
  <1>1. /\ plan' = plan /\ request' = request /\ waiting' = waiting /\ retired' = retired
        /\ window' = window /\ ready' = ready /\ consumed' = consumed /\ cache' = cache
        /\ phase[r] \in Nat /\ layer[r] \in DOMAIN LayerKinds
    BY NextFacts DEF Shape
  <1>2. /\ indexed' \in [Ranks -> SUBSET Ranks] /\ put' \in [Ranks -> SUBSET Ranks]
        /\ told' \in [Ranks -> SUBSET Ranks] /\ freed' \in [Ranks -> SUBSET Ranks]
    BY DEF Shape, NextPhase
  <1>3. taken' \in [Ranks -> SUBSET {"history", "index", "main", "state"}]
    BY DEF Shape, NextPhase
  <1>4. CacheType'
    BY <1>1, CacheSame
  <1>5. /\ layer' \in [Ranks -> DOMAIN LayerKinds] /\ phase' \in [Ranks -> Nat]
        /\ stage' \in [Ranks -> {"exchange", "retire", "arrive", "stopped"}]
        /\ RootType'
    <2>1. CASE InHistory(r)
      <3>1. /\ phase' = [phase EXCEPT ![r] = @ + 1] /\ layer' = layer /\ stage' = stage /\ root' = root
        BY <2>1 DEF NextPhase
      <3> QED
        BY <1>1, <3>1, RootSame DEF Shape
    <2>2. CASE ~InHistory(r) /\ layer[r] < Len(LayerKinds)
      <3>1. /\ phase' = [phase EXCEPT ![r] = 0] /\ layer' = [layer EXCEPT ![r] = @ + 1]
            /\ root' = [root EXCEPT ![r] = Blank(layer[r] + 1)] /\ stage' = stage
        BY <2>2 DEF NextPhase
      <3>2. layer[r] + 1 \in DOMAIN LayerKinds
        BY <1>1, <2>2, Sizes
      <3>3. layer' = [layer EXCEPT ![r] = layer[r] + 1]
        BY <3>1
      <3>4. RootType'
        BY <3>1, <3>2, <3>3, RootBlank
      <3> QED
        BY <3>1, <3>2, <3>4 DEF Shape
    <2>3. CASE ~InHistory(r) /\ ~ layer[r] < Len(LayerKinds)
      <3>1. /\ stage' = [stage EXCEPT ![r] = "retire"]
            /\ layer' = layer /\ phase' = phase /\ root' = root
        BY <2>3 DEF NextPhase
      <3> QED
        BY <1>1, <3>1, RootSame DEF Shape
    <2> QED
      BY <2>1, <2>2, <2>3
  <1>6. /\ plan' \in Plans /\ request' \in [Ranks -> 0 .. Requests] /\ waiting' \in [Ranks -> BOOLEAN]
        /\ retired' \in [Ranks -> SUBSET Kinds]
        /\ window' \in [Kinds -> [Ranks -> [WindowCells -> Items]]]
        /\ ready' \in [Kinds -> [Ranks -> [Ranks -> Nat]]]
        /\ consumed' \in [Kinds -> [Ranks -> [Ranks -> Nat]]]
    BY <1>1 DEF Shape
  <1> QED
    BY <1>2, <1>3, <1>4, <1>5, <1>6 DEF Shape, RootType, CacheType

LEMMA RetireShape ==
    ASSUME Shape, ControlOK, NEW r \in Ranks, NEW k \in Kinds, Retire(r, k)
    PROVE  Shape'
  <1>1. /\ UNCHANGED <<plan, request, waiting, layer, phase, stage, indexed, put,
                        told, taken, freed, window, root, cache>>
        /\ retired' = [retired EXCEPT ![r] = @ \cup {k}]
    BY DEF Retire
  <1>2. /\ ready' \in [Kinds -> [Ranks -> [Ranks -> Nat]]]
        /\ consumed' \in [Kinds -> [Ranks -> [Ranks -> Nat]]]
    BY RetireControl
  <1>3. retired' \in [Ranks -> SUBSET Kinds]
    BY <1>1 DEF Shape
  <1>4. RootType' /\ CacheType'
    BY <1>1, RootSame, CacheSame
  <1> QED
    BY <1>1, <1>2, <1>3, <1>4 DEF Shape, RootType, CacheType

LEMMA ArriveShape ==
    ASSUME Shape, ControlOK, NEW r \in Ranks, Arrive(r)
    PROVE  Shape'
  <1>1. /\ UNCHANGED <<plan, layer, phase, stage, indexed, put, told, taken, freed,
                        window, ready, consumed, root, cache, retired>>
        /\ request' = request
    BY ArriveControl DEF Arrive, place
  <1>2. waiting' \in [Ranks -> BOOLEAN]
    BY ArriveControl
  <1>3. RootType' /\ CacheType'
    BY <1>1, RootSame, CacheSame
  <1> QED
    BY <1>1, <1>2, <1>3 DEF Shape, RootType, CacheType

LEMMA LeaveShape ==
    ASSUME Shape, ControlOK, NEW r \in Ranks, Leave(r)
    PROVE  Shape'
  <1>1. /\ UNCHANGED <<plan, indexed, put, told, taken, freed, window, ready, consumed, cache>>
        /\ waiting' = [waiting EXCEPT ![r] = FALSE] /\ request' = [request EXCEPT ![r] = @ + 1]
        /\ request[r] \in 0 .. Requests - 1
    BY LeaveFacts
  <1>2. /\ layer' = [layer EXCEPT ![r] = 1] /\ phase' = [phase EXCEPT ![r] = 0]
        /\ stage' = [stage EXCEPT ![r] = StartStage(request[r] + 1)]
        /\ root' = [root EXCEPT ![r] = Blank(1)] /\ retired' = [retired EXCEPT ![r] = {}]
    BY DEF Leave
  <1>3. 1 \in DOMAIN LayerKinds
    BY Sizes
  <1>4. RootType' /\ CacheType'
    BY <1>1, <1>2, <1>3, RootBlank, CacheSame
  <1>5. StartStage(request[r] + 1) \in {"exchange", "retire", "arrive", "stopped"}
    BY DEF StartStage
  <1>6. request' \in [Ranks -> 0 .. Requests] /\ waiting' \in [Ranks -> BOOLEAN]
    BY <1>1, Sizes DEF Shape
  <1>7. layer' \in [Ranks -> DOMAIN LayerKinds] /\ phase' \in [Ranks -> Nat]
    BY <1>2, <1>3 DEF Shape
  <1>8. stage' \in [Ranks -> {"exchange", "retire", "arrive", "stopped"}]
        /\ retired' \in [Ranks -> SUBSET Kinds]
    BY <1>2, <1>5 DEF Shape
  <1> QED
    BY <1>1, <1>4, <1>6, <1>7, <1>8 DEF Shape, RootType, CacheType

-----------------------------------------------------------------------------
(***************************************************************************)
(* Windows when a rank moves on.                                           *)
(***************************************************************************)

\* Nobody is past a turn that a rank has just entered.
FreshTurns ==
    \A r, p \in Ranks :
        /\ Shape /\ ControlOK
        /\ stage[r] = "exchange" /\ told[r] = {} /\ indexed[r] = {} /\ freed[r] = {}
        => ~Past(p, r)

LEMMA FreshTurn == FreshTurns
  <1> SUFFICES ASSUME NEW r \in Ranks, NEW p \in Ranks, Shape, ControlOK, stage[r] = "exchange",
                      told[r] = {}, indexed[r] = {}, freed[r] = {}, Past(p, r)
               PROVE  FALSE
    BY DEF FreshTurns
  <1>1. PositionAt(r) /\ PositionAt(p)
    BY DEF ControlOK
  <1>2. layer[r] \in Int /\ phase[r] \in Nat /\ Kind(r) \in Kinds /\ request[r] \in 0 .. Requests - 1
    BY <1>1, Where
  <1>3. p # r
    BY <1>2 DEF Past
  <1> DEFINE k == Kind(r)
             u == Unit(k)
             a == Done(k, r)
             b == Done(k, p)
             t == Cardinality(LayersOf(k)) * Turns(k, request[r])
  <1>4. a \in Nat /\ b \in Nat /\ a + 1 <= b
    BY <1>1, <1>2, DoneType, DoneOrder
  <1>5. u \in {1, 2}
    BY <1>2, UnitIs
  <1>6. t \in Nat /\ a + 1 <= t
    <2>1. Before(k, layer[r] + 1) * Turns(k, request[r]) <= t /\ t \in Nat
          /\ Before(k, layer[r] + 1) * Turns(k, request[r]) \in Nat
      <3>1. layer[r] + 1 \in Int /\ layer[r] < layer[r] + 1
        BY <1>2
      <3> QED
        BY <1>1, <1>2, <3>1, DoneBound
    <2>2. a + 1 <= Before(k, layer[r] + 1) * Turns(k, request[r])
      BY <1>1, <1>2, DoneBetween
    <2> DEFINE m == Before(k, layer[r] + 1) * Turns(k, request[r])
    <2> HIDE DEF m, t, a
    <2> QED
      BY <1>4, <2>1, <2>2 DEF m
  <1>7. Using(k, r) /\ Now(r, p) = 0 /\ request[p] = request[r]
    BY DEF Using, Now, Past
  <1>8. Sent(k, r, p) = u * a + 0 /\ Given(k, r, p) = u * a + 0
    BY <1>7 DEF Sent, Given
  <1>9. r \in Peers(p) /\ p \in Peers(r)
    BY <1>3 DEF Peers
  <1>10. CASE k \in retired[p]
    <2>1. Given(k, r, p) >= u * t
      BY <1>7, <1>9, <1>10 DEF ControlOK, Settled
    <2> HIDE DEF a, b, t, u, k
    <2> QED
      BY <1>4, <1>5, <1>6, <1>8, <2>1, Scaled
  <1>11. CASE k \notin retired[p]
    <2>1. ready[k][p][r] >= u * b
      BY <1>2, <1>9, <1>11 DEF ControlOK, Heard
    <2>2. ready[k][p][r] = Sent(k, r, p)
      <3>1. ~Silent(k, p, r)
        BY <1>2, <1>7, <1>11 DEF Silent
      <3> QED
        BY <1>2, <1>3, <3>1 DEF ControlOK, CreditsOK
    <2> HIDE DEF a, b, t, u, k
    <2> QED
      BY <1>4, <1>5, <1>8, <2>1, <2>2, Scaled
  <1> QED
    BY <1>10, <1>11

LEMMA FreshTurnNext == FreshTurns'
  BY FreshTurn, PTL

LEMMA ApartPresent ==
    ASSUME Shape, Present, Remaining, NEW r \in Ranks, Apart(r), window' = window,
           indexed'[r] = {}, put'[r] = {},
           \A p \in Ranks \ {r} : stage[p] = "exchange" /\ HasRead(r, p) => HasRead(r, p)',
           \A p \in Ranks : ~Past(p, r)',
           \A y \in Ranks \ {r} : Past(r, y)' /\ ~Finished(y) =>
             /\ TwoStage(y) => RowsHeld(request[y], layer[y], r, {"index", "meta"}, y)
             /\ PutHeld(request[y], layer[y], phase[y], r, y)
    PROVE  Present' /\ Remaining'
  <1>0. plan' = plan
    BY DEF Apart
  <1>1. \A x \in Ranks \ {r} :
          /\ request'[x] = request[x] /\ layer'[x] = layer[x] /\ phase'[x] = phase[x]
          /\ stage'[x] = stage[x] /\ indexed'[x] = indexed[x] /\ put'[x] = put[x]
          /\ Finished(x)' = Finished(x) /\ TwoStage(x)' = TwoStage(x)
    BY ApartKeeps DEF Apart
  <1>2. \A x, y \in Ranks \ {r} : Past(x, y)' = Past(x, y) /\ SameTurn(x, y)' = SameTurn(x, y)
                                  /\ HasRead(x, y)' = HasRead(x, y)
    BY <1>1 DEF Past, SameTurn, HasRead
  <1>3. ASSUME NEW p \in Ranks, NEW y \in Ranks
        PROVE  PresentAt(p, y)'
    <2>1. CASE p = r
      BY <2>1 DEF PresentAt
    <2>2. CASE p # r
      <3> SUFFICES ASSUME stage[p] = "exchange", ~HasRead(y, p)
                   PROVE  /\ y \in indexed[p] =>
                               RowsHeld(request[p], layer[p], p, {"index", "meta"}, y)'
                          /\ y \in put[p] => PutHeld(request[p], layer[p], phase[p], p, y)'
        BY <1>1, <1>2, <2>2 DEF PresentAt
      <3>1. /\ y \in indexed[p] => RowsHeld(request[p], layer[p], p, {"index", "meta"}, y)
            /\ y \in put[p] => PutHeld(request[p], layer[p], phase[p], p, y)
        BY DEF Present
      <3>2. ASSUME NEW q, q = request[p], NEW l, l = layer[p], NEW f, f = phase[p]
            PROVE  /\ y \in indexed[p] => RowsHeld(q, l, p, {"index", "meta"}, y)'
                   /\ y \in put[p] => PutHeld(q, l, f, p, y)'
        BY <1>0, <3>1, <3>2, WindowSame
      <3>3. request'[p] = request[p] /\ layer'[p] = layer[p] /\ phase'[p] = phase[p]
        BY <1>1, <2>2
      <3> QED
        BY <3>2, <3>3
    <2> QED
      BY <2>1, <2>2
  <1>4. ASSUME NEW p \in Ranks, NEW y \in Ranks
        PROVE  RemainingAt(p, y)'
    <2>1. CASE y = r
      BY <2>1 DEF RemainingAt
    <2>2. CASE y # r
      <3> SUFFICES ASSUME Past(p, y)', ~Finished(y)
                   PROVE  /\ TwoStage(y) =>
                               RowsHeld(request[y], layer[y], p, {"index", "meta"}, y)'
                          /\ PutHeld(request[y], layer[y], phase[y], p, y)'
        BY <1>1, <2>2 DEF RemainingAt
      <3>1. /\ TwoStage(y) => RowsHeld(request[y], layer[y], p, {"index", "meta"}, y)
            /\ PutHeld(request[y], layer[y], phase[y], p, y)
        <4>1. CASE p = r
          BY <2>2, <4>1
        <4>2. CASE p # r
          <5>1. Past(p, y)
            BY <1>2, <2>2, <4>2
          <5> QED
            BY <5>1 DEF Remaining
        <4> QED
          BY <4>1, <4>2
      <3>2. ASSUME NEW q, q = request[y], NEW l, l = layer[y], NEW f, f = phase[y]
            PROVE  /\ TwoStage(y) => RowsHeld(q, l, p, {"index", "meta"}, y)'
                   /\ PutHeld(q, l, f, p, y)'
        BY <1>0, <3>1, <3>2, WindowSame
      <3>3. request'[y] = request[y] /\ layer'[y] = layer[y] /\ phase'[y] = phase[y]
        BY <1>1, <2>2
      <3> QED
        BY <3>2, <3>3
    <2> QED
      BY <2>1, <2>2
  <1> QED
    BY <1>3, <1>4 DEF Present, Remaining, PresentAt, RemainingAt

LEMMA NextPresent ==
    ASSUME Shape, ControlOK, Present, Remaining, NEW r \in Ranks, NextPhase(r)
    PROVE  Present' /\ Remaining'
  <1>1. /\ Apart(r) /\ stage[r] = "exchange" /\ TasksAt(r) /\ PositionAt(r)
        /\ request' = request /\ plan' = plan /\ window' = window
        /\ indexed'[r] = {} /\ put'[r] = {} /\ told'[r] = {} /\ freed'[r] = {}
        /\ (Publishes(r) => put[r] = Ranks) /\ (TwoStage(r) => indexed[r] = Ranks)
        /\ request[r] \in 0 .. Requests - 1
    BY NextFacts
  <1>2. Shape' /\ ControlOK'
    BY NextShape, NextControl
  <1>3. layer[r] \in Int /\ phase[r] \in Nat
    BY <1>1, Where
  <1>4. \/ stage'[r] = "exchange" /\ layer'[r] = layer[r] /\ phase'[r] = phase[r] + 1
        \/ stage'[r] = "exchange" /\ layer'[r] = layer[r] + 1 /\ phase'[r] = 0
        \/ stage'[r] = "retire" /\ layer'[r] = layer[r] /\ phase'[r] = phase[r]
    BY NextPlace
  <1>5. \A p \in Ranks \ {r} : /\ request'[p] = request[p] /\ stage'[p] = stage[p]
                               /\ layer'[p] = layer[p] /\ phase'[p] = phase[p]
                               /\ layer[p] \in Int /\ phase[p] \in Nat /\ request[p] \in Int
    BY <1>1, Sizes DEF Apart, Shape
  <1>6. ASSUME NEW p \in Ranks \ {r}, stage[p] = "exchange", HasRead(r, p)
        PROVE  HasRead(r, p)'
    <2>1. Past(r, p)'
      BY <1>1, <1>3, <1>4, <1>5, <1>6 DEF HasRead, Past, SameTurn
    <2> QED
      BY <2>1 DEF HasRead
  <1>7. ASSUME NEW p \in Ranks
        PROVE  ~Past(p, r)'
    <2>1. CASE stage'[r] = "exchange"
      BY <1>1, <1>2, <2>1, FreshTurnNext DEF FreshTurns
    <2>2. CASE stage'[r] # "exchange"
      BY <2>2 DEF Past
    <2> QED
      BY <2>1, <2>2
  <1>8. ASSUME NEW y \in Ranks \ {r}, Past(r, y)', ~Finished(y)
        PROVE  /\ TwoStage(y) => RowsHeld(request[y], layer[y], r, {"index", "meta"}, y)
               /\ PutHeld(request[y], layer[y], phase[y], r, y)
    <2>1. Past(r, y) \/ SameTurn(r, y)
      <3>1. /\ stage[y] = "exchange" /\ request[r] = request[y]
            /\ \/ stage'[r] = "retire"
               \/ layer'[r] > layer[y]
               \/ layer'[r] = layer[y] /\ phase'[r] > phase[y]
        BY <1>1, <1>5, <1>8 DEF Past
      <3>2. ASSUME layer[r] = layer[y], ~InHistory(r)
            PROVE  phase[y] <= phase[r]
        <4>1. /\ phase[y] <= HistoryPhases(Kind(y), request[y])
              /\ phase[r] = HistoryPhases(Kind(r), request[r])
          BY <3>1, <3>2, NextPlace DEF ControlOK, PositionAt
        <4>2. Kind(y) = Kind(r)
          BY <3>2 DEF Kind
        <4> QED
          BY <3>1, <4>1, <4>2
      <3>3. ~InHistory(r) => layer[y] <= layer[r] \/ (layer'[r] = layer[r] + 1 /\ phase'[r] = 0)
        <4>1. layer[y] <= Len(LayerKinds)
          BY Sizes DEF Shape
        <4> QED
          BY <4>1, NextPlace
      <3>4. InHistory(r) => stage'[r] = "exchange" /\ layer'[r] = layer[r] /\ phase'[r] = phase[r] + 1
        BY NextPlace
      <3> QED
        BY <1>1, <1>3, <1>4, <1>5, <3>1, <3>2, <3>3, <3>4 DEF Past, SameTurn
    <2>2. CASE Past(r, y)
      BY <1>8, <2>2 DEF Remaining
    <2>3. CASE SameTurn(r, y)
      <3>1. /\ request[r] = request[y] /\ layer[r] = layer[y] /\ phase[r] = phase[y]
            /\ TwoStage(r) = TwoStage(y) /\ InHistory(r) = InHistory(y) /\ Kind(r) = Kind(y)
        BY <2>3, SameTurnIs
      <3>2. ~HasRead(y, r)
        <4>1. ~Past(y, r)
          BY <1>3, <1>5, <2>3 DEF Past, SameTurn
        <4> QED
          BY <1>8, <4>1 DEF HasRead
      <3>3. TwoStage(y) => RowsHeld(request[y], layer[y], r, {"index", "meta"}, y)
        BY <1>1, <3>1, <3>2 DEF Present
      <3>4. PutHeld(request[y], layer[y], phase[y], r, y)
        <4>1. CASE Publishes(r)
          BY <1>1, <3>1, <3>2, <4>1 DEF Present
        <4>2. CASE ~Publishes(r)
          <5>1. InHistory(y) /\ r # Owner(request[y])
            BY <3>1, <4>2 DEF Publishes
          <5> QED
            BY <5>1 DEF PutHeld, InHistory, Kind
        <4> QED
          BY <4>1, <4>2
      <3> QED
        BY <3>3, <3>4
    <2> QED
      BY <2>1, <2>2, <2>3
  <1> QED
    BY <1>1, <1>6, <1>7, <1>8, ApartPresent

LEMMA LeavePresent ==
    ASSUME Shape, ControlOK, Present, Remaining, NEW r \in Ranks, Leave(r)
    PROVE  Present' /\ Remaining'
  <1>1. /\ Apart(r) /\ waiting[r] /\ request[r] \in 0 .. Requests - 1
        /\ request'[r] = request[r] + 1 /\ layer'[r] = 1 /\ phase'[r] = 0
        /\ stage'[r] = StartStage(request[r] + 1)
        /\ indexed[r] = {} /\ put[r] = {} /\ told[r] = {} /\ freed[r] = {}
        /\ UNCHANGED <<indexed, put, told, taken, freed, window>>
        /\ \A x \in Ranks : /\ request[x] \in Int
                            /\ \/ request[x] = request[r] /\ waiting[x]
                               \/ request[x] = request[r] + 1
    BY LeaveFacts
  <1>2. Shape' /\ ControlOK'
    BY LeaveShape, LeaveControl
  <1>3. \A p \in Ranks \ {r} : /\ request'[p] = request[p] /\ stage'[p] = stage[p]
                               /\ layer'[p] = layer[p] /\ phase'[p] = phase[p]
                               /\ layer[p] \in Nat /\ layer[p] >= 1 /\ phase[p] \in Nat
    BY <1>1, Sizes DEF Apart, Shape
  <1>4. stage'[r] # "retire"
    BY <1>1 DEF StartStage
  <1>5. \A p \in Ranks : waiting[p] => stage[p] # "exchange"
    BY DEF ControlOK, PositionAt
  <1>6. \A p \in Ranks \ {r} : stage[p] = "exchange" => ~HasRead(r, p)
    <2> SUFFICES ASSUME NEW p \in Ranks \ {r}, stage[p] = "exchange", HasRead(r, p) PROVE FALSE
      OBVIOUS
    <2>1. request[r] = request[p]
      BY DEF HasRead, Past, SameTurn
    <2>2. request[p] = request[r] + 1
      BY <1>1, <1>5
    <2> QED
      BY <1>1, <2>1, <2>2
  <1>7. ASSUME NEW p \in Ranks
        PROVE  ~Past(p, r)'
    <2>1. CASE stage'[r] = "exchange"
      BY <1>1, <1>2, <2>1, FreshTurnNext DEF FreshTurns
    <2>2. CASE stage'[r] # "exchange"
      BY <2>2 DEF Past
    <2> QED
      BY <2>1, <2>2
  <1>8. \A y \in Ranks \ {r} : ~Past(r, y)'
    <2> SUFFICES ASSUME NEW y \in Ranks \ {r}, Past(r, y)' PROVE FALSE
      OBVIOUS
    <2>1. layer'[r] > layer'[y] \/ (layer'[r] = layer'[y] /\ phase'[r] > phase'[y])
      BY <1>4 DEF Past
    <2> QED
      BY <1>1, <1>3, <2>1
  <1> QED
    BY <1>1, <1>6, <1>7, <1>8, ApartPresent

-----------------------------------------------------------------------------
(***************************************************************************)
(* What a window holds when its reader reads it.                           *)
(***************************************************************************)

\* Rows of the ranks that a reader has heard from.
LEMMA RowsFrom ==
    ASSUME Shape, ControlOK, Present, Remaining, NEW r \in Ranks, NEW p \in Ranks,
           stage[r] = "exchange", ~Finished(r),
           \/ Past(p, r)
           \/ /\ SameTurn(p, r) /\ (Publishes(p) => r \in put[p])
              /\ TwoStage(p) => r \in indexed[p]
    PROVE  /\ PutHeld(request[r], layer[r], phase[r], p, r)
           /\ TwoStage(r) => RowsHeld(request[r], layer[r], p, {"index", "meta"}, r)
  <1>1. CASE Past(p, r)
    BY <1>1 DEF Remaining
  <1>2. CASE SameTurn(p, r) /\ (Publishes(p) => r \in put[p]) /\ (TwoStage(p) => r \in indexed[p])
    <2>1. /\ request[p] = request[r] /\ layer[p] = layer[r] /\ phase[p] = phase[r]
          /\ TwoStage(p) = TwoStage(r) /\ InHistory(p) = InHistory(r) /\ Kind(p) = Kind(r)
          /\ stage[p] = "exchange"
      BY <1>2, SameTurnIs DEF SameTurn
    <2>2. ~HasRead(r, p)
      <3>1. layer[r] \in Int /\ phase[r] \in Nat
        BY Sizes DEF Shape
      <3> QED
        BY <2>1, <3>1 DEF HasRead, Past
    <2>3. TwoStage(r) => RowsHeld(request[r], layer[r], p, {"index", "meta"}, r)
      BY <1>2, <2>1, <2>2 DEF Present
    <2>4. PutHeld(request[r], layer[r], phase[r], p, r)
      <3>1. CASE Publishes(p)
        BY <1>2, <2>1, <2>2, <3>1 DEF Present
      <3>2. CASE ~Publishes(p)
        <4>1. InHistory(r) /\ p # Owner(request[r])
          BY <2>1, <3>2 DEF Publishes
        <4> QED
          BY <4>1 DEF PutHeld, InHistory, Kind
      <3> QED
        BY <3>1, <3>2
    <2> QED
      BY <2>3, <2>4
  <1> QED
    BY <1>1, <1>2

\* Once all have announced all, everything of the turn is there.
LEMMA AllHeld ==
    ASSUME Shape, ControlOK, Present, Remaining, NEW r \in Ranks, stage[r] = "exchange",
           ~Finished(r), Publishes(r) => put[r] = Ranks,
           \A y \in Peers(r) :
             ready[Kind(r)][r][y] >= Unit(Kind(r)) * Done(Kind(r), r) + Unit(Kind(r)),
           NEW p \in Ranks
    PROVE  /\ PutHeld(request[r], layer[r], phase[r], p, r)
           /\ TwoStage(r) => RowsHeld(request[r], layer[r], p, {"index", "meta"}, r)
  <1>1. PositionAt(r) /\ TasksAt(r)
    BY TasksBefore
  <1>2. Kind(r) \in Kinds /\ Unit(Kind(r)) \in {1, 2} /\ layer[r] \in Int /\ phase[r] \in Nat
    BY <1>1, Where, UnitIs
  <1>3. CASE p = r
    <2>1. SameTurn(p, r)
      BY <1>3 DEF SameTurn
    <2>2. TwoStage(p) => r \in indexed[p]
      BY <1>1, <1>3, PeersExist DEF TasksAt, TwoStage, Publishes
    <2> QED
      BY <1>3, <2>1, <2>2, RowsFrom
  <1>4. CASE p # r
    <2>1. \/ Past(p, r)
          \/ SameTurn(p, r) /\ Now(p, r) >= Unit(Kind(r))
      <3>1. p \in Peers(r) /\ Unit(Kind(r)) \in {1, Unit(Kind(r))}
        BY <1>4 DEF Peers
      <3> QED
        BY <1>4, <3>1, HeardFrom
    <2>2. CASE SameTurn(p, r) /\ Now(p, r) >= Unit(Kind(r))
      <3>1. Kind(p) = Kind(r) /\ stage[p] = "exchange"
        BY <2>2, SameTurnIs DEF SameTurn
      <3>2. r \in told[p]
        BY <1>2, <2>2, <3>1, NowIs
      <3>3. TasksAt(p)
        BY <3>1, TasksBefore
      <3>4. Publishes(p) => r \in put[p]
        BY <3>2, <3>3 DEF TasksAt
      <3>5. TwoStage(p) => r \in indexed[p]
        <4>1. TwoStage(p) => Publishes(p)
          BY DEF TwoStage, Publishes
        <4> QED
          BY <3>3, <3>4, <4>1 DEF TasksAt
      <3> QED
        BY <2>2, <3>4, <3>5, RowsFrom
    <2> QED
      BY <2>1, <2>2, RowsFrom
  <1> QED
    BY <1>3, <1>4

\* Once all have announced their index blocks, the index records are there.
LEMMA IndexHeld ==
    ASSUME Shape, ControlOK, Present, Remaining, NEW r \in Ranks, stage[r] = "exchange",
           ~Finished(r), TwoStage(r), indexed[r] = Ranks,
           \A y \in Peers(r) : ready[Kind(r)][r][y] >= Unit(Kind(r)) * Done(Kind(r), r) + 1,
           NEW p \in Ranks
    PROVE  RowsHeld(request[r], layer[r], p, {"index", "meta"}, r)
  <1>1. layer[r] \in Int /\ phase[r] \in Nat
    BY Sizes DEF Shape
  <1>2. CASE Past(p, r)
    BY <1>2 DEF Remaining
  <1>3. CASE SameTurn(p, r) /\ r \in indexed[p]
    <2>1. request[p] = request[r] /\ layer[p] = layer[r] /\ phase[p] = phase[r]
          /\ stage[p] = "exchange"
      BY <1>3 DEF SameTurn
    <2>2. ~HasRead(r, p)
      BY <1>1, <2>1 DEF HasRead, Past
    <2> QED
      BY <1>3, <2>1, <2>2 DEF Present
  <1>4. Past(p, r) \/ (SameTurn(p, r) /\ r \in indexed[p])
    <2>1. CASE p = r
      BY <2>1 DEF SameTurn
    <2>2. CASE p # r
      <3>1. p \in Peers(r) /\ 1 \in {1, Unit(Kind(r))}
        BY <2>2 DEF Peers
      <3>2. Past(p, r) \/ (SameTurn(p, r) /\ Now(p, r) >= 1)
        BY <2>2, <3>1, HeardFrom
      <3>3. ASSUME SameTurn(p, r), Now(p, r) >= 1
            PROVE  r \in indexed[p]
        <4>1. TwoStage(p) /\ stage[p] = "exchange" /\ Kind(p) = Kind(r)
          BY <3>3, SameTurnIs DEF SameTurn
        <4>2. TasksAt(p) /\ PositionAt(p)
          BY <4>1, TasksBefore
        <4>3. Kind(p) \in Kinds
          BY <4>2, Where
        <4>4. r \in told[p] => r \in indexed[p]
          BY <4>1, <4>2 DEF TasksAt, TwoStage, Publishes
        <4> QED
          BY <3>3, <4>3, <4>4, NowIs
      <3> QED
        BY <3>2, <3>3
    <2> QED
      BY <2>1, <2>2
  <1> QED
    BY <1>2, <1>3, <1>4

\* The rows of the whole group.
RowsIn(q, l, part, r) == \A p \in Ranks : RowsHeld(q, l, p, {part, "meta"}, r)

\* The token that completes a record.
LEMMA SlotRow ==
    ASSUME NEW b \in Nat, NEW e \in Nat, NEW g \in Nat \ {0}, NEW n \in Nat,
           b \div g <= n, n < e \div g
    PROVE  LET m == (n + 1) * g
           IN  m \in Int /\ m > b /\ m <= e /\ m \div g = n + 1 /\ m % g = 0
  <1> DEFINE x == b \div g
             y == e \div g
             z == b % g
             w == e % g
             m == (n + 1) * g
  <1>1. /\ x \in Int /\ y \in Int /\ b = x * g + z /\ z \in 0 .. g - 1
        /\ e = y * g + w /\ w \in 0 .. g - 1
    BY DivMod
  <1>2. x <= n /\ n + 1 <= y
    BY <1>1
  <1> HIDE DEF x, y, z, w
  <1>3. /\ x * g <= n * g /\ (n + 1) * g <= y * g /\ (n + 1) * g = n * g + g
    BY <1>1, <1>2, Monotone, Successor
  <1>4. x * g \in Int /\ y * g \in Int /\ n * g \in Int
    BY <1>1
  <1>5. m \in Int /\ m > b /\ m <= e
    BY <1>1, <1>3, <1>4
  <1>6. m = (n + 1) * g + 0 /\ 0 \in 0 .. g - 1 /\ n + 1 \in Int
    BY <1>5
  <1> HIDE DEF m
  <1>7. m \div g = n + 1 /\ m % g = 0
    BY <1>5, <1>6, Divided
  <1> QED
    BY <1>5, <1>7 DEF m

\* The records that a reader finds are those of the chunk, in their slots.
LEMMA GatheredExact ==
    ASSUME Shape, NEW r \in Ranks, PositionAt(r), stage[r] = "exchange",
           NEW part \in {"main", "index"}, RowsIn(request[r], layer[r], part, r),
           NEW n \in Slots(Kind(r))
    PROVE  LET q == request[r]
               ratio == Ratio[Kind(r)]
           IN  IF Base(q) \div ratio <= n /\ n < End(q) \div ratio
               THEN /\ n \in DOMAIN Received(r)
                    /\ window[Kind(r)][r][<<part, Received(r)[n]>>] = Item(Owner(q), layer[r], part, n)
               ELSE n \notin DOMAIN Received(r)
  <1> DEFINE q == request[r]
             l == layer[r]
             k == Kind(r)
             ratio == Ratio[k]
             o == Owner(q)
             held == window[k][r]
             b == Base(q)
             e == End(q)
  <1>1. /\ q \in 0 .. Requests - 1 /\ l \in DOMAIN LayerKinds /\ k \in Kinds
        /\ k = LayerKinds[l] /\ plan \in Plans
    BY Where DEF Kind
  <1>2. /\ b \in Nat /\ e \in Nat /\ e = b + plan[q].length /\ plan[q].length \in 0 .. NumSegments
        /\ ratio \in Nat \ {0} /\ n \in Nat
    <2>1. b \in Nat /\ e \in Nat /\ e = b + plan[q].length /\ plan[q].length \in 0 .. NumSegments
      BY <1>1, PlanAt
    <2>2. ratio \in Nat \ {0} /\ n \in Nat
      BY <1>1, Sizes DEF Slots
    <2> QED
      BY <2>1, <2>2
  <1>3. ASSUME NEW i \in Lanes, MetaAt(r, i, n)
        PROVE  /\ b \div ratio <= n /\ n < e \div ratio
               /\ held[<<part, i>>] = Item(o, l, part, n)
    <2>1. PICK p \in Ranks : i \in OwnLanes(p)
      BY LaneOwner
    <2>2. /\ held[<<"meta", i>>] = Row(q, l, p, "meta", i)
          /\ held[<<part, i>>] = Row(q, l, p, part, i)
      BY <1>1, <2>1 DEF RowsIn, RowsHeld
    <2>3. held[<<"meta", i>>] # Nothing /\ held[<<"meta", i>>].at = n
      BY <1>3 DEF MetaAt
    <2> DEFINE m == b + LocalSegment(p, i - 2 * p) + 1
               d == m \div ratio - 1
    <2>4. IF m <= e /\ m % ratio = 0
          THEN /\ d \in Slots(k) /\ d >= b \div ratio /\ d < e \div ratio
               /\ Row(q, l, p, "meta", i) = Item(o, l, "meta", d)
          ELSE Row(q, l, p, "meta", i) = Nothing
      BY <1>1, <2>1, RowIs
    <2>5. IF m <= e /\ m % ratio = 0
          THEN Row(q, l, p, part, i) = Item(o, l, part, d)
          ELSE Row(q, l, p, part, i) = Nothing
      BY <1>1, <2>1, RowIs
    <2> HIDE DEF m, d
    <2>6. m <= e /\ m % ratio = 0
      BY <2>2, <2>3, <2>4
    <2>7. d = n
      <3>1. Item(o, l, "meta", d).at = d
        BY ItemsDiffer
      <3> QED
        BY <2>2, <2>3, <2>4, <2>6, <3>1
    <2> QED
      BY <2>2, <2>4, <2>5, <2>6, <2>7
  <1>4. ASSUME b \div ratio <= n, n < e \div ratio
        PROVE  \E i \in Lanes : MetaAt(r, i, n)
    <2> DEFINE m == (n + 1) * ratio
               s == m - b - 1
    <2>2. m \in Int /\ m > b /\ m <= e /\ m \div ratio = n + 1 /\ m % ratio = 0
      <3>1. b \in Nat /\ e \in Nat /\ ratio \in Nat \ {0} /\ n \in Nat
            /\ b \div ratio <= n /\ n < e \div ratio
        BY <1>2, <1>4
      <3> HIDE DEF b, e, ratio
      <3> QED
        BY <3>1, SlotRow
    <2> HIDE DEF m
    <2>4. s \in Segments /\ b + s + 1 = m
      <3>1. plan[q].length \in Int /\ plan[q].length <= NumSegments /\ NumSegments \in Nat
        BY <1>2, Sizes
      <3> HIDE DEF b, e
      <3> QED
        BY <1>2, <2>2, <3>1 DEF Segments
    <2> DEFINE p == OwnerRank(s)
               i == ReverseIndex(s)
    <2>5. p \in Ranks /\ i \in OwnLanes(p) /\ LocalSegment(p, i - 2 * p) = s
      BY <2>4, LaneOfSegment
    <2> HIDE DEF s, p, i
    <2>6. Row(q, l, p, "meta", i) = Item(o, l, "meta", m \div ratio - 1)
      <3>1. b + LocalSegment(p, i - 2 * p) + 1 = m
        BY <2>4, <2>5
      <3> QED
        BY <1>1, <2>2, <2>5, <3>1 DEF Row
    <2>7. m \div ratio - 1 = n
      <3> HIDE DEF ratio
      <3> QED
        BY <1>2, <2>2
    <2>8. held[<<"meta", i>>] = Item(o, l, "meta", n)
      BY <1>1, <2>5, <2>6, <2>7 DEF RowsIn, RowsHeld
    <2>9. Item(o, l, "meta", n) # Nothing /\ Item(o, l, "meta", n).at = n
      BY ItemsDiffer DEF Nothing
    <2>10. i \in Lanes
      BY <2>5, LanesOwn
    <2> QED
      BY <2>8, <2>9, <2>10 DEF MetaAt
  <1>5. n \in DOMAIN Received(r) <=> \E i \in Lanes : MetaAt(r, i, n)
    BY ReceivedIs
  <1>6. n \in DOMAIN Received(r) => Received(r)[n] \in Lanes /\ MetaAt(r, Received(r)[n], n)
    BY ReceivedIs
  <1> QED
    BY <1>3, <1>4, <1>5, <1>6

-----------------------------------------------------------------------------
(***************************************************************************)
(* Roots.                                                                  *)
(***************************************************************************)

\* What RootOK says of r.
RowsRoot(r) ==
    \A part \in Parts(Kind(r)), n \in Slots(Kind(r)) :
        root[r][<<part, n>>] =
            IF n < RootRows(r, part) THEN Item(Owner(request[r]), layer[r], part, n) ELSE Nothing

TailsRoot(r) ==
    Base(request[r]) > 0 /\ (phase[r] > 0 \/ taken[r] # {}) =>
        /\ root[r][<<"state", 0>>] = Item(Owner(request[r]), layer[r], "state", Base(request[r]))
        /\ root[r][<<"raw", 0>>] = Item(Owner(request[r]), layer[r], "raw", Base(request[r]))

LEMMA RootParts == RootOK <=> \A r \in Ranks : stage[r] = "exchange" => RowsRoot(r) /\ TailsRoot(r)
  BY DEF RootOK, RowsRoot, TailsRoot

LEMMA RootPartsNext ==
    RootOK' <=> \A r \in Ranks : stage'[r] = "exchange" => RowsRoot(r)' /\ TailsRoot(r)'
  BY DEF RootOK, RowsRoot, TailsRoot

\* A rank that neither moves nor takes keeps its root.
LEMMA RootKept ==
    ASSUME plan' = plan, NEW x \in Ranks, request'[x] = request[x], layer'[x] = layer[x],
           phase'[x] = phase[x], taken'[x] = taken[x], root'[x] = root[x]
    PROVE  RowsRoot(x)' = RowsRoot(x) /\ TailsRoot(x)' = TailsRoot(x)
  <1>1. /\ \A q : Base(q)' = Base(q) /\ End(q)' = End(q)
        /\ \A k, q : HistoryRows(k, q)' = HistoryRows(k, q) /\ HistoryPhases(k, q)' = HistoryPhases(k, q)
    BY SamePlan
  <1>2. Kind(x)' = Kind(x)
    BY DEF Kind
  <1>3. InHistory(x)' = InHistory(x) /\ Streaming(x)' = Streaming(x)
    BY <1>1, <1>2 DEF InHistory, Streaming
  <1>4. \A part : RootRows(x, part)' = RootRows(x, part)
    BY <1>1, <1>2, <1>3 DEF RootRows
  <1>5. RowsRoot(x)' = RowsRoot(x)
    BY <1>2, <1>4 DEF RowsRoot
  <1>6. TailsRoot(x)' = TailsRoot(x)
    BY <1>1 DEF TailsRoot
  <1> QED
    BY <1>5, <1>6

\* Steps that leave places, reads and roots alone.
LEMMA StillRoot ==
    ASSUME RootOK, UNCHANGED <<place, taken, root>>
    PROVE  RootOK'
  <1>1. /\ plan' = plan /\ request' = request /\ layer' = layer /\ phase' = phase /\ stage' = stage
        /\ taken' = taken /\ root' = root
    BY DEF place
  <1>2. ASSUME NEW x \in Ranks, stage'[x] = "exchange"
        PROVE  RowsRoot(x)' /\ TailsRoot(x)'
    BY <1>1, <1>2, RootParts, RootKept
  <1> QED
    BY <1>2, RootPartsNext

\* r takes t, and the others nothing.
LEMMA TakesRoot ==
    ASSUME Shape, RootOK, NEW r \in Ranks, NEW t, Takes(r, t),
           \A x \in Ranks \ {r} : root'[x] = root[x],
           RowsRoot(r)' /\ TailsRoot(r)'
    PROVE  RootOK'
  <1>1. /\ plan' = plan /\ request' = request /\ layer' = layer /\ phase' = phase /\ stage' = stage
        /\ taken' = [taken EXCEPT ![r] = @ \cup {t}]
    BY DEF Takes, progress
  <1>2. \A x \in Ranks \ {r} : taken'[x] = taken[x]
    BY <1>1 DEF Shape
  <1>3. ASSUME NEW x \in Ranks \ {r}, stage'[x] = "exchange"
        PROVE  RowsRoot(x)' /\ TailsRoot(x)'
    BY <1>1, <1>2, <1>3, RootParts, RootKept
  <1> QED
    BY <1>3, RootPartsNext

LEMMA HistoryRoot ==
    ASSUME Shape, ControlOK, Present, Remaining, RootOK, NEW r \in Ranks, TakeHistory(r)
    PROVE  RootOK'
  <1> DEFINE q == request[r]
             l == layer[r]
             f == phase[r]
             k == Kind(r)
             o == Owner(q)
             held == window[k][r]
  <1>1. /\ stage[r] = "exchange" /\ InHistory(r) /\ taken[r] = {} /\ Complete(r)
        /\ Takes(r, "history") /\ taken'[r] = {"history"}
    BY HistoryControl DEF TakeHistory, Shape
  <1>2. PositionAt(r) /\ TasksAt(r)
    BY <1>1, TasksBefore
  <1>3. /\ q \in 0 .. Requests - 1 /\ l \in DOMAIN LayerKinds /\ k \in Kinds /\ f \in Nat
        /\ k = LayerKinds[l] /\ plan \in Plans /\ o \in Ranks
    BY <1>1, <1>2, Where, OwnerIs, Sizes DEF Kind
  <1>4. PutHeld(q, l, f, o, r)
    <2>1. Announced(r, Unit(k)) /\ told[r] = Peers(r) /\ ~Finished(r)
      BY <1>1 DEF Complete, Finished
    <2>2. \A y \in Peers(r) : ready[k][r][y] >= Unit(k) * Done(k, r) + Unit(k)
      BY <1>1, <2>1, AnnouncedIs
    <2>3. Publishes(r) => put[r] = Ranks
      BY <1>1, <1>2, <2>1, PeersExist DEF TasksAt, TwoStage
    <2> QED
      BY <1>1, <1>3, <2>1, <2>2, <2>3, AllHeld
  <1>5. /\ f = 0 => TailsHeld(q, l, r)
        /\ f # 0 => StreamHeld(q, l, f, r)
    BY <1>1, <1>3, <1>4 DEF PutHeld, InHistory
  <1>6. RowsRoot(r) /\ TailsRoot(r)
    BY <1>1, RootParts
  <1>7. /\ plan' = plan /\ q' = q /\ l' = l /\ f' = f /\ k' = k /\ InHistory(r)' = InHistory(r)
        /\ Base(q)' = Base(q) /\ HistoryRows(k, q)' = HistoryRows(k, q) /\ o' = o
    <2>1. UNCHANGED <<plan, request, layer, phase, stage>>
      BY <1>1 DEF Takes, progress
    <2>2. UNCHANGED place
      BY <2>1 DEF place
    <2> QED
      BY <2>1, <2>2, SamePlace
  <1> DEFINE H == HistoryRows(k, q)
             W == WindowRows
  <1>8. H \in Nat /\ W \in Nat \ {0} /\ MaxRecords(k) \in Nat
    BY <1>3, HistoryRowsAre, Sizes
  <1>9. \A part : /\ RootRows(r, part) =
                        IF f = 0 THEN (IF 0 < H THEN 0 ELSE H)
                        ELSE IF (f - 1) * W < H THEN (f - 1) * W ELSE H
                  /\ RootRows(r, part)' =
                        IF f = 0 THEN (IF 0 < H THEN 0 ELSE H)
                        ELSE IF f * W < H THEN f * W ELSE H
    <2>1. Streaming(r) = (IF f = 0 THEN 0 ELSE (f - 1) * W)
          /\ Streaming(r)' = (IF f = 0 THEN 0 ELSE f * W)
      BY <1>1, <1>7 DEF Streaming
    <2>2. \A part : /\ RootRows(r, part) = IF Streaming(r) < H THEN Streaming(r) ELSE H
                    /\ RootRows(r, part)' = IF Streaming(r)' < H THEN Streaming(r)' ELSE H
      BY <1>1, <1>7 DEF RootRows
    <2> HIDE DEF f, H, W
    <2> QED
      BY <2>1, <2>2
  <1>10. CASE f = 0
    <2>1. /\ root'[r][<<"state", 0>>] = held[<<"state", 0>>]
          /\ root'[r][<<"raw", 0>>] = held[RawCell(k)]
          /\ \A part \in Parts(k), n \in Slots(k) : root'[r][<<part, n>>] = root[r][<<part, n>>]
          /\ \A x \in Ranks \ {r} : root'[x] = root[x]
      BY <1>2, <1>10, HistoryWrites
    <2>2. \A part : RootRows(r, part)' = RootRows(r, part)
      BY <1>9, <1>10
    <2>3. RowsRoot(r)'
      <3>1. ASSUME NEW part \in Parts(k), NEW n \in Slots(k)
            PROVE  root'[r][<<part, n>>] =
                      IF n < RootRows(r, part)' THEN Item(o, l, part, n) ELSE Nothing
        <4>1. root[r][<<part, n>>] = IF n < RootRows(r, part) THEN Item(o, l, part, n) ELSE Nothing
          BY <1>6 DEF RowsRoot
        <4>2. RootRows(r, part)' = RootRows(r, part)
          BY <2>2
        <4> QED
          BY <2>1, <4>1, <4>2
      <3> QED
        BY <1>7, <3>1 DEF RowsRoot
    <2>4. TailsRoot(r)'
      BY <1>3, <1>5, <1>7, <1>10, <2>1 DEF TailsRoot, TailsHeld
    <2> QED
      BY <1>1, <2>1, <2>3, <2>4, TakesRoot
  <1>11. CASE f # 0
    <2>1. /\ \A x \in Ranks \ {r} : root'[x] = root[x]
          /\ root'[r][<<"state", 0>>] = root[r][<<"state", 0>>]
          /\ root'[r][<<"raw", 0>>] = root[r][<<"raw", 0>>]
          /\ \A part \in Parts(k), n \in Slots(k) :
               \/ \E i \in Lanes : /\ Streamed(r, i) /\ n = LogicalRow(r, i)
                                   /\ root'[r][<<part, n>>] = held[<<part, i>>]
               \/ /\ \A i \in Lanes : Streamed(r, i) => n # LogicalRow(r, i)
                  /\ root'[r][<<part, n>>] = root[r][<<part, n>>]
      BY <1>2, <1>11, HistoryWrites
    <2>2. TailsRoot(r)'
      <3>1. f > 0
        BY <1>3, <1>11
      <3> QED
        BY <1>6, <1>7, <2>1, <3>1 DEF TailsRoot
    <2> DEFINE a == (f - 1) * W
    <2>3. a \in Int /\ a >= 0 /\ f * W = a + W
      <3>1. f \in Nat \ {0} /\ f - 1 \in Nat
        BY <1>3, <1>11
      <3> HIDE DEF f, W
      <3>2. (f - 1) * W \in Nat
        BY <1>8, <3>1, Product
      <3>3. f * W = (f - 1) * W + W
        <4>1. ((f - 1) + 1) * W = (f - 1) * W + W
          BY <1>8, <3>1, Successor
        <4>2. (f - 1) + 1 = f
          BY <3>1
        <4> QED
          BY <4>1, <4>2
      <3> QED
        BY <3>2, <3>3
    <2>4. \A i \in Lanes : /\ LogicalRow(r, i) = a + i /\ (Streamed(r, i) <=> a + i < H)
                           /\ i \in Nat /\ i < W
      <3>1. \A i \in Lanes : i \in Nat /\ i < W
        BY Sizes DEF Lanes, WindowRows
      <3> QED
        BY <1>1, <1>2, <1>11, <3>1, StreamedIs
    <2>5. \A i \in Nat : i < W => i \in Lanes
      BY Sizes DEF Lanes, WindowRows
    <2>6. ASSUME NEW part \in Parts(k), NEW n \in Slots(k)
          PROVE  root'[r][<<part, n>>] =
                    IF n < RootRows(r, part)' THEN Item(o, l, part, n) ELSE Nothing
      <3>0. n \in Nat
        BY <1>8 DEF Slots
      <3>1. CASE \E i \in Lanes : /\ Streamed(r, i) /\ n = LogicalRow(r, i)
                                  /\ root'[r][<<part, n>>] = held[<<part, i>>]
        <4>1. PICK i \in Lanes : /\ Streamed(r, i) /\ n = LogicalRow(r, i)
                                 /\ root'[r][<<part, n>>] = held[<<part, i>>]
          BY <3>1
        <4>2. n = a + i /\ a + i < H /\ i < W /\ i \in Nat
          BY <2>4, <4>1
        <4>3. held[<<part, i>>] = Item(o, l, part, a + i)
          BY <1>3, <1>5, <1>11, <4>2 DEF StreamHeld
        <4>4. n < RootRows(r, part)'
          <5>1. RootRows(r, part)' = IF f * W < H THEN f * W ELSE H
            BY <1>9, <1>11
          <5> HIDE DEF a, W, H, f
          <5> QED
            BY <1>8, <2>3, <4>2, <5>1
        <4> QED
          BY <4>1, <4>2, <4>3, <4>4
      <3>2. CASE /\ \A i \in Lanes : Streamed(r, i) => n # LogicalRow(r, i)
                 /\ root'[r][<<part, n>>] = root[r][<<part, n>>]
        <4>1. n < RootRows(r, part)' <=> n < RootRows(r, part)
          <5>1. /\ RootRows(r, part)' = IF f * W < H THEN f * W ELSE H
                /\ RootRows(r, part) = IF a < H THEN a ELSE H
            BY <1>9, <1>11
          <5>2. ~ (a <= n /\ n < H /\ n < a + W)
            <6> SUFFICES ASSUME a <= n, n < H, n < a + W PROVE FALSE
              OBVIOUS
            <6> DEFINE i == n - a
            <6>1. i \in Nat /\ i < W /\ a + i = n
              <7> HIDE DEF a, W, H
              <7> QED
                BY <1>8, <2>3, <3>0
            <6> HIDE DEF i
            <6>2. i \in Lanes
              BY <2>5, <6>1
            <6> QED
              BY <2>4, <3>2, <6>1, <6>2
          <5> HIDE DEF a, W, H, f
          <5> QED
            BY <1>8, <2>3, <3>0, <5>1, <5>2
        <4> QED
          BY <1>6, <3>2, <4>1 DEF RowsRoot
      <3> QED
        BY <2>1, <3>1, <3>2
    <2>7. RowsRoot(r)'
      BY <1>7, <2>6 DEF RowsRoot
    <2> QED
      BY <1>1, <2>1, <2>2, <2>7, TakesRoot
  <1> QED
    BY <1>10, <1>11

-----------------------------------------------------------------------------
(***************************************************************************)
(* Pools, and the commits.                                                 *)
(***************************************************************************)

\* What CacheOK says of a layer of an owner.
CacheAt(o, l) ==
    \A c \in Cells(LayerKinds[l]) :
        cache[o][l][c] =
            IF Committing(o, l) /\ c[1] \in taken[o] THEN Filled(o, l, End(request[o]))[c]
            ELSE Filled(o, l, TokensBefore(o, Requested(o, l)))[c]

LEMMA CacheParts == CacheOK <=> \A o \in Ranks, l \in DOMAIN LayerKinds : CacheAt(o, l)
  BY DEF CacheOK, CacheAt

LEMMA CachePartsNext == CacheOK' <=> \A o \in Ranks, l \in DOMAIN LayerKinds : CacheAt(o, l)'
  BY DEF CacheOK, CacheAt

LEMMA CellNames == \A k, c : c \in Cells(k) => c[1] \in {"main", "index", "state", "raw"}
  BY DEF Cells, Parts

LEMMA TokensSame ==
    ASSUME plan' = plan
    PROVE  \A o, n : TokensBefore(o, n)' = TokensBefore(o, n)
  <1>1. \A q : End(q)' = End(q) /\ Base(q)' = Base(q)
    BY SamePlan
  <1>2. \A o : Cached0(o)' = Cached0(o)
    BY <1>1 DEF Cached0
  <1> QED
    BY <1>1, <1>2 DEF TokensBefore

\* A layer whose pools stay and whose owner neither moves nor commits.
LEMMA CacheKept ==
    ASSUME plan' = plan, NEW o \in Ranks, NEW l \in DOMAIN LayerKinds,
           request'[o] = request[o], layer'[o] = layer[o], stage'[o] = stage[o],
           \A c \in Cells(LayerKinds[l]) : cache'[o][l][c] = cache[o][l][c],
           \A n \in {"main", "index", "state", "raw"} :
             Committing(o, l) => (n \in taken'[o] <=> n \in taken[o]),
           CacheAt(o, l)
    PROVE  CacheAt(o, l)'
  <1>1. Committing(o, l)' = Committing(o, l) /\ Requested(o, l)' = Requested(o, l)
    BY DEF Committing, Requested
  <1>2. End(request[o])' = End(request[o])
    BY DEF End
  <1>3. TokensBefore(o, Requested(o, l))' = TokensBefore(o, Requested(o, l))
    <2>1. ASSUME NEW n, n = Requested(o, l)
          PROVE  TokensBefore(o, n)' = TokensBefore(o, n)
      BY TokensSame
    <2> QED
      BY <1>1, <2>1
  <1>4. ASSUME NEW c \in Cells(LayerKinds[l])
        PROVE  cache'[o][l][c] =
                 IF Committing(o, l) /\ c[1] \in taken'[o] THEN Filled(o, l, End(request[o]))[c]
                 ELSE Filled(o, l, TokensBefore(o, Requested(o, l)))[c]
    <2>1. c[1] \in {"main", "index", "state", "raw"}
      BY CellNames
    <2>2. Committing(o, l) => (c[1] \in taken'[o] <=> c[1] \in taken[o])
      BY <2>1
    <2>3. cache[o][l][c] =
                 IF Committing(o, l) /\ c[1] \in taken[o] THEN Filled(o, l, End(request[o]))[c]
                 ELSE Filled(o, l, TokensBefore(o, Requested(o, l)))[c]
      BY DEF CacheAt
    <2> QED
      BY <2>2, <2>3
  <1> QED
    BY <1>1, <1>2, <1>3, <1>4 DEF CacheAt

LEMMA StillCache ==
    ASSUME CacheOK, UNCHANGED <<place, cache>>,
           \A o \in Ranks, n \in {"main", "index", "state", "raw"} : n \in taken'[o] <=> n \in taken[o]
    PROVE  CacheOK'
  <1>1. /\ plan' = plan /\ request' = request /\ layer' = layer /\ stage' = stage /\ cache' = cache
    BY DEF place
  <1> QED
    BY <1>1, CacheParts, CachePartsNext, CacheKept

\* The layer a rank is committing to.
LEMMA OwnLayer ==
    ASSUME Shape, CacheOK, NEW r \in Ranks, PositionAt(r), stage[r] = "exchange", Committing(r, layer[r]),
           NEW c \in Cells(Kind(r))
    PROVE  cache[r][layer[r]][c] =
             IF c[1] \in taken[r] THEN Filled(r, layer[r], End(request[r]))[c]
             ELSE Filled(r, layer[r], Base(request[r]))[c]
  <1>1. request[r] \in 0 .. Requests - 1 /\ layer[r] \in DOMAIN LayerKinds /\ plan \in Plans
        /\ Kind(r) = LayerKinds[layer[r]] /\ layer[r] \in Int
    BY Where DEF Kind
  <1>2. Requested(r, layer[r]) = request[r]
    BY <1>1 DEF Requested
  <1>3. TokensBefore(r, request[r]) = Base(request[r])
    BY <1>1, TokensAre DEF Committing
  <1> QED
    BY <1>1, <1>2, <1>3 DEF CacheOK

LEMMA GatherRoot ==
    ASSUME Shape, ControlOK, RootOK, NEW r \in Ranks, stage[r] = "exchange", ~InHistory(r),
           NEW part \in Parts(Kind(r)), part \notin taken[r], Takes(r, part),
           RowsIn(request[r], layer[r], part, r),
           RootGets(r, {part} \X DOMAIN Received(r), Gathered(r, part))
    PROVE  RootOK'
  <1> DEFINE q == request[r]
             l == layer[r]
             k == Kind(r)
             o == Owner(q)
             held == window[k][r]
             D == {part} \X DOMAIN Received(r)
             g == Ratio[k]
  <1>1. PositionAt(r) /\ TasksAt(r) /\ part \in {"main", "index"}
    BY TasksBefore DEF Parts
  <1>2. /\ q \in 0 .. Requests - 1 /\ l \in DOMAIN LayerKinds /\ k \in Kinds
        /\ k = LayerKinds[l] /\ plan \in Plans
    BY <1>1, Where DEF Kind
  <1>3. /\ plan' = plan /\ q' = q /\ l' = l /\ k' = k /\ InHistory(r)' = InHistory(r)
        /\ phase'[r] = phase[r] /\ Base(q)' = Base(q) /\ End(q)' = End(q) /\ o' = o
        /\ taken'[r] = taken[r] \cup {part}
    <2>1. UNCHANGED <<plan, request, layer, phase, stage>> /\ taken'[r] = taken[r] \cup {part}
      BY DEF Takes, progress, Shape
    <2>2. UNCHANGED place
      BY <2>1 DEF place
    <2> QED
      BY <2>1, <2>2, SamePlace
  <1>4. RowsRoot(r) /\ TailsRoot(r)
    BY RootParts
  <1>5. /\ Base(q) \div g \in Nat /\ End(q) \div g \in Nat /\ Base(q) \div g <= End(q) \div g
        /\ Slots(k) \subseteq Nat
    <2>1. HistoryRows(k, q) = Base(q) \div g /\ HistoryRows(k, q) \in Nat
          /\ HistoryRows(k, q) <= End(q) \div g /\ End(q) \div g \in Nat /\ MaxRecords(k) \in Nat
      BY <1>2, HistoryRowsAre
    <2> QED
      BY <2>1 DEF Slots
  <1>6. ASSUME NEW x \in Parts(k), NEW n \in Slots(k)
        PROVE  root'[r][<<x, n>>] = IF n < RootRows(r, x)' THEN Item(o, l, x, n) ELSE Nothing
    <2>1. /\ RootRows(r, x) = (IF x \in taken[r] THEN End(q) ELSE Base(q)) \div g
          /\ RootRows(r, x)' = (IF x \in taken'[r] THEN End(q) ELSE Base(q)) \div g
      <3>1. RootRows(r, x) = (IF x \in taken[r] THEN End(q) ELSE Base(q)) \div g
        BY DEF RootRows
      <3>2. RootRows(r, x)' = (IF x \in taken'[r] THEN End(q)' ELSE Base(q)') \div Ratio[k']
        BY <1>3 DEF RootRows
      <3> QED
        BY <1>3, <3>1, <3>2
    <2>2. root[r][<<x, n>>] = IF n < RootRows(r, x) THEN Item(o, l, x, n) ELSE Nothing
      BY <1>4 DEF RowsRoot
    <2>3. root'[r][<<x, n>>] = IF <<x, n>> \in D THEN Gathered(r, part)[<<x, n>>] ELSE root[r][<<x, n>>]
      <3>1. <<x, n>> \in Cells(k)
        BY DEF Cells
      <3> QED
        BY <3>1 DEF RootGets
    <2>4. CASE x # part
      BY <1>3, <2>1, <2>2, <2>3, <2>4
    <2>5. CASE x = part
      <3>1. /\ RootRows(r, x) = Base(q) \div g /\ RootRows(r, x)' = End(q) \div g
        BY <1>3, <2>1, <2>5
      <3>2. IF Base(q) \div g <= n /\ n < End(q) \div g
            THEN n \in DOMAIN Received(r) /\ held[<<part, Received(r)[n]>>] = Item(o, l, part, n)
            ELSE n \notin DOMAIN Received(r)
        BY <1>1, GatheredExact
      <3>3. n \in DOMAIN Received(r) => Gathered(r, part)[<<part, n>>] = held[<<part, Received(r)[n]>>]
        BY GatheredIs
      <3>4. <<x, n>> \in D <=> n \in DOMAIN Received(r)
        BY <2>5
      <3> DEFINE b == Base(q) \div g
                 e == End(q) \div g
      <3>5. b \in Nat /\ e \in Nat /\ b <= e /\ n \in Nat
        BY <1>5
      <3> HIDE DEF D, held, b, e
      <3> QED
        BY <2>2, <2>3, <2>5, <3>1, <3>2, <3>3, <3>4, <3>5 DEF b, e
    <2> QED
      BY <2>4, <2>5
  <1>7. RowsRoot(r)'
    BY <1>3, <1>6 DEF RowsRoot
  <1>8. root'[r][<<"state", 0>>] = root[r][<<"state", 0>>] /\ root'[r][<<"raw", 0>>] = root[r][<<"raw", 0>>]
    <2>1. <<"state", 0>> \in Cells(k) /\ <<"raw", 0>> \in Cells(k)
      BY DEF Cells
    <2>2. <<"state", 0>> \notin D /\ <<"raw", 0>> \notin D
      BY <1>1
    <2> QED
      BY <2>1, <2>2 DEF RootGets
  <1>9. TailsRoot(r)'
    <2> SUFFICES ASSUME Base(q) > 0
                 PROVE  /\ root'[r][<<"state", 0>>] = Item(o, l, "state", Base(q))
                        /\ root'[r][<<"raw", 0>>] = Item(o, l, "raw", Base(q))
      BY <1>3 DEF TailsRoot
    <2>1. phase[r] > 0
      <3>1. HistoryPhases(k, q) > 0 /\ HistoryPhases(k, q) \in Nat /\ phase[r] \in Nat
        BY <1>2, PhasesAre DEF Shape
      <3> QED
        BY <3>1 DEF InHistory
    <2> QED
      BY <1>4, <1>8, <2>1 DEF TailsRoot
  <1> QED
    BY <1>7, <1>9, TakesRoot DEF RootGets

LEMMA GatherCache ==
    ASSUME Shape, ControlOK, CacheOK, NEW r \in Ranks, stage[r] = "exchange",
           NEW part \in Parts(Kind(r)), part \notin taken[r], Takes(r, part),
           RowsIn(request[r], layer[r], part, r),
           CacheGets(r, {part} \X DOMAIN Received(r), Gathered(r, part))
    PROVE  CacheOK'
  <1> DEFINE q == request[r]
             l == layer[r]
             k == Kind(r)
             held == window[k][r]
             D == {part} \X DOMAIN Received(r)
             g == Ratio[k]
  <1>1. PositionAt(r) /\ TasksAt(r) /\ part \in {"main", "index"}
    BY TasksBefore DEF Parts
  <1>2. /\ q \in 0 .. Requests - 1 /\ l \in DOMAIN LayerKinds /\ k \in Kinds
        /\ k = LayerKinds[l] /\ plan \in Plans
    BY <1>1, Where DEF Kind
  <1>3. /\ plan' = plan /\ request' = request /\ layer' = layer /\ stage' = stage
        /\ taken'[r] = taken[r] \cup {part}
        /\ \A x \in Ranks \ {r} : taken'[x] = taken[x]
    BY DEF Takes, progress, Shape
  <1>4. /\ Base(q) \div g \in Nat /\ End(q) \div g \in Nat /\ Base(q) \div g <= End(q) \div g
        /\ Slots(k) \subseteq Nat
    <2>1. HistoryRows(k, q) = Base(q) \div g /\ HistoryRows(k, q) \in Nat
          /\ HistoryRows(k, q) <= End(q) \div g /\ End(q) \div g \in Nat /\ MaxRecords(k) \in Nat
      BY <1>2, HistoryRowsAre
    <2> QED
      BY <2>1 DEF Slots
  <1>5. ASSUME NEW x \in Ranks, NEW m \in DOMAIN LayerKinds, ~ (x = r /\ Committing(r, m))
        PROVE  CacheAt(x, m)'
    <2>1. \A c \in Cells(LayerKinds[m]) : cache'[x][m][c] = cache[x][m][c]
      BY <1>5 DEF CacheGets, Committing
    <2>2. \A n \in {"main", "index", "state", "raw"} :
             Committing(x, m) => (n \in taken'[x] <=> n \in taken[x])
      BY <1>3, <1>5
    <2>3. CacheAt(x, m)
      BY CacheParts
    <2> QED
      BY <1>3, <2>1, <2>2, <2>3, CacheKept
  <1>6. ASSUME Committing(r, l)
        PROVE  CacheAt(r, l)'
    <2>1. r = Owner(q)
      BY <1>6 DEF Committing
    <2>2. ASSUME NEW c \in Cells(k)
          PROVE  cache'[r][l][c] = IF c[1] \in taken'[r] THEN Filled(r, l, End(q))[c]
                                   ELSE Filled(r, l, Base(q))[c]
      <3>1. cache[r][l][c] = IF c[1] \in taken[r] THEN Filled(r, l, End(q))[c]
                             ELSE Filled(r, l, Base(q))[c]
        BY <1>1, <1>6, OwnLayer
      <3>2. cache'[r][l][c] = IF c \in D THEN Gathered(r, part)[c] ELSE cache[r][l][c]
        BY <1>2, <2>1 DEF CacheGets
      <3>3. CASE c[1] # part
        <4>1. c \notin D
          BY <3>3
        <4> QED
          BY <1>3, <3>1, <3>2, <3>3, <4>1
      <3>4. CASE c[1] = part
        <4>1. PICK n \in Slots(k) : c = <<part, n>>
          BY <1>1, <3>4 DEF Cells
        <4>2. /\ Filled(r, l, End(q))[c] = IF n < End(q) \div g THEN Item(r, l, part, n) ELSE Nothing
              /\ Filled(r, l, Base(q))[c] = IF n < Base(q) \div g THEN Item(r, l, part, n) ELSE Nothing
          <5>1. part \in Parts(LayerKinds[l]) /\ n \in Slots(LayerKinds[l]) /\ Ratio[LayerKinds[l]] = g
            BY <1>2
          <5>2. ASSUME NEW e
                PROVE  Filled(r, l, e)[c] = IF n < e \div g THEN Item(r, l, part, n) ELSE Nothing
            <6> HIDE DEF g, l
            <6> QED
              BY <4>1, <5>1, FilledIs
          <5> QED
            BY <5>2
        <4>3. IF Base(q) \div g <= n /\ n < End(q) \div g
              THEN n \in DOMAIN Received(r) /\ held[<<part, Received(r)[n]>>] = Item(r, l, part, n)
              ELSE n \notin DOMAIN Received(r)
          BY <1>1, <2>1, GatheredExact
        <4>4. n \in DOMAIN Received(r) => Gathered(r, part)[c] = held[<<part, Received(r)[n]>>]
          BY <4>1, GatheredIs
        <4>5. c \in D <=> n \in DOMAIN Received(r)
          BY <4>1
        <4>6. c[1] \in taken'[r] /\ c[1] \notin taken[r]
          BY <1>3, <3>4
        <4> DEFINE b == Base(q) \div g
                   e == End(q) \div g
        <4>7. b \in Nat /\ e \in Nat /\ b <= e /\ n \in Nat
          BY <1>4
        <4> HIDE DEF D, held, b, e
        <4> QED
          BY <3>1, <3>2, <4>2, <4>3, <4>4, <4>5, <4>6, <4>7 DEF b, e
      <3> QED
        BY <3>3, <3>4
    <2>3. /\ Committing(r, l)' /\ Requested(r, l)' = request[r]
          /\ End(request[r])' = End(request[r])
      <3>1. l \in Int
        BY <1>2, Sizes
      <3> QED
        BY <1>3, <1>6, <3>1 DEF Committing, Requested, End
    <2>4. TokensBefore(r, Requested(r, l))' = Base(q)
      <3>1. ASSUME NEW n, n = request[r]
            PROVE  TokensBefore(r, n)' = Base(q)
        BY <1>2, <1>3, <2>1, <3>1, TokensSame, TokensAre
      <3> QED
        BY <2>3, <3>1
    <2>5. ASSUME NEW m, m = l
          PROVE  CacheAt(r, m)'
      BY <1>2, <1>3, <2>2, <2>3, <2>4, <2>5 DEF CacheAt
    <2> QED
      BY <1>3, <2>5
  <1>7. \A x \in Ranks, m \in DOMAIN LayerKinds : CacheAt(x, m)'
    <2> SUFFICES ASSUME NEW x \in Ranks, NEW m \in DOMAIN LayerKinds PROVE CacheAt(x, m)'
      OBVIOUS
    <2>1. CASE x = r /\ Committing(r, m)
      <3>1. m = l
        BY <2>1 DEF Committing
      <3> QED
        BY <1>3, <1>6, <2>1, <3>1
    <2> QED
      BY <1>5, <2>1
  <1> QED
    BY <1>7, CachePartsNext

\* The steps that read.
LEMMA HistoryKeeps ==
    ASSUME Shape, ControlOK, Present, Remaining, RootOK, CacheOK, NEW r \in Ranks, TakeHistory(r)
    PROVE  Present' /\ Remaining' /\ RootOK' /\ CacheOK'
  <1>1. Takes(r, "history") /\ cache' = cache
    BY HistoryControl DEF TakeHistory
  <1>2. /\ UNCHANGED <<place, put, indexed, window>>
        /\ taken' = [taken EXCEPT ![r] = @ \cup {"history"}] /\ taken \in [Ranks -> SUBSET {"history", "index", "main", "state"}]
    BY <1>1 DEF Takes, progress, place, Shape
  <1>3. \A x \in Ranks : Finished(x) => Finished(x)'
    BY <1>2 DEF Finished
  <1>4. \A o \in Ranks, n \in {"main", "index", "state", "raw"} : n \in taken'[o] <=> n \in taken[o]
    BY <1>2
  <1> QED
    BY <1>1, <1>2, <1>3, <1>4, StillPresent, StillCache, HistoryRoot

LEMMA TakesPresent ==
    ASSUME Shape, Present, Remaining, NEW r \in Ranks, NEW t, Takes(r, t)
    PROVE  Present' /\ Remaining'
  <1>1. /\ UNCHANGED <<place, put, indexed, window>>
        /\ taken' = [taken EXCEPT ![r] = @ \cup {t}] /\ taken \in [Ranks -> SUBSET {"history", "index", "main", "state"}]
    BY DEF Takes, progress, place, Shape
  <1>2. \A x \in Ranks : Finished(x) => Finished(x)'
    BY <1>1 DEF Finished
  <1> QED
    BY <1>1, <1>2, StillPresent

LEMMA CommitIndexKeeps ==
    ASSUME Shape, ControlOK, Present, Remaining, RootOK, CacheOK, NEW r \in Ranks, CommitIndex(r)
    PROVE  Present' /\ Remaining' /\ RootOK' /\ CacheOK'
  <1>1. /\ Takes(r, "index") /\ RootGets(r, {"index"} \X DOMAIN Received(r), Gathered(r, "index"))
        /\ CacheGets(r, {"index"} \X DOMAIN Received(r), Gathered(r, "index"))
    BY CommitIndexControl, CommitIndexShape
  <1>2. /\ stage[r] = "exchange" /\ TwoStage(r) /\ "index" \notin taken[r] /\ indexed[r] = Ranks
        /\ Announced(r, 1) /\ ~InHistory(r) /\ "index" \in Parts(Kind(r))
    BY DEF CommitIndex, TwoStage, Parts
  <1>3. TasksAt(r)
    BY <1>2, TasksBefore
  <1>4. ~Finished(r)
    BY <1>2, <1>3 DEF TasksAt, Finished
  <1>5. \A y \in Peers(r) : ready[Kind(r)][r][y] >= Unit(Kind(r)) * Done(Kind(r), r) + 1
    BY <1>2, AnnouncedIs
  <1>6. RowsIn(request[r], layer[r], "index", r)
    BY <1>2, <1>4, <1>5, IndexHeld DEF RowsIn
  <1> QED
    BY <1>1, <1>2, <1>6, TakesPresent, GatherRoot, GatherCache

\* The rows and the state of a turn's own records, once all have announced.
LEMMA RecordsHeld ==
    ASSUME Shape, ControlOK, Present, Remaining, NEW r \in Ranks, stage[r] = "exchange",
           ~InHistory(r), ~Finished(r), put[r] = Ranks,
           \A y \in Peers(r) :
             ready[Kind(r)][r][y] >= Unit(Kind(r)) * Done(Kind(r), r) + Unit(Kind(r))
    PROVE  /\ RowsIn(request[r], layer[r], "main", r)
           /\ \A p \in Ranks : StateHeld(request[r], layer[r], p, r)
  <1>1. ASSUME NEW p \in Ranks
        PROVE  /\ RowsHeld(request[r], layer[r], p, {"main", "meta"}, r)
               /\ StateHeld(request[r], layer[r], p, r)
    <2>1. /\ PutHeld(request[r], layer[r], phase[r], p, r)
          /\ TwoStage(r) => RowsHeld(request[r], layer[r], p, {"index", "meta"}, r)
      BY AllHeld
    <2>2. /\ RowsHeld(request[r], layer[r], p, IF Kind(r) = "csa" THEN {"main"} ELSE {"main", "meta"}, r)
          /\ StateHeld(request[r], layer[r], p, r)
      BY <2>1 DEF PutHeld, InHistory, Kind
    <2>3. RowsHeld(request[r], layer[r], p, {"main", "meta"}, r)
      <3>1. CASE Kind(r) = "csa"
        <4>1. TwoStage(r)
          BY <3>1 DEF TwoStage
        <4> QED
          BY <2>1, <2>2, <3>1, <4>1 DEF RowsHeld
      <3>2. CASE Kind(r) # "csa"
        BY <2>2, <3>2
      <3> QED
        BY <3>1, <3>2
    <2> QED
      BY <2>2, <2>3
  <1> QED
    BY <1>1 DEF RowsIn

LEMMA CommitRecordsKeeps ==
    ASSUME Shape, ControlOK, Present, Remaining, RootOK, CacheOK, NEW r \in Ranks, CommitRecords(r)
    PROVE  Present' /\ Remaining' /\ RootOK' /\ CacheOK'
  <1>1. /\ Takes(r, "main") /\ RootGets(r, {"main"} \X DOMAIN Received(r), Gathered(r, "main"))
        /\ CacheGets(r, {"main"} \X DOMAIN Received(r), Gathered(r, "main"))
    BY CommitRecordsControl, CommitRecordsShape
  <1>2. /\ stage[r] = "exchange" /\ ~InHistory(r) /\ "main" \notin taken[r] /\ put[r] = Ranks
        /\ Announced(r, Unit(Kind(r))) /\ "main" \in Parts(Kind(r))
    BY DEF CommitRecords, Complete, Parts
  <1>3. TasksAt(r)
    BY <1>2, TasksBefore
  <1>4. ~Finished(r)
    BY <1>2, <1>3 DEF TasksAt, Finished
  <1>5. \A y \in Peers(r) :
          ready[Kind(r)][r][y] >= Unit(Kind(r)) * Done(Kind(r), r) + Unit(Kind(r))
    BY <1>2, AnnouncedIs
  <1>6. RowsIn(request[r], layer[r], "main", r)
    BY <1>2, <1>4, <1>5, RecordsHeld
  <1> QED
    BY <1>1, <1>2, <1>6, TakesPresent, GatherRoot, GatherCache

LEMMA CommitStateRoot ==
    ASSUME Shape, ControlOK, RootOK, NEW r \in Ranks, CommitState(r)
    PROVE  RootOK'
  <1>1. Takes(r, "state") /\ root' = root /\ ~InHistory(r) /\ stage[r] = "exchange"
    BY CommitStateControl DEF CommitState
  <1>2. UNCHANGED place /\ plan' = plan /\ request' = request /\ layer' = layer /\ phase' = phase
        /\ taken'[r] = taken[r] \cup {"state"}
    BY <1>1 DEF Takes, progress, place, Shape
  <1>3. Kind(r)' = Kind(r) /\ InHistory(r)' = InHistory(r)
        /\ \A q : Base(q)' = Base(q) /\ End(q)' = End(q)
    BY <1>2, SamePlace
  <1>4. RowsRoot(r) /\ TailsRoot(r) /\ PositionAt(r)
    BY <1>1, RootParts, TasksBefore
  <1>5. ASSUME NEW x \in Parts(Kind(r))
        PROVE  RootRows(r, x)' = RootRows(r, x)
    <2>1. x # "state"
      BY DEF Parts
    <2>2. x \in taken'[r] <=> x \in taken[r]
      BY <1>2, <2>1
    <2> QED
      BY <1>1, <1>2, <1>3, <2>2 DEF RootRows
  <1>6. RowsRoot(r)'
    <2>1. ASSUME NEW x \in Parts(Kind(r)), NEW n \in Slots(Kind(r))
          PROVE  root[r][<<x, n>>] =
                    IF n < RootRows(r, x)' THEN Item(Owner(request[r]), layer[r], x, n) ELSE Nothing
      <3>1. root[r][<<x, n>>] =
              IF n < RootRows(r, x) THEN Item(Owner(request[r]), layer[r], x, n) ELSE Nothing
        BY <1>4 DEF RowsRoot
      <3>2. RootRows(r, x)' = RootRows(r, x)
        BY <1>5
      <3> QED
        BY <3>1, <3>2
    <2> QED
      BY <1>1, <1>2, <1>3, <2>1 DEF RowsRoot
  <1>7. TailsRoot(r)'
    <2> SUFFICES ASSUME Base(request[r]) > 0
                 PROVE  /\ root[r][<<"state", 0>>] =
                             Item(Owner(request[r]), layer[r], "state", Base(request[r]))
                        /\ root[r][<<"raw", 0>>] =
                             Item(Owner(request[r]), layer[r], "raw", Base(request[r]))
      BY <1>1, <1>2, <1>3 DEF TailsRoot
    <2>1. request[r] \in 0 .. Requests - 1 /\ plan \in Plans /\ Kind(r) \in Kinds
      BY <1>1, <1>4, Where
    <2>2. HistoryPhases(Kind(r), request[r]) > 0 /\ HistoryPhases(Kind(r), request[r]) \in Nat
          /\ phase[r] \in Nat
      BY <2>1, PhasesAre DEF Shape
    <2>3. phase[r] > 0
      BY <1>1, <2>2 DEF InHistory
    <2> QED
      BY <1>4, <2>3 DEF TailsRoot
  <1> QED
    BY <1>1, <1>6, <1>7, TakesRoot

LEMMA CommitStateCache ==
    ASSUME Shape, ControlOK, Present, Remaining, CacheOK, NEW r \in Ranks, CommitState(r)
    PROVE  CacheOK'
  <1> DEFINE q == request[r]
             l == layer[r]
             k == Kind(r)
  <1>1. /\ Takes(r, "state") /\ ~InHistory(r) /\ stage[r] = "exchange" /\ "state" \notin taken[r]
        /\ Parts(k) \subseteq taken[r]
    BY CommitStateControl DEF CommitState, StateReady
  <1>2. TasksAt(r) /\ PositionAt(r) /\ "main" \in taken[r]
    BY <1>1, TasksBefore DEF Parts
  <1>3. /\ plan' = plan /\ request' = request /\ layer' = layer /\ stage' = stage
        /\ taken'[r] = taken[r] \cup {"state"}
        /\ \A x \in Ranks \ {r} : taken'[x] = taken[x]
    BY <1>1 DEF Takes, progress, Shape
  <1>4. /\ q \in 0 .. Requests - 1 /\ l \in DOMAIN LayerKinds /\ k \in Kinds
        /\ k = LayerKinds[l] /\ plan \in Plans
    BY <1>1, <1>2, Where DEF Kind
  <1>5. \A p \in Ranks : StateHeld(q, l, p, r)
    <2>1. ~Finished(r) /\ put[r] = Ranks
      BY <1>1, <1>2 DEF TasksAt, Finished
    <2>2. \A y \in Peers(r) :
            ready[k][r][y] >= Unit(k) * Done(k, r) + Unit(k)
      BY <1>2 DEF ControlOK, Heard
    <2> QED
      BY <1>1, <2>1, <2>2, RecordsHeld
  <1>6. /\ \E i \in Ranks : window[k][r][<<"state", i>>] # Nothing
        /\ \A i \in Ranks : window[k][r][<<"state", i>>] # Nothing =>
             window[k][r][<<"state", i>>] = Item(Owner(q), l, "state", End(q))
    <2>1. plan[q].length > 0 /\ plan[q].length \in 0 .. NumSegments /\ NumSegments \in Nat
      BY <1>1, <1>2, <1>4, PlanAt, Sizes DEF PositionAt
    <2>2. plan[q].length - 1 \in Segments
      BY <2>1 DEF Segments
    <2>3. OwnerRank(plan[q].length - 1) \in Ranks
      BY <2>2, LaneOfSegment
    <2>4. Item(Owner(q), l, "state", End(q)) # Nothing
      BY ItemsDiffer DEF Nothing
    <2>5. \A i \in Ranks : window[k][r][<<"state", i>>] =
            IF OwnerRank(plan[q].length - 1) = i THEN Item(Owner(q), l, "state", End(q)) ELSE Nothing
      BY <1>4, <1>5 DEF StateHeld
    <2> QED
      BY <2>3, <2>4, <2>5
  <1>7. ASSUME NEW x \in Ranks, NEW m \in DOMAIN LayerKinds, ~ (x = r /\ Committing(r, m))
        PROVE  CacheAt(x, m)'
    <2>1. \A c \in Cells(LayerKinds[m]) : cache'[x][m][c] = cache[x][m][c]
      BY <1>1, <1>7, StateWrites DEF Committing
    <2>2. \A n \in {"main", "index", "state", "raw"} :
             Committing(x, m) => (n \in taken'[x] <=> n \in taken[x])
      BY <1>3, <1>7
    <2>3. CacheAt(x, m)
      BY CacheParts
    <2> QED
      BY <1>3, <2>1, <2>2, <2>3, CacheKept
  <1>8. ASSUME Committing(r, l)
        PROVE  CacheAt(r, l)'
    <2>1. r = Owner(q)
      BY <1>8 DEF Committing
    <2>2. ASSUME NEW c \in Cells(k)
          PROVE  cache'[r][l][c] = IF c[1] \in taken'[r] THEN Filled(r, l, End(q))[c]
                                   ELSE Filled(r, l, Base(q))[c]
      <3>1. cache[r][l][c] = IF c[1] \in taken[r] THEN Filled(r, l, End(q))[c]
                             ELSE Filled(r, l, Base(q))[c]
        BY <1>1, <1>2, <1>8, OwnLayer
      <3>2. CASE c = <<"state", 0>>
        <4>1. \E i \in Ranks : /\ window[k][r][<<"state", i>>] # Nothing
                               /\ cache'[r][l][c] = window[k][r][<<"state", i>>]
          <5>1. c \in Cells(LayerKinds[l])
            BY <1>4
          <5> QED
            BY <1>4, <1>6, <2>1, <3>2, <5>1, StateWrites
        <4>2. cache'[r][l][c] = Item(r, l, "state", End(q))
          BY <1>6, <2>1, <4>1
        <4>3. Filled(r, l, End(q))[c] = Item(r, l, "state", End(q))
          <5>1. End(q) # 0
            <6>1. plan[q].length > 0 /\ plan[q].length \in Nat /\ Base(q) \in Nat
                  /\ End(q) = Base(q) + plan[q].length
              BY <1>1, <1>2, <1>4, PlanAt, Sizes DEF PositionAt
            <6> QED
              BY <6>1
          <5> QED
            BY <3>2, <5>1, FilledIs
        <4> QED
          BY <1>3, <3>2, <4>2, <4>3
      <3>3. CASE c # <<"state", 0>>
        <4>1. cache'[r][l][c] = cache[r][l][c]
          <5>1. c \in Cells(LayerKinds[l])
            BY <1>4
          <5> QED
            BY <1>4, <3>3, <5>1, StateWrites
        <4>2. c[1] # "state"
          BY <3>3 DEF Cells, Parts
        <4> QED
          BY <1>3, <3>1, <4>1, <4>2
      <3> QED
        BY <3>2, <3>3
    <2>3. /\ Committing(r, l)' /\ Requested(r, l)' = request[r]
          /\ End(request[r])' = End(request[r])
      <3>1. l \in Int
        BY <1>4, Sizes
      <3> QED
        BY <1>3, <1>8, <3>1 DEF Committing, Requested, End
    <2>4. TokensBefore(r, Requested(r, l))' = Base(q)
      <3>1. ASSUME NEW n, n = request[r]
            PROVE  TokensBefore(r, n)' = Base(q)
        BY <1>3, <1>4, <2>1, <3>1, TokensSame, TokensAre
      <3> QED
        BY <2>3, <3>1
    <2>5. ASSUME NEW m, m = l
          PROVE  CacheAt(r, m)'
      BY <1>3, <1>4, <2>2, <2>3, <2>4, <2>5 DEF CacheAt
    <2> QED
      BY <1>3, <2>5
  <1>9. \A x \in Ranks, m \in DOMAIN LayerKinds : CacheAt(x, m)'
    <2> SUFFICES ASSUME NEW x \in Ranks, NEW m \in DOMAIN LayerKinds PROVE CacheAt(x, m)'
      OBVIOUS
    <2>1. CASE x = r /\ Committing(r, m)
      <3>1. m = l
        BY <2>1 DEF Committing
      <3> QED
        BY <1>3, <1>8, <2>1, <3>1
    <2> QED
      BY <1>7, <2>1
  <1> QED
    BY <1>9, CachePartsNext

LEMMA CommitStateKeeps ==
    ASSUME Shape, ControlOK, Present, Remaining, RootOK, CacheOK, NEW r \in Ranks, CommitState(r)
    PROVE  Present' /\ Remaining' /\ RootOK' /\ CacheOK'
  BY CommitStateControl, TakesPresent, CommitStateRoot, CommitStateCache

-----------------------------------------------------------------------------
(***************************************************************************)
(* The steps that leave roots and pools alone.                             *)
(***************************************************************************)

\* Steps that change neither places, reads, roots nor pools.
LEMMA StillRead ==
    ASSUME RootOK, CacheOK, UNCHANGED <<place, taken, root, cache>>
    PROVE  RootOK' /\ CacheOK'
  <1>1. UNCHANGED <<place, taken, root>> /\ UNCHANGED <<place, cache>> /\ taken' = taken
    OBVIOUS
  <1>2. \A o \in Ranks, n \in {"main", "index", "state", "raw"} : n \in taken'[o] <=> n \in taken[o]
    BY <1>1
  <1> QED
    BY <1>1, <1>2, StillRoot, StillCache

LEMMA StillWindow ==
    ASSUME Present, Remaining, UNCHANGED <<place, taken, put, indexed, window>>
    PROVE  Present' /\ Remaining'
  <1>1. UNCHANGED <<place, put, indexed, window>> /\ taken' = taken
    OBVIOUS
  <1>2. \A x \in Ranks : Finished(x) => Finished(x)'
    BY <1>1 DEF Finished
  <1> QED
    BY <1>1, <1>2, StillPresent

LEMMA PutKeeps ==
    ASSUME IInv, NEW r \in Ranks, NEW p \in Ranks, Put(r, p)
    PROVE  IInv'
  <1>1. Shape /\ ControlOK /\ Present /\ Remaining /\ RootOK /\ CacheOK
    BY DEF IInv
  <1>2. UNCHANGED <<place, taken, root, cache>>
    BY DEF Put, place, progress
  <1>3. Shape' /\ ControlOK'
    BY <1>1, PutShape, PutControl
  <1>4. Present' /\ Remaining'
    BY <1>1, PutPresent
  <1>5. RootOK' /\ CacheOK'
    BY <1>1, <1>2, StillRead
  <1> QED
    BY <1>3, <1>4, <1>5 DEF IInv

LEMMA NotifyKeeps ==
    ASSUME IInv, NEW r \in Ranks, NEW p \in Ranks, Notify(r, p)
    PROVE  IInv'
  <1>1. Shape /\ ControlOK /\ Present /\ Remaining /\ RootOK /\ CacheOK
    BY DEF IInv
  <1>2. UNCHANGED <<place, taken, root, cache>> /\ UNCHANGED <<place, taken, put, indexed, window>>
    BY DEF Notify, place, progress
  <1>3. Shape' /\ ControlOK'
    BY <1>1, NotifyShape, NotifyControl
  <1>4. Present' /\ Remaining'
    BY <1>1, <1>2, StillWindow
  <1>5. RootOK' /\ CacheOK'
    BY <1>1, <1>2, StillRead
  <1> QED
    BY <1>3, <1>4, <1>5 DEF IInv

LEMMA IndexKeeps ==
    ASSUME IInv, NEW r \in Ranks, NEW p \in Ranks, PublishIndex(r, p)
    PROVE  IInv'
  <1>1. Shape /\ ControlOK /\ Present /\ Remaining /\ RootOK /\ CacheOK
    BY DEF IInv
  <1>2. UNCHANGED <<place, taken, root, cache>>
    BY DEF PublishIndex, place, progress
  <1>3. Shape' /\ ControlOK'
    BY <1>1, IndexShape, IndexControl
  <1>4. Present' /\ Remaining'
    BY <1>1, IndexPresent
  <1>5. RootOK' /\ CacheOK'
    BY <1>1, <1>2, StillRead
  <1> QED
    BY <1>3, <1>4, <1>5 DEF IInv

LEMMA ReleaseKeeps ==
    ASSUME IInv, NEW r \in Ranks, NEW p \in Ranks, Release(r, p)
    PROVE  IInv'
  <1>1. Shape /\ ControlOK /\ Present /\ Remaining /\ RootOK /\ CacheOK
    BY DEF IInv
  <1>2. UNCHANGED <<place, taken, root, cache>> /\ UNCHANGED <<place, taken, put, indexed, window>>
    BY DEF Release, place, progress
  <1>3. Shape' /\ ControlOK'
    BY <1>1, ReleaseShape, ReleaseControl
  <1>4. Present' /\ Remaining'
    BY <1>1, <1>2, StillWindow
  <1>5. RootOK' /\ CacheOK'
    BY <1>1, <1>2, StillRead
  <1> QED
    BY <1>3, <1>4, <1>5 DEF IInv

LEMMA RetireKeeps ==
    ASSUME IInv, NEW r \in Ranks, NEW k \in Kinds, Retire(r, k)
    PROVE  IInv'
  <1>1. Shape /\ ControlOK /\ Present /\ Remaining /\ RootOK /\ CacheOK
    BY DEF IInv
  <1>2. UNCHANGED <<place, taken, root, cache>> /\ UNCHANGED <<place, taken, put, indexed, window>>
    BY DEF Retire, place
  <1>3. Shape' /\ ControlOK'
    BY <1>1, RetireShape, RetireControl
  <1>4. Present' /\ Remaining'
    BY <1>1, <1>2, StillWindow
  <1>5. RootOK' /\ CacheOK'
    BY <1>1, <1>2, StillRead
  <1> QED
    BY <1>3, <1>4, <1>5 DEF IInv

LEMMA ArriveKeeps ==
    ASSUME IInv, NEW r \in Ranks, Arrive(r)
    PROVE  IInv'
  <1>1. Shape /\ ControlOK /\ Present /\ Remaining /\ RootOK /\ CacheOK
    BY DEF IInv
  <1>2. UNCHANGED <<place, taken, put, indexed, ready, consumed>>
    BY <1>1, ArriveControl
  <1>3. UNCHANGED <<place, taken, root, cache>> /\ UNCHANGED <<place, taken, put, indexed, window>>
    BY <1>2 DEF Arrive
  <1>4. Shape' /\ ControlOK'
    BY <1>1, ArriveShape, ArriveControl
  <1>5. Present' /\ Remaining'
    BY <1>1, <1>3, StillWindow
  <1>6. RootOK' /\ CacheOK'
    BY <1>1, <1>3, StillRead
  <1> QED
    BY <1>4, <1>5, <1>6 DEF IInv

-----------------------------------------------------------------------------
(***************************************************************************)
(* Roots when a rank moves on.                                             *)
(***************************************************************************)

\* The others keep their roots.
LEMMA ApartRoot ==
    ASSUME RootOK, NEW r \in Ranks, Apart(r), \A x \in Ranks \ {r} : root'[x] = root[x],
           stage'[r] = "exchange" => RowsRoot(r)' /\ TailsRoot(r)'
    PROVE  RootOK'
  <1>1. ASSUME NEW x \in Ranks \ {r}, stage'[x] = "exchange"
        PROVE  RowsRoot(x)' /\ TailsRoot(x)'
    <2>1. stage[x] = "exchange" /\ RowsRoot(x) /\ TailsRoot(x)
      BY <1>1, RootParts DEF Apart
    <2> QED
      BY <1>1, <2>1, RootKept DEF Apart
  <1> QED
    BY <1>1, RootPartsNext

\* A root is blank when a layer begins.
BlankRoots ==
    \A r \in Ranks :
        /\ plan \in Plans /\ request[r] \in 0 .. Requests - 1 /\ layer[r] \in DOMAIN LayerKinds
        /\ phase[r] = 0 /\ taken[r] = {} /\ root[r] = Blank(layer[r])
        => RowsRoot(r) /\ TailsRoot(r)

LEMMA BlankRoot == BlankRoots
  <1> SUFFICES ASSUME NEW r \in Ranks, plan \in Plans, request[r] \in 0 .. Requests - 1,
                      layer[r] \in DOMAIN LayerKinds, phase[r] = 0, taken[r] = {},
                      root[r] = Blank(layer[r])
               PROVE  RowsRoot(r) /\ TailsRoot(r)
    BY DEF BlankRoots
  <1> DEFINE k == Kind(r)
             q == request[r]
  <1>1. k \in Kinds /\ k = LayerKinds[layer[r]]
    BY Sizes DEF Kind
  <1>2. /\ HistoryRows(k, q) \in Nat /\ HistoryRows(k, q) = Base(q) \div Ratio[k]
        /\ HistoryPhases(k, q) \in Nat /\ (HistoryPhases(k, q) > 0 <=> Base(q) > 0)
        /\ Base(q) \in Nat /\ Ratio[k] \in Nat \ {0}
    BY <1>1, HistoryRowsAre, PhasesAre, PlanAt, Sizes
  <1>3. InHistory(r) <=> Base(q) > 0
    BY <1>2 DEF InHistory
  <1>4. \A part : RootRows(r, part) = 0
    <2>1. Streaming(r) = 0
      BY DEF Streaming
    <2>2. CASE InHistory(r)
      BY <1>2, <2>1, <2>2 DEF RootRows
    <2>3. CASE ~InHistory(r)
      <3>1. Base(q) = 0 /\ 0 \div Ratio[k] = 0
        BY <1>2, <1>3, <2>3, DivNat, DivLess
      <3>2. \A part : RootRows(r, part) = Base(q) \div Ratio[k]
        BY <2>3 DEF RootRows
      <3> QED
        BY <3>1, <3>2
    <2> QED
      BY <2>2, <2>3
  <1>5. RowsRoot(r)
    <2>1. ASSUME NEW part \in Parts(k), NEW n \in Slots(k)
          PROVE  root[r][<<part, n>>] =
                   IF n < RootRows(r, part) THEN Item(Owner(q), layer[r], part, n) ELSE Nothing
      <3>1. <<part, n>> \in Cells(k) /\ n \in Nat
        BY DEF Cells, Slots
      <3>2. root[r][<<part, n>>] = Nothing
        BY <1>1, <3>1, BlankIs
      <3> QED
        BY <1>4, <3>1, <3>2
    <2> QED
      BY <2>1 DEF RowsRoot
  <1>6. TailsRoot(r)
    BY DEF TailsRoot
  <1> QED
    BY <1>5, <1>6

LEMMA BlankRootNext == BlankRoots'
  BY BlankRoot, PTL

\* The next phase of a layer begins with what the last ones have streamed.
LEMMA PhaseRoot ==
    ASSUME Shape, ControlOK, RootOK, NEW r \in Ranks, NextPhase(r), InHistory(r)
    PROVE  RowsRoot(r)' /\ TailsRoot(r)'
  <1> DEFINE k == Kind(r)
             q == request[r]
             f == phase[r]
             H == HistoryRows(k, q)
             W == WindowRows
  <1>1. /\ Apart(r) /\ stage[r] = "exchange" /\ TasksAt(r) /\ k \in Kinds /\ request' = request
        /\ plan' = plan /\ plan \in Plans /\ taken'[r] = {} /\ q \in 0 .. Requests - 1
        /\ taken[r] \cap {"history", "main"} # {}
    BY NextFacts
  <1>2. /\ f + 1 <= HistoryPhases(k, q) /\ phase'[r] = f + 1 /\ layer' = layer /\ root' = root
    BY NextPlace
  <1>3. /\ H \in Nat /\ H = Base(q) \div Ratio[k] /\ HistoryPhases(k, q) \in Nat /\ f \in Nat
        /\ W \in Nat \ {0} /\ (HistoryPhases(k, q) > 0 <=> Base(q) > 0)
        /\ (Base(q) > 0 => H <= (HistoryPhases(k, q) - 1) * W) /\ Base(q) \in Nat
    BY <1>1, HistoryRowsAre, PhasesAre, PlanAt, Sizes DEF Shape
  <1>4. /\ HistoryRows(k, q)' = H /\ HistoryPhases(k, q)' = HistoryPhases(k, q) /\ Base(q)' = Base(q)
        /\ Kind(r)' = k
    BY <1>1, <1>2, SamePlan DEF Kind
  <1>5. taken[r] = {"history"}
    BY <1>1 DEF TasksAt
  <1>6. Base(q) > 0
    BY <1>2, <1>3
  <1>7. Streaming(r) = f * W
    <2>1. CASE f = 0
      BY <2>1, <1>3 DEF Streaming
    <2>2. CASE f # 0
      BY <2>2, <1>5 DEF Streaming
    <2> QED
      BY <2>1, <2>2
  <1>8. Streaming(r)' = f * W
    BY <1>1, <1>2, <1>3 DEF Streaming
  <1>9. f * W \in Nat
    BY <1>3, Product
  <1>10. \A part : RootRows(r, part) = IF f * W < H THEN f * W ELSE H
    BY <1>7 DEF RootRows
  <1>11. \A part : RootRows(r, part)' = IF f * W < H THEN f * W ELSE H
    <2>1. CASE InHistory(r)'
      BY <1>1, <1>4, <1>8, <2>1 DEF RootRows
    <2>2. CASE ~InHistory(r)'
      <3>1. f + 1 = HistoryPhases(k, q)
        BY <1>1, <1>2, <1>3, <1>4, <2>2 DEF InHistory
      <3>2. HistoryPhases(k, q) - 1 = f
        BY <3>1, <1>3
      <3>3. H <= f * W
        BY <1>3, <1>6, <3>2
      <3>4. \A part : RootRows(r, part)' = H
        BY <1>1, <1>3, <1>4, <2>2 DEF RootRows
      <3> QED
        BY <3>3, <3>4, <1>3, <1>9
    <2> QED
      BY <2>1, <2>2
  <1>12. RowsRoot(r) /\ TailsRoot(r)
    BY <1>1, RootParts
  <1>13. RowsRoot(r)'
    <2>1. ASSUME NEW part \in Parts(k), NEW n \in Slots(k)
          PROVE  root'[r][<<part, n>>] =
                   IF n < RootRows(r, part)' THEN Item(Owner(request'[r]), layer'[r], part, n)
                   ELSE Nothing
      <3>1. RootRows(r, part)' = RootRows(r, part)
        BY <1>10, <1>11
      <3>2. root[r][<<part, n>>] =
              IF n < RootRows(r, part) THEN Item(Owner(q), layer[r], part, n) ELSE Nothing
        BY <1>12 DEF RowsRoot
      <3> QED
        BY <1>1, <1>2, <3>1, <3>2
    <2> QED
      BY <1>4, <2>1 DEF RowsRoot
  <1>14. TailsRoot(r)'
    BY <1>1, <1>2, <1>4, <1>5, <1>12 DEF TailsRoot
  <1> QED
    BY <1>13, <1>14

LEMMA NextRoot ==
    ASSUME Shape, ControlOK, RootOK, NEW r \in Ranks, NextPhase(r)
    PROVE  RootOK'
  <1>1. /\ Apart(r) /\ plan' = plan /\ plan \in Plans /\ request' = request /\ taken'[r] = {}
        /\ request[r] \in 0 .. Requests - 1
    BY NextFacts
  <1>2. CASE InHistory(r)
    <2>1. root' = root
      BY <1>2, NextPlace
    <2> QED
      BY <1>1, <1>2, <2>1, PhaseRoot, ApartRoot
  <1>3. CASE ~InHistory(r) /\ layer[r] < Len(LayerKinds)
    <2>1. /\ phase'[r] = 0 /\ layer'[r] = layer[r] + 1 /\ stage'[r] = "exchange"
          /\ root' = [root EXCEPT ![r] = Blank(layer[r] + 1)]
      <3>1. layer[r] # Len(LayerKinds)
        BY <1>3, Sizes
      <3> QED
        BY <1>3, <3>1, NextPlace
    <2>2. layer[r] + 1 \in DOMAIN LayerKinds /\ DOMAIN root = Ranks
      BY <1>3, Sizes DEF Shape
    <2>3. root'[r] = Blank(layer[r] + 1) /\ \A x \in Ranks \ {r} : root'[x] = root[x]
      BY <2>1, <2>2
    <2> QED
      <3>1. RowsRoot(r)' /\ TailsRoot(r)'
        BY <1>1, <2>1, <2>2, <2>3, BlankRootNext DEF BlankRoots
      <3> QED
        BY <1>1, <2>3, <3>1, ApartRoot
  <1>4. CASE ~InHistory(r) /\ ~ (layer[r] < Len(LayerKinds))
    <2>1. stage'[r] = "retire" /\ root' = root
      BY <1>4, NextPlace
    <2> QED
      BY <1>1, <2>1, ApartRoot
  <1> QED
    BY <1>2, <1>3, <1>4

LEMMA LeaveRoot ==
    ASSUME Shape, ControlOK, RootOK, NEW r \in Ranks, Leave(r)
    PROVE  RootOK'
  <1>1. /\ Apart(r) /\ plan' = plan /\ plan \in Plans /\ request'[r] = request[r] + 1
        /\ request[r] \in 0 .. Requests - 1 /\ taken[r] = {} /\ taken' = taken
        /\ layer'[r] = 1 /\ phase'[r] = 0 /\ stage'[r] = StartStage(request[r] + 1)
    BY LeaveFacts
  <1>2. root' = [root EXCEPT ![r] = Blank(1)] /\ 1 \in DOMAIN LayerKinds /\ DOMAIN root = Ranks
    BY Sizes DEF Leave, Shape
  <1>3. root'[r] = Blank(1) /\ \A x \in Ranks \ {r} : root'[x] = root[x]
    BY <1>2
  <1>4. ASSUME stage'[r] = "exchange"
        PROVE  RowsRoot(r)' /\ TailsRoot(r)'
    <2>1. request[r] + 1 # Requests
      BY <1>1, <1>4 DEF StartStage
    <2>2. request[r] + 1 \in 0 .. Requests - 1
      BY <1>1, <2>1, Sizes
    <2> QED
      BY <1>1, <1>2, <1>3, <2>2, BlankRootNext DEF BlankRoots
  <1> QED
    BY <1>1, <1>3, <1>4, ApartRoot

-----------------------------------------------------------------------------
(***************************************************************************)
(* Pools when a rank moves on.                                             *)
(***************************************************************************)

\* What a layer's pools hold once the owner has committed all of it.
LEMMA CommittedAll ==
    ASSUME CacheOK, NEW o \in Ranks, NEW l \in DOMAIN LayerKinds, Committing(o, l),
           Parts(LayerKinds[l]) \cup {"state"} \subseteq taken[o],
           NEW c \in Cells(LayerKinds[l])
    PROVE  cache[o][l][c] = Filled(o, l, End(request[o]))[c]
  <1>1. cache[o][l][c] =
           IF c[1] \in taken[o] THEN Filled(o, l, End(request[o]))[c]
           ELSE Filled(o, l, TokensBefore(o, Requested(o, l)))[c]
    BY DEF CacheOK
  <1>2. c[1] \in Parts(LayerKinds[l]) \cup {"state"} \/ c = <<"raw", 0>>
    BY DEF Cells
  <1>3. CASE c[1] \in Parts(LayerKinds[l]) \cup {"state"}
    BY <1>1, <1>3
  <1>4. CASE c = <<"raw", 0>>
    BY <1>1, <1>4, FilledIs
  <1> QED
    BY <1>2, <1>3, <1>4

\* And while it has committed nothing of it.
LEMMA CommittedNone ==
    ASSUME CacheOK, NEW o \in Ranks, NEW l \in DOMAIN LayerKinds,
           Committing(o, l) => taken[o] \cap {"main", "index", "state", "raw"} = {},
           NEW c \in Cells(LayerKinds[l])
    PROVE  cache[o][l][c] = Filled(o, l, TokensBefore(o, Requested(o, l)))[c]
  <1>1. c[1] \in {"main", "index", "state", "raw"}
    BY CellNames
  <1> QED
    BY <1>1 DEF CacheOK

LEMMA CacheSettled ==
    ASSUME plan' = plan, cache' = cache, NEW o \in Ranks, NEW l \in DOMAIN LayerKinds,
           taken'[o] = {}, NEW n, Requested(o, l)' = n,
           \A c \in Cells(LayerKinds[l]) : cache[o][l][c] = Filled(o, l, TokensBefore(o, n))[c]
    PROVE  CacheAt(o, l)'
  <1>1. TokensBefore(o, n)' = TokensBefore(o, n)
    BY TokensSame
  <1>2. TokensBefore(o, Requested(o, l))' = TokensBefore(o, n)
    BY <1>1
  <1> QED
    BY <1>2 DEF CacheAt

\* The others keep their pools.
LEMMA ApartCache ==
    ASSUME CacheOK, NEW r \in Ranks, Apart(r), cache' = cache,
           \A l \in DOMAIN LayerKinds : CacheAt(r, l)'
    PROVE  CacheOK'
  <1>1. ASSUME NEW o \in Ranks \ {r}, NEW l \in DOMAIN LayerKinds
        PROVE  CacheAt(o, l)'
    <2>1. CacheAt(o, l)
      BY CacheParts
    <2>2. /\ plan' = plan /\ request'[o] = request[o] /\ layer'[o] = layer[o] /\ stage'[o] = stage[o]
          /\ taken'[o] = taken[o]
      BY DEF Apart
    <2> QED
      BY <2>1, <2>2, CacheKept
  <1> QED
    BY <1>1, CachePartsNext

LEMMA NextCache ==
    ASSUME Shape, ControlOK, CacheOK, NEW r \in Ranks, NextPhase(r)
    PROVE  CacheOK'
  <1> DEFINE q == request[r]
  <1>1. /\ Apart(r) /\ stage[r] = "exchange" /\ TasksAt(r) /\ request' = request /\ cache' = cache
        /\ plan' = plan /\ plan \in Plans /\ taken'[r] = {} /\ q \in 0 .. Requests - 1
        /\ Finished(r)
    BY NextFacts DEF NextPhase
  <1>2. layer[r] \in DOMAIN LayerKinds /\ layer[r] \in Int /\ DOMAIN LayerKinds \subseteq Int
        /\ DOMAIN LayerKinds = 1 .. Len(LayerKinds) /\ Len(LayerKinds) \in Nat
    BY Sizes DEF Shape
  <1>3. CASE InHistory(r)
    <2>1. layer'[r] = layer[r] /\ stage'[r] = "exchange"
      BY <1>3, NextPlace
    <2>2. taken[r] \subseteq {"history"}
      BY <1>1, <1>3 DEF TasksAt
    <2>3. ASSUME NEW l \in DOMAIN LayerKinds
          PROVE  CacheAt(r, l)'
      <3>1. CacheAt(r, l)
        BY CacheParts
      <3>2. \A n \in {"main", "index", "state", "raw"} : n \in taken'[r] <=> n \in taken[r]
        BY <1>1, <2>2
      <3> QED
        BY <1>1, <2>1, <3>1, <3>2, CacheKept
    <2> QED
      BY <1>1, <2>3, ApartCache
  <1>4. CASE ~InHistory(r)
    <2>1. \/ layer'[r] = layer[r] + 1 /\ stage'[r] = "exchange"
          \/ layer[r] = Len(LayerKinds) /\ stage'[r] = "retire"
      BY <1>4, NextPlace
    <2>2. Parts(Kind(r)) \cup {"state"} \subseteq taken[r]
      BY <1>1, <1>4 DEF TasksAt, Finished
    <2>3. ASSUME NEW l \in DOMAIN LayerKinds
          PROVE  CacheAt(r, l)'
      <3>1. CASE l > layer[r]
        <4>1. Requested(r, l) = q /\ Requested(r, l)' = q
          BY <1>1, <1>2, <2>1, <3>1 DEF Requested
        <4>2. ~Committing(r, l)
          BY <1>2, <3>1 DEF Committing
        <4>3. \A c \in Cells(LayerKinds[l]) : cache[r][l][c] = Filled(r, l, TokensBefore(r, q))[c]
          BY <4>1, <4>2, CommittedNone
        <4> QED
          BY <1>1, <4>1, <4>3, CacheSettled
      <3>2. CASE l < layer[r]
        <4>1. Requested(r, l) = q + 1 /\ Requested(r, l)' = q + 1
          BY <1>1, <1>2, <2>1, <3>2 DEF Requested
        <4>2. ~Committing(r, l)
          BY <1>2, <3>2 DEF Committing
        <4>3. \A c \in Cells(LayerKinds[l]) : cache[r][l][c] = Filled(r, l, TokensBefore(r, q + 1))[c]
          BY <4>1, <4>2, CommittedNone
        <4> QED
          BY <1>1, <4>1, <4>3, CacheSettled
      <3>3. CASE l = layer[r]
        <4>1. Requested(r, l) = q /\ Requested(r, l)' = q + 1
          BY <1>1, <1>2, <2>1, <3>3 DEF Requested
        <4>2. TokensBefore(r, q + 1) = IF Owner(q) = r THEN End(q) ELSE TokensBefore(r, q)
          BY <1>1, TokensNext
        <4>3. ASSUME NEW c \in Cells(LayerKinds[l])
              PROVE  cache[r][l][c] = Filled(r, l, TokensBefore(r, q + 1))[c]
          <5>1. CASE Owner(q) = r
            <6>1. Committing(r, l) /\ Parts(LayerKinds[l]) \cup {"state"} \subseteq taken[r]
              BY <1>1, <2>2, <3>3, <5>1 DEF Committing, Kind
            <6> QED
              BY <4>2, <5>1, <6>1, CommittedAll
          <5>2. CASE Owner(q) # r
            <6>1. ~Committing(r, l)
              BY <5>2 DEF Committing
            <6> QED
              BY <4>1, <4>2, <5>2, <6>1, CommittedNone
          <5> QED
            BY <5>1, <5>2
        <4> QED
          BY <1>1, <4>1, <4>3, CacheSettled
      <3> QED
        BY <1>2, <3>1, <3>2, <3>3
    <2> QED
      BY <1>1, <2>3, ApartCache
  <1> QED
    BY <1>3, <1>4

LEMMA NextKeeps ==
    ASSUME IInv, NEW r \in Ranks, NextPhase(r)
    PROVE  IInv'
  <1>1. Shape /\ ControlOK /\ Present /\ Remaining /\ RootOK /\ CacheOK
    BY DEF IInv
  <1> QED
    BY <1>1, NextShape, NextControl, NextPresent, NextRoot, NextCache DEF IInv

\* A request without tokens leaves the pools as they are, and is behind its
\* ranks as soon as it has begun.
LEMMA LeaveCache ==
    ASSUME Shape, ControlOK, CacheOK, NEW r \in Ranks, Leave(r)
    PROVE  CacheOK'
  <1> DEFINE q == request[r]
  <1>1. /\ Apart(r) /\ cache' = cache /\ plan' = plan /\ plan \in Plans /\ taken'[r] = {}
        /\ taken[r] = {} /\ q \in 0 .. Requests - 1 /\ request'[r] = q + 1
        /\ layer'[r] = 1 /\ stage'[r] = StartStage(q + 1)
        /\ stage[r] = "arrive" \/ stage[r] = "retire"
    BY LeaveFacts
  <1>2. /\ DOMAIN LayerKinds = 1 .. Len(LayerKinds) /\ Len(LayerKinds) \in Nat /\ Requests \in Nat
        /\ q \in Nat
    BY <1>1, Sizes
  <1>3. ASSUME NEW l \in DOMAIN LayerKinds
        PROVE  CacheAt(r, l)'
    <2>1. Requested(r, l) = q + 1 /\ ~Committing(r, l)
      BY <1>1 DEF Requested, Committing
    <2>2. \A c \in Cells(LayerKinds[l]) : cache[r][l][c] = Filled(r, l, TokensBefore(r, q + 1))[c]
      BY <2>1, CommittedNone
    <2>3. CASE stage'[r] # "arrive"
      <3>1. stage'[r] = "stopped" \/ stage'[r] = "exchange"
        BY <1>1, <2>3 DEF StartStage
      <3>2. Requested(r, l)' = q + 1
        BY <1>1, <1>2, <3>1 DEF Requested
      <3> QED
        BY <1>1, <2>2, <3>2, CacheSettled
    <2>4. CASE stage'[r] = "arrive"
      <3>1. q + 1 # Requests /\ plan[q + 1].length = 0
        BY <1>1, <2>4 DEF StartStage
      <3>2. q + 1 \in 0 .. Requests - 1
        BY <1>1, <1>2, <3>1
      <3>3. End(q + 1) = Base(q + 1)
        BY <1>1, <3>1, <3>2, PlanAt
      <3>4. q + 1 \in Nat
        BY <1>2
      <3>5. TokensBefore(r, q + 1 + 1) = IF Owner(q + 1) = r THEN End(q + 1) ELSE TokensBefore(r, q + 1)
        BY <3>4, TokensNext
      <3>6. TokensBefore(r, q + 1 + 1) = TokensBefore(r, q + 1)
        BY <1>1, <3>2, <3>3, <3>5, TokensAre
      <3>7. Requested(r, l)' = q + 1 + 1
        BY <1>1, <2>4 DEF Requested
      <3> QED
        BY <1>1, <2>2, <3>6, <3>7, CacheSettled
    <2> QED
      BY <2>3, <2>4
  <1> QED
    BY <1>1, <1>3, ApartCache

LEMMA LeaveKeeps ==
    ASSUME IInv, NEW r \in Ranks, Leave(r)
    PROVE  IInv'
  <1>1. Shape /\ ControlOK /\ Present /\ Remaining /\ RootOK /\ CacheOK
    BY DEF IInv
  <1> QED
    BY <1>1, LeaveShape, LeaveControl, LeavePresent, LeaveRoot, LeaveCache DEF IInv

-----------------------------------------------------------------------------
(***************************************************************************)
(* The initial state.                                                      *)
(***************************************************************************)

LEMMA FilledType ==
    ASSUME NEW o \in Ranks, NEW l \in DOMAIN LayerKinds, NEW n \in 0 .. MaxSeqLen
    PROVE  Filled(o, l, n) \in [Cells(LayerKinds[l]) -> Items]
  <1> DEFINE k == LayerKinds[l]
             value(c) == CASE c[1] = "raw" -> Nothing
                           [] c[1] = "state" -> IF n = 0 THEN Nothing ELSE Item(o, l, "state", n)
                           [] OTHER -> IF c[2] < n \div Ratio[k] THEN Item(o, l, c[1], c[2]) ELSE Nothing
  <1>1. k \in Kinds /\ MaxSeqLen \in Nat /\ Ratio[k] \in Nat \ {0} /\ l \in 0 .. Len(LayerKinds)
    BY Sizes
  <1>2. MaxRecords(k) \in Nat /\ MaxRecords(k) <= MaxSeqLen
    BY <1>1, DivNat, DivLess DEF MaxRecords
  <1>3. ASSUME NEW c \in Cells(k)
        PROVE  value(c) \in Items
    <2>1. Nothing \in Items
      BY NothingIs
    <2>2. CASE c[1] = "raw"
      BY <2>1, <2>2
    <2>3. CASE c[1] = "state"
      BY <1>1, <2>1, <2>3, ItemIs DEF Named
    <2>4. CASE c[1] \notin {"raw", "state"}
      <3>1. c[1] \in {"main", "index"} /\ c[2] \in Slots(k)
        BY <2>4 DEF Cells, Parts
      <3>2. c[2] \in -1 .. MaxSeqLen
        BY <1>1, <1>2, <3>1 DEF Slots
      <3>3. Item(o, l, c[1], c[2]) \in Items
        BY <1>1, <3>1, <3>2, ItemIs DEF Named
      <3> QED
        BY <2>1, <2>4, <3>3
    <2> QED
      BY <2>2, <2>3, <2>4
  <1>4. Filled(o, l, n) = [c \in Cells(k) |-> value(c)]
    BY DEF Filled
  <1> QED
    BY <1>3, <1>4

\* What every rank is doing when the first request begins.
LEMMA InitIs ==
    ASSUME Init
    PROVE  /\ plan \in Plans /\ request = [r \in Ranks |-> 0] /\ waiting = [r \in Ranks |-> FALSE]
           /\ \A r \in Ranks :
                /\ request[r] = 0 /\ waiting[r] = FALSE /\ layer[r] = 1 /\ phase[r] = 0
                /\ stage[r] = StartStage(0) /\ indexed[r] = {} /\ put[r] = {} /\ told[r] = {}
                /\ taken[r] = {} /\ freed[r] = {} /\ retired[r] = {} /\ root[r] = Blank(1)
                /\ \A l \in DOMAIN LayerKinds : cache[r][l] = Filled(r, l, Cached0(r))
           /\ \A k \in Kinds, r, p \in Ranks : ready[k][r][p] = 0 /\ consumed[k][r][p] = 0
           /\ 1 \in DOMAIN LayerKinds
           /\ StartStage(0) \in {"exchange", "arrive", "stopped"}
           /\ (StartStage(0) = "stopped" <=> Requests = 0)
           /\ (StartStage(0) = "arrive" => Requests # 0 /\ plan[0].length = 0)
           /\ (StartStage(0) = "exchange" => Requests # 0 /\ plan[0].length > 0)
  <1>1. plan \in Plans /\ request = [r \in Ranks |-> 0] /\ waiting = [r \in Ranks |-> FALSE]
    BY DEF Init, Barrier!Init
  <1>2. \A r \in Ranks :
          /\ layer[r] = 1 /\ phase[r] = 0 /\ stage[r] = StartStage(0)
          /\ indexed[r] = {} /\ put[r] = {} /\ told[r] = {} /\ taken[r] = {} /\ freed[r] = {}
          /\ retired[r] = {} /\ root[r] = Blank(1)
    BY DEF Init
  <1>3. \A r \in Ranks, l \in DOMAIN LayerKinds : cache[r][l] = Filled(r, l, Cached0(r))
    BY DEF Init
  <1>4. \A k \in Kinds, r, p \in Ranks : ready[k][r][p] = 0 /\ consumed[k][r][p] = 0
    BY DEF Init
  <1>5. Requests # 0 => plan[0].length \in 0 .. NumSegments
    <2>1. Requests # 0 => 0 \in 0 .. Requests - 1
      BY Sizes
    <2> QED
      BY <1>1, <2>1, PlanAt
  <1>6. /\ StartStage(0) \in {"exchange", "arrive", "stopped"}
        /\ (StartStage(0) = "stopped" <=> Requests = 0)
        /\ (StartStage(0) = "arrive" => Requests # 0 /\ plan[0].length = 0)
        /\ (StartStage(0) = "exchange" => Requests # 0 /\ plan[0].length > 0)
    BY <1>5, Sizes DEF StartStage
  <1> QED
    BY <1>1, <1>2, <1>3, <1>4, <1>6, Sizes

LEMMA InitShape ==
    ASSUME Init
    PROVE  Shape
  <1>1. plan \in Plans /\ request = [r \in Ranks |-> 0] /\ waiting = [r \in Ranks |-> FALSE]
        /\ 1 \in DOMAIN LayerKinds /\ StartStage(0) \in {"exchange", "arrive", "stopped"}
        /\ Requests \in Nat
    BY InitIs, Sizes
  <1>2. request \in [Ranks -> 0 .. Requests] /\ waiting \in [Ranks -> BOOLEAN]
        /\ layer \in [Ranks -> DOMAIN LayerKinds] /\ phase \in [Ranks -> Nat]
        /\ stage \in [Ranks -> {"exchange", "retire", "arrive", "stopped"}]
    BY <1>1 DEF Init
  <1>3. /\ indexed \in [Ranks -> SUBSET Ranks] /\ put \in [Ranks -> SUBSET Ranks]
        /\ told \in [Ranks -> SUBSET Ranks] /\ freed \in [Ranks -> SUBSET Ranks]
        /\ taken \in [Ranks -> SUBSET {"history", "index", "main", "state"}]
        /\ retired \in [Ranks -> SUBSET Kinds]
    BY DEF Init
  <1>4. window \in [Kinds -> [Ranks -> [WindowCells -> Items]]]
    BY NothingIs DEF Init
  <1>5. /\ ready \in [Kinds -> [Ranks -> [Ranks -> Nat]]]
        /\ consumed \in [Kinds -> [Ranks -> [Ranks -> Nat]]]
    BY DEF Init
  <1>6. RootType
    <2>1. \A r \in Ranks : Kind(r) = LayerKinds[1]
      BY DEF Init, Kind
    <2>2. Blank(1) \in [Cells(LayerKinds[1]) -> Items]
      BY <1>1, BlankIs
    <2>3. root = [r \in Ranks |-> Blank(1)]
      BY DEF Init
    <2> QED
      BY <2>1, <2>2, <2>3 DEF RootType
  <1>7. CacheType
    <2>1. cache = [r \in Ranks |-> [l \in DOMAIN LayerKinds |-> Filled(r, l, Cached0(r))]]
      BY DEF Init
    <2>2. ASSUME NEW r \in Ranks
          PROVE  Cached0(r) \in 0 .. MaxSeqLen
      <3>1. r \in Nat /\ MaxSeqLen \in Nat
        BY Sizes DEF Ranks
      <3>2. CASE r < Requests
        <4>1. r \in 0 .. Requests - 1
          BY <3>1, <3>2, Sizes
        <4>2. Base(r) \in Nat /\ plan[r].length \in Nat /\ Base(r) + plan[r].length <= MaxSeqLen
          <5>1. Base(r) \in Nat /\ plan[r].length \in 0 .. NumSegments
                /\ End(r) = Base(r) + plan[r].length /\ End(r) <= MaxSeqLen
            BY <1>1, <4>1, PlanAt
          <5> QED
            BY <5>1, Sizes
        <4> QED
          BY <3>1, <3>2, <4>2 DEF Cached0
      <3>3. CASE ~ (r < Requests)
        BY <3>1, <3>3 DEF Cached0
      <3> QED
        BY <3>2, <3>3
    <2>3. \A r \in Ranks, l \in DOMAIN LayerKinds :
             Filled(r, l, Cached0(r)) \in [Cells(LayerKinds[l]) -> Items]
      BY <2>2, FilledType
    <2> QED
      BY <2>1, <2>3 DEF CacheType
  <1> QED
    BY <1>1, <1>2, <1>3, <1>4, <1>5, <1>6, <1>7 DEF Shape, RootType, CacheType

LEMMA InitControl ==
    ASSUME Init, Shape
    PROVE  ControlOK
  <1>1. plan \in Plans /\ 1 \in DOMAIN LayerKinds /\ Requests \in Nat
        /\ \A r \in Ranks :
             /\ request[r] = 0 /\ waiting[r] = FALSE /\ layer[r] = 1 /\ phase[r] = 0
             /\ stage[r] = StartStage(0) /\ indexed[r] = {} /\ put[r] = {} /\ told[r] = {}
             /\ taken[r] = {} /\ freed[r] = {} /\ retired[r] = {}
    BY InitIs, Sizes
  <1>2. \A k \in Kinds, r, p \in Ranks : ready[k][r][p] = 0 /\ consumed[k][r][p] = 0
    BY InitIs
  <1>3. /\ StartStage(0) \in {"exchange", "arrive", "stopped"}
        /\ (StartStage(0) = "stopped" <=> Requests = 0)
        /\ (StartStage(0) = "arrive" => Requests # 0 /\ plan[0].length = 0)
        /\ (StartStage(0) = "exchange" => Requests # 0 /\ plan[0].length > 0)
    BY InitIs
  <1>4. ASSUME NEW r \in Ranks
        PROVE  PositionAt(r)
    <2>1. stage[r] = "exchange" => phase[r] <= HistoryPhases(Kind(r), request[r])
      <3>1. CASE stage[r] = "exchange"
        <4>1. 0 \in 0 .. Requests - 1 /\ Kind(r) \in Kinds
          BY <1>1, <1>3, <3>1, Sizes DEF Kind
        <4>2. HistoryPhases(Kind(r), 0) \in Nat
          BY <1>1, <4>1, PhasesAre
        <4> QED
          BY <1>1, <4>2
      <3> QED
        BY <3>1
    <2>2. TasksAt(r)
      BY <1>1 DEF TasksAt, Finished
    <2>3. request[r] = 0 /\ stage[r] = StartStage(0) /\ waiting[r] = FALSE /\ retired[r] = {}
      BY <1>1
    <2>4. stage[r] = "stopped" <=> request[r] = Requests
      BY <1>3, <2>3
    <2>5. stage[r] = "arrive" => plan[request[r]].length = 0
      BY <1>3, <2>3
    <2>6. stage[r] \in {"exchange", "retire"} => plan[request[r]].length > 0
      BY <1>3, <2>3
    <2> QED
      BY <1>1, <2>1, <2>2, <2>3, <2>4, <2>5, <2>6 DEF PositionAt
  <1>5. ASSUME NEW k \in Kinds, NEW r \in Ranks
        PROVE  Done(k, r) = 0
    <2>1. CASE stage[r] # "exchange"
      BY <1>1, <1>3, <2>1 DEF Done
    <2>2. CASE stage[r] = "exchange"
      <3>1. Before(k, layer[r]) = 0
        BY <1>1, BeforeEnds
      <3>2. 0 \in 0 .. Requests - 1
        BY <1>1, <1>3, <2>2
      <3>3. Turns(k, request[r]) \in Nat /\ phase[r] = 0
        BY <1>1, <3>2, PhasesAre
      <3>4. Done(k, r) = IF Kind(r) = k THEN 0 * Turns(k, request[r]) + 0 ELSE 0 * Turns(k, request[r])
        BY <2>2, <3>1, <3>3 DEF Done
      <3> QED
        BY <3>3, <3>4
    <2> QED
      BY <2>1, <2>2
  <1>6. \A k \in Kinds : Unit(k) * 0 = 0
    BY UnitIs
  <1>7. \A k \in Kinds, p, r \in Ranks : Sent(k, p, r) = 0 /\ Given(k, p, r) = 0
    <2>1. \A p, r \in Ranks : Now(p, r) = 0
      BY <1>1 DEF Now
    <2> QED
      BY <1>1, <1>5, <1>6, <2>1 DEF Sent, Given
  <1>8. Separated
    BY <1>1 DEF Separated
  <1>9. CreditsOK
    BY <1>2, <1>7 DEF CreditsOK
  <1>10. Heard
    BY <1>1, <1>2, <1>5, <1>6 DEF Heard, Peers
  <1>11. Allowed
    BY <1>1 DEF Allowed
  <1>12. Settled
    BY <1>1 DEF Settled
  <1> QED
    BY <1>4, <1>8, <1>9, <1>10, <1>11, <1>12 DEF ControlOK

LEMMA InitCorrect ==
    ASSUME Init
    PROVE  IInv
  <1>1. plan \in Plans /\ 1 \in DOMAIN LayerKinds /\ Requests \in Nat
        /\ \A r \in Ranks :
             /\ request[r] = 0 /\ layer[r] = 1 /\ phase[r] = 0 /\ stage[r] = StartStage(0)
             /\ indexed[r] = {} /\ put[r] = {} /\ taken[r] = {} /\ root[r] = Blank(1)
             /\ \A l \in DOMAIN LayerKinds : cache[r][l] = Filled(r, l, Cached0(r))
    BY InitIs, Sizes
  <1>2. /\ StartStage(0) \in {"exchange", "arrive", "stopped"}
        /\ (StartStage(0) = "stopped" <=> Requests = 0)
        /\ (StartStage(0) = "arrive" => Requests # 0 /\ plan[0].length = 0)
        /\ (StartStage(0) = "exchange" => Requests # 0 /\ plan[0].length > 0)
    BY InitIs
  <1>3. Shape /\ ControlOK
    BY InitShape, InitControl
  <1>4. Present
    BY <1>1 DEF Present
  <1>5. Remaining
    <2>1. \A r, p \in Ranks : ~Past(p, r)
      BY <1>1, <1>2 DEF Past
    <2> QED
      BY <2>1 DEF Remaining
  <1>6. RootOK
    <2>1. ASSUME NEW r \in Ranks, stage[r] = "exchange"
          PROVE  RowsRoot(r) /\ TailsRoot(r)
      <3>1. request[r] \in 0 .. Requests - 1 /\ layer[r] \in DOMAIN LayerKinds
            /\ root[r] = Blank(layer[r])
        BY <1>1, <1>2, <2>1
      <3> QED
        BY <1>1, <3>1, BlankRoot DEF BlankRoots
    <2> QED
      BY <2>1, RootParts
  <1>7. CacheOK
    <2>1. ASSUME NEW o \in Ranks, NEW l \in DOMAIN LayerKinds
          PROVE  CacheAt(o, l)
      <3>1. TokensBefore(o, 0) = Cached0(o)
        BY DEF TokensBefore
      <3>2. l \in Int /\ l >= 1
        BY Sizes
      <3>3. TokensBefore(o, Requested(o, l)) = Cached0(o)
        <4>1. CASE stage[o] # "arrive"
          <5>1. Requested(o, l) = 0
            BY <1>1, <1>2, <3>2, <4>1 DEF Requested
          <5> QED
            BY <3>1, <5>1
        <4>2. CASE stage[o] = "arrive"
          <5>1. Requested(o, l) = 1
            BY <1>1, <4>2 DEF Requested
          <5>2. 0 \in 0 .. Requests - 1 /\ plan[0].length = 0
            BY <1>1, <1>2, <4>2
          <5>3. End(0) = Base(0) /\ TokensBefore(Owner(0), 0) = Base(0)
            BY <1>1, <5>2, PlanAt, TokensAre
          <5>4. TokensBefore(o, 0 + 1) = IF Owner(0) = o THEN End(0) ELSE TokensBefore(o, 0)
            BY TokensNext
          <5> QED
            BY <3>1, <5>1, <5>3, <5>4
        <4> QED
          BY <4>1, <4>2
      <3>4. taken[o] = {} /\ cache[o][l] = Filled(o, l, Cached0(o))
        BY <1>1
      <3> QED
        BY <3>3, <3>4 DEF CacheAt
    <2> QED
      BY <2>1, CacheParts
  <1> QED
    BY <1>3, <1>4, <1>5, <1>6, <1>7 DEF IInv

-----------------------------------------------------------------------------
(***************************************************************************)
(* The invariant, and what it promises.                                    *)
(***************************************************************************)

LEMMA TakeKeeps ==
    ASSUME IInv, NEW r \in Ranks,
           TakeHistory(r) \/ CommitIndex(r) \/ CommitRecords(r) \/ CommitState(r)
    PROVE  IInv'
  <1>1. Shape /\ ControlOK /\ Present /\ Remaining /\ RootOK /\ CacheOK
    BY DEF IInv
  <1>2. CASE TakeHistory(r)
    BY <1>1, <1>2, HistoryShape, HistoryControl, HistoryKeeps DEF IInv
  <1>3. CASE CommitIndex(r)
    BY <1>1, <1>3, CommitIndexShape, CommitIndexControl, CommitIndexKeeps DEF IInv
  <1>4. CASE CommitRecords(r)
    BY <1>1, <1>4, CommitRecordsShape, CommitRecordsControl, CommitRecordsKeeps DEF IInv
  <1>5. CASE CommitState(r)
    BY <1>1, <1>5, CommitStateShape, CommitStateControl, CommitStateKeeps DEF IInv
  <1> QED
    BY <1>2, <1>3, <1>4, <1>5

LEMMA StutterKeeps ==
    ASSUME IInv, UNCHANGED vars
    PROVE  IInv'
  <1>1. Shape /\ ControlOK /\ Present /\ Remaining /\ RootOK /\ CacheOK
    BY DEF IInv
  <1>2. UNCHANGED <<place, taken, root, cache>> /\ UNCHANGED <<place, taken, put, indexed, window>>
        /\ UNCHANGED place
    BY DEF vars, place
  <1>3. /\ plan' = plan /\ request' = request /\ waiting' = waiting /\ layer' = layer
        /\ phase' = phase /\ stage' = stage /\ indexed' = indexed /\ put' = put /\ told' = told
        /\ taken' = taken /\ freed' = freed /\ window' = window /\ ready' = ready
        /\ consumed' = consumed /\ root' = root /\ cache' = cache /\ retired' = retired
    BY DEF vars
  <1>4. /\ \A k, q : HistoryPhases(k, q)' = HistoryPhases(k, q) /\ Turns(k, q)' = Turns(k, q)
        /\ \A r : Kind(r)' = Kind(r) /\ InHistory(r)' = InHistory(r)
        /\ \A r : TwoStage(r)' = TwoStage(r) /\ Publishes(r)' = Publishes(r)
        /\ \A k, r : Done(k, r)' = Done(k, r) /\ Using(k, r)' = Using(k, r)
    BY <1>2, SamePlace
  <1>5. RootType' /\ CacheType'
    BY <1>1, <1>3, RootSame, CacheSame
  <1>6. Shape'
    BY <1>1, <1>3, <1>5 DEF Shape, RootType, CacheType
  <1>7. ASSUME NEW r \in Ranks
        PROVE  PositionAt(r)'
    <2>1. PositionAt(r) /\ HistoryPhases(Kind(r), request[r])' = HistoryPhases(Kind(r), request[r])
      BY <1>1, <1>3, <1>4 DEF ControlOK
    <2>2. TasksAt(r)' = TasksAt(r)
      BY <1>3, <1>4 DEF TasksAt, Finished
    <2> QED
      BY <1>3, <2>1, <2>2 DEF PositionAt
  <1>8. /\ \A k, r, p : Sent(k, p, r)' = Sent(k, p, r) /\ Given(k, p, r)' = Given(k, p, r)
        /\ \A k, r, p : Silent(k, r, p)' = Silent(k, r, p)
    <2>1. \A p, r : Now(p, r)' = Now(p, r)
      BY <1>3, <1>4 DEF Now
    <2> QED
      BY <1>3, <1>4, <2>1 DEF Sent, Given, Silent
  <1>9. Separated'
    BY <1>1, <1>3 DEF ControlOK, Separated
  <1>10. CreditsOK'
    BY <1>1, <1>3, <1>8 DEF ControlOK, CreditsOK
  <1>11. Heard'
    BY <1>1, <1>3, <1>4 DEF ControlOK, Heard
  <1>12. Allowed'
    BY <1>1, <1>3, <1>4 DEF ControlOK, Allowed
  <1>13. Settled'
    BY <1>1, <1>3, <1>4, <1>8 DEF ControlOK, Settled
  <1>14. Present' /\ Remaining'
    BY <1>1, <1>2, StillWindow
  <1>15. RootOK' /\ CacheOK'
    BY <1>1, <1>2, StillRead
  <1> QED
    BY <1>6, <1>7, <1>9, <1>10, <1>11, <1>12, <1>13, <1>14, <1>15 DEF IInv, ControlOK

\* Every step keeps what the credits, the windows, the roots and the pools mean.
LEMMA StepKeeps ==
    ASSUME IInv, [Next]_vars
    PROVE  IInv'
  <1>1. CASE UNCHANGED vars
    BY <1>1, StutterKeeps
  <1>2. CASE Stopped
    BY <1>2, StutterKeeps DEF Stopped
  <1>3. ASSUME NEW r \in Ranks, RankStep(r)
        PROVE  IInv'
    <2>1. ASSUME NEW p \in Ranks, Put(r, p) PROVE IInv'
      BY <2>1, PutKeeps
    <2>2. ASSUME NEW p \in Ranks, Notify(r, p) PROVE IInv'
      BY <2>2, NotifyKeeps
    <2>3. ASSUME NEW p \in Ranks, PublishIndex(r, p) PROVE IInv'
      BY <2>3, IndexKeeps
    <2>4. ASSUME NEW p \in Ranks, Release(r, p) PROVE IInv'
      BY <2>4, ReleaseKeeps
    <2>5. ASSUME TakeHistory(r) \/ CommitIndex(r) \/ CommitRecords(r) \/ CommitState(r)
          PROVE  IInv'
      BY <2>5, TakeKeeps
    <2>6. ASSUME NextPhase(r) PROVE IInv'
      BY <2>6, NextKeeps
    <2>7. ASSUME NEW k \in Kinds, Retire(r, k) PROVE IInv'
      BY <2>7, RetireKeeps
    <2>8. ASSUME Arrive(r) PROVE IInv'
      BY <2>8, ArriveKeeps
    <2>9. ASSUME Leave(r) PROVE IInv'
      BY <2>9, LeaveKeeps
    <2> QED
      BY <1>3, <2>1, <2>2, <2>3, <2>4, <2>5, <2>6, <2>7, <2>8, <2>9 DEF RankStep
  <1> QED
    BY <1>1, <1>2, <1>3 DEF Next

\* Credits, windows, roots and pools mean the same in every reachable state.
THEOREM InvariantCorrect == Spec => []IInv
  <1>1. Init => IInv
    BY InitCorrect
  <1>2. IInv /\ [Next]_vars => IInv'
    BY StepKeeps
  <1> QED
    BY <1>1, <1>2, PTL DEF Spec

\* What a rank has announced and given back in a request fits a bank.
LEMMA CreditsFit ==
    ASSUME Shape, ControlOK, NEW k \in Kinds, NEW p \in Ranks, NEW r \in Ranks
    PROVE  /\ MaxCredits(k) \in Nat
           /\ Sent(k, p, r) <= MaxCredits(k) /\ Given(k, p, r) <= MaxCredits(k)
  <1> DEFINE u == Unit(k)
             n == Cardinality(LayersOf(k))
             t == Turns(k, request[p])
             m == 2 + Windows(MaxRecords(k))
             d == Done(k, p)
  <1>1. /\ PositionAt(p) /\ u \in {1, 2} /\ n \in Nat /\ d \in Nat /\ MaxRecords(k) \in Nat
    <2>1. PositionAt(p)
      BY DEF ControlOK
    <2>2. MaxRecords(k) \in Nat
      BY Sizes, DivNat DEF MaxRecords
    <2> QED
      BY <2>1, <2>2, UnitIs, LayersFinite, DoneType
  <1>2. m \in Nat
    BY <1>1, WindowsCover
  <1>3. MaxCredits(k) = u * (n * m) /\ n * m \in Nat /\ u * (n * m) \in Nat
    <2>1. n * m \in Nat
      BY <1>1, <1>2, Product
    <2>2. MaxCredits(k) = u * n * m
      BY DEF MaxCredits
    <2> HIDE DEF u, n, m
    <2> QED
      BY <1>1, <1>2, <2>1, <2>2
  <1>4. stage[p] # "exchange" => Sent(k, p, r) = u * d + 0 /\ Given(k, p, r) = u * d + 0
    BY DEF Sent, Given, Using
  <1>5. CASE stage[p] \in {"arrive", "stopped"}
    <2>1. d = 0
      BY <1>5 DEF Done
    <2>2. u * d = 0
      BY <1>1, <2>1
    <2> HIDE DEF u, n, m, d
    <2> QED
      BY <1>3, <1>4, <1>5, <2>2
  <1>6. ASSUME stage[p] \in {"exchange", "retire"}
        PROVE  t \in Nat /\ n * t \in Nat /\ n * t <= n * m
    <2>1. request[p] \in 0 .. Requests - 1 /\ plan \in Plans
      BY <1>1, <1>6, Where
    <2>2. t \in Nat /\ t <= m
      BY <2>1, PhasesAre
    <2> HIDE DEF t, n, m
    <2>3. t * n <= m * n /\ n * t \in Nat
      BY <1>1, <1>2, <2>2, Monotone, Product
    <2> QED
      BY <1>1, <1>2, <2>2, <2>3
  <1>7. CASE stage[p] = "retire"
    <2>1. d = n * t
      BY <1>7 DEF Done
    <2>2. n * t \in Nat /\ n * t <= n * m
      BY <1>6, <1>7
    <2> HIDE DEF u, n, m, d, t
    <2>3. u * (n * t) <= u * (n * m) /\ u * (n * t) \in Nat
      BY <1>1, <1>3, <2>2, Scaled
    <2> QED
      BY <1>3, <1>4, <1>7, <2>1, <2>3
  <1>8. CASE stage[p] = "exchange"
    <2> DEFINE e == Before(k, layer[p] + 1) * t
    <2>1. e <= n * t /\ e \in Nat
      <3>1. layer[p] + 1 \in Int /\ layer[p] < layer[p] + 1
        BY <1>1, Where
      <3> QED
        BY <1>1, <1>8, <3>1, DoneBound
    <2>2. n * t \in Nat /\ n * t <= n * m
      BY <1>6, <1>8
    <2>3. (Kind(p) = k => d + 1 <= e) /\ (Kind(p) # k => d = e)
      BY <1>1, <1>8, DoneBetween
    <2>4. CASE Kind(p) = k
      <3>1. Now(p, r) \in 0 .. u
        BY <2>4, NowIs
      <3>2. /\ Sent(k, p, r) = u * d + Now(p, r)
            /\ \E g \in {0, u} : Given(k, p, r) = u * d + g
        BY <1>8, <2>4 DEF Sent, Given, Using
      <3> HIDE DEF u, n, m, d, t, e
      <3>3. d + 1 <= n * m
        BY <1>1, <1>3, <2>1, <2>2, <2>3, <2>4
      <3>4. u * d + u <= u * (n * m) /\ u * d \in Nat
        BY <1>1, <1>3, <3>3, Scaled
      <3> QED
        BY <1>1, <1>3, <3>1, <3>2, <3>4
    <2>5. CASE Kind(p) # k
      <3>1. Sent(k, p, r) = u * d + 0 /\ Given(k, p, r) = u * d + 0
        BY <2>5 DEF Sent, Given, Using
      <3> HIDE DEF u, n, m, d, t, e
      <3>2. d <= n * m
        BY <1>1, <1>3, <2>1, <2>2, <2>3, <2>5
      <3>3. u * d <= u * (n * m) /\ u * d \in Nat
        BY <1>1, <1>3, <3>2, Scaled
      <3> QED
        BY <1>3, <3>1, <3>3
    <2> QED
      BY <2>4, <2>5
  <1> QED
    BY <1>1, <1>5, <1>7, <1>8, Where

LEMMA TypesHold ==
    ASSUME IInv
    PROVE  TypeOK
  <1>1. Shape /\ ControlOK
    BY DEF IInv
  <1>2. ASSUME NEW k \in Kinds, NEW r \in Ranks, NEW p \in Ranks
        PROVE  ready[k][r][p] \in 0 .. MaxCredits(k) /\ consumed[k][r][p] \in 0 .. MaxCredits(k)
    <2>1. /\ ready[k][r][p] \in Nat /\ consumed[k][r][p] \in Nat
          /\ ready[k][r][p] = IF p = r \/ Silent(k, r, p) THEN 0 ELSE Sent(k, p, r)
          /\ consumed[k][r][p] = IF p = r \/ Silent(k, r, p) THEN 0 ELSE Given(k, p, r)
      BY <1>1 DEF Shape, ControlOK, CreditsOK
    <2>2. /\ MaxCredits(k) \in Nat
          /\ Sent(k, p, r) <= MaxCredits(k) /\ Given(k, p, r) <= MaxCredits(k)
      BY <1>1, CreditsFit
    <2> QED
      BY <2>1, <2>2
  <1>3. /\ \A k \in Kinds : ready[k] \in [Ranks -> [Ranks -> 0 .. MaxCredits(k)]]
        /\ \A k \in Kinds : consumed[k] \in [Ranks -> [Ranks -> 0 .. MaxCredits(k)]]
    <2>1. \A k \in Kinds : ready[k] \in [Ranks -> [Ranks -> Nat]]
                           /\ consumed[k] \in [Ranks -> [Ranks -> Nat]]
      BY <1>1 DEF Shape
    <2> QED
      BY <1>2, <2>1
  <1> QED
    BY <1>1, <1>3 DEF Shape, TypeOK

\* TypeOK: no bank ever holds more credits than one request uses, and every
\* row of a window, a root and a pool lies within its bounds, whatever the
\* group, the layers and the plans of the requests.
THEOREM TypeCorrect == Spec => []TypeOK
  <1>1. IInv => TypeOK
    BY TypesHold
  <1> QED
    BY <1>1, InvariantCorrect, PTL

\* RetiredQuiet: no credit arrives at a bank that has been cleared before all
\* the ranks are through with the request.
THEOREM RetiredCorrect == Spec => []RetiredQuiet
  <1>1. ASSUME IInv
        PROVE  RetiredQuiet
    <2>1. TypeOK
      BY <1>1, TypesHold
    <2>2. Shape /\ ControlOK
      BY <1>1 DEF IInv
    <2>3. ASSUME NEW r \in Ranks, \A p \in Ranks : request[p] <= request[r],
                 NEW k \in retired[r], NEW p \in Ranks
          PROVE  ready[k][r][p] = 0 /\ consumed[k][r][p] = 0
      <3>1. k \in Kinds /\ request[p] \in Int /\ request[r] \in Int
        BY <2>2, Sizes DEF Shape
      <3>2. Silent(k, r, p)
        BY <2>3, <3>1 DEF Silent
      <3> QED
        BY <2>2, <3>1, <3>2 DEF ControlOK, CreditsOK
    <2> QED
      BY <2>1, <2>3 DEF RetiredQuiet
  <1> QED
    BY <1>1, InvariantCorrect, PTL

\* RootExact: a rank's attention finds exactly the owner's cached records and
\* tails once history is read, and every record of the chunk once its own
\* commits are in, each in its place.
THEOREM RootCorrect == Spec => []RootExact
  <1>1. ASSUME IInv
        PROVE  RootExact
    <2>1. Shape /\ ControlOK /\ RootOK
      BY <1>1 DEF IInv
    <2> SUFFICES ASSUME NEW r \in Ranks, stage[r] = "exchange", ~InHistory(r)
                 PROVE  /\ \A c \in Parts(Kind(r)) \X Slots(Kind(r)) :
                             root[r][c] = Filled(Owner(request[r]), layer[r], Covered(r, c[1]))[c]
                        /\ Base(request[r]) > 0 =>
                             /\ root[r][<<"state", 0>>] =
                                  Item(Owner(request[r]), layer[r], "state", Base(request[r]))
                             /\ root[r][<<"raw", 0>>] =
                                  Item(Owner(request[r]), layer[r], "raw", Base(request[r]))
      BY DEF RootExact
    <2>2. RowsRoot(r) /\ TailsRoot(r)
      BY <2>1, RootParts
    <2>3. ASSUME NEW part \in Parts(Kind(r)), NEW n \in Slots(Kind(r))
          PROVE  root[r][<<part, n>>] =
                   Filled(Owner(request[r]), layer[r], Covered(r, part))[<<part, n>>]
      <3>1. RootRows(r, part) = Covered(r, part) \div Ratio[Kind(r)]
        BY DEF RootRows, Covered
      <3>2. root[r][<<part, n>>] =
              IF n < RootRows(r, part) THEN Item(Owner(request[r]), layer[r], part, n) ELSE Nothing
        BY <2>2 DEF RowsRoot
      <3> QED
        BY <3>1, <3>2, FilledIs DEF Kind
    <2>4. Base(request[r]) > 0 => phase[r] > 0
      <3>1. /\ PositionAt(r) /\ request[r] \in 0 .. Requests - 1 /\ Kind(r) \in Kinds
            /\ plan \in Plans /\ phase[r] \in Nat
        BY <2>1, Where DEF ControlOK
      <3>2. HistoryPhases(Kind(r), request[r]) \in Nat
            /\ (HistoryPhases(Kind(r), request[r]) > 0 <=> Base(request[r]) > 0)
        BY <3>1, PhasesAre
      <3> QED
        BY <3>1, <3>2 DEF InHistory
    <2> QED
      BY <2>2, <2>3, <2>4 DEF TailsRoot
  <1> QED
    BY <1>1, InvariantCorrect, PTL

\* The requests that a layer of an owner has behind it.
LEMMA CachedIs ==
    ASSUME Shape, ControlOK, NEW o \in Ranks, NEW l \in DOMAIN LayerKinds
    PROVE  Cached(o, l) = TokensBefore(o, Requested(o, l))
  <1> DEFINE n == Requested(o, l)
  <1>1. /\ PositionAt(o) /\ layer[o] \in Int /\ l \in Int /\ request[o] \in 0 .. Requests
        /\ Requests \in Nat /\ (stage[o] = "stopped" <=> request[o] = Requests)
    BY Sizes DEF Shape, ControlOK, PositionAt
  <1>2. \A q \in Int : q \in 0 .. Requests - 1 /\ Behind(o, l, q) <=> q \in 0 .. n - 1
    BY <1>1 DEF Behind, Requested
  <1> DEFINE last(D) == IF D = {} THEN Cached0(o) ELSE End(CHOOSE q \in D : \A i \in D : i <= q)
             done == {q \in 0 .. Requests - 1 : Owner(q) = o /\ Behind(o, l, q)}
             own == {q \in 0 .. n - 1 : Owner(q) = o}
  <1>3. done = own
    BY <1>2
  <1>4. Cached(o, l) = last(done) /\ TokensBefore(o, n) = last(own)
    BY DEF Cached, TokensBefore
  <1> HIDE DEF last, done, own
  <1> QED
    BY <1>3, <1>4

\* CacheExact: outside the layer it is committing, an owner's pools hold the
\* records and the state of its own sequence and nothing else.
THEOREM CacheCorrect == Spec => []CacheExact
  <1>1. ASSUME IInv
        PROVE  CacheExact
    <2>1. Shape /\ ControlOK /\ CacheOK
      BY <1>1 DEF IInv
    <2>2. ASSUME NEW o \in Ranks, NEW l \in DOMAIN LayerKinds, ~Committing(o, l)
          PROVE  cache[o][l] = Filled(o, l, Cached(o, l))
      <3>1. \A c \in Cells(LayerKinds[l]) : cache[o][l][c] = Filled(o, l, Cached(o, l))[c]
        BY <2>1, <2>2, CommittedNone, CachedIs
      <3>2. cache[o][l] \in [Cells(LayerKinds[l]) -> Items]
        BY <2>1 DEF Shape
      <3>3. Filled(o, l, Cached(o, l)) =
              [c \in Cells(LayerKinds[l]) |-> Filled(o, l, Cached(o, l))[c]]
        BY DEF Filled
      <3> QED
        BY <3>1, <3>2, <3>3
    <2> QED
      BY <2>2 DEF CacheExact, Committing
  <1> QED
    BY <1>1, InvariantCorrect, PTL
=============================================================================
