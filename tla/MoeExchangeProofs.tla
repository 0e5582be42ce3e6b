-------------------------- MODULE MoeExchangeProofs --------------------------
(***************************************************************************)
(* The expert-parallel exchange, for any number of ranks, experts, tokens, *)
(* layers and forwards and any routing: a rank runs its experts on the     *)
(* rows of its layer, sums the results of its layer, and clears its        *)
(* counters when they hold the signals of the forward and no other.        *)
(***************************************************************************)
EXTENDS MoeExchangeInv, FiniteSetTheorems, TLAPS

-----------------------------------------------------------------------------
(* Arithmetic of sizes, experts and calls.                                 *)

LEMMA Products ==
    ASSUME NEW a \in Nat, NEW b \in Nat, NEW c \in Nat
    PROVE  /\ a * c \in Nat
           /\ a <= b => a * c <= b * c
           /\ a < b => a * c + c <= b * c
  <1>1. a * c \in Nat /\ b * c \in Nat
    OBVIOUS
  <1>2. ASSUME a <= b
        PROVE  a * c <= b * c
    <2>1. (b - a) * c \in Nat
      BY <1>2
    <2>2. (b - a) * c = b * c - a * c
      OBVIOUS
    <2> QED
      BY <1>1, <2>1, <2>2
  <1>3. ASSUME a < b
        PROVE  a * c + c <= b * c
    <2>1. b - a - 1 \in Nat
      BY <1>3
    <2>2. (b - a - 1) * c \in Nat
      BY <2>1
    <2>3. (b - a - 1) * c = b * c - a * c - c
      OBVIOUS
    <2> QED
      BY <1>1, <2>2, <2>3
  <1> QED
    BY <1>1, <1>2, <1>3

LEMMA Sizes ==
    /\ EP \in Nat \ {0} /\ Local \in Nat \ {0} /\ Tokens \in Nat /\ TopK \in Nat
    /\ Layers \in Nat \ {0} /\ Forwards \in Nat \ {0} /\ Groups \in Nat \ {0}
  BY SizesAssumption DEF Groups

\* Quotient and remainder.
LEMMA Divided ==
    ASSUME NEW c \in Nat \ {0}, NEW n \in Nat
    PROVE  /\ n \div c \in Nat /\ n % c \in 0 .. c - 1
           /\ n = (n \div c) * c + (n % c)
           /\ \A q \in Nat : n < q * c => n \div c < q
           /\ \A q \in Nat, m \in 0 .. c - 1 : n = q * c + m => n \div c = q /\ n % c = m
  <1> DEFINE d == n \div c
             k == n % c
  <1>1. d \in Int /\ k \in 0 .. c - 1 /\ n = c * d + k
    OBVIOUS
  <1>a. d * c = c * d
    BY <1>1
  <1>2. d \in Nat
    <2> HIDE DEF d, k
    <2>1. CASE d <= -1
      <3>1. (-d - 1) * c >= 0
        BY <1>1, <2>1
      <3>2. (-d - 1) * c = -(c * d) - c
        BY <1>1
      <3> QED
        BY <1>1, <3>1, <3>2
    <2> QED
      BY <1>1, <2>1
  <1>3. ASSUME NEW q \in Nat, n < q * c
        PROVE  d < q
    <2> HIDE DEF d, k
    <2>1. CASE q <= d
      <3>1. q * c <= d * c
        BY <1>2, <2>1, Products
      <3> QED
        BY <1>1, <1>2, <1>3, <1>a, <3>1
    <2> QED
      BY <1>2, <2>1
  <1>4. ASSUME NEW q \in Nat, NEW m \in 0 .. c - 1, n = q * c + m
        PROVE  d = q /\ k = m
    <2> HIDE DEF d, k
    <2>1. CASE d < q
      <3>1. d * c + c <= q * c
        BY <1>2, <2>1, Products
      <3> QED
        BY <1>1, <1>2, <1>4, <1>a, <3>1
    <2>2. CASE q < d
      <3>1. q * c + c <= d * c
        BY <1>2, <2>2, Products
      <3> QED
        BY <1>1, <1>2, <1>4, <1>a, <3>1
    <2> QED
      BY <1>1, <1>2, <1>4, <1>a, <2>1, <2>2
  <1> QED
    BY <1>1, <1>a, <1>2, <1>3, <1>4

LEMMA Composed ==
    ASSUME NEW c \in Nat \ {0}, NEW q \in Nat, NEW m \in 0 .. c - 1
    PROVE  (q * c + m) \div c = q /\ (q * c + m) % c = m
  <1> DEFINE n == q * c + m
  <1>1. n \in Nat
    <2>1. q * c \in Nat
      BY Products
    <2> QED
      BY <2>1
  <1>2. n = q * c + m
    OBVIOUS
  <1> HIDE DEF n
  <1>3. n \div c = q /\ n % c = m
    BY <1>1, <1>2, Divided
  <1> QED
    BY <1>3 DEF n

LEMMA CallType ==
    ASSUME Places, NEW r \in Ranks
    PROVE  Call(r) \in Calls
  <1>1. forward \in Nat /\ Forwards \in Nat /\ forward < Forwards /\ Layers \in Nat
        /\ layer[r] \in Nat /\ layer[r] <= Layers
    BY Sizes DEF Places
  <1>2. forward * Layers + Layers <= Forwards * Layers /\ forward * Layers \in Nat
        /\ Forwards * Layers \in Nat
    BY <1>1, Products
  <1> QED
    BY <1>1, <1>2 DEF Call, Calls

-----------------------------------------------------------------------------
(* Routes and the slots of a lane.                                         *)

LEMMA RoutesShape ==
    ASSUME NEW f \in Routings \cup {<<>>}
    PROVE  /\ \E n \in 0 .. Tokens : DOMAIN f = 0 .. n * TopK - 1
           /\ DOMAIN f \subseteq Routes /\ IsFiniteSet(DOMAIN f)
           /\ \A x \in DOMAIN f :
                 /\ f[x] \in 0 .. EP * Local - 1
                 /\ f[x] \in Nat /\ f[x] \div Local \in Ranks /\ f[x] % Local \in LocalExperts
                 /\ f[x] = (f[x] \div Local) * Local + (f[x] % Local)
  <1>1. PICK n \in 0 .. Tokens : DOMAIN f = 0 .. n * TopK - 1
    <2>1. CASE f \in Routings
      BY <2>1, RoutingsAssumption
    <2>2. CASE f = <<>>
      <3>1. 0 \in 0 .. Tokens /\ 0 .. 0 * TopK - 1 = {}
        BY Sizes
      <3>2. DOMAIN f = {}
        BY <2>2
      <3> QED
        BY <3>1, <3>2
    <2> QED
      BY <2>1, <2>2
  <1>2. n * TopK \in Nat /\ n * TopK <= Tokens * TopK /\ Tokens * TopK \in Nat
    BY Sizes, Products
  <1>3. DOMAIN f \subseteq Routes
    BY <1>1, <1>2 DEF Routes
  <1>4. IsFiniteSet(DOMAIN f)
    BY <1>1, <1>2, FS_Interval
  <1>5. ASSUME NEW x \in DOMAIN f
        PROVE  /\ f[x] \in 0 .. EP * Local - 1
               /\ f[x] \in Nat /\ f[x] \div Local \in Ranks /\ f[x] % Local \in LocalExperts
               /\ f[x] = (f[x] \div Local) * Local + (f[x] % Local)
    <2>1. f \in Routings
      BY <1>5
    <2>2. f[x] \in 0 .. EP * Local - 1
      BY <2>1, RoutingsAssumption
    <2>3. EP * Local \in Nat /\ EP \in Nat /\ Local \in Nat \ {0}
      BY Sizes, Products
    <2>4. f[x] \in Nat /\ f[x] < EP * Local
      BY <2>2, <2>3
    <2>5. /\ f[x] \div Local \in Nat /\ f[x] % Local \in 0 .. Local - 1
          /\ f[x] = (f[x] \div Local) * Local + (f[x] % Local)
          /\ f[x] \div Local < EP
      <3> DEFINE v == f[x]
      <3>1. v \in Nat /\ v < EP * Local
        BY <2>4
      <3> HIDE DEF v
      <3>2. /\ v \div Local \in Nat /\ v % Local \in 0 .. Local - 1
            /\ v = (v \div Local) * Local + (v % Local)
            /\ v \div Local < EP
        BY <2>3, <3>1, Divided
      <3> QED
        BY <3>2 DEF v
    <2> QED
      BY <2>2, <2>3, <2>4, <2>5 DEF Ranks, LocalExperts
  <1> QED
    BY <1>1, <1>3, <1>4, <1>5

\* The routes to expert e.
To(f, e) == {x \in DOMAIN f : f[x] = e}

\* A token has at most one route to an expert, so the routes to it are at most
\* as many as the tokens.
LEMMA RowsBound ==
    ASSUME NEW f \in Routings \cup {<<>>}, NEW e
    PROVE  IsFiniteSet(To(f, e)) /\ RowsFor(f, e) \in 0 .. Tokens
  <1>1. PICK n \in 0 .. Tokens : DOMAIN f = 0 .. n * TopK - 1
    BY RoutesShape
  <1>2. IsFiniteSet(To(f, e))
    BY RoutesShape, FS_Subset DEF To
  <1> DEFINE token == [x \in To(f, e) |-> x \div TopK]
  <1>3. CASE To(f, e) = {}
    BY <1>3, FS_EmptySet, Sizes DEF RowsFor, To
  <1>4. CASE To(f, e) # {}
    <2>1. f \in Routings
      BY <1>4 DEF To
    <2>2. n \in Nat /\ TopK \in Nat /\ n * TopK \in Nat
      BY Sizes, Products
    <2>3. TopK # 0
      BY <1>1, <1>4, <2>2 DEF To
    <2>4. ASSUME NEW x \in To(f, e)
          PROVE  x \div TopK \in 0 .. n - 1
      <3>1. x \in Nat /\ x < n * TopK /\ TopK \in Nat \ {0}
        BY <1>1, <2>2, <2>3 DEF To
      <3>2. x \div TopK \in Nat /\ x \div TopK < n
        BY <2>2, <3>1, Divided
      <3> QED
        BY <2>2, <3>2
    <2>5. ASSUME NEW x \in To(f, e), NEW y \in To(f, e), x \div TopK = y \div TopK
          PROVE  x = y
      BY <2>1, <2>5, RoutingsAssumption DEF To
    <2>6. token \in Injection(To(f, e), 0 .. n - 1)
      BY <2>4, <2>5 DEF Injection, IsInjective
    <2>7. IsFiniteSet(0 .. n - 1) /\ Cardinality(0 .. n - 1) = n
      BY <2>2, FS_Interval
    <2>8. Cardinality(To(f, e)) <= n
      BY <2>6, <2>7, FS_Injection
    <2>9. Cardinality(To(f, e)) \in Nat
      BY <1>2, FS_CardinalityType
    <2>10. Cardinality(To(f, e)) \in 0 .. Tokens
      BY <2>2, <2>8, <2>9, Sizes
    <2> QED
      BY <1>2, <2>10 DEF RowsFor, To
  <1> QED
    BY <1>2, <1>3, <1>4
LEMMA SlotFacts ==
    ASSUME NEW f \in Routings \cup {<<>>}, NEW x \in DOMAIN f
    PROVE  /\ SlotOf(f, x) \in Nat /\ SlotOf(f, x) \in Slots
           /\ SlotOf(f, x) < RowsFor(f, f[x])
           /\ \A y \in DOMAIN f : f[y] = f[x] /\ SlotOf(f, y) = SlotOf(f, x) => y = x
  <1> DEFINE Before(y) == {z \in DOMAIN f : z < y /\ f[z] = f[y]}
  <1>1. DOMAIN f \subseteq Nat
    BY RoutesShape, Sizes, Products DEF Routes
  <1>2. ASSUME NEW y \in DOMAIN f
        PROVE  IsFiniteSet(Before(y)) /\ SlotOf(f, y) = Cardinality(Before(y))
               /\ SlotOf(f, y) \in Nat
    BY RoutesShape, FS_Subset, FS_CardinalityType DEF SlotOf
  <1>3. ASSUME NEW y \in DOMAIN f, NEW S, IsFiniteSet(S), Before(y) \cup {y} \subseteq S
        PROVE  SlotOf(f, y) < Cardinality(S)
    <2>1. y \notin Before(y)
      BY <1>1
    <2>2. Cardinality(Before(y) \cup {y}) = Cardinality(Before(y)) + 1
      BY <1>2, <2>1, FS_AddElement
    <2>3. Cardinality(Before(y) \cup {y}) <= Cardinality(S) /\ Cardinality(S) \in Nat
      BY <1>3, FS_Subset, FS_CardinalityType
    <2>4. SlotOf(f, y) = Cardinality(Before(y)) /\ SlotOf(f, y) \in Nat
      BY <1>2
    <2> HIDE DEF Before
    <2> QED
      BY <2>2, <2>3, <2>4
  <1>4. ASSUME NEW y \in DOMAIN f, NEW z \in DOMAIN f, y < z, f[y] = f[z]
        PROVE  SlotOf(f, y) < SlotOf(f, z)
    <2>1. Before(y) \cup {y} \subseteq Before(z)
      BY <1>1, <1>4
    <2> HIDE DEF Before
    <2> QED
      BY <1>2, <1>3, <2>1
  <1>5. SlotOf(f, x) < RowsFor(f, f[x])
    <2>1. Before(x) \cup {x} \subseteq To(f, f[x])
      BY DEF To
    <2>2. IsFiniteSet(To(f, f[x])) /\ RowsFor(f, f[x]) = Cardinality(To(f, f[x]))
      BY RowsBound DEF RowsFor, To
    <2> HIDE DEF Before
    <2> QED
      BY <1>3, <2>1, <2>2
  <1>6. SlotOf(f, x) \in Slots
    <2>1. RowsFor(f, f[x]) \in 0 .. Tokens /\ Tokens \in Nat
      BY RowsBound, Sizes
    <2>2. SlotOf(f, x) \in Nat
      BY <1>2
    <2> QED
      BY <1>5, <2>1, <2>2 DEF Slots
  <1>7. ASSUME NEW y \in DOMAIN f, f[y] = f[x], SlotOf(f, y) = SlotOf(f, x)
        PROVE  y = x
    <2>1. y < x \/ x < y \/ x = y
      BY <1>1
    <2>2. SlotOf(f, x) \in Nat /\ ~(SlotOf(f, y) < SlotOf(f, x)) /\ ~(SlotOf(f, x) < SlotOf(f, y))
      <3>1. SlotOf(f, x) \in Nat
        BY <1>2
      <3> QED
        BY <3>1, <1>7
    <2>3. ~(y < x)
      BY <1>4, <1>7, <2>2
    <2>4. ~(x < y)
      BY <1>4, <1>7, <2>2
    <2> QED
      BY <2>1, <2>3, <2>4
  <1> QED
    BY <1>2, <1>5, <1>6, <1>7

\* The slots of a lane are filled from the first, without a gap.
LEMMA SlotsFilled ==
    ASSUME NEW f \in Routings \cup {<<>>}, NEW e, NEW i \in Nat, i < RowsFor(f, e)
    PROVE  \E x \in DOMAIN f : f[x] = e /\ SlotOf(f, x) = i
  <1> DEFINE n == RowsFor(f, e)
             slot == [x \in To(f, e) |-> SlotOf(f, x)]
  <1>a. IsFiniteSet(To(f, e)) /\ n \in 0 .. Tokens /\ Tokens \in Nat
    BY RowsBound, Sizes
  <1>b. Cardinality(To(f, e)) = n
    BY DEF RowsFor, To
  <1>1. IsFiniteSet(To(f, e)) /\ Cardinality(To(f, e)) = n /\ n \in Nat
    <2> HIDE DEF n
    <2> QED
      BY <1>a, <1>b
  <1>2. IsFiniteSet(0 .. n - 1) /\ Cardinality(0 .. n - 1) = n
    <2> HIDE DEF n
    <2>1. n \in Nat /\ 0 \in Int /\ n - 1 \in Int
      BY <1>1
    <2>2. IsFiniteSet(0 .. n - 1) /\ Cardinality(0 .. n - 1) = IF 0 > n - 1 THEN 0 ELSE n - 1 - 0 + 1
      BY <2>1, FS_Interval
    <2> QED
      BY <2>1, <2>2
  <1>3. \A x \in To(f, e) : SlotOf(f, x) \in 0 .. n - 1
    BY <1>1, SlotFacts DEF To
  <1>4. \A x, y \in To(f, e) : SlotOf(f, x) = SlotOf(f, y) => x = y
    BY SlotFacts DEF To
  <1>5. slot \in Injection(To(f, e), 0 .. n - 1)
    BY <1>3, <1>4 DEF Injection, IsInjective
  <1> HIDE DEF n, slot
  <1>6. slot \in Surjection(To(f, e), 0 .. n - 1)
    BY <1>1, <1>2, <1>5, FS_Injection
  <1>7. i \in 0 .. n - 1
    BY <1>1 DEF n
  <1>8. PICK x \in To(f, e) : slot[x] = i
    BY <1>6, <1>7 DEF Surjection
  <1> QED
    BY <1>8 DEF slot, To
-----------------------------------------------------------------------------
(* Types.                                                                  *)

LEMMA NoneTypes ==
    /\ NoRow \in LaneRows /\ NoResult \in ResultRows
    /\ NoMeta \in MetaRows /\ NoCount \in [Ranks -> MetaRows]
    /\ Idle \in [Ranks -> [BlockIds -> {"idle", "putting", "done"}]]
  <1>1. 0 \in Calls /\ 0 \in 0 .. Tokens
    BY Sizes, Products DEF Calls
  <1>2. -1 \in -1 .. EP * Local - 1
    BY Sizes, Products
  <1>3. NoMeta \in MetaRows
    BY <1>1 DEF NoMeta, MetaRows
  <1> QED
    BY <1>1, <1>2, <1>3 DEF NoRow, LaneRows, NoResult, ResultRows, NoCount, Idle, BlockIds

\* Two routes of a source go to different cells of an expert's rank.
LEMMA CellFacts ==
    ASSUME Contents, NEW s \in Ranks, NEW x \in DOMAIN routing[s]
    PROVE  /\ CellOf(s, x) \in Lanes /\ CellOf(s, x)[2] = s
           /\ x \in Routes /\ routing[s][x] \in 0 .. EP * Local - 1
           /\ routing[s][x] \div Local \in Ranks /\ routing[s][x] % Local \in LocalExperts
           /\ \A y \in DOMAIN routing[s] :
                 /\ routing[s][y] \div Local = routing[s][x] \div Local
                 /\ CellOf(s, y) = CellOf(s, x)
                 => y = x
  <1> DEFINE f == routing[s]
  <1>1. f \in Routings \cup {<<>>} /\ x \in DOMAIN f
    BY DEF Contents
  <1> HIDE DEF f
  <1>2. SlotOf(f, x) \in Slots /\ \A y \in DOMAIN f : f[y] = f[x] /\ SlotOf(f, y) = SlotOf(f, x) => y = x
    BY <1>1, SlotFacts
  <1>3. /\ x \in Routes /\ f[x] \in 0 .. EP * Local - 1
        /\ f[x] \div Local \in Ranks /\ f[x] % Local \in LocalExperts
        /\ \A y \in DOMAIN f : f[y] = (f[y] \div Local) * Local + (f[y] % Local)
    BY <1>1, RoutesShape
  <1>4. CellOf(s, x) = <<f[x] % Local, s, SlotOf(f, x)>>
        /\ \A y \in DOMAIN f : CellOf(s, y) = <<f[y] % Local, s, SlotOf(f, y)>>
    BY DEF CellOf, f
  <1>5. CellOf(s, x) \in Lanes /\ CellOf(s, x)[2] = s
    BY <1>2, <1>3, <1>4 DEF Lanes
  <1>6. ASSUME NEW y \in DOMAIN f, f[y] \div Local = f[x] \div Local, CellOf(s, y) = CellOf(s, x)
        PROVE  y = x
    <2>1. f[y] % Local = f[x] % Local /\ SlotOf(f, y) = SlotOf(f, x)
      BY <1>4, <1>6
    <2>2. f[y] = f[x]
      <3>1. f[y] = (f[y] \div Local) * Local + (f[y] % Local)
        BY <1>3
      <3>2. f[x] = (f[x] \div Local) * Local + (f[x] % Local)
        BY <1>1, <1>3
      <3>3. (f[y] \div Local) * Local + (f[y] % Local) = (f[x] \div Local) * Local + (f[x] % Local)
        BY <1>6, <2>1, Zenon
      <3> QED
        BY <3>1, <3>2, <3>3, Zenon
    <2> QED
      BY <1>2, <2>1, <2>2
  <1> QED
    BY <1>3, <1>5, <1>6 DEF f

LEMMA MetaRowType ==
    ASSUME Places, Contents, NEW r \in Ranks, NEW d \in Ranks
    PROVE  MetaRow(r, d) \in MetaRows
  <1>1. \A e \in LocalExperts : RowsFor(routing[r], d * Local + e) \in 0 .. Tokens
    BY RowsBound DEF Contents
  <1> QED
    BY <1>1, CallType DEF MetaRow, MetaRows

LEMMA PushWrites ==
    ASSUME Contents, NEW r \in Ranks, NEW d \in Ranks, NEW g \in BlockIds,
           FinishPush(r, d, g)
    PROVE  /\ \A p \in Ranks, c \in Lanes : p # d \/ c \notin Cells(r, d, g) => recv'[p][c] = recv[p][c]
           /\ \A x \in Sent(r, d, g) :
                 recv'[d][CellOf(r, x)] = [call |-> Call(r), source |-> r, route |-> x]
           /\ recv' = [p \in Ranks |-> [c \in Lanes |-> recv'[p][c]]]
  <1> DEFINE Row(c) == [call |-> Call(r), source |-> r,
                        route |-> CHOOSE x \in Sent(r, d, g) : CellOf(r, x) = c]
  <1>1. /\ recv \in [Ranks -> [Lanes -> LaneRows]]
        /\ recv' = [recv EXCEPT ![d] =
                      [c \in Lanes |-> IF c \in Cells(r, d, g) THEN Row(c) ELSE recv[d][c]]]
    BY DEF Contents, FinishPush
  <1> HIDE DEF Row
  <1>2. /\ \A p \in Ranks, c \in Lanes : p # d \/ c \notin Cells(r, d, g) => recv'[p][c] = recv[p][c]
        /\ \A c \in Lanes : c \in Cells(r, d, g) => recv'[d][c] = Row(c)
        /\ recv' = [p \in Ranks |-> [c \in Lanes |-> recv'[p][c]]]
    BY <1>1
  <1>3. ASSUME NEW x \in Sent(r, d, g)
        PROVE  recv'[d][CellOf(r, x)] = [call |-> Call(r), source |-> r, route |-> x]
    <2>1. x \in DOMAIN routing[r] /\ CellOf(r, x) \in Lanes /\ CellOf(r, x) \in Cells(r, d, g)
      BY CellFacts DEF Sent, Cells
    <2>2. \A y \in Sent(r, d, g) : CellOf(r, y) = CellOf(r, x) => y = x
      BY <2>1, CellFacts DEF Sent
    <2>3. (CHOOSE y \in Sent(r, d, g) : CellOf(r, y) = CellOf(r, x)) = x
      BY <2>2
    <2> QED
      BY <1>2, <2>1, <2>3 DEF Row
  <1> QED
    BY <1>2, <1>3
LEMMA ShapeInit == Init => Shape
  <1> SUFFICES ASSUME Init PROVE Shape
    OBVIOUS
  <1>1. Places
    BY Sizes, NoneTypes DEF Init, Places, Stages, BlockIds
  <1>2. Contents
    BY NoneTypes DEF Init, Contents, Ranks
  <1>3. Counters
    BY DEF Init, Counters
  <1> QED
    BY <1>1, <1>2, <1>3 DEF Shape

LEMMA PlacesStep ==
    ASSUME Places, NEW r \in Ranks, RankStep(r)
    PROVE  Places'
  <1> USE DEF Places
  <1>0. /\ forward \in 0 .. Forwards - 1 /\ layer \in [Ranks -> 1 .. Layers]
        /\ stage \in [Ranks -> Stages] /\ meta \in [Ranks -> 0 .. EP]
        /\ push \in [Ranks -> [Ranks -> [BlockIds -> {"idle", "putting", "done"}]]]
        /\ pending \in [Ranks -> SUBSET (1 .. Layers)]
        /\ scatter \in [Ranks -> [Ranks -> {"idle", "putting", "done"}]]
        /\ told \in [Ranks -> 0 .. EP] /\ EP \in Nat \ {0} /\ Layers \in Nat \ {0}
    BY Sizes
  <1>1. CASE Gate(r)
    BY <1>0, <1>1 DEF Gate, Stages
  <1>2. CASE SendMeta(r)
    BY <1>0, <1>2 DEF SendMeta
  <1>3. CASE CopyCounts(r)
    BY <1>0, <1>3 DEF CopyCounts
  <1>4. ASSUME NEW d \in Ranks, NEW g \in BlockIds, StartPush(r, d, g) \/ FinishPush(r, d, g)
        PROVE  Places'
    <2>1. \E v \in {"putting", "done"} : push' = [push EXCEPT ![r][d][g] = v]
      BY <1>4 DEF StartPush, FinishPush
    <2>2. push' \in [Ranks -> [Ranks -> [BlockIds -> {"idle", "putting", "done"}]]]
      BY <1>0, <2>1
    <2>3. UNCHANGED <<forward, layer, stage, meta, pending, scatter, told>>
      BY <1>4 DEF StartPush, FinishPush
    <2> QED
      BY <1>0, <2>2, <2>3
  <1>5. ASSUME NEW e \in 1 .. Layers, WaitPayload(r, e)
        PROVE  Places'
    BY <1>0, <1>5 DEF WaitPayload
  <1>6. CASE Gather(r)
    BY <1>0, <1>6 DEF Gather
  <1>7. ASSUME NEW s \in Ranks, StartScatter(r, s) \/ FinishScatter(r, s)
        PROVE  Places'
    <2>1. \E v \in {"putting", "done"} : scatter' = [scatter EXCEPT ![r][s] = v]
      BY <1>7 DEF StartScatter, FinishScatter
    <2>2. scatter' \in [Ranks -> [Ranks -> {"idle", "putting", "done"}]]
      BY <1>0, <2>1
    <2>3. UNCHANGED <<forward, layer, stage, meta, push, pending, told>>
      BY <1>7 DEF StartScatter, FinishScatter
    <2> QED
      BY <1>0, <2>2, <2>3
  <1>8. CASE StartCombine(r)
    BY <1>0, <1>8 DEF StartCombine, Stages
  <1>9. CASE TellDone(r)
    BY <1>0, <1>9 DEF TellDone
  <1>10. CASE CombineWait(r)
    BY <1>0, <1>10 DEF CombineWait, Stages
  <1>11. CASE Reduce(r)
    BY <1>0, <1>11 DEF Reduce, Stages
  <1>12. CASE NextLayer(r)
    <2>1. push' \in [Ranks -> [Ranks -> [BlockIds -> {"idle", "putting", "done"}]]]
      BY <1>0, <1>12, NoneTypes DEF NextLayer
    <2>2. scatter' \in [Ranks -> [Ranks -> {"idle", "putting", "done"}]]
      BY <1>0, <1>12 DEF NextLayer
    <2>3. layer' \in [Ranks -> 1 .. Layers] /\ stage' \in [Ranks -> Stages]
      <3>1. CASE layer[r] < Layers
        <4>1. layer' = [layer EXCEPT ![r] = @ + 1] /\ stage' = [stage EXCEPT ![r] = "gate"]
          BY <1>12, <3>1 DEF NextLayer
        <4> QED
          BY <1>0, <3>1, <4>1 DEF Stages
      <3>2. CASE ~(layer[r] < Layers)
        <4>1. layer' = layer /\ stage' = [stage EXCEPT ![r] = "clear"]
          BY <1>12, <3>2 DEF NextLayer
        <4> QED
          BY <1>0, <4>1 DEF Stages
      <3> QED
        BY <3>1, <3>2
    <2>4. meta' \in [Ranks -> 0 .. EP] /\ told' \in [Ranks -> 0 .. EP]
          /\ UNCHANGED <<forward, pending>>
      BY <1>0, <1>12 DEF NextLayer
    <2> QED
      BY <1>0, <2>1, <2>2, <2>3, <2>4
  <1>13. CASE ClearSignals(r)
    BY <1>0, <1>13 DEF ClearSignals
  <1>14. CASE Finish(r)
    BY <1>0, <1>14 DEF Finish, Stages
  <1> QED
    BY <1>1, <1>2, <1>3, <1>4, <1>5, <1>6, <1>7, <1>8, <1>9, <1>10, <1>11, <1>12, <1>13, <1>14
       DEF RankStep, BlockIds

\* One more signal of q in a counter of p.
LEMMA Notified ==
    ASSUME NEW counts \in [Ranks -> [Ranks -> Nat]], NEW p \in Ranks, NEW q \in Ranks
    PROVE  /\ [counts EXCEPT ![p][q] = @ + 1] \in [Ranks -> [Ranks -> Nat]]
           /\ \A x, y \in Ranks :
                 [counts EXCEPT ![p][q] = @ + 1][x][y] =
                    IF x = p /\ y = q THEN counts[x][y] + 1 ELSE counts[x][y]
  OBVIOUS

LEMMA CountersStep ==
    ASSUME Places, Counters, NEW r \in Ranks, RankStep(r)
    PROVE  Counters'
  <1> USE DEF Counters
  <1>1. CASE SendMeta(r)
    <2>1. meta[r] \in Ranks
      BY <1>1, Sizes DEF SendMeta, Places, Ranks
    <2>2. arrived' \in [Ranks -> [Ranks -> Nat]] /\ UNCHANGED <<dataArrived, combineArrived>>
      BY <1>1, <2>1, Notified DEF SendMeta
    <2> QED
      BY <2>2
  <1>2. ASSUME NEW d \in Ranks, NEW g \in BlockIds, FinishPush(r, d, g)
        PROVE  Counters'
    <2>1. dataArrived' \in [Ranks -> [Ranks -> Nat]] /\ UNCHANGED <<arrived, combineArrived>>
      BY <1>2, Notified DEF FinishPush
    <2> QED
      BY <2>1
  <1>3. CASE TellDone(r)
    <2>1. told[r] \in Ranks
      BY <1>3, Sizes DEF TellDone, Places, Ranks
    <2>2. combineArrived' \in [Ranks -> [Ranks -> Nat]] /\ UNCHANGED <<arrived, dataArrived>>
      BY <1>3, <2>1, Notified DEF TellDone
    <2> QED
      BY <2>2
  <1>4. CASE ClearSignals(r)
    BY <1>4 DEF ClearSignals
  <1>5. CASE UNCHANGED signals
    BY <1>5 DEF signals
  <1> QED
    BY <1>1, <1>2, <1>3, <1>4, <1>5
       DEF RankStep, BlockIds, Gate, CopyCounts, StartPush, WaitPayload, Gather, StartScatter,
           FinishScatter, StartCombine, CombineWait, Reduce, NextLayer, Finish, signals

LEMMA ResultType ==
    ASSUME Contents, NEW r \in Ranks, NEW s \in Ranks, NEW y \in Results(r, s)
    PROVE  y \in ResultRows
  <1>1. PICK g \in gathered[r] :
          y = [call |-> g[2].call, expert |-> r * Local + g[1][1], route |-> g[2].route]
    BY DEF Results
  <1>2. g[1] \in Lanes /\ g[2] \in LaneRows
    BY DEF Contents
  <1>3. g[1][1] \in LocalExperts /\ g[2].call \in Calls /\ g[2].route \in Routes \cup {-1}
    BY <1>2 DEF Lanes, LaneRows
  <1>4. r \in Nat /\ r < EP /\ EP \in Nat /\ Local \in Nat
    BY Sizes DEF Ranks
  <1>5. r * Local \in Nat /\ r * Local + Local <= EP * Local /\ EP * Local \in Nat
    BY <1>4, Products
  <1>6. r * Local + g[1][1] \in -1 .. EP * Local - 1
    BY <1>3, <1>4, <1>5 DEF LocalExperts
  <1> QED
    BY <1>1, <1>3, <1>6 DEF ResultRows

LEMMA ScatterTypes ==
    ASSUME Contents, NEW r \in Ranks, NEW s \in Ranks, StartScatter(r, s) \/ FinishScatter(r, s)
    PROVE  routed' \in [Ranks -> [Routes -> ResultRows]]
  <1>1. routed \in [Ranks -> [Routes -> ResultRows]]
    BY DEF Contents
  <1>2. CASE StartScatter(r, s)
    <2>1. routed' = [routed EXCEPT ![s] =
                       [x \in Routes |-> IF \E y \in Results(r, s) : y.route = x
                                           THEN NoResult ELSE routed[s][x]]]
      BY <1>2 DEF StartScatter
    <2> QED
      BY <1>1, <2>1, NoneTypes
  <1>3. CASE FinishScatter(r, s)
    <2> DEFINE Put(x) == CHOOSE y \in Results(r, s) : y.route = x
    <2>1. routed' = [routed EXCEPT ![s] =
                       [x \in Routes |-> IF \E y \in Results(r, s) : y.route = x
                                           THEN Put(x) ELSE routed[s][x]]]
      BY <1>3 DEF FinishScatter
    <2>2. \A x \in Routes : (\E y \in Results(r, s) : y.route = x) => Put(x) \in ResultRows
      BY ResultType
    <2> HIDE DEF Put
    <2> QED
      BY <1>1, <2>1, <2>2
  <1> QED
    BY <1>2, <1>3

LEMMA ContentsStep ==
    ASSUME Shape, NEW r \in Ranks, RankStep(r)
    PROVE  Contents'
  <1> USE DEF Contents
  <1>0. Places /\ Contents
    BY DEF Shape
  <1>1. CASE Gate(r)
    BY <1>0, <1>1 DEF Gate, windows
  <1>2. CASE SendMeta(r)
    <2>1. meta[r] \in Ranks
      BY <1>0, <1>2, Sizes DEF SendMeta, Places, Ranks
    <2>2. recvMeta' = [recvMeta EXCEPT ![meta[r]][r] = MetaRow(r, meta[r])]
          /\ UNCHANGED <<routing, count, gathered, reduced, recv, routed>>
      BY <1>2 DEF SendMeta
    <2>3. recvMeta' \in [Ranks -> [Ranks -> MetaRows]]
      BY <1>0, <2>1, <2>2, MetaRowType
    <2> QED
      BY <1>0, <2>2, <2>3
  <1>3. CASE CopyCounts(r)
    BY <1>0, <1>3 DEF CopyCounts, windows
  <1>4. ASSUME NEW d \in Ranks, NEW g \in BlockIds, StartPush(r, d, g)
        PROVE  Contents'
    <2>1. /\ UNCHANGED <<routing, count, gathered, reduced, recvMeta, routed>>
          /\ recv' = [recv EXCEPT ![d] =
                        [c \in Lanes |-> IF c \in Cells(r, d, g) THEN NoRow ELSE recv[d][c]]]
      BY <1>4 DEF StartPush
    <2>2. recv' \in [Ranks -> [Lanes -> LaneRows]]
      BY <1>0, <2>1, NoneTypes
    <2> QED
      BY <1>0, <2>1, <2>2
  <1>5. ASSUME NEW d \in Ranks, NEW g \in BlockIds, FinishPush(r, d, g)
        PROVE  Contents'
    <2>1. UNCHANGED <<routing, count, gathered, reduced, recvMeta, routed>>
      BY <1>5 DEF FinishPush
    <2>2. ASSUME NEW p \in Ranks, NEW c \in Lanes
          PROVE  recv'[p][c] \in LaneRows
      <3>1. CASE p = d /\ c \in Cells(r, d, g)
        <4>1. PICK x \in Sent(r, d, g) : c = CellOf(r, x)
          BY <3>1 DEF Cells
        <4>2. x \in Routes /\ Call(r) \in Calls
          BY <1>0, CellFacts, CallType DEF Sent
        <4>3. recv'[d][CellOf(r, x)] = [call |-> Call(r), source |-> r, route |-> x]
          BY <1>0, <1>5, PushWrites
        <4> QED
          BY <3>1, <4>1, <4>2, <4>3 DEF LaneRows
      <3> QED
        BY <1>0, <1>5, <3>1, PushWrites
    <2>3. recv' = [p \in Ranks |-> [c \in Lanes |-> recv'[p][c]]]
      BY <1>0, <1>5, PushWrites
    <2>4. recv' \in [Ranks -> [Lanes -> LaneRows]]
      BY <2>2, <2>3
    <2> QED
      BY <1>0, <2>1, <2>4
  <1>6. ASSUME NEW e \in 1 .. Layers, WaitPayload(r, e)
        PROVE  Contents'
    BY <1>0, <1>6 DEF WaitPayload, windows
  <1>7. CASE Gather(r)
    <2>1. Promised(r) \subseteq Lanes
      BY DEF Promised
    <2>2. {<<c, recv[r][c]>> : c \in Promised(r)} \subseteq Lanes \X LaneRows
      BY <1>0, <2>1
    <2>3. gathered' = [gathered EXCEPT ![r] = {<<c, recv[r][c]>> : c \in Promised(r)}]
          /\ UNCHANGED <<routing, count, reduced, recvMeta, recv, routed>>
      BY <1>7 DEF Gather, windows
    <2>4. gathered' \in [Ranks -> SUBSET (Lanes \X LaneRows)]
      BY <1>0, <2>2, <2>3
    <2> QED
      BY <1>0, <2>3, <2>4
  <1>8. ASSUME NEW s \in Ranks, StartScatter(r, s) \/ FinishScatter(r, s)
        PROVE  Contents'
    <2>1. UNCHANGED <<routing, count, gathered, reduced, recvMeta, recv>>
      BY <1>8 DEF StartScatter, FinishScatter
    <2>2. routed' \in [Ranks -> [Routes -> ResultRows]]
      BY <1>0, <1>8, ScatterTypes
    <2> QED
      BY <1>0, <2>1, <2>2
  <1>9. CASE UNCHANGED <<routing, count, gathered, reduced, windows>>
    BY <1>0, <1>9 DEF windows
  <1>10. CASE Reduce(r)
    <2>1. reduced' = [reduced EXCEPT ![r] = [x \in DOMAIN routing[r] |-> routed[r][x]]]
          /\ UNCHANGED <<routing, count, gathered, recvMeta, recv, routed>>
      BY <1>10 DEF Reduce, windows
    <2>2. /\ DOMAIN reduced = Ranks
          /\ \A p \in Ranks : \A x \in DOMAIN reduced[p] : x \in Routes /\ reduced[p][x] \in ResultRows
      BY <1>0
    <2>3. /\ DOMAIN reduced' = Ranks
          /\ reduced'[r] = [x \in DOMAIN routing[r] |-> routed[r][x]]
          /\ \A p \in Ranks \ {r} : reduced'[p] = reduced[p]
      BY <2>1, <2>2
    <2>4. \A x \in DOMAIN routing[r] : x \in Routes /\ routed[r][x] \in ResultRows
      BY <1>0, CellFacts
    <2>5. \A p \in Ranks : \A x \in DOMAIN reduced'[p] : x \in Routes /\ reduced'[p][x] \in ResultRows
      BY <2>2, <2>3, <2>4
    <2>6. reduced' = [p \in Ranks |-> reduced'[p]]
      BY <2>1, <2>2
    <2> QED
      BY <1>0, <2>1, <2>5, <2>6
  <1>11. CASE NextLayer(r)
    <2>1. /\ count' = [count EXCEPT ![r] = NoCount] /\ gathered' = [gathered EXCEPT ![r] = {}]
          /\ reduced' = [reduced EXCEPT ![r] = <<>>]
          /\ UNCHANGED <<routing, recvMeta, recv, routed>>
      BY <1>11 DEF NextLayer, windows
    <2>2. count' \in [Ranks -> [Ranks -> MetaRows]]
      BY <1>0, <2>1, NoneTypes
    <2>3. gathered' \in [Ranks -> SUBSET (Lanes \X LaneRows)]
      BY <1>0, <2>1
    <2>4. /\ DOMAIN reduced = Ranks
          /\ \A p \in Ranks : \A x \in DOMAIN reduced[p] : x \in Routes /\ reduced[p][x] \in ResultRows
      BY <1>0
    <2>5. /\ \A p \in Ranks : \A x \in DOMAIN reduced'[p] : x \in Routes /\ reduced'[p][x] \in ResultRows
          /\ reduced' = [p \in Ranks |-> reduced'[p]]
      <3>1. DOMAIN <<>> = {}
        OBVIOUS
      <3>2. reduced'[r] = <<>> /\ \A p \in Ranks \ {r} : reduced'[p] = reduced[p]
        BY <2>1, <2>4
      <3>3. reduced' = [p \in Ranks |-> reduced'[p]]
        BY <2>1, <2>4
      <3> QED
        BY <2>4, <3>1, <3>2, <3>3
    <2> QED
      BY <1>0, <2>1, <2>2, <2>3, <2>5
  <1> QED
    BY <1>1, <1>2, <1>3, <1>4, <1>5, <1>6, <1>7, <1>8, <1>9, <1>10, <1>11
       DEF RankStep, BlockIds, StartCombine, TellDone, CombineWait, ClearSignals, Finish
LEMMA ShapeStep ==
    ASSUME Shape, [Next]_vars
    PROVE  Shape'
  <1> USE DEF Shape
  <1>1. ASSUME NEW r \in Ranks, RankStep(r)
        PROVE  Shape'
    BY <1>1, PlacesStep, ContentsStep, CountersStep
  <1>2. CASE NextForward
    <2>1. Places'
      BY <1>2, Sizes DEF NextForward, Places, Stages
    <2>2. Contents' /\ Counters'
      BY <1>2 DEF NextForward, Contents, Counters, windows, signals
    <2> QED
      BY <2>1, <2>2
  <1>3. CASE UNCHANGED vars
    BY <1>3 DEF vars, windows, signals, Places, Contents, Counters
  <1> QED
    BY <1>1, <1>2, <1>3 DEF Next, Stopped

-----------------------------------------------------------------------------
(* A rank's step leaves the other ranks where they are.                    *)

Kept(p) ==
    /\ stage'[p] = stage[p] /\ layer'[p] = layer[p] /\ routing'[p] = routing[p]
    /\ meta'[p] = meta[p] /\ count'[p] = count[p] /\ push'[p] = push[p]
    /\ pending'[p] = pending[p] /\ gathered'[p] = gathered[p] /\ scatter'[p] = scatter[p]
    /\ told'[p] = told[p] /\ reduced'[p] = reduced[p]

LEMMA Others ==
    ASSUME Shape, NEW r \in Ranks, RankStep(r)
    PROVE  forward' = forward /\ \A p \in Ranks \ {r} : Kept(p)
  <1> USE DEF Shape, Places, Contents, Kept
  <1>0. /\ DOMAIN stage = Ranks /\ DOMAIN layer = Ranks /\ DOMAIN routing = Ranks
        /\ DOMAIN meta = Ranks /\ DOMAIN count = Ranks /\ DOMAIN push = Ranks
        /\ DOMAIN pending = Ranks /\ DOMAIN gathered = Ranks /\ DOMAIN scatter = Ranks
        /\ DOMAIN told = Ranks /\ DOMAIN reduced = Ranks
    OBVIOUS
  <1> USE <1>0
  <1>1. CASE Gate(r)
    BY <1>1 DEF Gate
  <1>2. CASE SendMeta(r)
    BY <1>2 DEF SendMeta
  <1>3. CASE CopyCounts(r)
    BY <1>3 DEF CopyCounts
  <1>4. ASSUME NEW d \in Ranks, NEW g \in BlockIds, StartPush(r, d, g) \/ FinishPush(r, d, g)
        PROVE  forward' = forward /\ \A p \in Ranks \ {r} : Kept(p)
    BY <1>4 DEF StartPush, FinishPush
  <1>5. ASSUME NEW e \in 1 .. Layers, WaitPayload(r, e)
        PROVE  forward' = forward /\ \A p \in Ranks \ {r} : Kept(p)
    BY <1>5 DEF WaitPayload
  <1>6. CASE Gather(r)
    BY <1>6 DEF Gather
  <1>7. ASSUME NEW s \in Ranks, StartScatter(r, s) \/ FinishScatter(r, s)
        PROVE  forward' = forward /\ \A p \in Ranks \ {r} : Kept(p)
    BY <1>7 DEF StartScatter, FinishScatter
  <1>8. CASE StartCombine(r)
    BY <1>8 DEF StartCombine
  <1>9. CASE TellDone(r)
    BY <1>9 DEF TellDone
  <1>10. CASE CombineWait(r)
    BY <1>10 DEF CombineWait
  <1>11. CASE Reduce(r)
    BY <1>11 DEF Reduce
  <1>12. CASE NextLayer(r)
    BY <1>12 DEF NextLayer
  <1>13. CASE ClearSignals(r)
    BY <1>13 DEF ClearSignals
  <1>14. CASE Finish(r)
    BY <1>14 DEF Finish
  <1> QED
    BY <1>1, <1>2, <1>3, <1>4, <1>5, <1>6, <1>7, <1>8, <1>9, <1>10, <1>11, <1>12, <1>13, <1>14
       DEF RankStep, BlockIds

\* Nothing said of a rank alone changes while it keeps its place.
LEMMA KeptFacts ==
    ASSUME forward' = forward, NEW p \in Ranks, Kept(p)
    PROVE  /\ Call(p)' = Call(p) /\ (Counted(p)' <=> Counted(p)) /\ (Pushed(p)' <=> Pushed(p))
           /\ Sources(p)' = Sources(p) /\ Promised(p)' = Promised(p)
           /\ Combined(p)' = Combined(p)
           /\ PositionAt(p) => PositionAt(p)'
           /\ \A s \in Ranks :
                 /\ MetaSent(p, s)' = MetaSent(p, s) /\ DataSent(p, s)' = DataSent(p, s)
                 /\ CombineSent(p, s)' = CombineSent(p, s) /\ (Cleared(p, s)' <=> Cleared(p, s))
                 /\ MetaRow(p, s)' = MetaRow(p, s) /\ RoutesTo(p, s)' = RoutesTo(p, s)
           /\ \A s \in Ranks, g \in BlockIds : Sent(p, s, g)' = Sent(p, s, g)
           /\ \A x : CellOf(p, x)' = CellOf(p, x)
  <1> USE DEF Kept
  <1>1. Call(p)' = Call(p) /\ (Counted(p)' <=> Counted(p)) /\ (Pushed(p)' <=> Pushed(p))
    BY DEF Call, Counted, Pushed
  <1>2. Promised(p)' = Promised(p)
    BY DEF Promised
  <1>3. Sources(p)' = Sources(p)
    BY <1>2 DEF Sources
  <1>4. PositionAt(p) => PositionAt(p)'
    BY <1>1, <1>3 DEF PositionAt
  <1>5. Combined(p)' = Combined(p)
    BY DEF Combined
  <1>6. ASSUME NEW s \in Ranks
        PROVE  /\ MetaSent(p, s)' = MetaSent(p, s) /\ DataSent(p, s)' = DataSent(p, s)
               /\ CombineSent(p, s)' = CombineSent(p, s) /\ (Cleared(p, s)' <=> Cleared(p, s))
               /\ MetaRow(p, s)' = MetaRow(p, s) /\ RoutesTo(p, s)' = RoutesTo(p, s)
    BY <1>1 DEF MetaSent, DataSent, PushedTo, CombineSent, Cleared, MetaRow, RoutesTo
  <1>7. ASSUME NEW s \in Ranks, NEW g \in BlockIds
        PROVE  Sent(p, s, g)' = Sent(p, s, g)
    BY DEF Sent
  <1>8. ASSUME NEW x
        PROVE  CellOf(p, x)' = CellOf(p, x)
    BY DEF CellOf
  <1> QED
    BY <1>1, <1>2, <1>3, <1>4, <1>5, <1>6, <1>7, <1>8

LEMMA PositionStep ==
    ASSUME Shape, NEW r \in Ranks, RankStep(r), PositionAt(r)
    PROVE  PositionAt(r)'
  <1> USE DEF Shape, Places, Contents, PositionAt, Late, Ended, Stages
  <1>1. CASE Gate(r)
    BY <1>1 DEF Gate, Counted, Pushed
  <1>2. CASE SendMeta(r)
    <2>1. UNCHANGED <<stage, layer, count, push, gathered, scatter>> /\ stage[r] = "exchange"
          /\ ~Counted(r)
      BY <1>2, Sizes DEF SendMeta
    <2> QED
      BY <2>1 DEF Counted
  <1>3. CASE CopyCounts(r)
    <2>1. UNCHANGED <<stage, layer, meta, push, gathered, scatter>> /\ stage[r] = "exchange"
          /\ ~Counted(r) /\ meta[r] = EP
      BY <1>3 DEF CopyCounts
    <2> QED
      BY <2>1
  <1>4. ASSUME NEW d \in Ranks, NEW g \in BlockIds, StartPush(r, d, g) \/ FinishPush(r, d, g)
        PROVE  PositionAt(r)'
    <2>1. UNCHANGED <<stage, layer, meta, count, gathered, scatter>> /\ stage[r] = "exchange"
      BY <1>4 DEF StartPush, FinishPush
    <2> QED
      BY <2>1 DEF Counted, Sources, Promised
  <1>5. ASSUME NEW e \in 1 .. Layers, WaitPayload(r, e)
        PROVE  PositionAt(r)'
    <2>1. UNCHANGED <<stage, layer, meta, count, push, gathered, scatter>>
      BY <1>5 DEF WaitPayload
    <2> QED
      BY <2>1 DEF Counted, Sources, Promised, Pushed
  <1>6. CASE Gather(r)
    <2>1. UNCHANGED <<stage, layer, meta, count, push, scatter>> /\ stage[r] = "exchange"
          /\ Counted(r) /\ gathered[r] = {}
      BY <1>6 DEF Gather, Gathered
    <2> QED
      BY <2>1 DEF Counted
  <1>7. ASSUME NEW s \in Ranks, StartScatter(r, s) \/ FinishScatter(r, s)
        PROVE  PositionAt(r)'
    <2>1. UNCHANGED <<stage, layer, meta, count, push, gathered>> /\ stage[r] = "exchange"
          /\ s \in Sources(r) /\ gathered[r] # {}
      BY <1>7 DEF StartScatter, FinishScatter, Gathered, Sources
    <2>2. \A p \in Ranks \ {s} : scatter'[r][p] = scatter[r][p]
      BY <1>7 DEF StartScatter, FinishScatter
    <2> QED
      BY <2>1, <2>2 DEF Counted, Sources, Promised
  <1>8. CASE StartCombine(r)
    <2>1. UNCHANGED <<layer, meta, count, push, gathered, scatter>> /\ stage[r] = "exchange"
          /\ stage'[r] = "combine" /\ Counted(r) /\ Pushed(r)
          /\ \A s \in Sources(r) : scatter[r][s] = "done"
      BY <1>8 DEF StartCombine, CombineReady, Scattered
    <2> QED
      BY <2>1 DEF Counted, Sources, Promised, Pushed
  <1>9. CASE TellDone(r)
    <2>1. UNCHANGED <<stage, layer, meta, count, push, gathered, scatter>>
      BY <1>9 DEF TellDone
    <2> QED
      BY <2>1 DEF Counted, Sources, Promised, Pushed
  <1>10. CASE CombineWait(r)
    <2>1. UNCHANGED <<layer, meta, count, push, gathered, scatter>> /\ stage[r] = "combine"
          /\ stage'[r] = "reduce"
      BY <1>10 DEF CombineWait
    <2> QED
      BY <2>1 DEF Counted, Sources, Promised, Pushed
  <1>11. CASE Reduce(r)
    <2>1. UNCHANGED <<layer, meta, count, push, gathered, scatter>> /\ stage[r] = "reduce"
          /\ stage'[r] = "output"
      BY <1>11 DEF Reduce
    <2> QED
      BY <2>1 DEF Counted, Sources, Promised, Pushed
  <1>12. CASE NextLayer(r)
    <2>1. /\ meta'[r] = 0 /\ count'[r] = NoCount /\ push'[r] = Idle /\ gathered'[r] = {}
          /\ \A s \in Ranks : scatter'[r][s] = "idle"
      BY <1>12 DEF NextLayer
    <2>2. stage'[r] = "gate" \/ (stage'[r] = "clear" /\ layer'[r] = Layers)
      BY <1>12, Sizes DEF NextLayer
    <2>3. ~Counted(r)'
      BY <2>1 DEF Counted
    <2>4. Idle' = Idle /\ NoCount' = NoCount
      BY DEF Idle, NoCount, NoMeta
    <2> QED
      BY <2>1, <2>2, <2>3, <2>4
  <1>13. CASE ClearSignals(r)
    <2>1. UNCHANGED <<stage, layer, meta, count, push, gathered, scatter>>
      BY <1>13 DEF ClearSignals
    <2> QED
      BY <2>1 DEF Counted, Sources, Promised, Pushed
  <1>14. CASE Finish(r)
    <2>1. UNCHANGED <<layer, meta, count, push, gathered, scatter>> /\ stage[r] = "clear"
          /\ stage'[r] = "done"
      BY <1>14 DEF Finish
    <2> QED
      BY <2>1 DEF Counted, Sources, Promised, Pushed
  <1> QED
    BY <1>1, <1>2, <1>3, <1>4, <1>5, <1>6, <1>7, <1>8, <1>9, <1>10, <1>11, <1>12, <1>13, <1>14
       DEF RankStep, BlockIds
-----------------------------------------------------------------------------
(* Signals sent and signals held.                                          *)

LEMMA BlockCount ==
    ASSUME Places, NEW r \in Ranks, NEW s \in Ranks
    PROVE  /\ IsFiniteSet(PushedTo(r, s)) /\ Cardinality(PushedTo(r, s)) \in 0 .. Groups
           /\ Cardinality(PushedTo(r, s)) = Groups => PushedTo(r, s) = BlockIds
           /\ PushedTo(r, s) = BlockIds => Cardinality(PushedTo(r, s)) = Groups
           /\ PushedTo(r, s) = {} => Cardinality(PushedTo(r, s)) = 0
  <1>1. IsFiniteSet(BlockIds) /\ Cardinality(BlockIds) = Groups
    BY Sizes, FS_Interval DEF BlockIds
  <1>2. PushedTo(r, s) \in SUBSET BlockIds
    BY DEF PushedTo
  <1>3. /\ IsFiniteSet(PushedTo(r, s)) /\ Cardinality(PushedTo(r, s)) <= Groups
        /\ Groups = Cardinality(PushedTo(r, s)) => BlockIds = PushedTo(r, s)
    BY <1>1, <1>2, FS_Subset
  <1>4. Cardinality(PushedTo(r, s)) \in Nat
    BY <1>3, FS_CardinalityType
  <1>5. Cardinality(PushedTo(r, s)) \in 0 .. Groups
    BY <1>3, <1>4, Sizes
  <1>6. PushedTo(r, s) = {} => Cardinality(PushedTo(r, s)) = 0
    BY FS_EmptySet
  <1> QED
    BY <1>1, <1>3, <1>5, <1>6

LEMMA LayerGroups ==
    ASSUME Places, NEW r \in Ranks
    PROVE  /\ layer[r] * Groups \in Nat /\ (layer[r] - 1) * Groups \in Nat
           /\ layer[r] * Groups = (layer[r] - 1) * Groups + Groups
           /\ layer[r] * Groups <= Layers * Groups /\ Layers * Groups \in Nat
  <1>1. layer[r] \in Nat /\ layer[r] - 1 \in Nat /\ layer[r] <= Layers /\ Layers \in Nat /\ Groups \in Nat
    BY Sizes DEF Places
  <1> DEFINE l == layer[r]
  <1> HIDE DEF l
  <1>2. l \in Nat /\ l - 1 \in Nat /\ l <= Layers
    BY <1>1 DEF l
  <1>3. l * Groups = (l - 1) * Groups + Groups
    BY <1>1, <1>2
  <1>4. l * Groups \in Nat /\ (l - 1) * Groups \in Nat /\ l * Groups <= Layers * Groups
        /\ Layers * Groups \in Nat
    BY <1>1, <1>2, Products
  <1> QED
    BY <1>3, <1>4 DEF l

LEMMA SentTypes ==
    ASSUME Places, NEW r \in Ranks, NEW s \in Ranks
    PROVE  /\ layer[r] \in Nat \ {0} /\ layer[r] <= Layers
           /\ MetaSent(r, s) \in Nat /\ DataSent(r, s) \in Nat /\ CombineSent(r, s) \in Nat
           /\ Combined(r) \in Nat
           /\ MetaSent(r, s) <= layer[r] /\ layer[r] - 1 <= MetaSent(r, s)
           /\ CombineSent(r, s) <= layer[r] /\ layer[r] - 1 <= CombineSent(r, s)
           /\ Combined(r) <= layer[r] /\ layer[r] - 1 <= Combined(r)
           /\ DataSent(r, s) <= layer[r] * Groups
  <1>1. layer[r] \in Nat \ {0} /\ layer[r] <= Layers
    BY Sizes DEF Places
  <1>2. DataSent(r, s) \in Nat /\ DataSent(r, s) <= layer[r] * Groups
    BY LayerGroups, BlockCount, Sizes DEF DataSent
  <1> QED
    BY <1>1, <1>2 DEF MetaSent, CombineSent, Combined

LEMMA LayerEnd ==
    ASSUME Places, NEW r \in Ranks, NextLayer(r)
    PROVE  \/ (stage'[r] = "gate" /\ layer'[r] = layer[r] + 1)
           \/ (stage'[r] = "clear" /\ layer'[r] = layer[r])
  <1>1. DOMAIN layer = Ranks /\ DOMAIN stage = Ranks
    BY DEF Places
  <1>2. CASE layer[r] < Layers
    <2>1. layer' = [layer EXCEPT ![r] = @ + 1] /\ stage' = [stage EXCEPT ![r] = "gate"]
      BY <1>2 DEF NextLayer
    <2> QED
      BY <1>1, <2>1
  <1>3. CASE ~(layer[r] < Layers)
    <2>1. layer' = layer /\ stage' = [stage EXCEPT ![r] = "clear"]
      BY <1>3 DEF NextLayer
    <2> QED
      BY <1>1, <2>1
  <1> QED
    BY <1>2, <1>3

LEMMA MetaSignals ==
    ASSUME Shape, NEW r \in Ranks, RankStep(r), PositionAt(r), NEW s \in Ranks, s # r
    PROVE  \/ arrived'[s][r] = arrived[s][r] /\ MetaSent(r, s)' = MetaSent(r, s)
           \/ /\ stage[r] = "exchange" /\ arrived'[s][r] = arrived[s][r] + 1
              /\ MetaSent(r, s)' = MetaSent(r, s) + 1
  <1> USE DEF Shape, Places, Counters
  <1>0. layer[r] \in Nat /\ meta[r] \in Nat /\ EP \in Nat /\ s \in 0 .. EP - 1
    BY Sizes DEF Ranks
  <1>1. CASE SendMeta(r)
    <2>1. meta[r] \in Ranks
      BY <1>1, <1>0 DEF SendMeta, Ranks
    <2>2. /\ stage[r] = "exchange" /\ stage'[r] = "exchange" /\ layer'[r] = layer[r]
          /\ meta'[r] = meta[r] + 1
      BY <1>1 DEF SendMeta
    <2>3. MetaSent(r, s)' = IF s = meta[r] THEN MetaSent(r, s) + 1 ELSE MetaSent(r, s)
      BY <1>0, <2>2 DEF MetaSent, Ended
    <2>4. arrived'[s][r] = IF s = meta[r] THEN arrived[s][r] + 1 ELSE arrived[s][r]
      BY <1>1, <2>1, Notified DEF SendMeta
    <2> QED
      BY <2>2, <2>3, <2>4
  <1>2. CASE NextLayer(r)
    <2>1. arrived' = arrived /\ stage[r] = "output" /\ meta'[r] = 0
      BY <1>2 DEF NextLayer, signals
    <2>2. MetaSent(r, s) = layer[r]
      BY <1>0, <2>1 DEF PositionAt, MetaSent, Late, Ended
    <2>3. \/ (stage'[r] = "gate" /\ layer'[r] = layer[r] + 1)
          \/ (stage'[r] = "clear" /\ layer'[r] = layer[r])
      BY <1>2, LayerEnd
    <2>4. MetaSent(r, s)' = layer[r]
      BY <1>0, <2>1, <2>3 DEF MetaSent, Ended
    <2> QED
      BY <2>1, <2>2, <2>4
  <1>3. CASE Gate(r) \/ StartCombine(r) \/ CombineWait(r) \/ Reduce(r) \/ Finish(r)
    <2>1. UNCHANGED <<arrived, layer, meta>> /\ (stage[r] \in Ended <=> stage'[r] \in Ended)
      BY <1>3 DEF Gate, StartCombine, CombineWait, Reduce, Finish, signals, Ended
    <2> QED
      BY <2>1 DEF MetaSent
  <1>4. CASE ClearSignals(r)
    <2>1. UNCHANGED <<stage, layer, meta>> /\ arrived'[s] = arrived[s]
      BY <1>4 DEF ClearSignals
    <2> QED
      BY <2>1 DEF MetaSent
  <1>5. CASE UNCHANGED <<stage, layer, meta, arrived>>
    BY <1>5 DEF MetaSent
  <1> QED
    BY <1>1, <1>2, <1>3, <1>4, <1>5
       DEF RankStep, CopyCounts, StartPush, FinishPush, WaitPayload, Gather, StartScatter,
           FinishScatter, TellDone, signals

LEMMA DataSignals ==
    ASSUME Shape, NEW r \in Ranks, RankStep(r), PositionAt(r), NEW s \in Ranks, s # r
    PROVE  \/ dataArrived'[s][r] = dataArrived[s][r] /\ DataSent(r, s)' = DataSent(r, s)
           \/ /\ stage[r] = "exchange" /\ dataArrived'[s][r] = dataArrived[s][r] + 1
              /\ DataSent(r, s)' = DataSent(r, s) + 1
  <1> USE DEF Shape, Places, Counters
  <1>0. layer[r] \in Nat /\ EP \in Nat /\ s \in 0 .. EP - 1
    BY Sizes DEF Ranks
  <1>1. ASSUME NEW d \in Ranks, NEW g \in BlockIds, FinishPush(r, d, g)
        PROVE  \/ dataArrived'[s][r] = dataArrived[s][r] /\ DataSent(r, s)' = DataSent(r, s)
               \/ /\ stage[r] = "exchange" /\ dataArrived'[s][r] = dataArrived[s][r] + 1
                  /\ DataSent(r, s)' = DataSent(r, s) + 1
    <2>1. /\ stage[r] = "exchange" /\ stage' = stage /\ layer' = layer
          /\ push[r][d][g] # "done" /\ push' = [push EXCEPT ![r][d][g] = "done"]
      BY <1>1 DEF FinishPush
    <2>2. PushedTo(r, s)' = IF s = d THEN PushedTo(r, s) \cup {g} ELSE PushedTo(r, s)
      BY <2>1 DEF PushedTo
    <2>3. CASE s = d
      <3>1. g \notin PushedTo(r, s)
        BY <2>1, <2>3 DEF PushedTo
      <3>2. /\ Cardinality(PushedTo(r, s) \cup {g}) = Cardinality(PushedTo(r, s)) + 1
            /\ Cardinality(PushedTo(r, s)) \in Nat
        BY <3>1, BlockCount, FS_AddElement, FS_CardinalityType
      <3>3. DataSent(r, s) = (layer[r] - 1) * Groups + Cardinality(PushedTo(r, s))
            /\ DataSent(r, s)' = (layer[r] - 1) * Groups + Cardinality(PushedTo(r, s) \cup {g})
        BY <2>1, <2>2, <2>3 DEF DataSent, Ended
      <3>4. (layer[r] - 1) * Groups \in Nat
        BY LayerGroups
      <3>5. DataSent(r, s)' = DataSent(r, s) + 1
        BY <3>2, <3>3, <3>4
      <3>6. dataArrived'[s][r] = dataArrived[s][r] + 1
        BY <1>1, <2>3, Notified DEF FinishPush, Announced
      <3> QED
        BY <2>1, <3>5, <3>6
    <2>4. CASE s # d
      <3>1. DataSent(r, s)' = DataSent(r, s)
        BY <2>1, <2>2, <2>4 DEF DataSent
      <3>2. dataArrived'[s][r] = dataArrived[s][r]
        BY <1>1, <2>4, Notified DEF FinishPush, Announced
      <3> QED
        BY <3>1, <3>2
    <2> QED
      BY <2>3, <2>4
  <1>2. CASE NextLayer(r)
    <2>1. dataArrived' = dataArrived /\ stage[r] = "output" /\ push'[r] = Idle
      BY <1>2 DEF NextLayer, signals
    <2>2. PushedTo(r, s) = BlockIds
      BY <2>1 DEF PositionAt, Late, Pushed, PushedTo, BlockIds
    <2>3. DataSent(r, s) = layer[r] * Groups
      BY <2>1, <2>2, BlockCount, LayerGroups DEF DataSent, Ended
    <2>4. \/ (stage'[r] = "gate" /\ layer'[r] = layer[r] + 1)
          \/ (stage'[r] = "clear" /\ layer'[r] = layer[r])
      BY <1>2, LayerEnd
    <2>5. PushedTo(r, s)' = {}
      BY <2>1 DEF PushedTo, Idle, BlockIds
    <2>6. Cardinality(PushedTo(r, s)') = 0
      BY <2>5, FS_EmptySet
    <2>7. DataSent(r, s)' = layer[r] * Groups
      <3>1. CASE stage'[r] = "clear" /\ layer'[r] = layer[r]
        BY <3>1 DEF DataSent, Ended
      <3>2. CASE stage'[r] = "gate" /\ layer'[r] = layer[r] + 1
        <4>1. layer'[r] - 1 = layer[r]
          BY <1>0, <3>2
        <4>2. DataSent(r, s)' = layer[r] * Groups + Cardinality(PushedTo(r, s)')
          BY <3>2, <4>1 DEF DataSent, Ended
        <4> QED
          BY <2>6, <4>2, LayerGroups
      <3> QED
        BY <2>4, <3>1, <3>2
    <2> QED
      BY <2>1, <2>3, <2>7
  <1>3. CASE Gate(r) \/ StartCombine(r) \/ CombineWait(r) \/ Reduce(r) \/ Finish(r)
    <2>1. UNCHANGED <<dataArrived, layer, push>> /\ (stage[r] \in Ended <=> stage'[r] \in Ended)
      BY <1>3 DEF Gate, StartCombine, CombineWait, Reduce, Finish, signals, Ended
    <2> QED
      BY <2>1 DEF DataSent, PushedTo
  <1>4. CASE ClearSignals(r)
    <2>1. UNCHANGED <<stage, layer, push>> /\ dataArrived'[s] = dataArrived[s]
      BY <1>4 DEF ClearSignals
    <2> QED
      BY <2>1 DEF DataSent, PushedTo
  <1>5. CASE UNCHANGED <<stage, layer, push, dataArrived>>
    BY <1>5 DEF DataSent, PushedTo
  <1>6. ASSUME NEW d \in Ranks, NEW g \in BlockIds, StartPush(r, d, g)
        PROVE  dataArrived'[s][r] = dataArrived[s][r] /\ DataSent(r, s)' = DataSent(r, s)
    <2>1. /\ UNCHANGED <<stage, layer, dataArrived>> /\ push[r][d][g] = "idle"
          /\ push' = [push EXCEPT ![r][d][g] = "putting"]
      BY <1>6 DEF StartPush, signals
    <2>2. PushedTo(r, s)' = PushedTo(r, s)
      BY <2>1 DEF PushedTo
    <2> QED
      BY <2>1, <2>2 DEF DataSent
  <1> QED
    BY <1>1, <1>2, <1>3, <1>4, <1>5, <1>6
       DEF RankStep, BlockIds, SendMeta, CopyCounts, WaitPayload, Gather, StartScatter,
           FinishScatter, TellDone, signals

LEMMA CombineSignals ==
    ASSUME Shape, NEW r \in Ranks, RankStep(r), NEW s \in Ranks, s # r
    PROVE  \/ combineArrived'[s][r] = combineArrived[s][r] /\ CombineSent(r, s)' = CombineSent(r, s)
           \/ /\ CombineSent(r, s) = layer[r] - 1 /\ combineArrived'[s][r] = combineArrived[s][r] + 1
              /\ CombineSent(r, s)' = CombineSent(r, s) + 1
  <1> USE DEF Shape, Places, Counters
  <1>0. layer[r] \in Nat /\ told[r] \in Nat /\ EP \in Nat /\ s \in 0 .. EP - 1
    BY Sizes DEF Ranks
  <1>1. CASE TellDone(r)
    <2>1. told[r] \in Ranks
      BY <1>1, <1>0 DEF TellDone, Ranks
    <2>2. /\ stage[r] = "combine" /\ stage'[r] = "combine" /\ layer'[r] = layer[r]
          /\ told'[r] = told[r] + 1
      BY <1>1 DEF TellDone
    <2>3. CombineSent(r, s)' = IF s = told[r] THEN CombineSent(r, s) + 1 ELSE CombineSent(r, s)
      BY <1>0, <2>2 DEF CombineSent
    <2>4. s = told[r] => CombineSent(r, s) = layer[r] - 1
      BY <1>0, <2>2 DEF CombineSent
    <2>5. combineArrived'[s][r] =
            IF s = told[r] THEN combineArrived[s][r] + 1 ELSE combineArrived[s][r]
      BY <1>1, <2>1, Notified DEF TellDone
    <2> QED
      BY <2>3, <2>4, <2>5
  <1>2. CASE NextLayer(r)
    <2>1. combineArrived' = combineArrived /\ stage[r] = "output" /\ told'[r] = 0
      BY <1>2 DEF NextLayer, signals
    <2>2. CombineSent(r, s) = layer[r]
      BY <2>1 DEF CombineSent
    <2>3. \/ (stage'[r] = "gate" /\ layer'[r] = layer[r] + 1)
          \/ (stage'[r] = "clear" /\ layer'[r] = layer[r])
      BY <1>2, LayerEnd
    <2>4. CombineSent(r, s)' = layer[r]
      BY <1>0, <2>3 DEF CombineSent
    <2> QED
      BY <2>1, <2>2, <2>4
  <1>3. CASE StartCombine(r)
    <2>1. UNCHANGED <<combineArrived, layer>> /\ stage[r] = "exchange" /\ stage'[r] = "combine"
          /\ told'[r] = 0
      BY <1>3 DEF StartCombine, signals
    <2> QED
      BY <1>0, <2>1 DEF CombineSent
  <1>4. CASE CombineWait(r)
    <2>1. UNCHANGED <<combineArrived, layer, told>> /\ stage[r] = "combine" /\ stage'[r] = "reduce"
          /\ told[r] = EP
      BY <1>4 DEF CombineWait, signals
    <2> QED
      BY <1>0, <2>1 DEF CombineSent
  <1>5. CASE Gate(r) \/ Reduce(r) \/ Finish(r)
    <2>1. /\ UNCHANGED <<combineArrived, layer>>
          /\ stage[r] # "combine" /\ stage'[r] # "combine"
          /\ stage[r] \in {"reduce", "output", "clear", "done"} <=>
               stage'[r] \in {"reduce", "output", "clear", "done"}
      BY <1>5 DEF Gate, Reduce, Finish, signals
    <2> QED
      BY <2>1 DEF CombineSent
  <1>6. CASE ClearSignals(r)
    <2>1. UNCHANGED <<stage, layer>> /\ combineArrived'[s] = combineArrived[s] /\ stage[r] = "clear"
      BY <1>6 DEF ClearSignals
    <2> QED
      BY <2>1 DEF CombineSent
  <1>7. CASE UNCHANGED <<stage, layer, told, combineArrived>>
    BY <1>7 DEF CombineSent
  <1> QED
    BY <1>1, <1>2, <1>3, <1>4, <1>5, <1>6, <1>7
       DEF RankStep, SendMeta, CopyCounts, StartPush, FinishPush, WaitPayload, Gather,
           StartScatter, FinishScatter, signals
\* Counters of other sources change only where a rank clears its own.
LEMMA OwnSignals ==
    ASSUME Shape, NEW r \in Ranks, RankStep(r)
    PROVE  /\ \A s, p \in Ranks \ {r} :
                 /\ arrived'[s][p] = arrived[s][p] /\ dataArrived'[s][p] = dataArrived[s][p]
                 /\ combineArrived'[s][p] = combineArrived[s][p]
           /\ \A p \in Ranks :
                 \/ /\ arrived'[r][p] = arrived[r][p] /\ dataArrived'[r][p] = dataArrived[r][p]
                    /\ combineArrived'[r][p] = combineArrived[r][p]
                    /\ Cleared(r, p)' <=> Cleared(r, p)
                 \/ /\ arrived'[r][p] = 0 /\ dataArrived'[r][p] = 0 /\ combineArrived'[r][p] = 0
                    /\ Cleared(r, p)'
  <1> DEFINE Own(p) ==
                 \/ /\ arrived'[r][p] = arrived[r][p] /\ dataArrived'[r][p] = dataArrived[r][p]
                    /\ combineArrived'[r][p] = combineArrived[r][p]
                    /\ Cleared(r, p)' <=> Cleared(r, p)
                 \/ /\ arrived'[r][p] = 0 /\ dataArrived'[r][p] = 0 /\ combineArrived'[r][p] = 0
                    /\ Cleared(r, p)'
             Foreign == \A s, p \in Ranks \ {r} :
                 /\ arrived'[s][p] = arrived[s][p] /\ dataArrived'[s][p] = dataArrived[s][p]
                 /\ combineArrived'[s][p] = combineArrived[s][p]
             Untouched == \A p \in Ranks :
                 /\ arrived'[r][p] = arrived[r][p] /\ dataArrived'[r][p] = dataArrived[r][p]
                 /\ combineArrived'[r][p] = combineArrived[r][p]
  <1> SUFFICES Foreign /\ \A p \in Ranks : Own(p)
    OBVIOUS
  <1> USE DEF Shape, Places, Counters
  <1>0. told[r] \in Nat /\ EP \in Nat /\ Ranks \subseteq Nat /\ \A p \in Ranks : p < EP
    BY Sizes DEF Ranks
  <1>1. CASE SendMeta(r)
    <2>1. meta[r] \in Ranks
      BY <1>1, <1>0 DEF SendMeta, Ranks
    <2>2. Foreign /\ Untouched
      BY <1>1, <2>1, Notified DEF SendMeta
    <2>3. UNCHANGED <<stage, told>>
      BY <1>1 DEF SendMeta
    <2> QED
      BY <2>2, <2>3 DEF Cleared
  <1>2. ASSUME NEW d \in Ranks, NEW g \in BlockIds, FinishPush(r, d, g)
        PROVE  Foreign /\ \A p \in Ranks : Own(p)
    <2>1. Foreign /\ Untouched
      BY <1>2, Notified DEF FinishPush, Announced
    <2>2. UNCHANGED <<stage, told>>
      BY <1>2 DEF FinishPush
    <2> QED
      BY <2>1, <2>2 DEF Cleared
  <1>3. CASE TellDone(r)
    <2>1. told[r] \in Ranks
      BY <1>3, <1>0 DEF TellDone, Ranks
    <2>2. Foreign /\ Untouched
      BY <1>3, <2>1, Notified DEF TellDone
    <2>3. stage' = stage /\ stage[r] = "combine"
      BY <1>3 DEF TellDone
    <2> QED
      BY <2>2, <2>3 DEF Cleared
  <1>4. CASE ClearSignals(r)
    <2>1. told[r] \in Ranks /\ stage[r] = "clear" /\ stage' = stage /\ told'[r] = told[r] + 1
      BY <1>4, <1>0 DEF ClearSignals, Ranks
    <2>2. Foreign
      BY <1>4, <2>1 DEF ClearSignals
    <2>3. ASSUME NEW p \in Ranks
          PROVE  Own(p)
      <3>1. CASE p = told[r]
        BY <1>0, <1>4, <2>1, <3>1 DEF ClearSignals, Cleared
      <3>2. CASE p # told[r]
        <4>1. /\ arrived'[r][p] = arrived[r][p] /\ dataArrived'[r][p] = dataArrived[r][p]
              /\ combineArrived'[r][p] = combineArrived[r][p]
          BY <1>4, <2>1, <3>2 DEF ClearSignals
        <4>2. Cleared(r, p)' <=> Cleared(r, p)
          BY <1>0, <2>1, <3>2 DEF Cleared
        <4> QED
          BY <4>1, <4>2
      <3> QED
        BY <3>1, <3>2
    <2> QED
      BY <2>2, <2>3
  <1>5. CASE NextLayer(r) \/ Finish(r) \/ StartCombine(r)
    <2>1. UNCHANGED signals
      BY <1>5 DEF NextLayer, Finish, StartCombine
    <2>2. \A p \in Ranks : Cleared(r, p)' <=> Cleared(r, p)
      <3>1. CASE NextLayer(r)
        <4>1. told'[r] = 0 /\ stage[r] = "output" /\ stage'[r] \in {"gate", "clear"}
          BY <3>1, LayerEnd DEF NextLayer
        <4> QED
          BY <1>0, <4>1 DEF Cleared
      <3>2. CASE Finish(r)
        <4>1. told[r] = EP /\ stage[r] = "clear" /\ stage'[r] = "done"
          BY <3>2 DEF Finish
        <4> QED
          BY <1>0, <4>1 DEF Cleared
      <3>3. CASE StartCombine(r)
        <4>1. stage[r] = "exchange" /\ stage'[r] = "combine"
          BY <3>3 DEF StartCombine
        <4> QED
          BY <4>1 DEF Cleared
      <3> QED
        BY <1>5, <3>1, <3>2, <3>3
    <2> QED
      BY <2>1, <2>2 DEF signals
  <1>6. CASE Gate(r) \/ CombineWait(r) \/ Reduce(r)
    <2>1. UNCHANGED signals /\ stage[r] \notin Ended /\ stage'[r] \notin Ended
      BY <1>6 DEF Gate, CombineWait, Reduce, Ended
    <2> QED
      BY <2>1 DEF Cleared, signals, Ended
  <1>7. CASE UNCHANGED <<stage, told, signals>>
    BY <1>7 DEF Cleared, signals
  <1> QED
    BY <1>1, <1>2, <1>3, <1>4, <1>5, <1>6, <1>7
       DEF RankStep, BlockIds, CopyCounts, StartPush, WaitPayload, Gather, StartScatter, FinishScatter

-----------------------------------------------------------------------------
(* What the counters mean survives a step.                                 *)

\* When a rank clears its counters, the others have sent all of the forward.
LEMMA AllSent ==
    ASSUME Shape, ControlOK, NEW r \in Ranks, NEW s \in Ranks, r # s, stage[s] \in Ended
    PROVE  /\ stage[r] \in Late \cup Ended /\ CombineSent(r, s) = Layers
           /\ MetaSent(r, s) = Layers /\ DataSent(r, s) = Layers * Groups
  <1>1. layer[s] = Layers /\ Combined(s) = layer[s] /\ Combined(s) <= CombineSent(r, s)
    BY DEF ControlOK, PositionAt, Ended, Combined, Synchronised
  <1>2. Places /\ PositionAt(r) /\ stage[r] \in Stages /\ r \in 0 .. EP - 1 /\ s \in 0 .. EP - 1
    BY DEF Shape, Places, ControlOK, Ranks
  <1>3. /\ layer[r] \in Nat \ {0} /\ layer[r] <= Layers /\ CombineSent(r, s) <= layer[r]
        /\ CombineSent(r, s) \in Nat /\ Layers \in Nat
    BY <1>2, SentTypes, Sizes
  <1>4. layer[r] = Layers /\ CombineSent(r, s) = Layers
    BY <1>1, <1>3
  <1>5. stage[r] \in Late \cup Ended
    BY <1>2, <1>3, <1>4 DEF CombineSent, Stages, Late, Ended
  <1>6. MetaSent(r, s) = Layers
    BY <1>2, <1>4, <1>5, Sizes DEF MetaSent, PositionAt, Late, Ended
  <1>7. DataSent(r, s) = Layers * Groups
    <2>1. CASE stage[r] \in Ended
      BY <1>4, <2>1 DEF DataSent
    <2>2. CASE stage[r] \in Late
      <3>1. PushedTo(r, s) = BlockIds
        BY <1>2, <2>2 DEF PositionAt, Pushed, PushedTo, BlockIds
      <3>2. DataSent(r, s) = (layer[r] - 1) * Groups + Groups
        BY <1>2, <2>2, <3>1, BlockCount DEF DataSent, Late, Ended
      <3> QED
        BY <1>2, <1>4, <3>2, LayerGroups
    <2> QED
      BY <1>5, <2>1, <2>2
  <1> QED
    BY <1>4, <1>5, <1>6, <1>7

LEMMA SignalsStep ==
    ASSUME Shape, ControlOK, NEW m \in Ranks, RankStep(m)
    PROVE  SignalsOK'
  <1> SUFFICES ASSUME NEW r \in Ranks, NEW s \in Ranks
               PROVE  /\ arrived'[s][r] = IF r = s \/ Cleared(s, r)' THEN 0 ELSE MetaSent(r, s)'
                      /\ dataArrived'[s][r] = IF r = s \/ Cleared(s, r)' THEN 0 ELSE DataSent(r, s)'
                      /\ combineArrived'[s][r] = IF r = s \/ Cleared(s, r)' THEN 0 ELSE CombineSent(r, s)'
    BY DEF SignalsOK
  <1>1. /\ arrived[s][r] = IF r = s \/ Cleared(s, r) THEN 0 ELSE MetaSent(r, s)
        /\ dataArrived[s][r] = IF r = s \/ Cleared(s, r) THEN 0 ELSE DataSent(r, s)
        /\ combineArrived[s][r] = IF r = s \/ Cleared(s, r) THEN 0 ELSE CombineSent(r, s)
    BY DEF ControlOK, SignalsOK
  <1>2. CASE m # r /\ m # s
    <2>1. forward' = forward /\ Kept(r) /\ Kept(s)
      BY <1>2, Others
    <2>2. /\ MetaSent(r, s)' = MetaSent(r, s) /\ DataSent(r, s)' = DataSent(r, s)
          /\ CombineSent(r, s)' = CombineSent(r, s) /\ (Cleared(s, r)' <=> Cleared(s, r))
      BY <2>1, KeptFacts
    <2>3. /\ arrived'[s][r] = arrived[s][r] /\ dataArrived'[s][r] = dataArrived[s][r]
          /\ combineArrived'[s][r] = combineArrived[s][r]
      BY <1>2, OwnSignals
    <2> QED
      BY <1>1, <2>2, <2>3
  <1>3. CASE m = s
    <2>1. r # s => forward' = forward /\ Kept(r)
      BY <1>3, Others
    <2>2. r # s => /\ MetaSent(r, s)' = MetaSent(r, s) /\ DataSent(r, s)' = DataSent(r, s)
                   /\ CombineSent(r, s)' = CombineSent(r, s)
      BY <2>1, KeptFacts
    <2>3. \/ /\ arrived'[s][r] = arrived[s][r] /\ dataArrived'[s][r] = dataArrived[s][r]
             /\ combineArrived'[s][r] = combineArrived[s][r]
             /\ Cleared(s, r)' <=> Cleared(s, r)
          \/ /\ arrived'[s][r] = 0 /\ dataArrived'[s][r] = 0 /\ combineArrived'[s][r] = 0
             /\ Cleared(s, r)'
      BY <1>3, OwnSignals
    <2> QED
      BY <1>1, <2>2, <2>3
  <1>4. CASE m = r /\ r # s
    <2>1. forward' = forward /\ Kept(s)
      BY <1>4, Others
    <2>2. Cleared(s, r)' <=> Cleared(s, r)
      BY <2>1, KeptFacts
    <2>3. PositionAt(r) /\ Places /\ Layers \in Nat
      BY Sizes DEF ControlOK, Shape
    <2>4. \/ arrived'[s][r] = arrived[s][r] /\ MetaSent(r, s)' = MetaSent(r, s)
          \/ /\ stage[r] = "exchange" /\ arrived'[s][r] = arrived[s][r] + 1
             /\ MetaSent(r, s)' = MetaSent(r, s) + 1
      BY <1>4, <2>3, MetaSignals
    <2>5. \/ dataArrived'[s][r] = dataArrived[s][r] /\ DataSent(r, s)' = DataSent(r, s)
          \/ /\ stage[r] = "exchange" /\ dataArrived'[s][r] = dataArrived[s][r] + 1
             /\ DataSent(r, s)' = DataSent(r, s) + 1
      BY <1>4, <2>3, DataSignals
    <2>6. \/ combineArrived'[s][r] = combineArrived[s][r] /\ CombineSent(r, s)' = CombineSent(r, s)
          \/ /\ CombineSent(r, s) = layer[r] - 1 /\ combineArrived'[s][r] = combineArrived[s][r] + 1
             /\ CombineSent(r, s)' = CombineSent(r, s) + 1
      BY <1>4, CombineSignals
    <2>7. CASE Cleared(s, r)
      <3>1. stage[s] \in Ended
        BY <2>7 DEF Cleared, Ended
      <3>2. stage[r] # "exchange" /\ CombineSent(r, s) = Layers
        BY <1>4, <3>1, AllSent DEF Late, Ended
      <3>3. layer[r] \in Nat /\ layer[r] <= Layers
        BY <2>3, SentTypes
      <3> QED
        BY <1>1, <2>2, <2>3, <2>4, <2>5, <2>6, <2>7, <3>2, <3>3
    <2>8. CASE ~Cleared(s, r)
      BY <1>1, <1>4, <2>2, <2>4, <2>5, <2>6, <2>8
    <2> QED
      BY <2>7, <2>8
  <1> QED
    BY <1>2, <1>3, <1>4
\* No signal is taken back.
LEMMA SentGrows ==
    ASSUME Shape, ControlOK, NEW m \in Ranks, RankStep(m), NEW r \in Ranks, NEW s \in Ranks, r # s
    PROVE  /\ MetaSent(r, s)' >= MetaSent(r, s) /\ DataSent(r, s)' >= DataSent(r, s)
           /\ CombineSent(r, s)' >= CombineSent(r, s)
           /\ MetaSent(r, s) \in Nat /\ DataSent(r, s) \in Nat /\ CombineSent(r, s) \in Nat
           /\ MetaSent(r, s)' \in Nat /\ DataSent(r, s)' \in Nat /\ CombineSent(r, s)' \in Nat
  <1>1. MetaSent(r, s) \in Nat /\ DataSent(r, s) \in Nat /\ CombineSent(r, s) \in Nat
    BY SentTypes DEF Shape
  <1>2. CASE m = r
    BY <1>1, <1>2, MetaSignals, DataSignals, CombineSignals DEF ControlOK
  <1>3. CASE m # r
    <2>1. forward' = forward /\ Kept(r)
      BY <1>3, Others
    <2>2. /\ MetaSent(r, s)' = MetaSent(r, s) /\ DataSent(r, s)' = DataSent(r, s)
          /\ CombineSent(r, s)' = CombineSent(r, s)
      BY <2>1, KeptFacts
    <2> QED
      BY <1>1, <2>2
  <1> QED
    BY <1>2, <1>3

LEMMA CombinedStep ==
    ASSUME Shape, NEW r \in Ranks, RankStep(r)
    PROVE  Combined(r)' = Combined(r) \/ (CombineWait(r) /\ Combined(r)' = layer[r])
  <1> USE DEF Shape, Places
  <1>1. CASE CombineWait(r)
    <2>1. stage'[r] = "reduce" /\ layer' = layer
      BY <1>1 DEF CombineWait
    <2> QED
      BY <1>1, <2>1 DEF Combined
  <1>2. CASE NextLayer(r)
    <2>1. stage[r] = "output" /\ layer[r] \in Nat
      BY <1>2 DEF NextLayer
    <2>2. Combined(r) = layer[r]
      BY <2>1 DEF Combined
    <2>3. \/ (stage'[r] = "gate" /\ layer'[r] = layer[r] + 1)
          \/ (stage'[r] = "clear" /\ layer'[r] = layer[r])
      BY <1>2, LayerEnd
    <2>4. CASE stage'[r] = "gate" /\ layer'[r] = layer[r] + 1
      <3>1. Combined(r)' = layer'[r] - 1
        BY <2>4 DEF Combined
      <3> QED
        BY <2>1, <2>2, <2>4, <3>1
    <2>5. CASE stage'[r] = "clear" /\ layer'[r] = layer[r]
      BY <2>2, <2>5 DEF Combined
    <2> QED
      BY <2>3, <2>4, <2>5
  <1>3. CASE Gate(r) \/ StartCombine(r) \/ Reduce(r) \/ Finish(r)
    <2>1. /\ layer' = layer
          /\ stage[r] \in {"reduce", "output", "clear", "done"} <=>
               stage'[r] \in {"reduce", "output", "clear", "done"}
      BY <1>3 DEF Gate, StartCombine, Reduce, Finish
    <2> QED
      BY <2>1 DEF Combined
  <1>4. CASE UNCHANGED <<stage, layer>>
    BY <1>4 DEF Combined
  <1> QED
    BY <1>1, <1>2, <1>3, <1>4
       DEF RankStep, SendMeta, CopyCounts, StartPush, FinishPush, WaitPayload, Gather,
           StartScatter, FinishScatter, TellDone, ClearSignals

LEMMA SynchronisedStep ==
    ASSUME Shape, ControlOK, NEW m \in Ranks, RankStep(m)
    PROVE  Synchronised'
  <1> SUFFICES ASSUME NEW r \in Ranks, NEW s \in Ranks, r # s
               PROVE  Combined(s)' <= CombineSent(r, s)'
    BY DEF Synchronised
  <1>1. /\ CombineSent(r, s)' >= CombineSent(r, s) /\ CombineSent(r, s) \in Nat
        /\ Combined(s) <= CombineSent(r, s) /\ Combined(s) \in Nat
    BY SentGrows, SentTypes DEF ControlOK, Synchronised, Shape
  <1>2. CombineSent(r, s)' \in Nat
    BY SentGrows
  <1>3. CASE m = s
    <2>1. Combined(s)' = Combined(s) \/ (CombineWait(s) /\ Combined(s)' = layer[s])
      BY <1>3, CombinedStep
    <2>2. ASSUME CombineWait(s), Combined(s)' = layer[s]
          PROVE  Combined(s)' <= CombineSent(r, s)
      <3>1. combineArrived[s][r] >= layer[s] /\ stage[s] = "combine"
        BY <2>2 DEF CombineWait, AllDone
      <3>2. ~Cleared(s, r)
        BY <3>1 DEF Cleared
      <3>3. combineArrived[s][r] = CombineSent(r, s)
        BY <3>2 DEF ControlOK, SignalsOK
      <3>4. layer[s] \in Nat
        BY DEF Shape, Places
      <3> QED
        BY <1>1, <2>2, <3>1, <3>3, <3>4
    <2>3. CASE Combined(s)' = Combined(s)
      BY <1>1, <1>2, <2>3
    <2>4. CASE CombineWait(s) /\ Combined(s)' = layer[s]
      <3>1. layer[s] \in Nat
        BY DEF Shape, Places
      <3> QED
        BY <1>1, <1>2, <2>2, <2>4, <3>1
    <2> QED
      BY <2>1, <2>3, <2>4
  <1>4. CASE m # s
    <2>1. forward' = forward /\ Kept(s)
      BY <1>4, Others
    <2>2. Combined(s)' = Combined(s)
      BY <2>1, KeptFacts
    <2> QED
      BY <1>1, <1>2, <2>2
  <1> QED
    BY <1>3, <1>4

LEMMA CountedStep ==
    ASSUME Shape, NEW m \in Ranks, RankStep(m), Counted(m)'
    PROVE  /\ layer'[m] = layer[m]
           /\ \/ Counted(m) /\ count'[m] = count[m]
              \/ CopyCounts(m) /\ count'[m] = recvMeta[m]
  <1> USE DEF Shape, Places, Contents
  <1>1. CASE CopyCounts(m)
    BY <1>1 DEF CopyCounts
  <1>2. CASE NextLayer(m)
    <2>1. count'[m] = NoCount /\ NoCount' = NoCount
      BY <1>2 DEF NextLayer, NoCount, NoMeta
    <2> QED
      BY <2>1 DEF Counted
  <1>3. CASE UNCHANGED <<layer, count>>
    <2>1. NoCount' = NoCount
      BY DEF NoCount, NoMeta
    <2> QED
      BY <1>3, <2>1 DEF Counted
  <1> QED
    BY <1>1, <1>2, <1>3
       DEF RankStep, Gate, SendMeta, StartPush, FinishPush, WaitPayload, Gather, StartScatter,
           FinishScatter, StartCombine, TellDone, CombineWait, Reduce, ClearSignals, Finish

LEMMA HeardStep ==
    ASSUME Shape, ControlOK, NEW m \in Ranks, RankStep(m)
    PROVE  Heard'
  <1> SUFFICES ASSUME NEW r \in Ranks, NEW s \in Ranks, Counted(r)', r # s
               PROVE  MetaSent(s, r)' >= layer'[r]
    BY DEF Heard
  <1>1. MetaSent(s, r)' >= MetaSent(s, r) /\ MetaSent(s, r) \in Nat
    BY SentGrows
  <1>2. MetaSent(s, r)' \in Nat /\ layer[r] \in Nat
    BY SentGrows DEF Shape, Places
  <1>3. layer'[r] = layer[r] /\ (Counted(r) \/ CopyCounts(r))
    <2>1. CASE m = r
      BY <2>1, CountedStep
    <2>2. CASE m # r
      <3>1. forward' = forward /\ Kept(r)
        BY <2>2, Others
      <3> QED
        BY <3>1, KeptFacts DEF Kept
    <2> QED
      BY <2>1, <2>2
  <1>4. MetaSent(s, r) >= layer[r]
    <2>1. CASE Counted(r)
      BY <2>1 DEF ControlOK, Heard
    <2>2. CASE CopyCounts(r)
      <3>1. arrived[r][s] >= layer[r] /\ stage[r] = "exchange"
        BY <2>2 DEF CopyCounts, MetaHere
      <3>2. ~Cleared(r, s)
        BY <3>1 DEF Cleared
      <3>3. arrived[r][s] = MetaSent(s, r)
        BY <3>2 DEF ControlOK, SignalsOK
      <3> QED
        BY <3>1, <3>3
    <2> QED
      BY <1>3, <2>1, <2>2
  <1> QED
    BY <1>1, <1>2, <1>3, <1>4

LEMMA PaidOwn ==
    ASSUME Shape, NEW r \in Ranks, RankStep(r), stage'[r] = "exchange", layer'[r] \notin pending'[r]
    PROVE  /\ stage[r] = "exchange" /\ layer'[r] = layer[r]
           /\ Pushed(r) => Pushed(r)'
           /\ layer[r] \in pending[r] => WaitPayload(r, layer[r])
  <1> USE DEF Shape, Places
  <1>1. CASE Gate(r)
    BY <1>1 DEF Gate
  <1>2. ASSUME NEW d \in Ranks, NEW g \in BlockIds, StartPush(r, d, g)
        PROVE  stage[r] = "exchange" /\ layer' = layer /\ pending' = pending
               /\ (Pushed(r) => Pushed(r)')
    <2>1. UNCHANGED <<stage, layer, pending>> /\ stage[r] = "exchange" /\ push[r][d][g] = "idle"
      BY <1>2 DEF StartPush
    <2>2. ~Pushed(r)
      BY <2>1 DEF Pushed, BlockIds
    <2> QED
      BY <2>1, <2>2
  <1>3. ASSUME NEW d \in Ranks, NEW g \in BlockIds, FinishPush(r, d, g)
        PROVE  stage[r] = "exchange" /\ layer' = layer /\ pending' = pending
               /\ (Pushed(r) => Pushed(r)')
    <2>1. UNCHANGED <<stage, layer, pending>> /\ stage[r] = "exchange" /\ push[r][d][g] # "done"
      BY <1>3 DEF FinishPush
    <2>2. ~Pushed(r)
      BY <2>1 DEF Pushed, BlockIds
    <2> QED
      BY <2>1, <2>2
  <1>4. ASSUME NEW e \in 1 .. Layers, WaitPayload(r, e)
        PROVE  /\ stage[r] = "exchange" /\ layer' = layer /\ push' = push
               /\ (layer[r] \in pending[r] => WaitPayload(r, layer[r]))
    <2>1. UNCHANGED <<stage, layer, push>> /\ pending'[r] = pending[r] \ {e}
      BY <1>4 DEF WaitPayload
    <2>2. layer[r] \in pending[r] => e = layer[r]
      BY <2>1
    <2> QED
      BY <1>4, <2>1, <2>2
  <1>5. CASE NextLayer(r)
    <2>1. stage'[r] \in {"gate", "clear"}
      BY <1>5, LayerEnd
    <2> QED
      BY <2>1
  <1>6. CASE StartCombine(r) \/ CombineWait(r) \/ Reduce(r) \/ Finish(r)
    <2>1. stage'[r] # "exchange"
      BY <1>6 DEF StartCombine, CombineWait, Reduce, Finish
    <2> QED
      BY <2>1
  <1>7. CASE UNCHANGED <<stage, layer, pending, push>>
    BY <1>7 DEF Pushed
  <1> QED
    BY <1>1, <1>2, <1>3, <1>4, <1>5, <1>6, <1>7
       DEF RankStep, BlockIds, SendMeta, CopyCounts, Gather, StartScatter, FinishScatter, TellDone,
           ClearSignals, Pushed

LEMMA PaidStep ==
    ASSUME Shape, ControlOK, NEW m \in Ranks, RankStep(m)
    PROVE  Paid'
  <1> SUFFICES ASSUME NEW r \in Ranks, stage'[r] = "exchange", layer'[r] \notin pending'[r]
               PROVE  Pushed(r)' /\ \A s \in Ranks \ {r} : DataSent(s, r)' >= layer'[r] * Groups
    BY DEF Paid
  <1>1. /\ stage[r] = "exchange" /\ layer'[r] = layer[r] /\ (Pushed(r) => Pushed(r)')
        /\ layer[r] \in pending[r] => WaitPayload(r, layer[r])
    <2>1. CASE m = r
      BY <2>1, PaidOwn
    <2>2. CASE m # r
      <3>1. forward' = forward /\ Kept(r)
        BY <2>2, Others
      <3> QED
        BY <3>1, KeptFacts DEF Kept
    <2> QED
      BY <2>1, <2>2
  <1>2. Pushed(r) /\ \A s \in Ranks \ {r} : DataSent(s, r) >= layer[r] * Groups
    <2>1. CASE layer[r] \notin pending[r]
      BY <1>1, <2>1 DEF ControlOK, Paid
    <2>2. CASE WaitPayload(r, layer[r])
      <3>1. Pushed(r) /\ \A s \in Ranks \ {r} : dataArrived[r][s] >= layer[r] * Groups
        BY <2>2 DEF WaitPayload, PayloadHere
      <3>2. \A s \in Ranks \ {r} : dataArrived[r][s] = DataSent(s, r)
        BY <1>1 DEF ControlOK, SignalsOK, Cleared
      <3> QED
        BY <3>1, <3>2
    <2> QED
      BY <1>1, <2>1, <2>2
  <1>3. ASSUME NEW s \in Ranks \ {r}
        PROVE  DataSent(s, r)' >= layer'[r] * Groups
    <2>1. DataSent(s, r)' >= DataSent(s, r) /\ DataSent(s, r) \in Nat
      BY SentGrows
    <2>2. DataSent(s, r)' \in Nat /\ layer[r] * Groups \in Nat
      BY SentGrows, LayerGroups DEF Shape
    <2>3. DataSent(s, r) >= layer[r] * Groups
      BY <1>2
    <2> DEFINE n == layer[r] * Groups
    <2> HIDE DEF n
    <2>4. DataSent(s, r)' >= n
      BY <2>1, <2>2, <2>3 DEF n
    <2> QED
      BY <1>1, <2>4 DEF n
  <1> QED
    BY <1>1, <1>2, <1>3
\* Between forwards nothing is under way.
Fresh ==
    \A r \in Ranks :
        /\ layer[r] = 1 /\ stage[r] = "gate"
        /\ meta[r] = 0 /\ count[r] = NoCount /\ push[r] = Idle /\ gathered[r] = {}
        /\ \A s \in Ranks :
             /\ scatter[r][s] = "idle"
             /\ arrived[r][s] = 0 /\ dataArrived[r][s] = 0 /\ combineArrived[r][s] = 0

LEMMA FreshOK ==
    ASSUME Fresh
    PROVE  /\ ControlOK /\ MetaWritten /\ CountsOK /\ LanesWritten /\ GatherExact
           /\ AllScattered /\ ResultsWritten /\ ReduceExact
  <1>1. ASSUME NEW r \in Ranks
        PROVE  /\ layer[r] = 1 /\ stage[r] = "gate" /\ ~Counted(r)
               /\ meta[r] = 0 /\ count[r] = NoCount /\ push[r] = Idle /\ gathered[r] = {}
               /\ \A s \in Ranks :
                    /\ scatter[r][s] = "idle"
                    /\ arrived[r][s] = 0 /\ dataArrived[r][s] = 0 /\ combineArrived[r][s] = 0
    BY DEF Fresh, Counted
  <1>2. ASSUME NEW r \in Ranks, NEW s \in Ranks
        PROVE  /\ MetaSent(r, s) = 0 /\ DataSent(r, s) = 0 /\ CombineSent(r, s) = 0 /\ Combined(r) = 0
               /\ ~Cleared(r, s) /\ PushedTo(r, s) = {}
    <2>1. PushedTo(r, s) = {}
      <3>1. push[r] = Idle
        BY <1>1
      <3> QED
        BY <3>1 DEF PushedTo, Idle, BlockIds
    <2>2. Cardinality(PushedTo(r, s)) = 0
      BY <2>1, FS_EmptySet
    <2>3. DataSent(r, s) = (1 - 1) * Groups + 0
      BY <1>1, <2>2 DEF DataSent, Ended
    <2>4. r \in 0 .. EP - 1 /\ s \in 0 .. EP - 1
      BY DEF Ranks
    <2> QED
      BY <1>1, <2>1, <2>3, <2>4, Sizes DEF MetaSent, CombineSent, Combined, Cleared, Ended
  <1>3. ASSUME NEW r \in Ranks
        PROVE  PositionAt(r)
    BY <1>1 DEF PositionAt, Late, Ended
  <1>4. Synchronised
    BY <1>2 DEF Synchronised
  <1>5. SignalsOK
    BY <1>1, <1>2 DEF SignalsOK
  <1>6. Heard /\ Paid /\ CountsOK /\ GatherExact /\ AllScattered /\ ResultsWritten /\ ReduceExact
    BY <1>1 DEF Heard, Paid, CountsOK, GatherExact, AllScattered, Late, ResultsWritten, ReduceExact
  <1>7. MetaWritten
    BY <1>1 DEF MetaWritten, Ranks
  <1>8. LanesWritten
    <2>1. \A r, s \in Ranks, g \in BlockIds : push[s][r][g] = "idle"
      <3>1. \A s \in Ranks : push[s] = Idle
        BY <1>1
      <3>2. \A r \in Ranks, g \in BlockIds : Idle[r][g] = "idle"
        BY DEF Idle, BlockIds
      <3> QED
        BY <3>1, <3>2
    <2> QED
      BY <2>1 DEF LanesWritten
  <1> QED
    BY <1>3, <1>4, <1>5, <1>6, <1>7, <1>8 DEF ControlOK

LEMMA FreshForward ==
    ASSUME Shape, ControlOK, NextForward
    PROVE  Fresh'
  <1>1. ASSUME NEW r \in Ranks
        PROVE  /\ meta[r] = 0 /\ count[r] = NoCount /\ push[r] = Idle /\ gathered[r] = {}
               /\ \A s \in Ranks :
                    /\ scatter[r][s] = "idle"
                    /\ arrived[r][s] = 0 /\ dataArrived[r][s] = 0 /\ combineArrived[r][s] = 0
    <2>1. stage[r] = "done"
      BY DEF NextForward
    <2>2. PositionAt(r) /\ \A s \in Ranks : Cleared(r, s)
      BY <2>1 DEF ControlOK, Cleared
    <2> QED
      BY <2>1, <2>2 DEF ControlOK, PositionAt, SignalsOK
  <1>2. NoCount' = NoCount /\ Idle' = Idle
    BY DEF NoCount, NoMeta, Idle
  <1> QED
    BY <1>1, <1>2 DEF NextForward, Fresh, signals

LEMMA ControlStep ==
    ASSUME Shape, ControlOK, NEW m \in Ranks, RankStep(m)
    PROVE  ControlOK'
  <1>1. ASSUME NEW r \in Ranks
        PROVE  PositionAt(r)'
    <2>1. PositionAt(r)
      BY DEF ControlOK
    <2>2. CASE m = r
      BY <2>1, <2>2, PositionStep
    <2>3. CASE m # r
      <3>1. forward' = forward /\ Kept(r)
        BY <2>3, Others
      <3> QED
        BY <2>1, <3>1, KeptFacts
    <2> QED
      BY <2>2, <2>3
  <1> QED
    BY <1>1, SynchronisedStep, SignalsStep, HeardStep, PaidStep DEF ControlOK

-----------------------------------------------------------------------------
(* Counts, lanes and results.                                              *)

\* Where a rank's routing and call change.
LEMMA RoutingKept ==
    ASSUME Shape, NEW m \in Ranks, RankStep(m), NEW r \in Ranks, stage[r] \notin {"gate", "output"}
    PROVE  /\ routing'[r] = routing[r] /\ layer'[r] = layer[r] /\ forward' = forward
           /\ Call(r)' = Call(r)
           /\ \A s \in Ranks : MetaRow(r, s)' = MetaRow(r, s) /\ RoutesTo(r, s)' = RoutesTo(r, s)
           /\ \A s \in Ranks, g \in BlockIds : Sent(r, s, g)' = Sent(r, s, g)
           /\ \A x : CellOf(r, x)' = CellOf(r, x)
  <1>1. forward' = forward
    BY Others
  <1>2. routing'[r] = routing[r] /\ layer'[r] = layer[r]
    <2>1. CASE m = r
      BY <2>1 DEF RankStep, Gate, NextLayer, SendMeta, CopyCounts, StartPush, FinishPush, WaitPayload,
                  Gather, StartScatter, FinishScatter, StartCombine, TellDone, CombineWait, Reduce,
                  ClearSignals, Finish
    <2>2. CASE m # r
      BY <2>2, Others DEF Kept
    <2> QED
      BY <2>1, <2>2
  <1>3. Call(r)' = Call(r)
    BY <1>1, <1>2 DEF Call
  <1>4. \A s \in Ranks : MetaRow(r, s)' = MetaRow(r, s) /\ RoutesTo(r, s)' = RoutesTo(r, s)
    BY <1>2, <1>3 DEF MetaRow, RoutesTo
  <1>5. \A s \in Ranks, g \in BlockIds : Sent(r, s, g)' = Sent(r, s, g)
    BY <1>2 DEF Sent
  <1>6. \A x : CellOf(r, x)' = CellOf(r, x)
    BY <1>2 DEF CellOf
  <1> QED
    BY <1>1, <1>2, <1>3, <1>4, <1>5, <1>6

LEMMA MetaWrittenStep ==
    ASSUME Shape, ControlOK, MetaWritten, NEW m \in Ranks, RankStep(m)
    PROVE  MetaWritten'
  <1> SUFFICES ASSUME NEW r \in Ranks, NEW s \in Ranks, meta'[s] > r
               PROVE  recvMeta'[r][s] = MetaRow(s, r)'
    BY DEF MetaWritten
  <1>0. /\ r \in Nat /\ meta \in [Ranks -> 0 .. EP] /\ EP \in Nat
        /\ recvMeta \in [Ranks -> [Ranks -> MetaRows]]
    <2>1. r \in Nat /\ EP \in Nat
      BY Sizes DEF Ranks
    <2> QED
      BY <2>1 DEF Shape, Places, Contents
  <1>1. CASE SendMeta(m)
    <2>1. /\ stage[m] = "exchange" /\ meta[m] < EP
          /\ recvMeta' = [recvMeta EXCEPT ![meta[m]][m] = MetaRow(m, meta[m])]
          /\ meta' = [meta EXCEPT ![m] = @ + 1]
          /\ UNCHANGED <<stage, forward, layer, routing>>
      BY <1>1 DEF SendMeta
    <2>2. MetaRow(s, r)' = MetaRow(s, r)
      BY <2>1 DEF MetaRow, Call
    <2>3. meta[m] \in Ranks
      BY <1>0, <2>1 DEF Ranks
    <2>4. CASE s = m /\ r = meta[m]
      BY <1>0, <2>1, <2>2, <2>3, <2>4
    <2>5. CASE ~(s = m /\ r = meta[m])
      <3>1. recvMeta'[r][s] = recvMeta[r][s]
        BY <1>0, <2>1, <2>3, <2>5
      <3>2. meta[s] > r
        BY <1>0, <2>1, <2>5
      <3> QED
        BY <2>2, <3>1, <3>2 DEF MetaWritten
    <2> QED
      BY <2>4, <2>5
  <1>2. CASE ~SendMeta(m)
    <2>1. recvMeta' = recvMeta /\ (meta'[s] = meta[s] \/ meta'[s] = 0)
      BY <1>0, <1>2 DEF RankStep, Gate, NextLayer, CopyCounts, StartPush, FinishPush, WaitPayload,
                  Gather, StartScatter, FinishScatter, StartCombine, TellDone, CombineWait, Reduce,
                  ClearSignals, Finish, windows
    <2>2. meta[s] > r
      BY <1>0, <2>1
    <2>3. recvMeta[r][s] = MetaRow(s, r)
      BY <2>2 DEF MetaWritten
    <2>4. MetaRow(s, r)' = MetaRow(s, r)
      <3>1. stage[s] # "gate"
        BY <1>0, <2>2 DEF ControlOK, PositionAt
      <3>2. CASE s # m
        <4>1. forward' = forward /\ Kept(s)
          BY <3>2, Others
        <4> QED
          BY <4>1, KeptFacts
      <3>3. CASE s = m /\ stage[s] # "output"
        BY <3>1, <3>3, RoutingKept
      <3>4. CASE s = m /\ stage[s] = "output"
        <4>1. ~NextLayer(m)
          BY <1>0, <3>4, <1>0 DEF NextLayer
        <4>2. UNCHANGED <<forward, layer, routing>>
          BY <3>4, <4>1 DEF RankStep, Gate, CopyCounts, SendMeta, StartPush, FinishPush, WaitPayload,
                  Gather, StartScatter, FinishScatter, StartCombine, TellDone, CombineWait, Reduce,
                  ClearSignals, Finish
        <4> QED
          BY <4>2 DEF MetaRow, Call
      <3> QED
        BY <3>1, <3>2, <3>3, <3>4
    <2> QED
      BY <2>1, <2>3, <2>4
  <1> QED
    BY <1>1, <1>2
LEMMA StageMoves ==
    ASSUME Shape, NEW m \in Ranks, RankStep(m)
    PROVE  \/ stage'[m] = stage[m] /\ layer'[m] = layer[m]
           \/ /\ layer'[m] = layer[m]
              /\ \/ Gate(m) /\ stage[m] = "gate" /\ stage'[m] = "exchange"
                 \/ StartCombine(m) /\ stage[m] = "exchange" /\ stage'[m] = "combine"
                 \/ CombineWait(m) /\ stage[m] = "combine" /\ stage'[m] = "reduce"
                 \/ Reduce(m) /\ stage[m] = "reduce" /\ stage'[m] = "output"
                 \/ Finish(m) /\ stage[m] = "clear" /\ stage'[m] = "done"
           \/ NextLayer(m) /\ stage[m] = "output" /\ stage'[m] = "gate" /\ layer'[m] = layer[m] + 1
           \/ NextLayer(m) /\ stage[m] = "output" /\ stage'[m] = "clear" /\ layer'[m] = layer[m]
  <1>0. DOMAIN stage = Ranks /\ Places
    BY DEF Shape, Places
  <1>1. CASE NextLayer(m)
    BY <1>0, <1>1, LayerEnd DEF NextLayer
  <1>2. CASE Gate(m) \/ StartCombine(m) \/ CombineWait(m) \/ Reduce(m) \/ Finish(m)
    BY <1>0, <1>2 DEF Gate, StartCombine, CombineWait, Reduce, Finish
  <1>3. CASE UNCHANGED <<stage, layer>>
    BY <1>3
  <1> QED
    BY <1>1, <1>2, <1>3
       DEF RankStep, SendMeta, CopyCounts, StartPush, FinishPush, WaitPayload, Gather,
           StartScatter, FinishScatter, TellDone, ClearSignals

\* When a rank copies the counts, all are in its layer and have sent theirs.
LEMMA CopiedCounts ==
    ASSUME Shape, ControlOK, MetaWritten, NEW r \in Ranks, NEW s \in Ranks, CopyCounts(r)
    PROVE  /\ layer[s] = layer[r] /\ stage[s] \in {"exchange", "combine"}
           /\ recvMeta[r][s] = MetaRow(s, r)
  <1>1. stage[r] = "exchange" /\ meta[r] = EP /\ EP \in Nat /\ r \in Nat /\ r < EP
    BY Sizes DEF CopyCounts, Ranks
  <1>2. CASE s = r
    BY <1>1, <1>2 DEF MetaWritten
  <1>3. CASE s # r
    <2>1. arrived[r][s] >= layer[r]
      BY <1>3 DEF CopyCounts, MetaHere
    <2>2. ~Cleared(r, s)
      BY <1>1 DEF Cleared
    <2>3. MetaSent(s, r) >= layer[r]
      BY <1>3, <2>1, <2>2 DEF ControlOK, SignalsOK
    <2>4. Combined(s) <= CombineSent(r, s) /\ CombineSent(r, s) = layer[r] - 1
      BY <1>1, <1>3 DEF ControlOK, Synchronised, CombineSent
    <2>5. layer[r] \in Nat /\ layer[s] \in Nat /\ stage[s] \in Stages /\ meta[s] \in Nat
      BY Sizes DEF Shape, Places
    <2>6. stage[s] \notin {"reduce", "output", "clear", "done"} /\ layer[s] = layer[r] /\ meta[s] > r
      BY <1>1, <2>3, <2>4, <2>5 DEF MetaSent, Combined, Ended
    <2>7. stage[s] # "gate"
      BY <1>1, <2>6 DEF ControlOK, PositionAt
    <2> QED
      BY <2>5, <2>6, <2>7 DEF MetaWritten, Stages
  <1> QED
    BY <1>2, <1>3

LEMMA CountsStep ==
    ASSUME Shape, ControlOK, MetaWritten, CountsOK, NEW m \in Ranks, RankStep(m)
    PROVE  CountsOK'
  <1> SUFFICES ASSUME NEW r \in Ranks, NEW s \in Ranks, Counted(r)', stage'[r] = "exchange"
               PROVE  /\ layer'[s] = layer'[r] /\ stage'[s] \in {"exchange", "combine"}
                      /\ count'[r][s] = MetaRow(s, r)'
    BY DEF CountsOK
  <1>1. \/ Counted(r) /\ count'[r] = count[r]
        \/ CopyCounts(r) /\ count'[r] = recvMeta[r]
    <2>1. CASE m = r
      BY <2>1, CountedStep
    <2>2. CASE m # r
      <3>1. forward' = forward /\ Kept(r)
        BY <2>2, Others
      <3> QED
        BY <3>1, KeptFacts DEF Kept
    <2> QED
      BY <2>1, <2>2
  <1>2. stage[r] = "exchange"
    <2>1. CASE Counted(r)
      <3>1. stage[r] # "gate"
        BY <2>1 DEF ControlOK, PositionAt, Counted
      <3> QED
        BY <3>1, StageMoves, Others DEF Kept
    <2> QED
      BY <1>1, <2>1 DEF CopyCounts
  <1>3. /\ layer[s] = layer[r] /\ stage[s] \in {"exchange", "combine"}
        /\ count'[r][s] = MetaRow(s, r)
    <2>1. CASE Counted(r) /\ count'[r] = count[r]
      BY <1>2, <2>1 DEF CountsOK
    <2>2. CASE CopyCounts(r) /\ count'[r] = recvMeta[r]
      BY <2>2, CopiedCounts
    <2> QED
      BY <1>1, <2>1, <2>2
  <1>4. /\ layer'[r] = layer[r] /\ layer'[s] = layer[s] /\ MetaRow(s, r)' = MetaRow(s, r)
    BY <1>2, <1>3, RoutingKept
  <1>5. stage'[s] \in {"exchange", "combine"}
    <2>1. CASE m = s /\ CombineWait(s)
      <3>1. stage[s] = "combine" /\ r # s
        BY <1>2, <2>1 DEF CombineWait
      <3>2. combineArrived[s][r] >= layer[s] /\ ~Cleared(s, r)
        BY <2>1, <3>1 DEF CombineWait, AllDone, Cleared
      <3>3. combineArrived[s][r] = CombineSent(r, s) /\ CombineSent(r, s) = layer[r] - 1
        BY <1>2, <3>1, <3>2 DEF ControlOK, SignalsOK, CombineSent
      <3>4. layer[s] \in Nat
        BY DEF Shape, Places
      <3> QED
        BY <1>3, <3>2, <3>3, <3>4
    <2>2. CASE m = s /\ ~CombineWait(s)
      BY <1>3, <2>2, StageMoves
    <2>3. CASE m # s
      BY <1>3, <2>3, Others DEF Kept
    <2> QED
      BY <2>1, <2>2, <2>3
  <1> QED
    BY <1>3, <1>4, <1>5

\* No two push blocks of a call write the same cell.
LEMMA CellsApart ==
    ASSUME Contents, NEW r \in Ranks, NEW s \in Ranks, NEW g \in BlockIds, NEW x \in Sent(s, r, g),
           NEW m \in Ranks, NEW d \in Ranks, NEW h \in BlockIds, ~(s = m /\ r = d /\ g = h)
    PROVE  r # d \/ CellOf(s, x) \notin Cells(m, d, h)
  <1> SUFFICES ASSUME r = d, NEW y \in Sent(m, d, h), CellOf(m, y) = CellOf(s, x)
               PROVE  FALSE
    BY DEF Cells
  <1>1. x \in DOMAIN routing[s] /\ y \in DOMAIN routing[m]
    BY DEF Sent
  <1>2. s = m
    BY <1>1, CellFacts
  <1>3. routing[s][x] % Local = routing[s][y] % Local
    BY <1>2 DEF CellOf
  <1>4. g = h
    BY <1>2, <1>3 DEF Sent
  <1> QED
    BY <1>2, <1>4

\* A rank's routing changes at its gate, its call at the end of a layer.
LEMMA RoutingStays ==
    ASSUME Shape, NEW m \in Ranks, RankStep(m), NEW s \in Ranks,
           stage[s] # "gate", ~(s = m /\ NextLayer(m))
    PROVE  routing'[s] = routing[s] /\ layer'[s] = layer[s] /\ forward' = forward
  <1>1. forward' = forward
    BY Others
  <1>2. CASE s = m
    BY <1>2 DEF RankStep, Gate, SendMeta, CopyCounts, StartPush, FinishPush, WaitPayload,
                Gather, StartScatter, FinishScatter, StartCombine, TellDone, CombineWait, Reduce,
                ClearSignals, Finish
  <1>3. CASE s # m
    BY <1>3, Others DEF Kept
  <1> QED
    BY <1>1, <1>2, <1>3

LEMMA PushKept ==
    ASSUME Places, NEW m \in Ranks, RankStep(m)
    PROVE  \/ \E d \in Ranks, h \in BlockIds : FinishPush(m, d, h)
           \/ \E d \in Ranks, h \in BlockIds : StartPush(m, d, h)
           \/ recv' = recv /\ \A p, q \in Ranks, h \in BlockIds :
                                push'[p][q][h] = "done" => push[p][q][h] = "done"
  <1>1. CASE NextLayer(m)
    <2>1. recv' = recv /\ push' = [push EXCEPT ![m] = Idle]
      BY <1>1 DEF NextLayer, windows
    <2>2. \A p, q \in Ranks, h \in BlockIds : push'[p][q][h] = "done" => push[p][q][h] = "done"
      BY <2>1 DEF Places, Idle, BlockIds
    <2> QED
      BY <2>1, <2>2
  <1>2. CASE UNCHANGED <<recv, push>>
    BY <1>2
  <1> QED
    BY <1>1, <1>2
       DEF RankStep, BlockIds, Gate, SendMeta, CopyCounts, WaitPayload, Gather, StartScatter,
           FinishScatter, StartCombine, TellDone, CombineWait, Reduce, ClearSignals, Finish, windows

LEMMA LanesStep ==
    ASSUME Shape, ControlOK, LanesWritten, NEW m \in Ranks, RankStep(m)
    PROVE  LanesWritten'
  <1> SUFFICES ASSUME NEW r \in Ranks, NEW s \in Ranks, NEW g \in BlockIds, push'[s][r][g] = "done",
                      NEW x \in Sent(s, r, g)'
               PROVE  recv'[r][CellOf(s, x)'] = [call |-> Call(s)', source |-> s, route |-> x]
    BY DEF LanesWritten
  <1>0. Places /\ Contents /\ PositionAt(s)
    BY DEF Shape, ControlOK
  <1>1. CASE \E d \in Ranks, h \in BlockIds : FinishPush(m, d, h)
    <2>1. PICK d \in Ranks, h \in BlockIds : FinishPush(m, d, h)
      BY <1>1
    <2>2. /\ UNCHANGED <<stage, forward, layer, routing>> /\ push[m][d][h] # "done"
          /\ push' = [push EXCEPT ![m][d][h] = "done"]
      BY <2>1 DEF FinishPush
    <2>3. /\ Sent(s, r, g)' = Sent(s, r, g) /\ CellOf(s, x)' = CellOf(s, x) /\ Call(s)' = Call(s)
      BY <2>2 DEF Sent, CellOf, Call
    <2>4. x \in Sent(s, r, g) /\ x \in DOMAIN routing[s] /\ CellOf(s, x) \in Lanes
      BY <1>0, <2>3, CellFacts DEF Sent
    <2>5. CASE s = m /\ r = d /\ g = h
      BY <1>0, <2>1, <2>3, <2>4, <2>5, PushWrites
    <2>6. CASE ~(s = m /\ r = d /\ g = h)
      <3>1. push[s][r][g] = "done"
        BY <1>0, <2>2, <2>6 DEF Places
      <3>2. recv[r][CellOf(s, x)] = [call |-> Call(s), source |-> s, route |-> x]
        BY <2>4, <3>1 DEF LanesWritten
      <3>3. r # d \/ CellOf(s, x) \notin Cells(m, d, h)
        BY <1>0, <2>4, <2>6, CellsApart
      <3>4. recv'[r][CellOf(s, x)] = recv[r][CellOf(s, x)]
        BY <1>0, <2>1, <2>4, <3>3, PushWrites
      <3> QED
        BY <2>3, <3>2, <3>4
    <2> QED
      BY <2>5, <2>6
  <1>2. CASE \E d \in Ranks, h \in BlockIds : StartPush(m, d, h)
    <2>1. PICK d \in Ranks, h \in BlockIds : StartPush(m, d, h)
      BY <1>2
    <2>2. /\ UNCHANGED <<stage, forward, layer, routing>> /\ push[m][d][h] = "idle"
          /\ push' = [push EXCEPT ![m][d][h] = "putting"]
          /\ recv' = [recv EXCEPT ![d] =
                        [c \in Lanes |-> IF c \in Cells(m, d, h) THEN NoRow ELSE recv[d][c]]]
      BY <2>1 DEF StartPush
    <2>3. /\ Sent(s, r, g)' = Sent(s, r, g) /\ CellOf(s, x)' = CellOf(s, x) /\ Call(s)' = Call(s)
      BY <2>2 DEF Sent, CellOf, Call
    <2>4. x \in Sent(s, r, g) /\ x \in DOMAIN routing[s] /\ CellOf(s, x) \in Lanes
      BY <1>0, <2>3, CellFacts DEF Sent
    <2>5. push[s][r][g] = "done" /\ ~(s = m /\ r = d /\ g = h)
      BY <1>0, <2>2 DEF Places
    <2>6. recv[r][CellOf(s, x)] = [call |-> Call(s), source |-> s, route |-> x]
      BY <2>4, <2>5 DEF LanesWritten
    <2>7. r # d \/ CellOf(s, x) \notin Cells(m, d, h)
      BY <1>0, <2>4, <2>5, CellsApart
    <2>8. recv'[r][CellOf(s, x)] = recv[r][CellOf(s, x)]
      BY <1>0, <2>2, <2>4, <2>7 DEF Contents
    <2> QED
      BY <2>3, <2>6, <2>8
  <1>3. CASE recv' = recv /\ \A p, q \in Ranks, h \in BlockIds : push'[p][q][h] = "done" => push[p][q][h] = "done"
    <2>1. push[s][r][g] = "done"
      BY <1>3
    <2>2. stage[s] # "gate"
      BY <1>0, <2>1 DEF PositionAt, Idle, BlockIds
    <2>3. ~(s = m /\ NextLayer(m))
      <3>1. ASSUME s = m, NextLayer(m)
            PROVE  FALSE
        <4>1. push'[m] = Idle
          BY <1>0, <3>1 DEF NextLayer, Places
        <4> QED
          BY <3>1, <4>1 DEF Idle, BlockIds
      <3> QED
        BY <3>1
    <2>4. routing'[s] = routing[s] /\ layer'[s] = layer[s] /\ forward' = forward
      BY <2>2, <2>3, RoutingStays
    <2>5. /\ Sent(s, r, g)' = Sent(s, r, g) /\ CellOf(s, x)' = CellOf(s, x) /\ Call(s)' = Call(s)
      BY <2>4 DEF Sent, CellOf, Call
    <2> QED
      BY <1>3, <2>1, <2>5 DEF LanesWritten
  <1> QED
    BY <1>0, <1>1, <1>2, <1>3, PushKept
-----------------------------------------------------------------------------
(* The gather.                                                             *)

\* The counts of a layer promise a cell for every route, and no other.
LEMMA PromisedCells ==
    ASSUME Contents, NEW r \in Ranks, \A s \in Ranks : count[r][s] = MetaRow(s, r)
    PROVE  /\ \A s \in Ranks : \A x \in RoutesTo(s, r) : CellOf(s, x) \in Promised(r)
           /\ \A c \in Promised(r) :
                 c[2] \in Ranks /\ \E x \in RoutesTo(c[2], r) : c = CellOf(c[2], x)
  <1>0. r \in Nat /\ Local \in Nat \ {0} /\ r * Local \in Nat
    BY Sizes, Products DEF Ranks
  <1>1. ASSUME NEW s \in Ranks, NEW e \in LocalExperts
        PROVE  count[r][s].rows[e] = RowsFor(routing[s], r * Local + e)
    <2>1. MetaRow(s, r).rows = [i \in LocalExperts |-> RowsFor(routing[s], r * Local + i)]
      BY DEF MetaRow
    <2>2. count[r][s].rows = MetaRow(s, r).rows
      OBVIOUS
    <2> QED
      BY <2>1, <2>2
  <1>2. ASSUME NEW s \in Ranks, NEW x \in RoutesTo(s, r)
        PROVE  CellOf(s, x) \in Promised(r)
    <2> DEFINE f == routing[s]
               e == f[x] % Local
    <2>1. f \in Routings \cup {<<>>} /\ x \in DOMAIN f /\ f[x] \div Local = r
      BY DEF RoutesTo, Contents
    <2>2. /\ e \in LocalExperts /\ f[x] = (f[x] \div Local) * Local + e
          /\ SlotOf(f, x) < RowsFor(f, f[x])
      <3> HIDE DEF f
      <3> QED
        BY <2>1, RoutesShape, SlotFacts
    <2>3. f[x] = r * Local + e
      BY <2>1, <2>2
    <2>4. CellOf(s, x) = <<e, s, SlotOf(f, x)>> /\ CellOf(s, x) \in Lanes
      BY <2>1, CellFacts DEF CellOf
    <2>5. count[r][s].rows[e] = RowsFor(f, f[x])
      BY <1>1, <2>2, <2>3
    <2> HIDE DEF f, e
    <2> QED
      BY <2>2, <2>4, <2>5 DEF Promised
  <1>3. ASSUME NEW c \in Promised(r)
        PROVE  c[2] \in Ranks /\ \E x \in RoutesTo(c[2], r) : c = CellOf(c[2], x)
    <2> DEFINE s == c[2]
               f == routing[s]
               e == r * Local + c[1]
    <2>1. /\ c = <<c[1], c[2], c[3]>> /\ c[1] \in LocalExperts /\ s \in Ranks /\ c[3] \in Nat
          /\ c[3] < count[r][s].rows[c[1]]
      BY DEF Promised, Lanes, Slots
    <2>2. c[3] < RowsFor(f, e) /\ f \in Routings \cup {<<>>}
      BY <1>1, <2>1 DEF Contents
    <2>3. PICK x \in DOMAIN f : f[x] = e /\ SlotOf(f, x) = c[3]
      <3> HIDE DEF f, e
      <3> QED
        BY <2>1, <2>2, SlotsFilled
    <2>4. c[1] \in 0 .. Local - 1 /\ e \in Nat
      BY <1>0, <2>1 DEF LocalExperts
    <2>5. e \div Local = r /\ e % Local = c[1]
      <3> DEFINE k == c[1]
      <3>1. e = r * Local + k
        OBVIOUS
      <3>2. k \in 0 .. Local - 1
        BY <2>4
      <3> HIDE DEF e, k
      <3>3. e \div Local = r /\ e % Local = k
        BY <1>0, <3>1, <3>2, Composed
      <3> QED
        BY <3>3 DEF k
    <2>6. x \in RoutesTo(s, r) /\ CellOf(s, x) = <<c[1], s, c[3]>>
      BY <2>3, <2>5 DEF RoutesTo, CellOf
    <2> QED
      BY <2>1, <2>6
  <1> QED
    BY <1>2, <1>3

\* A rank that may gather finds all rows of its layer in its lanes.
LEMMA RowsThere ==
    ASSUME Shape, ControlOK, CountsOK, LanesWritten, NEW r \in Ranks, stage[r] = "exchange",
           Counted(r), layer[r] \notin pending[r], NEW s \in Ranks, NEW x \in RoutesTo(s, r)
    PROVE  recv[r][CellOf(s, x)] = [call |-> Call(r), source |-> s, route |-> x]
  <1> DEFINE g == (routing[s][x] % Local) % Groups
  <1>0. Places /\ Contents
    BY DEF Shape
  <1>1. layer[s] = layer[r] /\ stage[s] \in {"exchange", "combine"}
    BY DEF CountsOK
  <1>2. g \in BlockIds /\ x \in Sent(s, r, g)
    <2>1. x \in DOMAIN routing[s] /\ routing[s][x] \div Local = r /\ routing[s][x] % Local \in LocalExperts
      BY <1>0, CellFacts DEF RoutesTo
    <2>2. g \in BlockIds
      <3>1. routing[s][x] % Local \in Nat /\ Groups \in Nat \ {0}
        BY <2>1, Sizes DEF LocalExperts
      <3> QED
        BY <3>1, Divided DEF BlockIds
    <2> QED
      BY <2>1, <2>2 DEF Sent
  <1>3. push[s][r][g] = "done"
    <2>1. CASE s = r
      BY <1>2, <2>1 DEF ControlOK, Paid, Pushed, BlockIds
    <2>2. CASE s # r
      <3>1. DataSent(s, r) >= layer[s] * Groups
        BY <1>1, <2>2 DEF ControlOK, Paid
      <3>2. DataSent(s, r) = (layer[s] - 1) * Groups + Cardinality(PushedTo(s, r))
        BY <1>1 DEF DataSent, Ended
      <3>3. Cardinality(PushedTo(s, r)) \in Nat /\ Cardinality(PushedTo(s, r)) <= Groups
            /\ Groups \in Nat
        BY <1>0, BlockCount, Sizes
      <3>4. /\ layer[s] * Groups = (layer[s] - 1) * Groups + Groups /\ (layer[s] - 1) * Groups \in Nat
        BY <1>0, LayerGroups
      <3>5. Cardinality(PushedTo(s, r)) = Groups
        <4> DEFINE n == (layer[s] - 1) * Groups
                   k == layer[s] * Groups
                   c == Cardinality(PushedTo(s, r))
        <4>1. DataSent(s, r) >= k /\ DataSent(s, r) = n + c /\ c \in Nat /\ c <= Groups
              /\ Groups \in Nat /\ k = n + Groups /\ n \in Nat
          BY <3>1, <3>2, <3>3, <3>4
        <4> HIDE DEF n, k, c
        <4>2. c = Groups
          BY <4>1
        <4> QED
          BY <4>2 DEF c
      <3>6. PushedTo(s, r) = BlockIds
        BY <1>0, <3>5, BlockCount
      <3> QED
        BY <1>2, <3>6 DEF PushedTo
    <2> QED
      BY <2>1, <2>2
  <1>4. recv[r][CellOf(s, x)] = [call |-> Call(s), source |-> s, route |-> x]
    BY <1>2, <1>3 DEF LanesWritten
  <1> QED
    BY <1>1, <1>4 DEF Call

\* The rows the ranks route to r.
RowsTo(r) == UNION {
    {<<CellOf(s, x), [call |-> Call(r), source |-> s, route |-> x]>> : x \in RoutesTo(s, r)} : s \in Ranks}

LEMMA GatherMeans ==
    GatherExact <=> \A r \in Ranks : stage[r] = "exchange" /\ gathered[r] # {} => gathered[r] = RowsTo(r)
  BY DEF GatherExact, RowsTo, RoutesTo

LEMMA GatherNow ==
    ASSUME Shape, ControlOK, CountsOK, LanesWritten, NEW r \in Ranks, Gather(r)
    PROVE  gathered'[r] = RowsTo(r)
  <1>1. /\ stage[r] = "exchange" /\ Counted(r) /\ layer[r] \notin pending[r]
        /\ gathered'[r] = {<<c, recv[r][c]>> : c \in Promised(r)}
    BY DEF Gather, Shape, Contents
  <1>2. Contents /\ \A s \in Ranks : count[r][s] = MetaRow(s, r)
    BY <1>1 DEF Shape, CountsOK
  <1>3. ASSUME NEW c \in Promised(r)
        PROVE  <<c, recv[r][c]>> \in RowsTo(r)
    <2>1. PICK s \in Ranks : \E x \in RoutesTo(s, r) : c = CellOf(s, x)
      BY <1>2, PromisedCells
    <2>a. PICK x \in RoutesTo(s, r) : c = CellOf(s, x)
      BY <2>1
    <2>2. recv[r][c] = [call |-> Call(r), source |-> s, route |-> x]
      BY <1>1, <2>a, RowsThere
    <2> QED
      BY <2>a, <2>2 DEF RowsTo
  <1>4. ASSUME NEW y \in RowsTo(r)
        PROVE  y \in gathered'[r]
    <2>a. PICK s \in Ranks :
            y \in {<<CellOf(s, x), [call |-> Call(r), source |-> s, route |-> x]>> : x \in RoutesTo(s, r)}
      BY DEF RowsTo
    <2>1. PICK x \in RoutesTo(s, r) :
            y = <<CellOf(s, x), [call |-> Call(r), source |-> s, route |-> x]>>
      BY <2>a
    <2>2. CellOf(s, x) \in Promised(r)
      BY <1>2, PromisedCells
    <2>3. recv[r][CellOf(s, x)] = [call |-> Call(r), source |-> s, route |-> x]
      BY <1>1, RowsThere
    <2> QED
      BY <1>1, <2>1, <2>2, <2>3
  <1> QED
    BY <1>1, <1>3, <1>4
LEMMA GatherStep ==
    ASSUME Shape, ControlOK, CountsOK, LanesWritten, GatherExact, NEW m \in Ranks, RankStep(m)
    PROVE  GatherExact'
  <1> SUFFICES ASSUME NEW r \in Ranks, stage'[r] = "exchange", gathered'[r] # {}
               PROVE  gathered'[r] = RowsTo(r)'
    BY DEF GatherExact, RowsTo, RoutesTo
  <1>0. PositionAt(r) /\ DOMAIN gathered = Ranks
    BY DEF ControlOK, Shape, Contents
  <1>1. CASE m = r /\ Gather(r)
    <2>1. gathered'[r] = RowsTo(r)
      BY <1>1, GatherNow
    <2>2. UNCHANGED <<forward, layer, routing>>
      BY <1>1 DEF Gather
    <2>3. RowsTo(r)' = RowsTo(r)
      BY <2>2 DEF RowsTo, RoutesTo, CellOf, Call
    <2> QED
      BY <2>1, <2>3
  <1>2. CASE ~(m = r /\ Gather(r))
    <2>1. gathered'[r] = gathered[r]
      <3>1. CASE m # r
        BY <3>1, Others DEF Kept
      <3>2. CASE m = r /\ NextLayer(r)
        <4>1. gathered'[r] = {}
          BY <1>0, <3>2 DEF NextLayer
        <4> QED
          BY <4>1
      <3>3. CASE m = r /\ ~NextLayer(r)
        BY <1>2, <3>3 DEF RankStep, Gate, SendMeta, CopyCounts, StartPush, FinishPush, WaitPayload,
             StartScatter, FinishScatter, StartCombine, TellDone, CombineWait, Reduce, ClearSignals, Finish
      <3> QED
        BY <3>1, <3>2, <3>3
    <2>2. Counted(r) /\ stage[r] = "exchange"
      <3>1. Counted(r) /\ stage[r] # "gate"
        BY <1>0, <2>1 DEF PositionAt
      <3> QED
        BY <3>1, StageMoves, Others DEF Kept
    <2>3. gathered[r] = RowsTo(r)
      BY <2>1, <2>2, GatherMeans
    <2>4. \A s \in Ranks : stage[s] \in {"exchange", "combine"}
      BY <2>2 DEF CountsOK
    <2>5. /\ Call(r)' = Call(r)
          /\ \A s \in Ranks : RoutesTo(s, r)' = RoutesTo(s, r) /\ \A x : CellOf(s, x)' = CellOf(s, x)
      BY <2>4, RoutingKept
    <2>6. RowsTo(r)' = RowsTo(r)
      BY <2>5 DEF RowsTo
    <2> QED
      BY <2>1, <2>3, <2>6
  <1> QED
    BY <1>1, <1>2

-----------------------------------------------------------------------------
(* Results: scattered, landed, summed.                                     *)

LEMMA ScatterKept ==
    ASSUME Places, NEW m \in Ranks, RankStep(m)
    PROVE  \/ \E p \in Ranks : StartScatter(m, p) \/ FinishScatter(m, p)
           \/ scatter'[m] = scatter[m] /\ routed' = routed
           \/ NextLayer(m) /\ routed' = routed /\ \A p \in Ranks : scatter'[m][p] = "idle"
  <1>1. CASE NextLayer(m)
    BY <1>1 DEF NextLayer, Places, windows
  <1>2. CASE UNCHANGED <<scatter, routed>>
    BY <1>2
  <1> QED
    BY <1>1, <1>2
       DEF RankStep, Gate, SendMeta, CopyCounts, StartPush, FinishPush, WaitPayload, Gather,
           StartCombine, TellDone, CombineWait, Reduce, ClearSignals, Finish, windows

LEMMA AllScatteredStep ==
    ASSUME Shape, ControlOK, CountsOK, AllScattered, NEW m \in Ranks, RankStep(m)
    PROVE  AllScattered'
  <1> SUFFICES ASSUME NEW r \in Ranks, NEW s \in Ranks, stage'[r] \in Late, layer'[s] = layer'[r],
                      RoutesTo(s, r)' # {}
               PROVE  scatter'[r][s] = "done"
    BY DEF AllScattered, Late
  <1>0. Places /\ Contents /\ PositionAt(r) /\ PositionAt(s)
    BY DEF Shape, ControlOK
  <1>1. CASE m = r /\ StartCombine(r)
    <2>1. /\ stage[r] = "exchange" /\ Counted(r) /\ \A p \in Sources(r) : scatter[r][p] = "done"
          /\ scatter' = scatter /\ routing' = routing
      BY <1>1 DEF StartCombine, CombineReady, Scattered
    <2>2. \A p \in Ranks : count[r][p] = MetaRow(p, r)
      BY <2>1 DEF CountsOK
    <2>3. PICK x \in RoutesTo(s, r) : TRUE
      BY <2>1 DEF RoutesTo
    <2>4. CellOf(s, x) \in Promised(r) /\ CellOf(s, x)[2] = s
      BY <1>0, <2>2, PromisedCells, CellFacts DEF RoutesTo
    <2> QED
      BY <2>1, <2>4 DEF Sources
  <1>2. CASE ~(m = r /\ StartCombine(r))
    <2>1. stage[r] \in Late /\ layer'[r] = layer[r]
      BY <1>2, StageMoves, Others DEF Late, Kept
    <2>2. scatter'[r] = scatter[r]
      <3>1. CASE m = r
        <4>1. ~NextLayer(r)
          BY <1>0, LayerEnd DEF Late
        <4>2. \A p \in Ranks : ~StartScatter(r, p) /\ ~FinishScatter(r, p)
          BY <1>0, <2>1 DEF StartScatter, FinishScatter, PositionAt, Late
        <4> QED
          BY <1>0, <3>1, <4>1, <4>2, ScatterKept
      <3>2. CASE m # r
        BY <3>2, Others DEF Kept
      <3> QED
        BY <3>1, <3>2
    <2>3. layer[r] \in Nat /\ layer[s] \in Nat /\ (r # s => MetaSent(s, r) >= layer[r])
          /\ MetaSent(s, r) <= layer[s] /\ MetaSent(s, r) \in Nat
      BY <1>0, <2>1, SentTypes DEF ControlOK, Heard, PositionAt
    <2>4. layer'[s] = layer[s]
      <3>1. CASE m = s /\ layer'[s] = layer[s] + 1
        BY <2>1, <2>3, <3>1
      <3>2. CASE m = s /\ layer'[s] = layer[s]
        BY <3>2
      <3>3. CASE m # s
        BY <3>3, Others DEF Kept
      <3> QED
        BY <3>1, <3>2, <3>3, StageMoves
    <2>5. stage[s] # "gate"
      <3>1. CASE s = r
        BY <2>1, <3>1 DEF Late
      <3>2. CASE s # r
        <4>1. stage[s] = "gate" => MetaSent(s, r) = layer[s] - 1
          <5>1. r \in Nat
            BY Sizes DEF Ranks
          <5> QED
            BY <1>0, <5>1 DEF PositionAt, MetaSent, Ended
        <4> QED
          BY <2>1, <2>3, <2>4, <3>2, <4>1
      <3> QED
        BY <3>1, <3>2
    <2>6. routing'[s] = routing[s]
      <3>1. CASE m = s /\ NextLayer(s)
        BY <3>1 DEF NextLayer
      <3> QED
        BY <2>5, <3>1, RoutingStays
    <2>7. RoutesTo(s, r) # {}
      BY <2>6 DEF RoutesTo
    <2> QED
      BY <2>1, <2>2, <2>4, <2>7 DEF AllScattered
  <1> QED
    BY <1>1, <1>2

\* The results a rank owes a source: one for every route.
LEMMA ResultsAre ==
    ASSUME Shape, CountsOK, GatherExact, NEW r \in Ranks, NEW s \in Ranks,
           stage[r] = "exchange", Counted(r), gathered[r] # {}
    PROVE  /\ layer[s] = layer[r]
           /\ \A y \in Results(r, s) : y.route \in RoutesTo(s, r)
           /\ \A x \in RoutesTo(s, r) :
                 LET y == [call |-> Call(s), expert |-> routing[s][x], route |-> x]
                 IN  y \in Results(r, s) /\ \A z \in Results(r, s) : z.route = x => z = y
  <1> DEFINE Row(x) == [call |-> Call(r), source |-> s, route |-> x]
             Result(x) == [call |-> Call(s), expert |-> routing[s][x], route |-> x]
  <1>1. gathered[r] = RowsTo(r) /\ layer[s] = layer[r] /\ Contents
    BY GatherMeans DEF CountsOK, Shape
  <1>2. Call(s) = Call(r)
    BY <1>1 DEF Call
  <1>3. ASSUME NEW x \in RoutesTo(s, r)
        PROVE  r * Local + CellOf(s, x)[1] = routing[s][x]
    <2> DEFINE f == routing[s]
    <2>1. f \in Routings \cup {<<>>} /\ x \in DOMAIN f /\ f[x] \div Local = r
      BY <1>1 DEF RoutesTo, Contents
    <2>2. f[x] = (f[x] \div Local) * Local + (f[x] % Local)
      <3> HIDE DEF f
      <3> QED
        BY <2>1, RoutesShape
    <2>3. CellOf(s, x)[1] = f[x] % Local
      BY DEF CellOf
    <2> QED
      BY <2>1, <2>2, <2>3
  <1>4. ASSUME NEW y \in Results(r, s)
        PROVE  \E x \in RoutesTo(s, r) : y = Result(x)
    <2>1. PICK g \in gathered[r] : /\ g[1][2] = s
                                   /\ y = [call |-> g[2].call, expert |-> r * Local + g[1][1], route |-> g[2].route]
      BY DEF Results
    <2>2. PICK p \in Ranks :
            g \in {<<CellOf(p, x), [call |-> Call(r), source |-> p, route |-> x]>> : x \in RoutesTo(p, r)}
      BY <1>1, <2>1 DEF RowsTo
    <2>3. PICK x \in RoutesTo(p, r) : g = <<CellOf(p, x), [call |-> Call(r), source |-> p, route |-> x]>>
      BY <2>2
    <2>4. p = s
      BY <1>1, <2>1, <2>3, CellFacts DEF RoutesTo
    <2>5. y = Result(x)
      BY <1>2, <1>3, <2>1, <2>3, <2>4
    <2> QED
      BY <2>4, <2>5
  <1>5. ASSUME NEW x \in RoutesTo(s, r)
        PROVE  Result(x) \in Results(r, s)
    <2> DEFINE g == <<CellOf(s, x), Row(x)>>
    <2>1. g \in gathered[r]
      BY <1>1 DEF RowsTo
    <2>2. g[1][2] = s /\ g[1][1] = CellOf(s, x)[1] /\ g[2].call = Call(r) /\ g[2].route = x
      BY <1>1, CellFacts DEF RoutesTo
    <2>3. Result(x) = [call |-> g[2].call, expert |-> r * Local + g[1][1], route |-> g[2].route]
      BY <1>2, <1>3, <2>2
    <2> HIDE DEF g, Result
    <2> QED
      BY <2>1, <2>2, <2>3 DEF Results
  <1>6. \A y \in Results(r, s) : y.route \in RoutesTo(s, r)
    BY <1>4
  <1>7. \A x \in RoutesTo(s, r) : \A z \in Results(r, s) : z.route = x => z = Result(x)
    BY <1>4
  <1> QED
    BY <1>1, <1>5, <1>6, <1>7
\* Where a result of r to s lands.
LEMMA ScatterWrites ==
    ASSUME Shape, ControlOK, CountsOK, GatherExact, NEW m \in Ranks, NEW p \in Ranks,
           StartScatter(m, p) \/ FinishScatter(m, p)
    PROVE  /\ stage' = stage /\ layer' = layer /\ stage[m] = "exchange" /\ layer[p] = layer[m]
           /\ \A s \in Ranks : \A x \in Routes :
                 s # p \/ x \notin RoutesTo(p, m) => routed'[s][x] = routed[s][x]
           /\ StartScatter(m, p) => scatter' = [scatter EXCEPT ![m][p] = "putting"]
           /\ FinishScatter(m, p) =>
                 /\ scatter' = [scatter EXCEPT ![m][p] = "done"]
                 /\ \A x \in RoutesTo(p, m) :
                       routed'[p][x] = [call |-> Call(p), expert |-> routing[p][x], route |-> x]
  <1> DEFINE Named(x) == \E y \in Results(m, p) : y.route = x
             Put(x) == CHOOSE y \in Results(m, p) : y.route = x
             Result(x) == [call |-> Call(p), expert |-> routing[p][x], route |-> x]
  <1>0. Contents /\ Places /\ PositionAt(m) /\ routed \in [Ranks -> [Routes -> ResultRows]]
    BY DEF Shape, ControlOK, Contents
  <1>1. /\ stage' = stage /\ layer' = layer /\ stage[m] = "exchange" /\ Counted(m) /\ gathered[m] # {}
    <2>1. CASE StartScatter(m, p)
      BY <2>1 DEF StartScatter, Gathered, Sources
    <2>2. CASE FinishScatter(m, p)
      BY <1>0, <2>2 DEF FinishScatter, PositionAt
    <2> QED
      BY <2>1, <2>2
  <1>2. layer[p] = layer[m] /\ \A y \in Results(m, p) : y.route \in RoutesTo(p, m)
    BY <1>1, ResultsAre
  <1>3. \A x \in RoutesTo(p, m) : Result(x) \in Results(m, p) /\ \A z \in Results(m, p) : z.route = x => z = Result(x)
    BY <1>1, ResultsAre
  <1>4. ASSUME NEW x \in RoutesTo(p, m)
        PROVE  Named(x) /\ Put(x) = Result(x) /\ x \in Routes
    <2>1. Result(x) \in Results(m, p) /\ Result(x).route = x /\ \A z \in Results(m, p) : z.route = x => z = Result(x)
      BY <1>3
    <2>2. x \in Routes
      BY <1>0, CellFacts DEF RoutesTo
    <2> HIDE DEF Result
    <2> QED
      BY <2>1, <2>2
  <1>5. \A x : Named(x) => x \in RoutesTo(p, m)
    BY <1>2
  <1>6. CASE StartScatter(m, p)
    <2>1. /\ scatter' = [scatter EXCEPT ![m][p] = "putting"]
          /\ routed' = [routed EXCEPT ![p] = [x \in Routes |-> IF Named(x) THEN NoResult ELSE routed[p][x]]]
      BY <1>6 DEF StartScatter
    <2>2. \A q \in Ranks : scatter[m][q] = "putting" => q # p
      BY <1>6 DEF StartScatter
    <2>3. ~FinishScatter(m, p)
      BY <2>2 DEF FinishScatter
    <2> HIDE DEF Named
    <2>4. \A s \in Ranks : \A x \in Routes :
            s # p \/ x \notin RoutesTo(p, m) => routed'[s][x] = routed[s][x]
      BY <1>0, <1>5, <2>1
    <2> QED
      BY <1>1, <1>2, <2>1, <2>3, <2>4
  <1>7. CASE FinishScatter(m, p)
    <2>1. /\ scatter' = [scatter EXCEPT ![m][p] = "done"] /\ scatter[m][p] = "putting"
          /\ routed' = [routed EXCEPT ![p] = [x \in Routes |-> IF Named(x) THEN Put(x) ELSE routed[p][x]]]
      BY <1>7 DEF FinishScatter
    <2>3. ~StartScatter(m, p)
      BY <2>1 DEF StartScatter
    <2> HIDE DEF Named, Put, Result
    <2>4. \A s \in Ranks : \A x \in Routes :
            s # p \/ x \notin RoutesTo(p, m) => routed'[s][x] = routed[s][x]
      BY <1>0, <1>5, <2>1
    <2>5. \A x \in RoutesTo(p, m) : routed'[p][x] = Result(x)
      BY <1>0, <1>4, <2>1
    <2> QED
      BY <1>1, <1>2, <2>1, <2>3, <2>4, <2>5 DEF Result
  <1> QED
    BY <1>6, <1>7

\* When a rank picks the routes of a layer, nothing of that layer has landed.
LEMMA NothingLanded ==
    ASSUME Shape, ControlOK, NEW r \in Ranks, NEW s \in Ranks, stage[s] = "gate"
    PROVE  ~Delivered(r, s)
  <1>0. Places /\ PositionAt(r) /\ PositionAt(s) /\ layer[r] \in Nat /\ layer[s] \in Nat
    BY DEF Shape, ControlOK, Places
  <1>1. CASE r = s
    BY <1>0, <1>1 DEF PositionAt, Delivered, Ended
  <1>2. CASE r # s
    <2>1. Combined(r) <= CombineSent(s, r) /\ CombineSent(s, r) = layer[s] - 1
      BY <1>2 DEF ControlOK, Synchronised, CombineSent
    <2>2. layer[r] <= layer[s] /\ (layer[r] = layer[s] => stage[r] \notin Ended)
      BY <1>0, <2>1 DEF Combined, Ended
    <2>3. MetaSent(s, r) = layer[s] - 1
      <3>1. r \in Nat /\ meta[s] = 0 /\ stage[s] \notin Ended
        BY <1>0, Sizes DEF PositionAt, Ranks, Ended
      <3> QED
        BY <3>1 DEF MetaSent
    <2>4. layer[r] = layer[s] => scatter[r][s] # "done"
      <3>1. scatter[r][s] = "done" => Counted(r)
        BY <1>0 DEF PositionAt
      <3>2. Counted(r) => MetaSent(s, r) >= layer[r]
        BY <1>2 DEF ControlOK, Heard
      <3> QED
        BY <1>0, <2>3, <3>1, <3>2
    <2> QED
      BY <1>0, <2>2, <2>4 DEF Delivered
  <1> QED
    BY <1>1, <1>2

\* A step that is not a scatter delivers nothing.
LEMMA DeliveredKept ==
    ASSUME Shape, ControlOK, AllScattered, NEW m \in Ranks, RankStep(m), NEW r \in Ranks, NEW s \in Ranks,
           layer'[s] = layer[s],
           scatter'[m] = scatter[m] \/ (NextLayer(m) /\ \A p \in Ranks : scatter'[m][p] = "idle"),
           RoutesTo(s, r) # {}, Delivered(r, s)'
    PROVE  Delivered(r, s)
  <1>0. Places /\ layer[r] \in Nat /\ layer[s] \in Nat
    BY DEF Shape, Places
  <1>1. CASE r # m
    BY <1>1, Others DEF Kept, Delivered
  <1>2. CASE r = m /\ NextLayer(r)
    <2>1. stage[r] = "output" /\ (layer[s] = layer[r] => scatter[r][s] = "done")
      BY <1>2 DEF NextLayer, AllScattered, Late
    <2>a. layer'[r] = layer[r] + 1 \/ layer'[r] = layer[r]
      BY <1>0, <1>2, LayerEnd
    <2>b. \/ layer'[r] > layer[s]
          \/ layer'[r] = layer[s]
      BY DEF Delivered
    <2>2. layer[r] >= layer[s]
      <3>1. CASE layer'[r] = layer[r] + 1 /\ layer'[r] = layer[s]
        <4>1. stage'[r] = "gate"
          BY <1>0, <1>2, <3>1, LayerEnd
        <4>2. scatter'[r][s] = "idle"
          BY <1>0, <1>2 DEF NextLayer, Places
        <4> QED
          BY <1>0, <3>1, <4>1, <4>2 DEF Delivered, Ended
      <3> QED
        BY <1>0, <2>a, <2>b, <3>1
    <2> QED
      BY <1>0, <2>1, <2>2 DEF Delivered
  <1>3. CASE r = m /\ ~NextLayer(r)
    <2>1. scatter'[r] = scatter[r] /\ layer'[r] = layer[r] /\ (stage'[r] \in Ended => stage[r] \in Ended)
      BY <1>3, StageMoves DEF Ended
    <2> QED
      BY <2>1 DEF Delivered
  <1> QED
    BY <1>1, <1>2, <1>3

LEMMA ResultsStep ==
    ASSUME Shape, ControlOK, CountsOK, GatherExact, AllScattered, ResultsWritten,
           NEW m \in Ranks, RankStep(m)
    PROVE  ResultsWritten'
  <1> SUFFICES ASSUME NEW r \in Ranks, NEW s \in Ranks, stage'[s] \in {"exchange", "combine", "reduce"},
                      Delivered(r, s)', NEW x \in RoutesTo(s, r)'
               PROVE  routed'[s][x] = [call |-> Call(s)', expert |-> routing'[s][x], route |-> x]
    BY DEF ResultsWritten
  <1>0. Places /\ Contents /\ layer[r] \in Nat /\ layer[s] \in Nat
    BY DEF Shape, Places
  <1>1. ~(m = s /\ Gate(s))
    <2>1. ASSUME m = s, Gate(s)
          PROVE  FALSE
      <3>1. /\ stage[s] = "gate" /\ stage'[s] = "exchange" /\ layer' = layer /\ scatter' = scatter
            /\ \A p \in Ranks : p # s => stage'[p] = stage[p]
        BY <1>0, <2>1 DEF Gate, Places
      <3>2. Delivered(r, s)
        BY <3>1 DEF Delivered, Ended
      <3> QED
        BY <3>1, <3>2, NothingLanded
    <2> QED
      BY <2>1
  <1>2. stage[s] \in {"exchange", "combine", "reduce"}
    BY <1>1, StageMoves, Others DEF Kept
  <1>3. /\ layer'[s] = layer[s] /\ Call(s)' = Call(s) /\ routing'[s] = routing[s]
        /\ RoutesTo(s, r)' = RoutesTo(s, r)
    BY <1>2, RoutingKept
  <1>4. x \in RoutesTo(s, r) /\ x \in Routes /\ routing[s][x] \div Local = r
    BY <1>0, <1>3, CellFacts DEF RoutesTo
  <1>5. ASSUME NEW p \in Ranks, StartScatter(m, p) \/ FinishScatter(m, p)
        PROVE  routed'[s][x] = [call |-> Call(s), expert |-> routing[s][x], route |-> x]
    <2>1. /\ stage' = stage /\ layer' = layer /\ stage[m] = "exchange" /\ layer[p] = layer[m]
          /\ s # p \/ x \notin RoutesTo(p, m) => routed'[s][x] = routed[s][x]
      BY <1>4, <1>5, ScatterWrites
    <2>2. CASE m = r /\ p = s
      <3>1. CASE StartScatter(m, p)
        <4>1. scatter' = [scatter EXCEPT ![m][p] = "putting"]
          BY <3>1, ScatterWrites
        <4>2. ~Delivered(r, s)'
          BY <1>0, <2>1, <2>2, <4>1 DEF Delivered, Ended, Places
        <4> QED
          BY <4>2
      <3>2. CASE FinishScatter(m, p)
        BY <1>4, <2>2, <3>2, ScatterWrites
      <3> QED
        BY <1>5, <3>1, <3>2
    <2>3. CASE ~(m = r /\ p = s)
      <3>1. routed'[s][x] = routed[s][x]
        <4>1. CASE s = p
          <5>1. x \notin RoutesTo(p, m)
            BY <1>4, <2>3, <4>1 DEF RoutesTo
          <5> QED
            BY <2>1, <5>1
        <4> QED
          BY <2>1, <4>1
      <3>2. scatter'[r][s] = scatter[r][s]
        BY <1>0, <1>5, <2>3, ScatterWrites DEF Places
      <3>3. Delivered(r, s)
        BY <2>1, <3>2 DEF Delivered
      <3> QED
        BY <1>2, <1>4, <3>1, <3>3 DEF ResultsWritten
    <2> QED
      BY <2>2, <2>3
  <1>6. CASE /\ routed' = routed
             /\ scatter'[m] = scatter[m] \/ (NextLayer(m) /\ \A p \in Ranks : scatter'[m][p] = "idle")
    <2>1. Delivered(r, s)
      BY <1>3, <1>4, <1>6, DeliveredKept
    <2> QED
      BY <1>2, <1>3, <1>4, <1>6, <2>1 DEF ResultsWritten
  <1> QED
    BY <1>0, <1>3, <1>5, <1>6, ScatterKept

\* A rank that sums has all results of its layer.
LEMMA AllLanded ==
    ASSUME Shape, ControlOK, AllScattered, NEW r \in Ranks, NEW q \in Ranks, stage[r] = "reduce",
           RoutesTo(r, q) # {}
    PROVE  Delivered(q, r)
  <1>0. Places /\ layer[r] \in Nat /\ layer[q] \in Nat /\ stage[q] \in Stages
    BY DEF Shape, Places
  <1>1. CASE q = r
    BY <1>1 DEF AllScattered, Late, Delivered
  <1>2. CASE q # r
    <2>1. layer[r] <= CombineSent(q, r)
      BY <1>2 DEF ControlOK, Synchronised, Combined
    <2>2. layer[q] >= layer[r] /\ (layer[q] = layer[r] => stage[q] \in Late \cup Ended)
      BY <1>0, <2>1 DEF CombineSent, Late, Ended
    <2> QED
      BY <1>0, <2>2 DEF AllScattered, Delivered
  <1> QED
    BY <1>1, <1>2

LEMMA ReduceStep ==
    ASSUME Shape, ControlOK, AllScattered, ResultsWritten, ReduceExact, NEW m \in Ranks, RankStep(m)
    PROVE  ReduceExact'
  <1> SUFFICES ASSUME NEW r \in Ranks, stage'[r] = "output"
               PROVE  reduced'[r] = [x \in DOMAIN routing'[r] |->
                                       [call |-> Call(r)', expert |-> routing'[r][x], route |-> x]]
    BY DEF ReduceExact
  <1>0. Contents /\ DOMAIN reduced = Ranks
    BY DEF Shape, Contents
  <1>1. CASE m = r /\ Reduce(r)
    <2>1. /\ stage[r] = "reduce" /\ UNCHANGED <<forward, layer, routing>>
          /\ reduced'[r] = [x \in DOMAIN routing[r] |-> routed[r][x]]
      BY <1>0, <1>1 DEF Reduce
    <2>2. ASSUME NEW x \in DOMAIN routing[r]
          PROVE  routed[r][x] = [call |-> Call(r), expert |-> routing[r][x], route |-> x]
      <3> DEFINE q == routing[r][x] \div Local
      <3>1. q \in Ranks /\ x \in RoutesTo(r, q)
        BY <1>0, CellFacts DEF RoutesTo
      <3>2. Delivered(q, r)
        BY <2>1, <3>1, AllLanded
      <3> HIDE DEF q
      <3> QED
        BY <2>1, <3>1, <3>2 DEF ResultsWritten
    <2>3. Call(r)' = Call(r)
      BY <2>1 DEF Call
    <2> QED
      BY <2>1, <2>2, <2>3
  <1>2. CASE ~(m = r /\ Reduce(r))
    <2>1. stage[r] = "output" /\ layer'[r] = layer[r]
      BY <1>2, StageMoves, Others DEF Kept
    <2>2. reduced'[r] = reduced[r] /\ routing'[r] = routing[r] /\ forward' = forward
      <3>1. CASE m # r
        BY <3>1, Others DEF Kept
      <3>2. CASE m = r
        <4>1. ~NextLayer(r)
          BY LayerEnd DEF Shape
        <4> QED
          BY <1>2, <2>1, <3>2, <4>1, Others DEF RankStep, Gate, SendMeta, CopyCounts, StartPush, FinishPush,
             WaitPayload, Gather, StartScatter, FinishScatter, StartCombine, TellDone, CombineWait,
             ClearSignals, Finish
      <3> QED
        BY <3>1, <3>2
    <2> QED
      BY <2>1, <2>2 DEF ReduceExact, Call
  <1> QED
    BY <1>1, <1>2
-----------------------------------------------------------------------------
(* The theorems.                                                           *)

LEMMA FreshInit == Init => Fresh
  BY DEF Init, Fresh

LEMMA InvInit == Init => IInv
  BY ShapeInit, FreshInit, FreshOK DEF IInv

LEMMA InvRank ==
    ASSUME IInv, NEW m \in Ranks, RankStep(m)
    PROVE  IInv'
  <1>1. Shape'
    BY ShapeStep DEF IInv, Next
  <1>2. ControlOK' /\ MetaWritten' /\ CountsOK' /\ LanesWritten' /\ GatherExact'
    BY ControlStep, MetaWrittenStep, CountsStep, LanesStep, GatherStep DEF IInv
  <1>3. AllScattered' /\ ResultsWritten' /\ ReduceExact'
    BY AllScatteredStep, ResultsStep, ReduceStep DEF IInv
  <1> QED
    BY <1>1, <1>2, <1>3 DEF IInv

LEMMA InvStutter == IInv /\ UNCHANGED vars => IInv'
  <1> SUFFICES ASSUME IInv, UNCHANGED vars PROVE IInv'
    OBVIOUS
  <1> USE DEF IInv, vars, windows, signals
  <1>1. Shape'
    BY ShapeStep
  <1>2. ASSUME NEW r \in Ranks
        PROVE  PositionAt(r)'
    <2>1. forward' = forward /\ Kept(r)
      BY DEF Kept
    <2> QED
      BY <2>1, KeptFacts DEF ControlOK
  <1>3. Synchronised' /\ Heard'
    BY DEF ControlOK, Synchronised, Heard, Combined, CombineSent, MetaSent, Counted
  <1>4. SignalsOK'
    BY DEF ControlOK, SignalsOK, Cleared, CombineSent, MetaSent, DataSent, PushedTo
  <1>5. Paid'
    BY DEF ControlOK, Paid, Pushed, DataSent, PushedTo
  <1>6. MetaWritten' /\ CountsOK'
    BY DEF MetaWritten, CountsOK, Counted, MetaRow, Call
  <1>7. LanesWritten'
    BY DEF LanesWritten, Sent, CellOf, Call
  <1>8. GatherExact'
    BY DEF GatherExact, CellOf, Call
  <1>9. AllScattered' /\ ResultsWritten' /\ ReduceExact'
    BY DEF AllScattered, ResultsWritten, ReduceExact, RoutesTo, Delivered, Call
  <1> QED
    BY <1>1, <1>2, <1>3, <1>4, <1>5, <1>6, <1>7, <1>8, <1>9 DEF ControlOK

LEMMA InvNext == IInv /\ [Next]_vars => IInv'
  <1>1. ASSUME IInv, NEW m \in Ranks, RankStep(m)
        PROVE  IInv'
    BY <1>1, InvRank
  <1>2. ASSUME IInv, NextForward
        PROVE  IInv'
    <2>1. Shape'
      BY <1>2, ShapeStep DEF IInv, Next
    <2>2. Fresh'
      BY <1>2, FreshForward DEF IInv
    <2>3. (Fresh => /\ ControlOK /\ MetaWritten /\ CountsOK /\ LanesWritten /\ GatherExact
                    /\ AllScattered /\ ResultsWritten /\ ReduceExact)'
      BY FreshOK, PTL
    <2> QED
      BY <2>1, <2>2, <2>3 DEF IInv
  <1> QED
    BY <1>1, <1>2, InvStutter DEF Next, Stopped

\* What the counters, the counts and the windows mean in terms of how far the
\* ranks have come is an invariant of the exchange.
THEOREM InvariantCorrect == Spec => []IInv
  BY InvInit, InvNext, PTL DEF Spec

LEMMA TypeFromInv == IInv => TypeOK
  <1> SUFFICES ASSUME IInv PROVE TypeOK
    OBVIOUS
  <1>0. Places /\ Contents /\ Counters
    BY DEF IInv, Shape
  <1>1. ASSUME NEW r \in Ranks, NEW s \in Ranks
        PROVE  /\ arrived[s][r] \in 0 .. Layers /\ dataArrived[s][r] \in 0 .. Layers * Groups
               /\ combineArrived[s][r] \in 0 .. Layers
    <2>1. /\ MetaSent(r, s) \in 0 .. Layers /\ CombineSent(r, s) \in 0 .. Layers
      BY <1>0, SentTypes, Sizes
    <2>2. DataSent(r, s) \in 0 .. Layers * Groups
      <3>1. /\ DataSent(r, s) \in Nat /\ DataSent(r, s) <= layer[r] * Groups
            /\ layer[r] * Groups \in Nat /\ layer[r] * Groups <= Layers * Groups /\ Layers * Groups \in Nat
        BY <1>0, SentTypes, LayerGroups
      <3> DEFINE k == layer[r] * Groups
                 n == Layers * Groups
      <3> HIDE DEF k, n
      <3>2. DataSent(r, s) \in 0 .. n
        BY <3>1 DEF k, n
      <3> QED
        BY <3>2 DEF n
    <2>3. 0 \in 0 .. Layers /\ 0 \in 0 .. Layers * Groups
      BY Sizes, Products
    <2> QED
      BY <2>1, <2>2, <2>3 DEF IInv, ControlOK, SignalsOK
  <1>2. /\ arrived \in [Ranks -> [Ranks -> 0 .. Layers]]
        /\ combineArrived \in [Ranks -> [Ranks -> 0 .. Layers]]
    BY <1>0, <1>1 DEF Counters
  <1>3. dataArrived \in [Ranks -> [Ranks -> 0 .. Layers * Groups]]
    <2> DEFINE n == Layers * Groups
    <2>1. \A r, s \in Ranks : dataArrived[s][r] \in 0 .. n
      BY <1>1
    <2> HIDE DEF n
    <2>2. dataArrived \in [Ranks -> [Ranks -> 0 .. n]]
      BY <1>0, <2>1 DEF Counters
    <2> QED
      BY <2>2 DEF n
  <1>4. /\ forward \in 0 .. Forwards - 1
        /\ layer \in [Ranks -> 1 .. Layers] /\ stage \in [Ranks -> Stages]
        /\ meta \in [Ranks -> 0 .. EP]
        /\ push \in [Ranks -> [Ranks -> [0 .. Groups - 1 -> {"idle", "putting", "done"}]]]
        /\ pending \in [Ranks -> SUBSET (1 .. Layers)]
        /\ scatter \in [Ranks -> [Ranks -> {"idle", "putting", "done"}]]
        /\ told \in [Ranks -> 0 .. EP]
    BY <1>0 DEF Places, BlockIds
  <1>5. /\ \A r \in Ranks : routing[r] \in Routings \cup {<<>>}
        /\ count \in [Ranks -> [Ranks -> MetaRows]]
        /\ \A r \in Ranks : gathered[r] \subseteq Lanes \X LaneRows
        /\ \A r \in Ranks : \A x \in DOMAIN reduced[r] : x \in Routes /\ reduced[r][x] \in ResultRows
        /\ recvMeta \in [Ranks -> [Ranks -> MetaRows]]
        /\ recv \in [Ranks -> [Lanes -> LaneRows]]
        /\ routed \in [Ranks -> [Routes -> ResultRows]]
    BY <1>0 DEF Contents
  <1> QED
    BY <1>2, <1>3, <1>4, <1>5 DEF TypeOK

\* The exchange stays well typed; no counter exceeds what a forward sends.
THEOREM TypeCorrect == Spec => []TypeOK
  BY InvariantCorrect, TypeFromInv, PTL

\* A rank runs its experts on exactly the rows routed to them in this layer.
THEOREM GatherCorrect == Spec => []GatherExact
  <1>1. IInv => GatherExact
    BY DEF IInv
  <1> QED
    BY <1>1, InvariantCorrect, PTL

\* A rank sums the results of this call, each of the expert its route names.
THEOREM ReduceCorrect == Spec => []ReduceExact
  <1>1. IInv => ReduceExact
    BY DEF IInv
  <1> QED
    BY <1>1, InvariantCorrect, PTL

ClearStep ==
    \A r, s \in Ranks :
        stage[r] = "clear" /\ told[r] = s /\ told'[r] = s + 1 /\ s # r =>
            /\ arrived[r][s] = Layers
            /\ dataArrived[r][s] = Layers * Groups
            /\ combineArrived[r][s] = Layers

LEMMA ClearNow == IInv => ClearStep
  <1> SUFFICES ASSUME IInv, NEW r \in Ranks, NEW s \in Ranks, stage[r] = "clear", told[r] = s, s # r
               PROVE  /\ arrived[r][s] = Layers
                      /\ dataArrived[r][s] = Layers * Groups
                      /\ combineArrived[r][s] = Layers
    BY DEF ClearStep
  <1>1. /\ CombineSent(s, r) = Layers /\ MetaSent(s, r) = Layers /\ DataSent(s, r) = Layers * Groups
    BY AllSent DEF IInv, Ended
  <1>2. ~Cleared(r, s)
    BY DEF Cleared, Ranks
  <1> QED
    BY <1>1, <1>2 DEF IInv, ControlOK, SignalsOK

\* A rank clears a source's counters when they hold all of the forward.
THEOREM ClearsCorrect == Spec => ClearsExactly
  <1>1. IInv /\ [Next]_vars => [ClearStep]_vars
    BY ClearNow
  <1>2. ClearsExactly <=> [][ClearStep]_vars
    BY DEF ClearsExactly, ClearStep
  <1> QED
    BY <1>1, <1>2, InvariantCorrect, PTL DEF Spec
=============================================================================
