---------------------------- MODULE LmHeadProofs ----------------------------
(***************************************************************************)
(* The heads of a forward, for any number of rows, columns, blocks, heads  *)
(* and forwards: rows and columns arrive whole, and counters are cleared   *)
(* when they hold the signals of their round and no other.                 *)
(***************************************************************************)
EXTENDS LmHeadInv, FiniteSetTheorems, TLAPS

-----------------------------------------------------------------------------
(* Arithmetic of banks, of sets of rows and blocks, and of lanes.          *)

LEMMA Sizes ==
    /\ MaxLogitRows \in Nat \ {0} /\ HiddenRows \in Nat \ {0} /\ VocabPerTp \in Nat \ {0}
    /\ VocabTile \in Nat \ {0} /\ CommTile \in Nat \ {0} /\ Cores \in Nat \ {0}
    /\ Heads \in Nat \ {0} /\ Rounds \in Nat
    /\ TpSize \in {1, 2} /\ Ranks \subseteq {0, 1}
  <1>1. {MaxLogitRows, HiddenRows, VocabPerTp, VocabTile, CommTile, Cores} \subseteq Nat \ {0}
        /\ Forwards \in Nat /\ Heads \in Nat \ {0} /\ TpSize \in {1, 2}
    BY SizesAssumption
  <1>2. Rounds \in Nat
    BY <1>1 DEF Rounds
  <1> QED
    BY <1>1, <1>2 DEF Ranks

LEMMA Multiples ==
    ASSUME NEW c \in Nat \ {0}, NEW t \in Int
    PROVE  /\ t <= -1 => c * t <= -c
           /\ t >= 1 => c * t >= c
           /\ t >= 2 => c * t >= 2 * c
  OBVIOUS

LEMMA NextRemainder ==
    ASSUME NEW c \in Nat \ {0}, NEW n \in Nat
    PROVE  (n + 1) % c = IF (n % c) + 1 = c THEN 0 ELSE (n % c) + 1
  <1> DEFINE d == n \div c
             e == (n + 1) \div c
             m == n % c
             k == (n + 1) % c
  <1>1. d \in Int /\ e \in Int /\ m \in 0 .. c - 1 /\ k \in 0 .. c - 1
    OBVIOUS
  <1>2. n = c * d + m /\ n + 1 = c * e + k
    OBVIOUS
  <1> HIDE DEF d, e, m, k
  <1>3. c * (e - d) = m + 1 - k
    BY <1>1, <1>2
  <1>4. e - d = 0 \/ e - d = 1
    BY <1>1, <1>3, Multiples
  <1>5. CASE e - d = 0
    <2>1. c * (e - d) = 0
      BY <1>1, <1>5
    <2> QED
      BY <1>1, <1>3, <2>1 DEF m, k
  <1>6. CASE e - d = 1
    <2>1. c * (e - d) = c
      BY <1>1, <1>6
    <2> QED
      BY <1>1, <1>3, <2>1 DEF m, k
  <1> QED
    BY <1>4, <1>5, <1>6

LEMMA BankFacts ==
    /\ \A n \in Nat : Bank(n) \in Banks
    /\ \A n \in Nat : Bank(n + 1) = IF Bank(n) + 1 = Heads THEN 0 ELSE Bank(n) + 1
  <1>1. \A n \in Nat : Bank(n) \in Banks
    BY Sizes DEF Bank, Banks
  <1>2. ASSUME NEW n \in Nat
        PROVE  Bank(n + 1) = IF Bank(n) + 1 = Heads THEN 0 ELSE Bank(n) + 1
    BY Sizes, NextRemainder DEF Bank
  <1> QED
    BY <1>1, <1>2

\* A set of rows, or of blocks, is all of them when it has as many.
LEMMA Counting ==
    ASSUME NEW n \in Nat \ {0}, NEW S \in SUBSET (0 .. n - 1)
    PROVE  /\ IsFiniteSet(S) /\ Cardinality(S) \in 0 .. n
           /\ Cardinality(0 .. n - 1) = n
           /\ Cardinality(S) >= n => S = 0 .. n - 1
           /\ \A x \in (0 .. n - 1) \ S : Cardinality(S \cup {x}) = Cardinality(S) + 1
           /\ S = {} => Cardinality(S) = 0
  <1>1. IsFiniteSet(0 .. n - 1) /\ Cardinality(0 .. n - 1) = n
    BY FS_Interval
  <1>2. IsFiniteSet(S) /\ Cardinality(S) <= n /\ (Cardinality(S) = n => S = 0 .. n - 1)
    BY <1>1, FS_Subset
  <1>3. Cardinality(S) \in Nat
    BY <1>2, FS_CardinalityType
  <1>4. \A x \in (0 .. n - 1) \ S : Cardinality(S \cup {x}) = Cardinality(S) + 1
    BY <1>2, FS_AddElement
  <1>5. S = {} => Cardinality(S) = 0
    BY FS_EmptySet
  <1> QED
    BY <1>1, <1>2, <1>3, <1>4, <1>5

LEMMA WholeCount == Cardinality(Rows) = MaxLogitRows /\ Cardinality(Blocks) = Cores
  <1>1. MaxLogitRows \in Nat \ {0} /\ Cores \in Nat \ {0}
    BY Sizes
  <1> QED
    BY <1>1, Counting DEF Rows, Blocks

\* A lane serves one owner: it stores for it and notifies it.
LEMMA LaneOwner ==
    ASSUME NEW lane \in Lanes, NEW o \in Ranks
    PROVE  /\ o \in StoresTo(lane) <=> o = lane
           /\ TpSize = 2 => (o \in Notifies(lane) <=> o = lane)
           /\ TpSize = 1 => o = 0 /\ Ranks = {0}
  BY Sizes DEF Lanes, AivLanes, StoresTo, Notifies, OwnersPerLane, Ranks

LEMMA NotifiedFacts ==
    ASSUME NEW r \in Ranks, NEW to, NEW counts \in [Ranks -> [Ranks -> Nat]]
    PROVE  /\ Notified(counts, r, to) \in [Ranks -> [Ranks -> Nat]]
           /\ \A p, q \in Ranks :
                 Notified(counts, r, to)[p][q] =
                    IF p \in to /\ q = r THEN counts[p][q] + 1 ELSE counts[p][q]
  BY DEF Notified

LEMMA SelectedType ==
    ASSUME indices \in Indices, NEW r \in Ranks, NEW row \in Rows
    PROVE  /\ indices[r][row] \in Int
           /\ Selected(r, row) \in -1 .. HiddenRows - 1
           /\ Selected(r, row) = IF indices[r][row] < 0 THEN -1
                                 ELSE IF indices[r][row] < HiddenRows THEN indices[r][row]
                                 ELSE HiddenRows - 1
  <1>1. indices \in [Ranks -> [Rows -> Int]]
    BY IndicesAssumption
  <1>2. indices[r][row] \in Int
    BY <1>1
  <1> DEFINE i == indices[r][row]
  <1>3. Selected(r, row) = CASE i < 0 -> -1
                             [] i \in 0 .. HiddenRows - 1 -> i
                             [] OTHER -> HiddenRows - 1
    BY DEF Selected
  <1> HIDE DEF i
  <1>4. i \in Int /\ HiddenRows \in Nat \ {0}
    BY <1>2, Sizes DEF i
  <1>5. Selected(r, row) = IF i < 0 THEN -1 ELSE IF i < HiddenRows THEN i ELSE HiddenRows - 1
    BY <1>3, <1>4
  <1> QED
    BY <1>4, <1>5 DEF i

LEMMA AskedType ==
    ASSUME indices \in Indices, NEW r \in Ranks, NEW row \in Rows, NEW n \in 0 .. Rounds
    PROVE  Asked(r, n, row) \in HiddenItems
  <1>1. Selected(r, row) \in -1 .. HiddenRows - 1 /\ n \in -1 .. Rounds
    BY SelectedType, Sizes
  <1> QED
    BY <1>1 DEF Asked, HiddenRow, HiddenItems

LEMMA NoLogitType == NoLogit \in LogitItems /\ NoRow \in HiddenItems
  <1>1. -1 \in -1 .. Rounds /\ -1 \in -1 .. HiddenRows - 1
    BY Sizes
  <1>2. NoRow \in HiddenItems
    BY <1>1 DEF NoRow, HiddenRow, HiddenItems
  <1> QED
    BY <1>2 DEF NoLogit, Logit, LogitItems

-----------------------------------------------------------------------------
(* Types.                                                                  *)

LEMMA ShapeInit == Init => Shape
  <1> SUFFICES ASSUME Init PROVE Shape
    OBVIOUS
  <1>1. round \in [Ranks -> 0 .. Rounds] /\ stage \in [Ranks -> Stages]
    BY Sizes DEF Init, Stages
  <1>2. /\ pushed \in [Ranks -> SUBSET Rows] /\ told \in [Ranks -> SUBSET Rows]
        /\ heard \in [Ranks -> BOOLEAN]
        /\ stored \in [Ranks -> SUBSET (Blocks \X Lanes)]
        /\ signalled \in [Ranks -> SUBSET (Blocks \X Lanes)]
        /\ gathered \in [Ranks -> SUBSET (0 .. CommBlocks - 1)]
        /\ clearing \in [Ranks -> SUBSET Banks]
    BY DEF Init
  <1>3. owners \in [Ranks -> [Ranks \X Rows -> HiddenItems]]
    BY NoLogitType DEF Init
  <1>4. hidden \in [Banks -> [Ranks -> [Ranks \X Rows -> HiddenItems]]]
    BY NoLogitType DEF Init, Banks
  <1>5. shards \in [Banks -> [Ranks -> [Rows \X Vocab -> LogitItems]]]
    BY NoLogitType DEF Init, Banks
  <1>6. logits \in [Ranks -> [Rows \X Vocab -> LogitItems]]
    BY NoLogitType DEF Init
  <1>7. hiddenDone \in [Banks -> [Ranks -> [Ranks -> Nat]]]
        /\ logitsDone \in [Banks -> [Ranks -> [Ranks -> Nat]]]
    BY DEF Init, Banks, Zeros
  <1>8. indices \in Indices
    BY DEF Init
  <1> QED
    BY <1>1, <1>2, <1>3, <1>4, <1>5, <1>6, <1>7, <1>8 DEF Shape, Places, Contents

LEMMA StoredType ==
    ASSUME Shape, NEW r \in Ranks, NEW b \in Blocks, NEW lane \in Lanes, NEW o \in Ranks,
           NEW before \in [Rows \X Vocab -> LogitItems]
    PROVE  Stored(r, b, lane, o, before) \in [Rows \X Vocab -> LogitItems]
  <1> DEFINE base == r * VocabPerTp
             cols == {c \in UNION {Columns(t) : t \in TilesOf(b)} : base + c \in Vocab}
             real(c) == IF c < VocabPerTp THEN base + c ELSE -1
  <1>1. ASSUME NEW c \in Rows \X Vocab, c[2] - base \in cols
        PROVE  Logit(owners[r][<<o, c[1]>>], real(c[2] - base)) \in LogitItems
    <2>1. owners[r][<<o, c[1]>>] \in HiddenItems
      BY DEF Shape, Places, Contents
    <2>2. real(c[2] - base) \in Vocab \cup {-1}
      BY <1>1
    <2> QED
      BY <2>1, <2>2 DEF Logit, LogitItems
  <1> HIDE DEF cols, real, base
  <1>2. [c \in Rows \X Vocab |->
           IF c[2] - base \in cols
           THEN Logit(owners[r][<<o, c[1]>>], real(c[2] - base)) ELSE before[c]]
        \in [Rows \X Vocab -> LogitItems]
    BY <1>1
  <1> QED
    BY <1>2 DEF Stored, base, cols, real

LEMMA ShapeStep ==
    ASSUME Shape, ControlOK, NEW r \in Ranks, RankStep(r)
    PROVE  Shape'
  <1>b. round[r] \in 0 .. Rounds /\ Bank(round[r]) \in Banks
    BY BankFacts, Sizes DEF Shape, Places, Contents
  <1>s. stage \in [Ranks -> Stages]
    BY DEF Shape, Places, Contents
  <1>1. CASE Body(r)
    <2>1. stage' \in [Ranks -> Stages]
      BY <1>1, <1>s DEF Body, Stages
    <2>2. logits \in [Ranks -> [Rows \X Vocab -> LogitItems]]
      BY DEF Shape, Places, Contents
    <2>3. logits' \in [Ranks -> [Rows \X Vocab -> LogitItems]]
      BY <1>1, <2>2, NoLogitType DEF Body
    <2>4. UNCHANGED <<indices, round, work, clearing, windows, signals>>
      BY <1>1 DEF Body
    <2> QED
      BY <2>1, <2>3, <2>4 DEF Shape, Places, Contents, work, windows, signals
  <1>2. ASSUME NEW row \in Rows, DispatchPush(r, row)
        PROVE  Shape'
    <2>1. Asked(r, round[r], row) \in HiddenItems
      BY <1>b, AskedType DEF Shape, Places, Contents
    <2>2. hidden \in [Banks -> [Ranks -> [Ranks \X Rows -> HiddenItems]]]
      BY DEF Shape, Places, Contents
    <2>3. hidden' \in [Banks -> [Ranks -> [Ranks \X Rows -> HiddenItems]]]
      BY <1>b, <1>2, <2>1, <2>2 DEF DispatchPush
    <2>4. pushed' \in [Ranks -> SUBSET Rows]
      BY <1>2 DEF DispatchPush, Shape, Places, Contents
    <2>5. UNCHANGED <<indices, round, stage, told, heard, owners, stored, signalled,
                      gathered, clearing, shards, hiddenDone, logitsDone, logits>>
      BY <1>2 DEF DispatchPush, signals
    <2> QED
      BY <2>3, <2>4, <2>5 DEF Shape, Places, Contents
  <1>3. ASSUME NEW row \in Rows, DispatchNotify(r, row)
        PROVE  Shape'
    <2>1. hiddenDone \in [Banks -> [Ranks -> [Ranks -> Nat]]]
      BY DEF Shape, Places, Contents
    <2>a. hiddenDone' = [hiddenDone EXCEPT ![Bank(round[r])] =
                           Notified(hiddenDone[Bank(round[r])], r, Peers(r))]
      BY <1>3 DEF DispatchNotify
    <2>2. hiddenDone' \in [Banks -> [Ranks -> [Ranks -> Nat]]]
      BY <1>b, <2>1, <2>a, NotifiedFacts
    <2>3. told' \in [Ranks -> SUBSET Rows]
      BY <1>3 DEF DispatchNotify, Shape, Places, Contents
    <2>4. UNCHANGED <<indices, round, stage, pushed, heard, owners, stored, signalled,
                      gathered, clearing, hidden, shards, logitsDone, logits>>
      BY <1>3 DEF DispatchNotify, windows
    <2> QED
      BY <2>2, <2>3, <2>4 DEF Shape, Places, Contents
  <1>4. CASE DispatchWait(r)
    <2>1. heard' \in [Ranks -> BOOLEAN]
      BY <1>4 DEF DispatchWait, Shape, Places, Contents
    <2>2. UNCHANGED <<indices, round, stage, pushed, told, owners, stored, signalled,
                      gathered, clearing, hidden, shards, hiddenDone, logitsDone, logits>>
      BY <1>4 DEF DispatchWait, windows, signals
    <2> QED
      BY <2>1, <2>2 DEF Shape, Places, Contents
  <1>5. CASE DispatchGather(r)
    <2>1. stage' \in [Ranks -> Stages]
      BY <1>5, <1>s DEF DispatchGather, Stages
    <2>b. hidden \in [Banks -> [Ranks -> [Ranks \X Rows -> HiddenItems]]]
      BY DEF Shape, Places, Contents
    <2>2. hidden[Bank(round[r])][r] \in [Ranks \X Rows -> HiddenItems]
      BY <1>b, <2>b
    <2>a. owners \in [Ranks -> [Ranks \X Rows -> HiddenItems]]
      BY DEF Shape, Places, Contents
    <2>3. owners' \in [Ranks -> [Ranks \X Rows -> HiddenItems]]
      BY <1>5, <2>2, <2>a DEF DispatchGather
    <2>4. UNCHANGED <<indices, round, pushed, told, heard, stored, signalled, gathered,
                      clearing, hidden, shards, hiddenDone, logitsDone, logits>>
      BY <1>5 DEF DispatchGather, windows, signals
    <2> QED
      BY <2>1, <2>3, <2>4 DEF Shape, Places, Contents
  <1>6. CASE CombineWait(r)
    <2>1. stage' \in [Ranks -> Stages]
      BY <1>6, <1>s DEF CombineWait, Stages
    <2>2. UNCHANGED <<indices, round, work, clearing, windows, signals, logits>>
      BY <1>6 DEF CombineWait
    <2> QED
      BY <2>1, <2>2 DEF Shape, Places, Contents, work, windows, signals
  <1>7. CASE Return(r)
    <2>1. stage' \in [Ranks -> Stages]
      BY <1>7, <1>s DEF Return, Stages
    <2>2. clearing' \in [Ranks -> SUBSET Banks]
      BY <1>7, <1>b DEF Return, Shape, Places, Contents
    <2>3. UNCHANGED <<indices, round, work, windows, signals, logits>>
      BY <1>7 DEF Return
    <2> QED
      BY <2>1, <2>2, <2>3 DEF Shape, Places, Contents, work, windows, signals
  <1>8. ASSUME NEW b \in Blocks, NEW lane \in Lanes, LaneStore(r, b, lane)
        PROVE  Shape'
    <2>1. shards \in [Banks -> [Ranks -> [Rows \X Vocab -> LogitItems]]]
      BY DEF Shape, Places, Contents
    <2>2. ASSUME NEW o \in Ranks
          PROVE  Stored(r, b, lane, o, shards[Bank(round[r])][o]) \in [Rows \X Vocab -> LogitItems]
      BY <1>b, <2>1, StoredType
    <2>3. shards' \in [Banks -> [Ranks -> [Rows \X Vocab -> LogitItems]]]
      BY <1>b, <1>8, <2>1, <2>2 DEF LaneStore
    <2>4. stored' \in [Ranks -> SUBSET (Blocks \X Lanes)]
      BY <1>8 DEF LaneStore, Shape, Places, Contents
    <2>5. UNCHANGED <<indices, round, stage, pushed, told, heard, owners, signalled,
                      gathered, clearing, hidden, hiddenDone, logitsDone, logits>>
      BY <1>8 DEF LaneStore, signals
    <2> QED
      BY <2>3, <2>4, <2>5 DEF Shape, Places, Contents
  <1>9. ASSUME NEW b \in Blocks, NEW lane \in Lanes, LaneNotify(r, b, lane)
        PROVE  Shape'
    <2>1. logitsDone \in [Banks -> [Ranks -> [Ranks -> Nat]]]
      BY DEF Shape, Places, Contents
    <2>a. logitsDone' = [logitsDone EXCEPT ![Bank(round[r])] =
                           Notified(logitsDone[Bank(round[r])], r, Notifies(lane) \ {r})]
      BY <1>9 DEF LaneNotify
    <2>2. logitsDone' \in [Banks -> [Ranks -> [Ranks -> Nat]]]
      BY <1>b, <2>1, <2>a, NotifiedFacts
    <2>3. signalled' \in [Ranks -> SUBSET (Blocks \X Lanes)]
      BY <1>9 DEF LaneNotify, Shape, Places, Contents
    <2>4. UNCHANGED <<indices, round, stage, pushed, told, heard, owners, stored,
                      gathered, clearing, hidden, shards, hiddenDone, logits>>
      BY <1>9 DEF LaneNotify, windows
    <2> QED
      BY <2>2, <2>3, <2>4 DEF Shape, Places, Contents
  <1>10. ASSUME NEW b \in 0 .. CommBlocks - 1, CombineGather(r, b)
         PROVE  Shape'
    <2>1. logits \in [Ranks -> [Rows \X Vocab -> LogitItems]]
          /\ shards[Bank(round[r])][r] \in [Rows \X Vocab -> LogitItems]
      BY <1>b DEF Shape, Places, Contents
    <2>2. logits' \in [Ranks -> [Rows \X Vocab -> LogitItems]]
      BY <1>10, <2>1 DEF CombineGather
    <2>3. gathered' \in [Ranks -> SUBSET (0 .. CommBlocks - 1)]
      BY <1>10 DEF CombineGather, Shape, Places, Contents
    <2>4. UNCHANGED <<indices, round, stage, pushed, told, heard, owners, stored,
                      signalled, clearing, hidden, shards, hiddenDone, logitsDone>>
      BY <1>10 DEF CombineGather, windows, signals
    <2> QED
      BY <2>2, <2>3, <2>4 DEF Shape, Places, Contents
  <1>11. CASE NextBody(r)
    <2>1. round[r] # Rounds
      BY <1>11 DEF NextBody, ControlOK, PositionAt
    <2>b. round \in [Ranks -> 0 .. Rounds]
      BY DEF Shape, Places, Contents
    <2>a. round[r] + 1 \in 0 .. Rounds
      BY <1>b, <2>1, Sizes
    <2>2. round' \in [Ranks -> 0 .. Rounds]
      BY <1>11, <2>a, <2>b DEF NextBody
    <2>3. stage' \in [Ranks -> Stages]
      BY <1>11, <1>s DEF NextBody, Stages
    <2>4. /\ pushed' \in [Ranks -> SUBSET Rows] /\ told' \in [Ranks -> SUBSET Rows]
          /\ heard' \in [Ranks -> BOOLEAN]
          /\ stored' \in [Ranks -> SUBSET (Blocks \X Lanes)]
          /\ signalled' \in [Ranks -> SUBSET (Blocks \X Lanes)]
          /\ gathered' \in [Ranks -> SUBSET (0 .. CommBlocks - 1)]
      BY <1>11 DEF NextBody, Shape, Places, Contents
    <2>5. UNCHANGED <<indices, owners, clearing, windows, signals, logits>>
      BY <1>11 DEF NextBody
    <2> QED
      BY <2>2, <2>3, <2>4, <2>5 DEF Shape, Places, Contents, windows, signals
  <1>12. ASSUME NEW w \in Banks, SignalClear(r, w)
         PROVE  Shape'
    <2>1. clearing' \in [Ranks -> SUBSET Banks]
      BY <1>12 DEF SignalClear, Shape, Places, Contents
    <2>2. hiddenDone \in [Banks -> [Ranks -> [Ranks -> Nat]]]
          /\ logitsDone \in [Banks -> [Ranks -> [Ranks -> Nat]]]
      BY DEF Shape, Places, Contents
    <2>3. hiddenDone' \in [Banks -> [Ranks -> [Ranks -> Nat]]]
          /\ logitsDone' \in [Banks -> [Ranks -> [Ranks -> Nat]]]
      BY <1>12, <2>2 DEF SignalClear, Zeroed
    <2>4. UNCHANGED <<indices, round, stage, work, windows, logits>>
      BY <1>12 DEF SignalClear
    <2> QED
      BY <2>1, <2>3, <2>4 DEF Shape, Places, Contents, work, windows
  <1> QED
    BY <1>1, <1>2, <1>3, <1>4, <1>5, <1>6, <1>7, <1>8, <1>9, <1>10, <1>11, <1>12 DEF RankStep, Banks

-----------------------------------------------------------------------------
(* Control: where the ranks are, and what the counters count.              *)

\* A step is a step of one rank: where the others are stays.
LEMMA Others ==
    ASSUME Places, NEW r \in Ranks, RankStep(r), NEW q \in Ranks, q # r
    PROVE  /\ round'[q] = round[q] /\ stage'[q] = stage[q]
           /\ pushed'[q] = pushed[q] /\ told'[q] = told[q] /\ heard'[q] = heard[q]
           /\ stored'[q] = stored[q] /\ signalled'[q] = signalled[q]
           /\ gathered'[q] = gathered[q] /\ clearing'[q] = clearing[q]
  <1> USE DEF Places
  <1> DEFINE goal == /\ round'[q] = round[q] /\ stage'[q] = stage[q]
                     /\ pushed'[q] = pushed[q] /\ told'[q] = told[q] /\ heard'[q] = heard[q]
                     /\ stored'[q] = stored[q] /\ signalled'[q] = signalled[q]
                     /\ gathered'[q] = gathered[q] /\ clearing'[q] = clearing[q]
  <1>1. CASE Body(r) \/ CombineWait(r) \/ Return(r)
    BY <1>1 DEF Body, CombineWait, Return, work
  <1>2. CASE DispatchWait(r) \/ DispatchGather(r)
    BY <1>2 DEF DispatchWait, DispatchGather
  <1>3. ASSUME NEW row \in Rows, DispatchPush(r, row) \/ DispatchNotify(r, row)
        PROVE  goal
    BY <1>3 DEF DispatchPush, DispatchNotify
  <1>4. ASSUME NEW b \in Blocks, NEW lane \in Lanes, LaneStore(r, b, lane) \/ LaneNotify(r, b, lane)
        PROVE  goal
    BY <1>4 DEF LaneStore, LaneNotify
  <1>5. ASSUME NEW b \in 0 .. CommBlocks - 1, CombineGather(r, b)
        PROVE  goal
    BY <1>5 DEF CombineGather
  <1>6. CASE NextBody(r)
    BY <1>6 DEF NextBody
  <1>7. ASSUME NEW w \in 0 .. Heads - 1, SignalClear(r, w)
        PROVE  goal
    BY <1>7 DEF SignalClear, work
  <1> QED
    BY <1>1, <1>2, <1>3, <1>4, <1>5, <1>6, <1>7 DEF RankStep

LEMMA PositionStep ==
    ASSUME Places, ControlOK, NEW r \in Ranks, RankStep(r), NEW q \in Ranks
    PROVE  PositionAt(q)'
  <1> USE DEF Places
  <1>p. PositionAt(q)
    BY DEF ControlOK
  <1>0. CASE q # r
    BY <1>0, <1>p, Others DEF PositionAt
  <1>1. CASE q = r /\ (Body(r) \/ CombineWait(r) \/ Return(r))
    BY <1>1, <1>p DEF PositionAt, Body, CombineWait, Return, work
  <1>2. CASE q = r /\ (DispatchWait(r) \/ DispatchGather(r))
    BY <1>2, <1>p DEF PositionAt, DispatchWait, DispatchGather
  <1>3. ASSUME q = r, NEW row \in Rows, DispatchPush(r, row) \/ DispatchNotify(r, row)
        PROVE  PositionAt(q)'
    BY <1>3, <1>p DEF PositionAt, DispatchPush, DispatchNotify
  <1>4. ASSUME q = r, NEW b \in Blocks, NEW lane \in Lanes,
               LaneStore(r, b, lane) \/ LaneNotify(r, b, lane)
        PROVE  PositionAt(q)'
    <2>1. CASE LaneStore(r, b, lane)
      BY <1>4, <1>p, <2>1 DEF PositionAt, LaneStore
    <2>2. CASE LaneNotify(r, b, lane)
      BY <1>4, <1>p, <2>2 DEF PositionAt, LaneNotify
    <2> QED
      BY <1>4, <2>1, <2>2
  <1>5. ASSUME q = r, NEW b \in 0 .. CommBlocks - 1, CombineGather(r, b)
        PROVE  PositionAt(q)'
    BY <1>5, <1>p DEF PositionAt, CombineGather
  <1>6. CASE q = r /\ NextBody(r)
    BY <1>6, <1>p, Sizes DEF PositionAt, NextBody
  <1>7. ASSUME q = r, NEW w \in 0 .. Heads - 1, SignalClear(r, w)
        PROVE  PositionAt(q)'
    BY <1>7, <1>p DEF PositionAt, SignalClear, work
  <1> QED
    BY <1>0, <1>1, <1>2, <1>3, <1>4, <1>5, <1>6, <1>7 DEF RankStep

LEMMA ClearingStep ==
    ASSUME Places, ControlOK, NEW r \in Ranks, RankStep(r), NEW q \in Ranks
    PROVE  ClearingAt(q)'
  <1> USE DEF Places
  <1>p. ClearingAt(q)
    BY DEF ControlOK
  <1>0. CASE q # r
    BY <1>0, <1>p, Others DEF ClearingAt, Bank
  <1>1. CASE q = r /\ (Body(r) \/ CombineWait(r))
    BY <1>1, <1>p DEF ClearingAt, Bank, Body, CombineWait, work
  <1>2. CASE q = r /\ (DispatchWait(r) \/ DispatchGather(r))
    BY <1>2, <1>p DEF ClearingAt, Bank, DispatchWait, DispatchGather
  <1>3. ASSUME q = r, NEW row \in Rows, DispatchPush(r, row) \/ DispatchNotify(r, row)
        PROVE  ClearingAt(q)'
    BY <1>3, <1>p DEF ClearingAt, Bank, DispatchPush, DispatchNotify
  <1>4. ASSUME q = r, NEW b \in Blocks, NEW lane \in Lanes,
               LaneStore(r, b, lane) \/ LaneNotify(r, b, lane)
        PROVE  ClearingAt(q)'
    BY <1>4, <1>p DEF ClearingAt, Bank, LaneStore, LaneNotify
  <1>5. ASSUME q = r, NEW b \in 0 .. CommBlocks - 1, CombineGather(r, b)
        PROVE  ClearingAt(q)'
    BY <1>5, <1>p DEF ClearingAt, Bank, CombineGather
  <1>6. CASE q = r /\ NextBody(r)
    <2>1. stage[r] = "returned" /\ clearing' = clearing /\ round'[r] = round[r] + 1
      BY <1>6 DEF NextBody
    <2>2. Bank(round[r]) + 1 = Heads => clearing[r] = {}
      <3>1. Bank(round[r] + 1) = (round[r] + 1) % Heads
        BY DEF Bank
      <3> QED
        BY <1>6, <3>1, BankFacts DEF NextBody, ProgramOver
    <2>3. Bank(round[r]) + 1 # Heads => Bank(round[r] + 1) = Bank(round[r]) + 1
      BY BankFacts
    <2>4. Bank(round[r]) \in Int
      BY BankFacts DEF Banks
    <2>5. ASSUME NEW w \in clearing[r], Bank(round[r]) + 1 # Heads
          PROVE  w < Bank(round[r] + 1)
      BY <1>p, <1>6, <2>3, <2>4, <2>5 DEF ClearingAt, Banks
    <2>6. Bank(round[r])' = Bank(round[r] + 1)
      BY <2>1 DEF Bank
    <2> QED
      BY <1>6, <2>1, <2>2, <2>5, <2>6 DEF ClearingAt
  <1>7. ASSUME q = r, NEW w \in 0 .. Heads - 1, SignalClear(r, w)
        PROVE  ClearingAt(q)'
    BY <1>7, <1>p DEF ClearingAt, Bank, SignalClear, work
  <1>8. CASE q = r /\ Return(r)
    BY <1>8, <1>p DEF ClearingAt, Bank, Return, work
  <1> QED
    BY <1>0, <1>1, <1>2, <1>3, <1>4, <1>5, <1>6, <1>7, <1>8 DEF RankStep

\* Within a round a rank only gets on.
LEMMA Growth ==
    ASSUME Places, NEW r \in Ranks, RankStep(r), ~NextBody(r), NEW q \in Ranks
    PROVE  /\ round' = round
           /\ told[q] \subseteq told'[q] /\ signalled[q] \subseteq signalled'[q]
           /\ \/ stage'[q] = stage[q]
              \/ q = r /\ (stage[r] \in {"head", "project", "gather"} \/ Body(r))
  <1> USE DEF Places
  <1> DEFINE goal == /\ round' = round
                     /\ told[q] \subseteq told'[q] /\ signalled[q] \subseteq signalled'[q]
                     /\ \/ stage'[q] = stage[q]
                        \/ q = r /\ (stage[r] \in {"head", "project", "gather"} \/ Body(r))
  <1>1. CASE Body(r)
    BY <1>1 DEF Body, work
  <1>2. CASE DispatchWait(r) \/ DispatchGather(r)
    BY <1>2 DEF DispatchWait, DispatchGather
  <1>3. ASSUME NEW row \in Rows, DispatchPush(r, row) \/ DispatchNotify(r, row)
        PROVE  goal
    BY <1>3 DEF DispatchPush, DispatchNotify
  <1>4. ASSUME NEW b \in Blocks, NEW lane \in Lanes, LaneStore(r, b, lane) \/ LaneNotify(r, b, lane)
        PROVE  goal
    BY <1>4 DEF LaneStore, LaneNotify
  <1>5. ASSUME NEW b \in 0 .. CommBlocks - 1, CombineGather(r, b)
        PROVE  goal
    BY <1>5 DEF CombineGather
  <1>6. CASE CombineWait(r) \/ Return(r)
    BY <1>6 DEF CombineWait, Return, work
  <1>7. ASSUME NEW w \in 0 .. Heads - 1, SignalClear(r, w)
        PROVE  goal
    BY <1>7 DEF SignalClear, work
  <1> QED
    BY <1>1, <1>2, <1>3, <1>4, <1>5, <1>6, <1>7 DEF RankStep

\* A rank that is in a head, or back from it, is behind nobody that waits for
\* it, and nobody is behind it.
LEMMA Abreast ==
    ASSUME Places, ControlOK, NEW r \in Ranks, stage[r] \notin {"body", "stopped"}, NEW p \in Ranks
    PROVE  /\ round[p] \in Nat /\ round[r] \in Nat
           /\ \/ round[p] = round[r]
              \/ round[p] = round[r] + 1 /\ Served(r, p) /\ stage[p] \in {"body", "stopped"}
  <1>1. round[p] \in Nat /\ round[r] \in Nat
    BY Sizes DEF Places
  <1>2. ~(round[p] < round[r])
    BY DEF ControlOK, Separated
  <1>3. round[r] < round[p] =>
            round[p] = round[r] + 1 /\ Served(r, p) /\ stage[p] \in {"body", "stopped"}
    BY DEF ControlOK, Separated
  <1> QED
    BY <1>1, <1>2, <1>3

LEMMA SeparatedStep ==
    ASSUME Places, Places', ControlOK, NEW r \in Ranks, RankStep(r)
    PROVE  Separated'
  <1> SUFFICES ASSUME NEW q \in Ranks, NEW p \in Ranks, round'[p] < round'[q]
               PROVE  round'[q] = round'[p] + 1 /\ stage'[q] \in {"body", "stopped"} /\ Served(p, q)'
    BY DEF Separated
  <1>1. CASE ~NextBody(r)
    <2>1. round' = round /\ told[p] \subseteq told'[p] /\ signalled[p] \subseteq signalled'[p]
      BY <1>1, Growth
    <2>2. round[q] = round[p] + 1 /\ stage[q] \in {"body", "stopped"} /\ Served(p, q)
      BY <2>1 DEF ControlOK, Separated
    <2>3. Served(p, q)'
      BY <2>1, <2>2 DEF Served, Places
    <2>4. ~(q = r /\ Body(r))
      <3>1. round[p] \in Int /\ round[r] \in Int
        BY DEF Places
      <3> QED
        BY <2>1, <3>1 DEF Body
    <2> QED
      BY <1>1, <2>1, <2>2, <2>3, <2>4, Growth
  <1>2. CASE NextBody(r)
    <2>1. stage[r] = "returned" /\ round'[r] = round[r] + 1 /\ stage'[r] \in {"body", "stopped"}
      BY <1>2 DEF NextBody, Places
    <2>2. p # r
      <3>1. ASSUME p = r PROVE FALSE
        <4>1. q # r /\ round'[q] = round[q]
          BY <3>1, Others DEF Places
        <4> QED
          BY <2>1, <3>1, <4>1, Abreast
      <3> QED
        BY <3>1
    <2>3. round'[p] = round[p] /\ (Served(p, q)' <=> Served(p, q))
      BY <2>2, Others DEF Served
    <2>4. CASE q = r
      <3>1. round[p] = round[r]
        BY <2>1, <2>3, <2>4, Abreast
      <3>2. Served(p, r)
        BY <2>1, <2>2, <3>1 DEF ControlOK, Collected, Peers
      <3> QED
        BY <2>1, <2>3, <2>4, <3>1, <3>2
    <2>5. CASE q # r
      BY <2>3, <2>5, Others DEF ControlOK, Separated
    <2> QED
      BY <2>4, <2>5
  <1> QED
    BY <1>1, <1>2

\* A rank that waits for the rows is told of them all by its peers.
LEMMA RowsHeard ==
    ASSUME Places, ControlOK, NEW r \in Ranks, stage[r] = "head", AllRows(r),
           NEW p \in Peers(r), round[p] = round[r]
    PROVE  told[p] = Rows
  <1>1. p \in Ranks /\ p # r /\ Bank(round[r]) \in Banks
    BY BankFacts, Sizes DEF Peers, Places
  <1>2. Bank(round[r]) \notin clearing[r] /\ Live(r, Bank(round[r]))
    BY <1>1 DEF ControlOK, ClearingAt, Live, Banks
  <1>3. hiddenDone[Bank(round[r])][r][p] = HiddenSent(p, round[r])
    BY <1>1, <1>2 DEF ControlOK, SignalsOK
  <1>4. HiddenSent(p, round[r]) = Cardinality(told[p])
    <2>1. round[p] \in Int
      BY <1>1 DEF Places
    <2> QED
      BY <2>1 DEF HiddenSent
  <1>5. Cardinality(told[p]) >= MaxLogitRows
    BY <1>3, <1>4 DEF AllRows
  <1>6. told[p] \in SUBSET (0 .. MaxLogitRows - 1)
    BY <1>1 DEF Places, Rows
  <1> QED
    BY <1>5, <1>6, Counting, Sizes DEF Rows

\* A rank that waits for the columns is told of all blocks by its peers.
LEMMA ColumnsHeard ==
    ASSUME Places, ControlOK, NEW r \in Ranks, stage[r] = "project", AllColumns(r),
           NEW p \in Peers(r), round[p] = round[r]
    PROVE  Served(p, r)
  <1>1. p \in Ranks /\ p # r /\ Bank(round[r]) \in Banks
    BY BankFacts, Sizes DEF Peers, Places
  <1>2. Bank(round[r]) \notin clearing[r] /\ Live(r, Bank(round[r]))
    BY <1>1 DEF ControlOK, ClearingAt, Live, Banks
  <1>3. logitsDone[Bank(round[r])][r][p] = LogitsSent(p, r, round[r])
    BY <1>1, <1>2 DEF ControlOK, SignalsOK
  <1>4. LogitsSent(p, r, round[r]) = Cardinality(BlocksTold(p, r))
    <2>1. round[p] \in Int
      BY <1>1 DEF Places
    <2> QED
      BY <2>1 DEF LogitsSent
  <1>5. Cardinality(BlocksTold(p, r)) >= Cores
    BY <1>3, <1>4 DEF AllColumns
  <1>6. BlocksTold(p, r) \in SUBSET (0 .. Cores - 1)
    BY DEF BlocksTold, Blocks
  <1>7. BlocksTold(p, r) = Blocks
    BY <1>5, <1>6, Counting, Sizes DEF Blocks
  <1>8. heard[r]
    BY DEF ControlOK, PositionAt
  <1>9. told[p] = Rows
    BY <1>8 DEF ControlOK, Collected
  <1> QED
    BY <1>7, <1>9 DEF Served, BlocksTold

LEMMA CollectedStep ==
    ASSUME Places, Places', ControlOK, NEW r \in Ranks, RankStep(r)
    PROVE  Collected'
  <1> SUFFICES ASSUME NEW q \in Ranks, NEW p \in Peers(q), round'[p] = round'[q]
               PROVE  /\ heard'[q] => told'[p] = Rows
                      /\ stage'[q] \in {"gather", "returned"} => Served(p, q)'
    BY DEF Collected, Peers
  <1>p. p \in Ranks /\ p # q
    BY DEF Peers
  <1>1. CASE ~NextBody(r)
    <2>1. round[p] = round[q] /\ told[p] \subseteq told'[p] /\ signalled[p] \subseteq signalled'[p]
      BY <1>p, <1>1, Growth
    <2>2. /\ told[p] = Rows => told'[p] = Rows
          /\ Served(p, q) => Served(p, q)'
      BY <1>p, <2>1 DEF Served, Places
    <2>3. heard'[q] => heard[q] \/ (q = r /\ DispatchWait(r))
      <3>1. CASE q # r
        BY <3>1, Others
      <3>2. ASSUME q = r, ~DispatchWait(r) PROVE heard' = heard
        BY <1>1, <3>2 DEF RankStep, Body, DispatchPush, DispatchNotify, DispatchGather, LaneStore,
             LaneNotify, CombineWait, CombineGather, Return, SignalClear, work
      <3> QED
        BY <3>1, <3>2
    <2>4. ASSUME stage'[q] \in {"gather", "returned"}
          PROVE  stage[q] \in {"gather", "returned"} \/ (q = r /\ CombineWait(r))
      <3>1. CASE q # r
        BY <2>4, <3>1, Others
      <3>2. ASSUME q = r, ~CombineWait(r) PROVE stage[q] \in {"gather", "returned"}
        <4>1. \/ stage' = stage
              \/ stage'[r] \in {"head", "project"}
              \/ stage[r] = "gather"
          BY <1>1, <3>2 DEF RankStep, Body, DispatchPush, DispatchNotify, DispatchWait, DispatchGather,
               LaneStore, LaneNotify, CombineGather, Return, SignalClear, Places
        <4> QED
          BY <2>4, <3>2, <4>1
      <3> QED
        BY <3>1, <3>2
    <2>5. heard'[q] => told'[p] = Rows
      BY <2>1, <2>2, <2>3, RowsHeard DEF ControlOK, Collected, DispatchWait
    <2>6. stage'[q] \in {"gather", "returned"} => Served(p, q)'
      BY <2>1, <2>2, <2>4, ColumnsHeard DEF ControlOK, Collected, CombineWait
    <2> QED
      BY <2>5, <2>6
  <1>2. CASE NextBody(r)
    <2>1. stage[r] = "returned" /\ round'[r] = round[r] + 1 /\ stage'[r] \in {"body", "stopped"}
          /\ heard'[r] = FALSE
      BY <1>2 DEF NextBody, Places
    <2>2. CASE q = r
      BY <2>1, <2>2
    <2>3. CASE q # r /\ p # r
      BY <1>p, <2>3, Others DEF ControlOK, Collected, Served
    <2>4. CASE q # r /\ p = r
      <3>1. round'[q] = round[q] /\ heard'[q] = heard[q] /\ stage'[q] = stage[q]
        BY <2>4, Others
      <3>2. stage[q] \in {"body", "stopped"}
        BY <2>1, <2>4, <3>1, Abreast
      <3>3. ~heard[q]
        BY <3>2 DEF ControlOK, PositionAt
      <3> QED
        BY <3>1, <3>2, <3>3
    <2> QED
      BY <2>2, <2>3, <2>4
  <1> QED
    BY <1>1, <1>2

\* The counters by the step: what r announces, and what r clears.
LEMMA Quiet ==
    ASSUME NEW r \in Ranks, RankStep(r), ~NextBody(r), ~Return(r),
           ~ \E row \in Rows : DispatchNotify(r, row),
           ~ \E b \in Blocks, lane \in Lanes : LaneNotify(r, b, lane),
           ~ \E w \in Banks : SignalClear(r, w)
    PROVE  UNCHANGED <<round, told, signalled, clearing, hiddenDone, logitsDone>>
  <1>1. CASE Body(r) \/ CombineWait(r)
    BY <1>1 DEF Body, CombineWait, work, signals
  <1>2. CASE DispatchWait(r) \/ DispatchGather(r)
    BY <1>2 DEF DispatchWait, DispatchGather, signals
  <1>3. ASSUME NEW row \in Rows, DispatchPush(r, row)
        PROVE  UNCHANGED <<round, told, signalled, clearing, hiddenDone, logitsDone>>
    BY <1>3 DEF DispatchPush, signals
  <1>4. ASSUME NEW b \in Blocks, NEW lane \in Lanes, LaneStore(r, b, lane)
        PROVE  UNCHANGED <<round, told, signalled, clearing, hiddenDone, logitsDone>>
    BY <1>4 DEF LaneStore, signals
  <1>5. ASSUME NEW b \in 0 .. CommBlocks - 1, CombineGather(r, b)
        PROVE  UNCHANGED <<round, told, signalled, clearing, hiddenDone, logitsDone>>
    BY <1>5 DEF CombineGather, signals
  <1> QED
    BY <1>1, <1>2, <1>3, <1>4, <1>5 DEF RankStep, Banks

\* Whether a rank's bank is live changes only when it returns or moves on.
LEMMA LiveKept ==
    ASSUME Places, NEW a \in Ranks, RankStep(a), ~NextBody(a), ~Return(a), NEW r \in Ranks, NEW w
    PROVE  Live(r, w)' <=> Live(r, w)
  <1>1. round'[r] = round[r]
    BY Growth
  <1>2. stage'[r] \in {"returned", "stopped"} <=> stage[r] \in {"returned", "stopped"}
    <2>1. CASE r # a
      BY <2>1, Others
    <2>2. CASE r = a
      <3>1. \/ stage' = stage
            \/ stage[a] \notin {"returned", "stopped"} /\ stage'[a] \notin {"returned", "stopped"}
        BY DEF RankStep, Body, DispatchPush, DispatchNotify, DispatchWait, DispatchGather, LaneStore,
           LaneNotify, CombineWait, CombineGather, SignalClear, Places
      <3> QED
        BY <2>2, <3>1
    <2> QED
      BY <2>1, <2>2
  <1> QED
    BY <1>1, <1>2 DEF Live, Bank

HiddenMeant(w, r, p) ==
    IF p = r THEN 0 ELSE IF w \in clearing[r] THEN MaxLogitRows
    ELSE IF Live(r, w) THEN HiddenSent(p, round[r]) ELSE 0

LogitsMeant(w, r, p) ==
    IF p = r THEN 0 ELSE IF w \in clearing[r] THEN Cores
    ELSE IF Live(r, w) THEN LogitsSent(p, r, round[r]) ELSE 0

LEMMA MeantFacts ==
    SignalsOK <=> \A w \in Banks, r, p \in Ranks :
        hiddenDone[w][r][p] = HiddenMeant(w, r, p) /\ logitsDone[w][r][p] = LogitsMeant(w, r, p)
  BY DEF SignalsOK, HiddenMeant, LogitsMeant

\* A rank announces its rows to peers that are in its round, at the bank of it.
LEMMA ToPeers ==
    ASSUME Places, ControlOK, NEW a \in Ranks, NEW r \in Peers(a),
           \/ stage[a] = "head" /\ told[a] # Rows
           \/ stage[a] = "project" /\ ~ (Blocks \X {r} \subseteq signalled[a])
    PROVE  /\ round[r] = round[a] /\ Bank(round[a]) \in Banks
           /\ Bank(round[a]) \notin clearing[r] /\ Live(r, Bank(round[a]))
  <1>1. r \in Ranks /\ r # a /\ ~Served(a, r)
    BY DEF Peers, Served
  <1>2. round[r] = round[a]
    BY <1>1, Abreast
  <1>3. stage[r] \notin {"gather", "returned"}
    BY <1>1, <1>2 DEF ControlOK, Collected, Peers
  <1>4. stage[r] # "stopped"
    <2>1. round[a] # Rounds
      BY DEF ControlOK, PositionAt
    <2> QED
      BY <1>1, <1>2, <2>1 DEF ControlOK, PositionAt
  <1>5. Bank(round[a]) \in Banks
    BY BankFacts, Sizes DEF Places
  <1>6. Bank(round[a]) \notin clearing[r]
    BY <1>1, <1>2, <1>3, <1>5 DEF ControlOK, ClearingAt, Banks
  <1> QED
    BY <1>2, <1>3, <1>4, <1>5, <1>6 DEF Live

LEMMA SignalsQuiet ==
    ASSUME Places, ControlOK, NEW a \in Ranks, RankStep(a), ~NextBody(a), ~Return(a),
           UNCHANGED <<round, told, signalled, clearing, hiddenDone, logitsDone>>
    PROVE  SignalsOK'
  <1> SUFFICES ASSUME NEW w \in Banks, NEW r \in Ranks, NEW p \in Ranks
               PROVE  hiddenDone'[w][r][p] = HiddenMeant(w, r, p)'
                      /\ logitsDone'[w][r][p] = LogitsMeant(w, r, p)'
    BY DEF SignalsOK, HiddenMeant, LogitsMeant
  <1>1. hiddenDone[w][r][p] = HiddenMeant(w, r, p) /\ logitsDone[w][r][p] = LogitsMeant(w, r, p)
    BY MeantFacts DEF ControlOK
  <1>2. Live(r, w)' <=> Live(r, w)
    BY LiveKept
  <1>3. HiddenSent(p, round[r])' = HiddenSent(p, round[r])
        /\ LogitsSent(p, r, round[r])' = LogitsSent(p, r, round[r])
    BY DEF HiddenSent, LogitsSent, BlocksTold
  <1> QED
    BY <1>1, <1>2, <1>3 DEF HiddenMeant, LogitsMeant

LEMMA SignalsDispatch ==
    ASSUME Shape, ControlOK, NEW a \in Ranks, NEW row \in Rows, DispatchNotify(a, row)
    PROVE  SignalsOK'
  <1> USE DEF Shape
  <1> SUFFICES ASSUME NEW w \in Banks, NEW r \in Ranks, NEW p \in Ranks
               PROVE  hiddenDone'[w][r][p] = HiddenMeant(w, r, p)'
                      /\ logitsDone'[w][r][p] = LogitsMeant(w, r, p)'
    BY DEF SignalsOK, HiddenMeant, LogitsMeant
  <1>1. hiddenDone[w][r][p] = HiddenMeant(w, r, p) /\ logitsDone[w][r][p] = LogitsMeant(w, r, p)
    BY MeantFacts DEF ControlOK
  <1>2. Live(r, w)' <=> Live(r, w)
    BY LiveKept DEF DispatchNotify, NextBody, Return, RankStep
  <1>3. UNCHANGED <<round, stage, signalled, clearing, logitsDone>>
    BY DEF DispatchNotify
  <1>4. LogitsSent(p, r, round[r])' = LogitsSent(p, r, round[r])
    BY <1>3 DEF LogitsSent, BlocksTold
  <1>5. logitsDone'[w][r][p] = LogitsMeant(w, r, p)'
    BY <1>1, <1>2, <1>3, <1>4 DEF LogitsMeant
  <1> DEFINE bank == Bank(round[a])
  <1>6. bank \in Banks
    BY BankFacts, Sizes DEF Places
  <1>7. hiddenDone'[w][r][p] = IF w = bank /\ r # a /\ p = a THEN hiddenDone[w][r][p] + 1
                               ELSE hiddenDone[w][r][p]
    <2>1. hiddenDone' = [hiddenDone EXCEPT ![bank] = Notified(hiddenDone[bank], a, Peers(a))]
      BY DEF DispatchNotify
    <2>2. hiddenDone[bank] \in [Ranks -> [Ranks -> Nat]]
      BY <1>6 DEF Contents
    <2>3. hiddenDone'[w] = IF w = bank THEN Notified(hiddenDone[bank], a, Peers(a)) ELSE hiddenDone[w]
      BY <2>1 DEF Contents
    <2>4. Notified(hiddenDone[bank], a, Peers(a))[r][p] =
            IF r \in Peers(a) /\ p = a THEN hiddenDone[bank][r][p] + 1 ELSE hiddenDone[bank][r][p]
      BY <2>2, NotifiedFacts
    <2> QED
      BY <2>3, <2>4 DEF Peers
  <1>8. stage[a] = "head" /\ row \notin told[a] /\ told'[a] = told[a] \cup {row}
        /\ (p # a => told'[p] = told[p])
    BY DEF DispatchNotify, Places
  <1>t. told[a] # Rows
    BY <1>8
  <1>9. CASE p # a \/ r = a
    <2>1. HiddenMeant(w, r, p)' = HiddenMeant(w, r, p)
      <3>1. CASE p = r
        BY <3>1 DEF HiddenMeant
      <3>2. CASE p # r
        <4>1. p # a
          BY <1>9, <3>2
        <4>2. HiddenSent(p, round[r])' = HiddenSent(p, round[r])
          BY <1>3, <1>8, <4>1 DEF HiddenSent
        <4> QED
          BY <1>2, <1>3, <4>2 DEF HiddenMeant
      <3> QED
        BY <3>1, <3>2
    <2> QED
      BY <1>1, <1>5, <1>7, <1>9, <2>1
  <1>10. CASE p = a /\ r # a /\ w # bank
    <2>1. Live(r, w) => HiddenSent(p, round[r])' = HiddenSent(p, round[r])
      <3>1. ASSUME Live(r, w) PROVE round[a] # round[r]
        BY <1>10, <3>1 DEF Live
      <3> QED
        BY <1>3, <1>10, <3>1 DEF HiddenSent
    <2>2. HiddenMeant(w, r, p)' = HiddenMeant(w, r, p)
      BY <1>2, <1>3, <2>1 DEF HiddenMeant
    <2> QED
      BY <1>1, <1>5, <1>7, <1>10, <2>2
  <1>11. CASE p = a /\ r # a /\ w = bank
    <2>1. round[r] = round[a] /\ w \notin clearing[r] /\ Live(r, w)
      BY <1>8, <1>t, <1>11, ToPeers DEF Peers
    <2>2. HiddenMeant(w, r, p) = HiddenSent(p, round[r])
          /\ HiddenMeant(w, r, p)' = HiddenSent(p, round[r])'
      BY <1>2, <1>3, <1>11, <2>1 DEF HiddenMeant
    <2>3. HiddenSent(p, round[r]) = Cardinality(told[a])
          /\ HiddenSent(p, round[r])' = Cardinality(told'[a])
      <3>1. round[a] \in Int
        BY DEF Places
      <3> QED
        BY <1>3, <1>11, <2>1, <3>1 DEF HiddenSent
    <2>4. Cardinality(told'[a]) = Cardinality(told[a]) + 1
      <3>1. told[a] \in SUBSET (0 .. MaxLogitRows - 1) /\ row \in (0 .. MaxLogitRows - 1) \ told[a]
        BY <1>8 DEF Places, Rows
      <3>0. MaxLogitRows \in Nat \ {0}
        BY Sizes
      <3>2. Cardinality(told[a] \cup {row}) = Cardinality(told[a]) + 1
        BY <3>0, <3>1, Counting
      <3> QED
        BY <1>8, <3>2
    <2> QED
      BY <1>1, <1>5, <1>7, <1>11, <2>2, <2>3, <2>4
  <1> QED
    BY <1>9, <1>10, <1>11

LEMMA SignalsLane ==
    ASSUME Shape, ControlOK, NEW a \in Ranks, NEW b \in Blocks, NEW lane \in Lanes, LaneNotify(a, b, lane)
    PROVE  SignalsOK'
  <1> USE DEF Shape
  <1> SUFFICES ASSUME NEW w \in Banks, NEW r \in Ranks, NEW p \in Ranks
               PROVE  hiddenDone'[w][r][p] = HiddenMeant(w, r, p)'
                      /\ logitsDone'[w][r][p] = LogitsMeant(w, r, p)'
    BY DEF SignalsOK, HiddenMeant, LogitsMeant
  <1>1. hiddenDone[w][r][p] = HiddenMeant(w, r, p) /\ logitsDone[w][r][p] = LogitsMeant(w, r, p)
    BY MeantFacts DEF ControlOK
  <1>2. Live(r, w)' <=> Live(r, w)
    BY LiveKept DEF LaneNotify, NextBody, Return, RankStep
  <1>3. UNCHANGED <<round, stage, told, clearing, hiddenDone>>
    BY DEF LaneNotify
  <1>4. HiddenSent(p, round[r])' = HiddenSent(p, round[r])
    BY <1>3 DEF HiddenSent
  <1>5. hiddenDone'[w][r][p] = HiddenMeant(w, r, p)'
    BY <1>1, <1>2, <1>3, <1>4 DEF HiddenMeant
  <1> DEFINE bank == Bank(round[a])
  <1>6. bank \in Banks
    BY BankFacts, Sizes DEF Places
  <1>7. logitsDone'[w][r][p] = IF w = bank /\ r \in Notifies(lane) \ {a} /\ p = a
                               THEN logitsDone[w][r][p] + 1 ELSE logitsDone[w][r][p]
    <2>1. logitsDone' = [logitsDone EXCEPT ![bank] = Notified(logitsDone[bank], a, Notifies(lane) \ {a})]
      BY DEF LaneNotify
    <2>2. logitsDone[bank] \in [Ranks -> [Ranks -> Nat]]
      BY <1>6 DEF Contents
    <2>3. logitsDone'[w] = IF w = bank THEN Notified(logitsDone[bank], a, Notifies(lane) \ {a})
                           ELSE logitsDone[w]
      BY <2>1 DEF Contents
    <2>4. Notified(logitsDone[bank], a, Notifies(lane) \ {a})[r][p] =
            IF r \in Notifies(lane) \ {a} /\ p = a THEN logitsDone[bank][r][p] + 1
            ELSE logitsDone[bank][r][p]
      BY <2>2, NotifiedFacts
    <2> QED
      BY <2>3, <2>4
  <1>8. stage[a] = "project" /\ <<b, lane>> \notin signalled[a]
        /\ signalled'[a] = signalled[a] \cup {<<b, lane>>}
        /\ (p # a => signalled'[p] = signalled[p])
    BY DEF LaneNotify, Places
  <1>n. r # a => (r \in Notifies(lane) \ {a} <=> r = lane)
    <2>1. r # a => TpSize = 2
      BY Sizes DEF Ranks
    <2>2. TpSize = 2 => (r \in Notifies(lane) <=> r = lane)
      BY LaneOwner
    <2> QED
      BY <2>1, <2>2
  <1>9. CASE p # a \/ r = a
    <2>1. LogitsMeant(w, r, p)' = LogitsMeant(w, r, p)
      <3>1. CASE p = r
        BY <3>1 DEF LogitsMeant
      <3>2. CASE p # r
        <4>1. p # a
          BY <1>9, <3>2
        <4>2. LogitsSent(p, r, round[r])' = LogitsSent(p, r, round[r])
          BY <1>3, <1>8, <4>1 DEF LogitsSent, BlocksTold
        <4> QED
          BY <1>2, <1>3, <4>2 DEF LogitsMeant
      <3> QED
        BY <3>1, <3>2
    <2> QED
      BY <1>1, <1>5, <1>7, <1>9, <2>1
  <1>10. CASE p = a /\ r # a /\ (w # bank \/ r # lane)
    <2>1. Live(r, w) => LogitsSent(p, r, round[r])' = LogitsSent(p, r, round[r])
      <3>1. ASSUME Live(r, w), w # bank PROVE round[a] # round[r]
        BY <3>1 DEF Live
      <3>2. ASSUME r # lane PROVE BlocksTold(a, r)' = BlocksTold(a, r)
        BY <1>8, <3>2 DEF BlocksTold
      <3> QED
        BY <1>3, <1>10, <3>1, <3>2 DEF LogitsSent
    <2>2. LogitsMeant(w, r, p)' = LogitsMeant(w, r, p)
      BY <1>2, <1>3, <2>1 DEF LogitsMeant
    <2> QED
      BY <1>1, <1>5, <1>7, <1>n, <1>10, <2>2
  <1>11. CASE p = a /\ r # a /\ w = bank /\ r = lane
    <2>0. ~ (Blocks \X {r} \subseteq signalled[a])
      BY <1>8, <1>11
    <2>1. round[r] = round[a] /\ w \notin clearing[r] /\ Live(r, w)
      BY <1>8, <1>11, <2>0, ToPeers DEF Peers
    <2>2. LogitsMeant(w, r, p) = LogitsSent(p, r, round[r])
          /\ LogitsMeant(w, r, p)' = LogitsSent(p, r, round[r])'
      BY <1>2, <1>3, <1>11, <2>1 DEF LogitsMeant
    <2>3. LogitsSent(p, r, round[r]) = Cardinality(BlocksTold(a, r))
          /\ LogitsSent(p, r, round[r])' = Cardinality(BlocksTold(a, r)')
      <3>1. round[a] \in Int
        BY DEF Places
      <3> QED
        BY <1>3, <1>11, <2>1, <3>1 DEF LogitsSent
    <2>4. Cardinality(BlocksTold(a, r)') = Cardinality(BlocksTold(a, r)) + 1
      <3>1. BlocksTold(a, r) \in SUBSET (0 .. Cores - 1) /\ b \in (0 .. Cores - 1) \ BlocksTold(a, r)
        BY <1>8, <1>11 DEF BlocksTold, Blocks
      <3>0. Cores \in Nat \ {0}
        BY Sizes
      <3>2. Cardinality(BlocksTold(a, r) \cup {b}) = Cardinality(BlocksTold(a, r)) + 1
        BY <3>0, <3>1, Counting
      <3>3. BlocksTold(a, r)' = BlocksTold(a, r) \cup {b}
        BY <1>8, <1>11 DEF BlocksTold
      <3> QED
        BY <3>2, <3>3
    <2> QED
      BY <1>1, <1>5, <1>7, <1>n, <1>11, <2>2, <2>3, <2>4
  <1> QED
    BY <1>9, <1>10, <1>11

\* A rank that returns holds the signals of all its peers.
LEMMA SignalsReturn ==
    ASSUME Places, ControlOK, NEW a \in Ranks, Return(a)
    PROVE  SignalsOK'
  <1> USE DEF Places
  <1> SUFFICES ASSUME NEW w \in Banks, NEW r \in Ranks, NEW p \in Ranks
               PROVE  hiddenDone'[w][r][p] = HiddenMeant(w, r, p)'
                      /\ logitsDone'[w][r][p] = LogitsMeant(w, r, p)'
    BY DEF SignalsOK, HiddenMeant, LogitsMeant
  <1>1. hiddenDone[w][r][p] = HiddenMeant(w, r, p) /\ logitsDone[w][r][p] = LogitsMeant(w, r, p)
    BY MeantFacts DEF ControlOK
  <1>2. UNCHANGED <<round, told, signalled, hiddenDone, logitsDone>>
    BY DEF Return, work, signals
  <1>3. stage[a] = "gather" /\ stage'[a] = "returned"
        /\ clearing'[a] = clearing[a] \cup {Bank(round[a])}
        /\ (r # a => stage'[r] = stage[r] /\ clearing'[r] = clearing[r])
    BY DEF Return
  <1>4. HiddenSent(p, round[r])' = HiddenSent(p, round[r])
        /\ LogitsSent(p, r, round[r])' = LogitsSent(p, r, round[r])
    BY <1>2 DEF HiddenSent, LogitsSent, BlocksTold
  <1>5. CASE r # a
    <2>1. Live(r, w)' <=> Live(r, w)
      BY <1>2, <1>3, <1>5 DEF Live, Bank
    <2> QED
      BY <1>1, <1>2, <1>3, <1>4, <1>5, <2>1 DEF HiddenMeant, LogitsMeant
  <1>6. CASE r = a /\ w # Bank(round[a])
    <2>1. ~Live(r, w)' /\ ~Live(r, w)
      BY <1>2, <1>6 DEF Live, Bank
    <2>2. w \in clearing'[r] <=> w \in clearing[r]
      BY <1>3, <1>6
    <2> QED
      BY <1>1, <1>2, <2>1, <2>2 DEF HiddenMeant, LogitsMeant
  <1>7. CASE r = a /\ w = Bank(round[a]) /\ p # r
    <2>1. HiddenMeant(w, r, p)' = MaxLogitRows /\ LogitsMeant(w, r, p)' = Cores
      BY <1>3, <1>7 DEF HiddenMeant, LogitsMeant
    <2>2. Live(r, w) /\ w \notin clearing[r]
      <3>1. w \in Int
        BY DEF Banks
      <3> QED
        BY <1>3, <1>7, <3>1 DEF Live, ControlOK, ClearingAt
    <2>3. HiddenMeant(w, r, p) = HiddenSent(p, round[r])
          /\ LogitsMeant(w, r, p) = LogitsSent(p, r, round[r])
      BY <1>7, <2>2 DEF HiddenMeant, LogitsMeant
    <2>4. CASE round[p] = round[r]
      <3>1. told[p] = Rows /\ Served(p, r)
        BY <1>3, <1>7, <2>4 DEF ControlOK, Collected, Peers, Served
      <3>2. BlocksTold(p, r) = Blocks
        BY <3>1 DEF Served, BlocksTold
      <3>3. Cardinality(Rows) = MaxLogitRows /\ Cardinality(Blocks) = Cores
        BY WholeCount
      <3>4. round[p] \in Int
        OBVIOUS
      <3>5. HiddenSent(p, round[r]) = MaxLogitRows /\ LogitsSent(p, r, round[r]) = Cores
        BY <2>4, <3>1, <3>2, <3>3, <3>4 DEF HiddenSent, LogitsSent
      <3> QED
        BY <1>1, <1>2, <2>1, <2>3, <3>5
    <2>5. CASE round[p] # round[r]
      <3>1. round[p] > round[r]
        BY <1>3, <1>7, <2>5, Abreast
      <3>2. HiddenSent(p, round[r]) = MaxLogitRows /\ LogitsSent(p, r, round[r]) = Cores
        BY <3>1 DEF HiddenSent, LogitsSent
      <3> QED
        BY <1>1, <1>2, <2>1, <2>3, <3>2
    <2> QED
      BY <2>4, <2>5
  <1>8. CASE p = r
    BY <1>1, <1>2, <1>8 DEF HiddenMeant, LogitsMeant
  <1> QED
    BY <1>5, <1>6, <1>7, <1>8

LEMMA SignalsClear ==
    ASSUME Shape, ControlOK, NEW a \in Ranks, NEW v \in Banks, SignalClear(a, v)
    PROVE  SignalsOK'
  <1> USE DEF Shape, Places
  <1> SUFFICES ASSUME NEW w \in Banks, NEW r \in Ranks, NEW p \in Ranks
               PROVE  hiddenDone'[w][r][p] = HiddenMeant(w, r, p)'
                      /\ logitsDone'[w][r][p] = LogitsMeant(w, r, p)'
    BY DEF SignalsOK, HiddenMeant, LogitsMeant
  <1>1. hiddenDone[w][r][p] = HiddenMeant(w, r, p) /\ logitsDone[w][r][p] = LogitsMeant(w, r, p)
    BY MeantFacts DEF ControlOK
  <1>2. UNCHANGED <<round, stage, told, signalled>>
    BY DEF SignalClear, work
  <1>3. HiddenSent(p, round[r])' = HiddenSent(p, round[r])
        /\ LogitsSent(p, r, round[r])' = LogitsSent(p, r, round[r])
        /\ (Live(r, w)' <=> Live(r, w))
    BY <1>2 DEF HiddenSent, LogitsSent, BlocksTold, Live, Bank
  <1>4. v \in clearing[a]
        /\ clearing'[r] = IF r = a THEN clearing[a] \ {v} ELSE clearing[r]
    BY DEF SignalClear
  <1>z. Zeroed(a, v)
    BY DEF SignalClear
  <1>5. CASE r # a \/ w # v
    <2>1. w \in clearing'[r] <=> w \in clearing[r]
      BY <1>4, <1>5
    <2>2. hiddenDone'[w][r][p] = hiddenDone[w][r][p] /\ logitsDone'[w][r][p] = logitsDone[w][r][p]
      BY <1>z, <1>5 DEF Zeroed, Contents
    <2> QED
      BY <1>1, <1>2, <1>3, <2>1, <2>2 DEF HiddenMeant, LogitsMeant
  <1>6. CASE r = a /\ w = v
    <2>1. w \notin clearing'[r] /\ w \in clearing[r]
      BY <1>4, <1>6
    <2>2. ~Live(r, w)
      <3>1. Bank(round[r]) \in Int
        BY BankFacts, Sizes DEF Banks
      <3> QED
        BY <2>1, <3>1 DEF Live, ControlOK, ClearingAt, Banks
    <2>3. hiddenDone'[w][r][p] = 0 /\ logitsDone'[w][r][p] = 0
      BY <1>z, <1>6 DEF Zeroed, Contents
    <2> QED
      BY <1>3, <2>1, <2>2, <2>3 DEF HiddenMeant, LogitsMeant
  <1> QED
    BY <1>5, <1>6

\* A rank that moves on has told its round whole, and says nothing yet in the
\* next; and nobody has said anything yet at its new bank.
LEMMA SignalsNext ==
    ASSUME Places, ControlOK, NEW a \in Ranks, RankStep(a), NextBody(a)
    PROVE  SignalsOK'
  <1> USE DEF Places
  <1> SUFFICES ASSUME NEW w \in Banks, NEW r \in Ranks, NEW p \in Ranks
               PROVE  hiddenDone'[w][r][p] = HiddenMeant(w, r, p)'
                      /\ logitsDone'[w][r][p] = LogitsMeant(w, r, p)'
    BY DEF SignalsOK, HiddenMeant, LogitsMeant
  <1>1. hiddenDone[w][r][p] = HiddenMeant(w, r, p) /\ logitsDone[w][r][p] = LogitsMeant(w, r, p)
    BY MeantFacts DEF ControlOK
  <1>2. UNCHANGED <<clearing, hiddenDone, logitsDone>>
    BY DEF NextBody, signals
  <1>3. /\ stage[a] = "returned" /\ round'[a] = round[a] + 1
        /\ told'[a] = {} /\ signalled'[a] = {} /\ stage'[a] # "returned"
    BY DEF NextBody
  <1>4. \A q \in Ranks : q # a => /\ round'[q] = round[q] /\ stage'[q] = stage[q]
                                  /\ told'[q] = told[q] /\ signalled'[q] = signalled[q]
    BY Others
  <1>5. \A q \in Ranks : round[q] \in Nat
    BY Sizes
  <1>e. Cardinality({}) = 0
    BY FS_EmptySet
  <1>6. CASE p = r
    BY <1>1, <1>2, <1>6 DEF HiddenMeant, LogitsMeant
  <1>7. CASE p # r /\ r # a /\ p # a
    <2>1. /\ HiddenSent(p, round[r])' = HiddenSent(p, round[r])
          /\ LogitsSent(p, r, round[r])' = LogitsSent(p, r, round[r])
          /\ (Live(r, w)' <=> Live(r, w))
      BY <1>4, <1>7 DEF HiddenSent, LogitsSent, BlocksTold, Live, Bank
    <2> QED
      BY <1>1, <1>2, <2>1 DEF HiddenMeant, LogitsMeant
  <1>8. CASE p # r /\ r # a /\ p = a
    <2>1. told[a] = Rows /\ signalled[a] = Blocks \X Lanes
      BY <1>3 DEF ControlOK, PositionAt
    <2>2. BlocksTold(a, r) = Blocks
      BY <2>1, Sizes DEF BlocksTold, Lanes, AivLanes
    <2>3. Cardinality(Rows) = MaxLogitRows /\ Cardinality(Blocks) = Cores
      BY WholeCount
    <2>4. BlocksTold(a, r)' = {}
      BY <1>3 DEF BlocksTold
    <2>5. round[r] = round[a] \/ round[r] = round[a] + 1
      BY <1>3, Abreast
    <2>6. /\ HiddenSent(p, round[r])' = HiddenSent(p, round[r])
          /\ LogitsSent(p, r, round[r])' = LogitsSent(p, r, round[r])
      <3> DEFINE m == round[r]
                 n == round[a]
      <3>1. m \in Nat /\ n \in Nat /\ (m = n \/ m = n + 1) /\ round'[r] = m /\ round'[a] = n + 1
        BY <1>3, <1>4, <1>5, <1>8, <2>5
      <3>2. /\ HiddenSent(a, m) = IF n > m THEN MaxLogitRows ELSE IF n = m THEN MaxLogitRows ELSE 0
            /\ LogitsSent(a, r, m) = IF n > m THEN Cores ELSE IF n = m THEN Cores ELSE 0
        BY <2>1, <2>2, <2>3 DEF HiddenSent, LogitsSent
      <3>3. /\ HiddenSent(a, round[r])' = IF round'[a] > round'[r] THEN MaxLogitRows ELSE 0
            /\ LogitsSent(a, r, round[r])' = IF round'[a] > round'[r] THEN Cores ELSE 0
        BY <1>3, <1>e, <2>4 DEF HiddenSent, LogitsSent
      <3> HIDE DEF m, n
      <3>4. /\ HiddenSent(a, m) = IF n + 1 > m THEN MaxLogitRows ELSE 0
            /\ LogitsSent(a, r, m) = IF n + 1 > m THEN Cores ELSE 0
        BY <3>1, <3>2
      <3> QED
        BY <1>8, <3>1, <3>3, <3>4 DEF m
    <2>7. Live(r, w)' <=> Live(r, w)
      BY <1>4, <1>8 DEF Live, Bank
    <2> QED
      BY <1>1, <1>2, <1>4, <1>8, <2>6, <2>7 DEF HiddenMeant, LogitsMeant
  <1>9. CASE p # r /\ r = a
    <2>1. ~Live(r, w)
      BY <1>3, <1>9 DEF Live
    <2>2. ASSUME Live(r, w)', w \notin clearing[r]
          PROVE  HiddenSent(p, round[r])' = 0 /\ LogitsSent(p, r, round[r])' = 0
      <3>1. round[p] = round[a] \/ (round[p] = round[a] + 1 /\ stage[p] \in {"body", "stopped"})
        BY <1>3, Abreast
      <3>2. round[p] = round[a] + 1 => told[p] = {} /\ signalled[p] = {}
        BY <1>5, <3>1 DEF ControlOK, PositionAt
      <3>3. signalled[p] = {} => BlocksTold(p, r)' = {}
        BY <1>4, <1>9 DEF BlocksTold
      <3> QED
        <4>1. p # a /\ round'[p] = round[p] /\ told'[p] = told[p] /\ round'[r] = round[a] + 1
          BY <1>3, <1>4, <1>9
        <4>2. round[p] \in Nat /\ round[a] \in Nat /\ ~(round[p] > round[a] + 1)
          BY <1>5, <3>1
        <4>3. CASE round[p] = round[a]
          BY <4>1, <4>2, <4>3 DEF HiddenSent, LogitsSent
        <4>4. CASE round[p] = round[a] + 1
          BY <1>e, <3>2, <3>3, <4>1, <4>2, <4>4 DEF HiddenSent, LogitsSent
        <4> QED
          BY <3>1, <4>3, <4>4
    <2> QED
      BY <1>1, <1>2, <1>9, <2>1, <2>2 DEF HiddenMeant, LogitsMeant
  <1> QED
    BY <1>6, <1>7, <1>8, <1>9

LEMMA ControlStep ==
    ASSUME Shape, Shape', ControlOK, NEW r \in Ranks, RankStep(r)
    PROVE  ControlOK'
  <1> USE DEF Shape
  <1>1. SignalsOK'
    <2>1. CASE NextBody(r)
      BY <2>1, SignalsNext
    <2>2. CASE Return(r)
      BY <2>2, SignalsReturn
    <2>3. CASE \E row \in Rows : DispatchNotify(r, row)
      BY <2>3, SignalsDispatch
    <2>4. CASE \E b \in Blocks, lane \in Lanes : LaneNotify(r, b, lane)
      BY <2>4, SignalsLane
    <2>5. CASE \E w \in Banks : SignalClear(r, w)
      BY <2>5, SignalsClear
    <2> QED
      BY <2>1, <2>2, <2>3, <2>4, <2>5, Quiet, SignalsQuiet
  <1>2. \A q \in Ranks : PositionAt(q)' /\ ClearingAt(q)'
    BY PositionStep, ClearingStep
  <1>3. Separated' /\ Collected'
    BY SeparatedStep, CollectedStep
  <1> QED
    BY <1>1, <1>2, <1>3 DEF ControlOK

-----------------------------------------------------------------------------
(* Rows and columns: what the windows hold.                                *)

\* An index selects the same row in every state.  What the parts of the
\* invariant say of the next state is therefore said with the indices of this
\* one.
LEMMA PushedNext ==
    ASSUME indices' = indices,
           \A p, r \in Ranks : \A row \in pushed'[p] :
             hidden'[Bank(round'[p])][r][<<p, row>>] = Asked(p, round'[p], row)
    PROVE  PushedOK'
  <1>1. \A p, i : Selected(p, i)' = Selected(p, i)
    BY DEF Selected
  <1> QED
    BY <1>1 DEF PushedOK, Asked, HiddenRow, Bank

LEMMA HiddensNext ==
    ASSUME indices' = indices,
           \A r \in Ranks : stage'[r] \in {"project", "gather", "returned"} =>
             \A o \in Ranks, row \in Rows : owners'[r][<<o, row>>] = Asked(o, round'[r], row)
    PROVE  HiddensExact'
  <1>1. \A p, i : Selected(p, i)' = Selected(p, i)
    BY DEF Selected
  <1> QED
    BY <1>1 DEF HiddensExact, Asked, HiddenRow

LEMMA StoredNext ==
    ASSUME indices' = indices,
           \A p, r \in Ranks, b \in Blocks : <<b, r>> \in stored'[p] =>
             \A row \in Rows, c \in BlockColumns(b) :
               shards'[Bank(round'[p])][r][<<row, Column(p, c)>>] =
                   Logit(Asked(r, round'[p], row), Column(p, c))
    PROVE  StoredOK'
  <1>1. \A p, i : Selected(p, i)' = Selected(p, i)
    BY DEF Selected
  <1> QED
    BY <1>1 DEF StoredOK, Asked, HiddenRow, Bank, Logit

LEMMA PassedNext ==
    ASSUME indices' = indices,
           \A p, r \in Ranks, b \in Blocks : round'[r] < round'[p] =>
             \A row \in Rows, c \in BlockColumns(b) :
               shards'[Bank(round'[r])][r][<<row, Column(p, c)>>] =
                   Logit(Asked(r, round'[r], row), Column(p, c))
    PROVE  PassedOK'
  <1>1. \A p, i : Selected(p, i)' = Selected(p, i)
    BY DEF Selected
  <1> QED
    BY <1>1 DEF PassedOK, Asked, HiddenRow, Bank, Logit

LEMMA WholeNext ==
    ASSUME indices' = indices,
           \A r \in Ranks : stage'[r] \in {"gather", "returned"} =>
             \A row \in Rows, v \in Vocab :
               shards'[Bank(round'[r])][r][<<row, v>>] = Logit(Asked(r, round'[r], row), v)
    PROVE  WholeOK'
  <1>1. \A p, i : Selected(p, i)' = Selected(p, i)
    BY DEF Selected
  <1> QED
    BY <1>1 DEF WholeOK, Asked, HiddenRow, Bank, Logit

LEMMA GatheredNext ==
    ASSUME indices' = indices,
           \A r \in Ranks : \A b \in gathered'[r], row \in Rows, v \in Vocab :
             v % VocabPerTp \in GatherColumns(b) =>
               logits'[r][<<row, v>>] = Logit(Asked(r, round'[r], row), v)
    PROVE  GatheredOK'
  <1>1. \A p, i : Selected(p, i)' = Selected(p, i)
    BY DEF Selected
  <1> QED
    BY <1>1 DEF GatheredOK, Asked, HiddenRow, Logit

LEMMA IndicesKept ==
    ASSUME NEW r \in Ranks, RankStep(r)
    PROVE  indices' = indices
  BY DEF RankStep, Body, DispatchPush, DispatchNotify, DispatchWait, DispatchGather, LaneStore,
     LaneNotify, CombineWait, CombineGather, Return, NextBody, SignalClear

\* Only a push writes to the hidden windows, and only its own row.
LEMMA HiddenWrites ==
    ASSUME Shape, NEW a \in Ranks, RankStep(a), NEW p \in Ranks, NEW r \in Ranks, NEW row \in Rows,
           NEW w \in Banks
    PROVE  \/ hidden'[w][r][<<p, row>>] = hidden[w][r][<<p, row>>]
           \/ p = a /\ DispatchPush(a, row)
  <1>1. ASSUME NEW i \in Rows, DispatchPush(a, i), <<a, i>> # <<p, row>>
        PROVE  hidden'[w][r][<<p, row>>] = hidden[w][r][<<p, row>>]
    <2> DEFINE cell == Asked(a, round[a], i)
               b == Bank(round[a])
               next == [q \in Ranks |-> [hidden[b][q] EXCEPT ![<<a, i>>] = cell]]
    <2>1. hidden \in [Banks -> [Ranks -> [Ranks \X Rows -> HiddenItems]]]
      BY DEF Shape, Contents
    <2>2. hidden' = [hidden EXCEPT ![b] = next]
      BY <1>1 DEF DispatchPush
    <2>3. w = b => next[r][<<p, row>>] = hidden[w][r][<<p, row>>]
      BY <1>1, <2>1
    <2> HIDE DEF b, next
    <2> QED
      BY <2>1, <2>2, <2>3
  <1>2. ASSUME ~ \E i \in Rows : DispatchPush(a, i)
        PROVE  hidden' = hidden
    BY <1>2 DEF RankStep, Body, DispatchNotify, DispatchWait, DispatchGather, LaneStore,
       LaneNotify, CombineWait, CombineGather, Return, NextBody, SignalClear, windows
  <1> QED
    BY <1>1, <1>2

LEMMA PushWrites ==
    ASSUME Shape, NEW a \in Ranks, NEW row \in Rows, DispatchPush(a, row), NEW r \in Ranks
    PROVE  hidden'[Bank(round[a])][r][<<a, row>>] = Asked(a, round[a], row)
  <1> DEFINE cell == Asked(a, round[a], row)
             b == Bank(round[a])
             next == [q \in Ranks |-> [hidden[b][q] EXCEPT ![<<a, row>>] = cell]]
  <1>1. hidden \in [Banks -> [Ranks -> [Ranks \X Rows -> HiddenItems]]] /\ b \in Banks
    <2>1. round[a] \in Nat
      BY Sizes DEF Shape, Places
    <2> QED
      BY <2>1, BankFacts DEF Shape, Contents
  <1>2. hidden' = [hidden EXCEPT ![b] = next]
    BY DEF DispatchPush
  <1>3. next[r][<<a, row>>] = cell
    BY <1>1
  <1> HIDE DEF b, next
  <1>4. hidden'[b] = next
    BY <1>1, <1>2
  <1> QED
    BY <1>3, <1>4 DEF b

LEMMA PushedStep ==
    ASSUME Shape, PushedOK, NEW a \in Ranks, RankStep(a)
    PROVE  PushedOK'
  <1> SUFFICES ASSUME NEW p \in Ranks, NEW r \in Ranks, NEW row \in pushed'[p]
               PROVE  hidden'[Bank(round'[p])][r][<<p, row>>] = Asked(p, round'[p], row)
    BY PushedNext, IndicesKept
  <1> USE DEF Shape, Places
  <1>1. \/ pushed'[p] \subseteq pushed[p] /\ round'[p] = round[p]
        \/ \E i \in Rows : p = a /\ DispatchPush(a, i) /\ pushed'[p] = pushed[p] \cup {i}
    <2>1. CASE p # a
      BY <2>1, Others
    <2>2. CASE NextBody(a)
      BY <2>1, <2>2 DEF NextBody
    <2>3. CASE p = a /\ \E i \in Rows : DispatchPush(a, i)
      BY <2>3 DEF DispatchPush
    <2>4. ASSUME ~NextBody(a), ~ \E i \in Rows : DispatchPush(a, i)
          PROVE  pushed' = pushed /\ round' = round
      BY <2>4 DEF RankStep, Body, DispatchNotify, DispatchWait, DispatchGather, LaneStore,
         LaneNotify, CombineWait, CombineGather, Return, SignalClear, work
    <2> QED
      BY <2>1, <2>2, <2>3, <2>4
  <1>2. round'[p] = round[p]
    BY <1>1 DEF DispatchPush
  <1>3. row \in Rows /\ Bank(round[p]) \in Banks
    <2>1. row \in Rows
      BY <1>1
    <2> QED
      BY <2>1, BankFacts, Sizes
  <1>4. CASE p = a /\ DispatchPush(a, row)
    BY <1>2, <1>3, <1>4, PushWrites
  <1>5. CASE ~(p = a /\ DispatchPush(a, row))
    <2>1. row \in pushed[p]
      <3>1. ASSUME NEW i \in Rows, DispatchPush(a, i), i # row, p = a, pushed'[p] = pushed[p] \cup {i}
            PROVE  row \in pushed[p]
        BY <3>1
      <3> QED
        BY <1>1, <1>5, <3>1
    <2>2. hidden[Bank(round[p])][r][<<p, row>>] = Asked(p, round[p], row)
      BY <2>1 DEF PushedOK
    <2> QED
      BY <1>2, <1>3, <1>5, <2>2, HiddenWrites
  <1> QED
    BY <1>4, <1>5

LEMMA HiddensStep ==
    ASSUME Shape, ControlOK, PushedOK, HiddensExact, NEW a \in Ranks, RankStep(a)
    PROVE  HiddensExact'
  <1> SUFFICES ASSUME NEW r \in Ranks, stage'[r] \in {"project", "gather", "returned"},
                      NEW o \in Ranks, NEW row \in Rows
               PROVE  owners'[r][<<o, row>>] = Asked(o, round'[r], row)
    BY HiddensNext, IndicesKept
  <1> USE DEF Shape, Places
  <1>1. \/ owners'[r] = owners[r] /\ round'[r] = round[r] /\ stage[r] \in {"project", "gather", "returned"}
        \/ r = a /\ DispatchGather(a)
    <2>1. CASE r # a
      <3>1. owners'[r] = owners[r]
        BY <2>1 DEF RankStep, Body, DispatchPush, DispatchNotify, DispatchWait, DispatchGather,
           LaneStore, LaneNotify, CombineWait, CombineGather, Return, NextBody, SignalClear, work,
           Contents
      <3> QED
        BY <2>1, <3>1, Others
    <2>2. CASE r = a /\ ~DispatchGather(a)
      <3>1. ~Body(a) /\ ~NextBody(a)
        BY <2>2 DEF Body, NextBody
      <3> QED
        BY <2>2, <3>1 DEF RankStep, DispatchPush, DispatchNotify, DispatchWait,
           LaneStore, LaneNotify, CombineWait, CombineGather, Return, SignalClear, work
    <2> QED
      BY <2>1, <2>2
  <1>3. CASE owners'[r] = owners[r] /\ round'[r] = round[r] /\ stage[r] \in {"project", "gather", "returned"}
    BY <1>3 DEF HiddensExact
  <1>4. CASE r = a /\ DispatchGather(a)
    <2>1. /\ stage[r] = "head" /\ heard[r] /\ told[r] = Rows /\ round'[r] = round[r]
          /\ owners'[r] = hidden[Bank(round[r])][r]
      BY <1>4 DEF DispatchGather, Contents
    <2>2. round[o] = round[r]
      <3>1. ASSUME Served(r, o) PROVE FALSE
        <4>1. signalled[r] = {}
          BY <2>1 DEF ControlOK, PositionAt
        <4>2. <<0, o>> \in Blocks \X {o}
          BY Sizes DEF Blocks
        <4> QED
          BY <3>1, <4>1, <4>2 DEF Served
      <3> QED
        BY <2>1, <3>1, Abreast
    <2>3. told[o] = Rows
      BY <2>1, <2>2 DEF ControlOK, Collected, Peers
    <2>4. row \in pushed[o]
      BY <2>3 DEF ControlOK, PositionAt
    <2> QED
      BY <2>1, <2>2, <2>4 DEF PushedOK
  <1> QED
    BY <1>1, <1>3, <1>4

\* A column of the vocabulary is a column of one shard.
LEMMA Decomposed ==
    ASSUME NEW v \in Vocab
    PROVE  /\ v \div VocabPerTp \in Ranks /\ v % VocabPerTp \in 0 .. VocabPerTp - 1
           /\ v = Column(v \div VocabPerTp, v % VocabPerTp)
  <1> DEFINE k == VocabPerTp
             q == v \div k
             m == v % k
  <1>1. k \in Nat \ {0} /\ TpSize \in {1, 2} /\ v \in 0 .. TpSize * k - 1
    BY Sizes DEF Vocab
  <1>2. v \in Nat /\ (TpSize = 1 => v < k) /\ v < 2 * k
    BY <1>1
  <1> HIDE DEF k
  <1>3. q \in Int /\ m \in 0 .. k - 1 /\ v = k * q + m
    BY <1>1, <1>2
  <1> HIDE DEF q, m
  <1>4. q = 0 \/ (q = 1 /\ TpSize = 2)
    BY <1>1, <1>2, <1>3, Multiples
  <1>5. q \in Ranks /\ v = q * k + m
    BY <1>1, <1>3, <1>4 DEF Ranks
  <1> QED
    BY <1>3, <1>5 DEF Column, q, m, k

LEMMA ColumnFacts ==
    ASSUME NEW p \in Ranks, NEW a \in Ranks, NEW c \in 0 .. VocabPerTp - 1
    PROVE  /\ Column(p, c) \in Vocab
           /\ Column(a, c) - a * VocabPerTp = c
           /\ p # a => Column(p, c) - a * VocabPerTp \notin 0 .. VocabPerTp - 1
  <1>1. VocabPerTp \in Nat \ {0} /\ TpSize \in {1, 2} /\ p \in {0, 1} /\ a \in {0, 1}
        /\ p < TpSize /\ a < TpSize
    BY Sizes DEF Ranks
  <1> QED
    BY <1>1 DEF Column, Vocab

LEMMA BlockColumnsType ==
    ASSUME NEW b, NEW c \in BlockColumns(b)
    PROVE  c \in 0 .. VocabPerTp - 1
  <1>1. PICK t \in TilesOf(b) : c \in Columns(t)
    BY DEF BlockColumns
  <1>2. VocabTile \in Nat /\ t \in Nat
    BY Sizes DEF TilesOf
  <1>3. t * VocabTile \in Nat
    BY <1>2
  <1>4. c \in Int /\ c >= t * VocabTile /\ c < VocabPerTp
    BY <1>1, <1>2, <1>3 DEF Columns
  <1> QED
    BY <1>3, <1>4, Sizes

\* Every column of a shard is projected by some block.
LEMMA BlocksCover ==
    ASSUME NEW c \in 0 .. VocabPerTp - 1
    PROVE  \E b \in Blocks : c \in BlockColumns(b)
  <1> DEFINE k == VocabTile
             t == c \div k
             m == c % k
             n == VocabPerTp + k - 1
             d == n \div k
             e == n % k
  <1>1. k \in Nat \ {0} /\ VocabPerTp \in Nat \ {0} /\ c \in Nat /\ c < VocabPerTp /\ Cores \in Nat \ {0}
    BY Sizes
  <1>2. n \in Nat
    BY <1>1
  <1> HIDE DEF k, n
  <1>3. t \in Int /\ m \in 0 .. k - 1 /\ c = k * t + m
    BY <1>1
  <1>4. d \in Int /\ e \in 0 .. k - 1 /\ n = k * d + e
    BY <1>1, <1>2
  <1>d. VocabTiles = d
    BY DEF VocabTiles, k, n
  <1>n. n = VocabPerTp + k - 1
    BY DEF n, k
  <1> HIDE DEF t, m, d, e
  <1>5. t >= 0
    BY <1>1, <1>3, Multiples
  <1>6. k * (d - t) > 0
    BY <1>1, <1>3, <1>4, <1>n
  <1>7. d - t >= 1
    <2>1. d - t \in Int /\ (d - t <= -1 => k * (d - t) <= -k) /\ (d - t = 0 => k * (d - t) = 0)
      BY <1>1, <1>3, <1>4, Multiples
    <2> QED
      BY <1>1, <1>6, <2>1
  <1>8. t \in 0 .. VocabTiles - 1 /\ t % Cores \in Blocks
    BY <1>1, <1>3, <1>4, <1>5, <1>7, <1>d DEF Blocks
  <1>9. t \in TilesOf(t % Cores)
    BY <1>8 DEF TilesOf
  <1>10. c \in Columns(t)
    <2>1. t * k = k * t /\ (t + 1) * k = k * t + k
      BY <1>1, <1>3
    <2>2. c \in t * k .. (t + 1) * k - 1
      BY <1>1, <1>3, <2>1
    <2> QED
      BY <1>1, <2>2 DEF Columns, k
  <1> QED
    BY <1>8, <1>9, <1>10 DEF BlockColumns

\* Every column of a shard is copied by some gather block.
LEMMA GatherCovers ==
    ASSUME NEW c \in 0 .. VocabPerTp - 1
    PROVE  \E b \in 0 .. CommBlocks - 1 : c \in GatherColumns(b)
  <1> DEFINE k == CommTile
             d == VocabPerTp \div k
             e == VocabPerTp % k
             n == CommBlocks
  <1>1. k \in Nat \ {0} /\ VocabPerTp \in Nat \ {0} /\ Cores \in Nat \ {0}
    BY Sizes
  <1>2. d \in Int /\ e \in 0 .. k - 1 /\ VocabPerTp = k * d + e
    BY <1>1
  <1>3. n = LET tiles == d + (IF e = 0 THEN 0 ELSE 1) IN IF tiles < Cores THEN tiles ELSE Cores
    BY DEF CommBlocks, CommTiles
  <1>c. CommTiles = d
    BY DEF CommTiles
  <1> HIDE DEF d, e, n
  <1>4. d >= 0 /\ (e = 0 => d >= 1)
    BY <1>1, <1>2, Multiples
  <1>5. n \in Nat \ {0}
    BY <1>1, <1>2, <1>3, <1>4
  <1>6. c \div k \in Int
    BY <1>1
  <1>7. (c \div k) % n \in 0 .. n - 1 /\ d % n \in 0 .. n - 1
    BY <1>2, <1>5, <1>6
  <1> QED
    BY <1>7, <1>c DEF GatherColumns, n

\* A lane of a block writes the columns of the block, for the owner it serves.
LEMMA StoredCell ==
    ASSUME NEW a \in Ranks, NEW b \in Blocks, NEW lane \in Lanes, NEW o \in Ranks, NEW before,
           NEW row \in Rows, NEW p \in Ranks, NEW c \in 0 .. VocabPerTp - 1
    PROVE  Stored(a, b, lane, o, before)[<<row, Column(p, c)>>] =
              IF o = lane /\ p = a /\ c \in BlockColumns(b)
              THEN Logit(owners[a][<<o, row>>], Column(a, c)) ELSE before[<<row, Column(p, c)>>]
  <1> DEFINE base == a * VocabPerTp
             cols == {i \in UNION {Columns(t) : t \in TilesOf(b)} : base + i \in Vocab}
             real(i) == IF i < VocabPerTp THEN base + i ELSE -1
             cell == <<row, Column(p, c)>>
  <1>1. o \in StoresTo(lane) <=> o = lane
    BY LaneOwner
  <1>2. cell \in Rows \X Vocab /\ cell[1] = row /\ cell[2] = Column(p, c)
    BY ColumnFacts
  <1>3. Column(p, c) - base \in cols <=> p = a /\ c \in BlockColumns(b)
    <2>1. ASSUME Column(p, c) - base \in cols PROVE p = a /\ c \in BlockColumns(b)
      <3>1. Column(p, c) - base \in BlockColumns(b)
        BY <2>1 DEF BlockColumns
      <3>2. p = a
        BY <3>1, BlockColumnsType, ColumnFacts
      <3> QED
        BY <3>1, <3>2, ColumnFacts
    <2>2. ASSUME p = a, c \in BlockColumns(b) PROVE Column(p, c) - base \in cols
      <3>1. Column(p, c) - base = c
        BY <2>2, ColumnFacts
      <3>2. base + c \in Vocab
        BY ColumnFacts DEF Column
      <3> QED
        BY <2>2, <3>1, <3>2 DEF BlockColumns
    <2> QED
      BY <2>1, <2>2
  <1>4. p = a => real(Column(p, c) - base) = Column(a, c)
    BY ColumnFacts, Sizes DEF Column
  <1> HIDE DEF base, cols, real, cell
  <1>5. o = lane => Stored(a, b, lane, o, before)[cell] =
            IF cell[2] - base \in cols THEN Logit(owners[a][<<o, cell[1]>>], real(cell[2] - base))
            ELSE before[cell]
    BY <1>1, <1>2 DEF Stored, base, cols, real
  <1>6. o # lane => Stored(a, b, lane, o, before) = before
    BY <1>1 DEF Stored
  <1> QED
    BY <1>2, <1>3, <1>4, <1>5, <1>6 DEF cell

LEMMA StoreWrites ==
    ASSUME Shape, NEW a \in Ranks, NEW b \in Blocks, NEW lane \in Lanes, LaneStore(a, b, lane),
           NEW w \in Banks, NEW r \in Ranks, NEW row \in Rows, NEW p \in Ranks,
           NEW c \in 0 .. VocabPerTp - 1
    PROVE  shards'[w][r][<<row, Column(p, c)>>] =
              IF w = Bank(round[a]) /\ r = lane /\ p = a /\ c \in BlockColumns(b)
              THEN Logit(owners[a][<<r, row>>], Column(a, c)) ELSE shards[w][r][<<row, Column(p, c)>>]
  <1> DEFINE bank == Bank(round[a])
             next == [o \in Ranks |-> Stored(a, b, lane, o, shards[bank][o])]
  <1>1. shards \in [Banks -> [Ranks -> [Rows \X Vocab -> LogitItems]]]
    BY DEF Shape, Contents
  <1>2. shards' = [shards EXCEPT ![bank] = next]
    BY DEF LaneStore
  <1>3. next[r] = Stored(a, b, lane, r, shards[bank][r])
    OBVIOUS
  <1> HIDE DEF bank, next
  <1>4. shards'[w] = IF w = bank THEN next ELSE shards[w]
    BY <1>1, <1>2
  <1> QED
    BY <1>3, <1>4, StoredCell DEF bank

LEMMA ShardsKept ==
    ASSUME NEW a \in Ranks, RankStep(a),
           ~ \E b \in Blocks, lane \in Lanes : LaneStore(a, b, lane)
    PROVE  shards' = shards
  BY DEF RankStep, Body, DispatchPush, DispatchNotify, DispatchWait, DispatchGather, LaneNotify,
     CombineWait, CombineGather, Return, NextBody, SignalClear, windows

\* What happens to a cell of a window of logits.
LEMMA ShardWrites ==
    ASSUME Shape, ControlOK, HiddensExact, NEW a \in Ranks, RankStep(a),
           NEW w \in Banks, NEW r \in Ranks, NEW row \in Rows, NEW p \in Ranks,
           NEW c \in 0 .. VocabPerTp - 1
    PROVE  \/ shards'[w][r][<<row, Column(p, c)>>] = shards[w][r][<<row, Column(p, c)>>]
           \/ /\ p = a /\ w = Bank(round[a]) /\ r \in Lanes
              /\ \E b \in Blocks : LaneStore(a, b, r)
              /\ shards'[w][r][<<row, Column(p, c)>>] = Logit(Asked(r, round[a], row), Column(p, c))
  <1>1. CASE ~ \E b \in Blocks, lane \in Lanes : LaneStore(a, b, lane)
    BY <1>1, ShardsKept
  <1>2. ASSUME NEW b \in Blocks, NEW lane \in Lanes, LaneStore(a, b, lane),
               w = Bank(round[a]) /\ r = lane /\ p = a /\ c \in BlockColumns(b)
        PROVE  shards'[w][r][<<row, Column(p, c)>>] = Logit(Asked(r, round[a], row), Column(p, c))
    <2>1. shards'[w][r][<<row, Column(p, c)>>] = Logit(owners[a][<<r, row>>], Column(a, c))
      BY <1>2, StoreWrites
    <2>2. owners[a][<<r, row>>] = Asked(r, round[a], row)
      BY <1>2 DEF LaneStore, HiddensExact
    <2> QED
      BY <1>2, <2>1, <2>2
  <1>3. ASSUME NEW b \in Blocks, NEW lane \in Lanes, LaneStore(a, b, lane),
               ~(w = Bank(round[a]) /\ r = lane /\ p = a /\ c \in BlockColumns(b))
        PROVE  shards'[w][r][<<row, Column(p, c)>>] = shards[w][r][<<row, Column(p, c)>>]
    <2>1. shards'[w][r][<<row, Column(p, c)>>] =
            IF w = Bank(round[a]) /\ r = lane /\ p = a /\ c \in BlockColumns(b)
            THEN Logit(owners[a][<<r, row>>], Column(a, c)) ELSE shards[w][r][<<row, Column(p, c)>>]
      BY <1>3, StoreWrites
    <2> QED
      BY <1>3, <2>1
  <1> QED
    BY <1>1, <1>2, <1>3

LEMMA BanksOf ==
    ASSUME Places, NEW r \in Ranks
    PROVE  round[r] \in Nat /\ Bank(round[r]) \in Banks
  <1>1. round[r] \in Nat
    BY Sizes DEF Places
  <1> QED
    BY <1>1, BankFacts

LEMMA StoredStep ==
    ASSUME Shape, ControlOK, HiddensExact, StoredOK, NEW a \in Ranks, RankStep(a)
    PROVE  StoredOK'
  <1> SUFFICES ASSUME NEW p \in Ranks, NEW r \in Ranks, NEW b \in Blocks, <<b, r>> \in stored'[p],
                      NEW row \in Rows, NEW c \in BlockColumns(b)
               PROVE  shards'[Bank(round'[p])][r][<<row, Column(p, c)>>] =
                        Logit(Asked(r, round'[p], row), Column(p, c))
    BY StoredNext, IndicesKept
  <1>1. /\ round'[p] = round[p]
        /\ \/ <<b, r>> \in stored[p]
           \/ p = a /\ r \in Lanes /\ LaneStore(a, b, r)
    <2>p. Places
      BY DEF Shape
    <2>1. CASE p # a
      BY <2>p, <2>1, Others
    <2>2. CASE p = a /\ NextBody(a)
      BY <2>p, <2>2 DEF NextBody, Places
    <2>3. ASSUME p = a, NEW i \in Blocks, NEW lane \in Lanes, LaneStore(a, i, lane)
          PROVE  /\ round'[p] = round[p]
                 /\ \/ <<b, r>> \in stored[p]
                    \/ p = a /\ r \in Lanes /\ LaneStore(a, b, r)
      <3>1. round' = round /\ stored'[a] = stored[a] \cup {<<i, lane>>}
        BY <2>p, <2>3 DEF LaneStore, Places
      <3>2. CASE <<b, r>> = <<i, lane>>
        <4>1. b = i /\ r = lane
          BY <3>2
        <4> QED
          BY <2>3, <3>1, <4>1
      <3> QED
        BY <2>3, <3>1, <3>2
    <2>4. ASSUME ~NextBody(a), ~ \E i \in Blocks, lane \in Lanes : LaneStore(a, i, lane)
          PROVE  stored' = stored /\ round' = round
      BY <2>4 DEF RankStep, Body, DispatchPush, DispatchNotify, DispatchWait, DispatchGather,
         LaneNotify, CombineWait, CombineGather, Return, SignalClear, work
    <2> QED
      BY <2>1, <2>2, <2>3, <2>4
  <1>2. c \in 0 .. VocabPerTp - 1 /\ Bank(round[p]) \in Banks /\ Bank(round[a]) \in Banks
    BY BlockColumnsType, BanksOf DEF Shape
  <1>3. CASE p = a /\ r \in Lanes /\ LaneStore(a, b, r)
    <2>1. shards'[Bank(round[p])][r][<<row, Column(p, c)>>] = Logit(owners[a][<<r, row>>], Column(a, c))
      BY <1>2, <1>3, StoreWrites
    <2>2. owners[a][<<r, row>>] = Asked(r, round[a], row)
      BY <1>3 DEF LaneStore, HiddensExact
    <2> QED
      BY <1>1, <1>3, <2>1, <2>2
  <1>4. CASE <<b, r>> \in stored[p]
    <2>1. shards[Bank(round[p])][r][<<row, Column(p, c)>>] = Logit(Asked(r, round[p], row), Column(p, c))
      BY <1>4 DEF StoredOK
    <2> QED
      BY <1>1, <1>2, <2>1, ShardWrites
  <1> QED
    BY <1>1, <1>3, <1>4

LEMMA PassedStep ==
    ASSUME Shape, ControlOK, HiddensExact, StoredOK, PassedOK, NEW a \in Ranks, RankStep(a)
    PROVE  PassedOK'
  <1> SUFFICES ASSUME NEW p \in Ranks, NEW r \in Ranks, NEW b \in Blocks, round'[r] < round'[p],
                      NEW row \in Rows, NEW c \in BlockColumns(b)
               PROVE  shards'[Bank(round'[r])][r][<<row, Column(p, c)>>] =
                        Logit(Asked(r, round'[r], row), Column(p, c))
    BY PassedNext, IndicesKept
  <1>p. Places
    BY DEF Shape
  <1>b. c \in 0 .. VocabPerTp - 1 /\ Bank(round[r]) \in Banks /\ Bank(round[a]) \in Banks
    BY <1>p, BlockColumnsType, BanksOf
  <1>1. CASE ~NextBody(a)
    <2>1. round' = round
      BY <1>p, <1>1, Growth
    <2>2. stage[p] \in {"body", "stopped"}
      BY <2>1 DEF ControlOK, Separated
    <2>3. ~(p = a /\ \E i \in Blocks : LaneStore(a, i, r))
      BY <2>2 DEF LaneStore
    <2>4. shards[Bank(round[r])][r][<<row, Column(p, c)>>] = Logit(Asked(r, round[r], row), Column(p, c))
      BY <2>1 DEF PassedOK
    <2> QED
      BY <1>b, <2>1, <2>3, <2>4, ShardWrites
  <1>2. CASE NextBody(a)
    <2>1. /\ stage[a] = "returned" /\ round'[a] = round[a] + 1 /\ shards' = shards
          /\ \A q \in Ranks : q # a => round'[q] = round[q]
      BY <1>2, <1>p, Others DEF NextBody, windows, Places
    <2>n. \A q \in Ranks : round[q] \in Nat
      BY <1>p, BanksOf
    <2>2. r # a
      <3>1. ASSUME r = a PROVE FALSE
        <4>1. p # a
          BY <2>1, <2>n, <3>1
        <4> QED
          BY <1>p, <2>1, <2>n, <3>1, <4>1, Abreast
      <3> QED
        BY <3>1
    <2>3. CASE p # a
      BY <2>1, <2>2, <2>3 DEF PassedOK
    <2>4. CASE p = a
      <3>1. round[r] = round[a]
        BY <1>p, <2>1, <2>2, <2>4, <2>n, Abreast
      <3>2. <<b, r>> \in stored[a]
        <4>1. signalled[a] = Blocks \X Lanes /\ signalled[a] \subseteq stored[a]
          BY <2>1 DEF ControlOK, PositionAt
        <4>2. r \in Lanes
          BY Sizes DEF Lanes, AivLanes
        <4> QED
          BY <4>1, <4>2
      <3>3. shards[Bank(round[a])][r][<<row, Column(a, c)>>] = Logit(Asked(r, round[a], row), Column(a, c))
        BY <3>2 DEF StoredOK
      <3> QED
        BY <2>1, <2>2, <2>4, <3>1, <3>3
    <2> QED
      BY <2>3, <2>4
  <1> QED
    BY <1>1, <1>2

LEMMA WholeStep ==
    ASSUME Shape, ControlOK, HiddensExact, StoredOK, PassedOK, WholeOK, NEW a \in Ranks, RankStep(a)
    PROVE  WholeOK'
  <1> SUFFICES ASSUME NEW r \in Ranks, stage'[r] \in {"gather", "returned"},
                      NEW row \in Rows, NEW v \in Vocab
               PROVE  shards'[Bank(round'[r])][r][<<row, v>>] = Logit(Asked(r, round'[r], row), v)
    BY WholeNext, IndicesKept
  <1>p. Places
    BY DEF Shape
  <1> DEFINE p == v \div VocabPerTp
             c == v % VocabPerTp
  <1>v. p \in Ranks /\ c \in 0 .. VocabPerTp - 1 /\ v = Column(p, c)
    BY Decomposed
  <1> HIDE DEF p, c
  <1>b. Bank(round[r]) \in Banks /\ round[r] \in Nat
    BY <1>p, BanksOf
  <1>1. \/ round'[r] = round[r] /\ stage[r] \in {"gather", "returned"}
        \/ r = a /\ CombineWait(a)
    <2>1. CASE r # a
      BY <1>p, <2>1, Others
    <2>2. CASE r = a /\ ~CombineWait(a)
      <3>1. ~NextBody(a)
        BY <1>p, <2>2 DEF NextBody, Places
      <3>2. round' = round
        BY <1>p, <3>1, Growth
      <3>3. \/ stage' = stage
            \/ stage'[a] \in {"head", "project"}
            \/ stage[a] = "gather"
        BY <1>p, <2>2, <3>1 DEF RankStep, Body, DispatchPush, DispatchNotify, DispatchWait,
           DispatchGather, LaneStore, LaneNotify, CombineGather, Return, SignalClear, Places
      <3> QED
        BY <2>2, <3>2, <3>3
    <2> QED
      BY <2>1, <2>2
  <1>2. CASE round'[r] = round[r] /\ stage[r] \in {"gather", "returned"}
    <2>1. shards[Bank(round[r])][r][<<row, v>>] = Logit(Asked(r, round[r], row), v)
      BY <1>2 DEF WholeOK
    <2>2. ASSUME p = a, r \in Lanes, NEW b \in Blocks, LaneStore(a, b, r)
          PROVE  FALSE
      <3>1. stage[a] = "project" /\ <<b, r>> \notin stored[a] /\ a # r
        BY <1>2, <2>2 DEF LaneStore
      <3>2. round[a] = round[r]
        BY <1>p, <1>2, <3>1, Abreast
      <3>3. Served(a, r)
        BY <1>2, <3>1, <3>2 DEF ControlOK, Collected, Peers
      <3>4. <<b, r>> \in signalled[a]
        BY <3>3 DEF Served
      <3> QED
        BY <3>1, <3>4 DEF ControlOK, PositionAt
    <2> QED
      BY <1>b, <1>v, <1>2, <2>1, <2>2, ShardWrites
  <1>3. CASE r = a /\ CombineWait(a)
    <2>1. /\ round' = round /\ shards' = shards /\ stage[a] = "project"
          /\ signalled[a] = Blocks \X Lanes /\ AllColumns(a)
      BY <1>3 DEF CombineWait, windows
    <2>2. PICK b \in Blocks : c \in BlockColumns(b)
      BY <1>v, BlocksCover
    <2>3. r \in Lanes
      BY Sizes DEF Lanes, AivLanes
    <2>4. round[p] = round[r] \/ round[r] < round[p]
      BY <1>p, <1>v, <1>3, <1>b, <2>1, Abreast
    <2>5. ASSUME round[p] = round[r] PROVE <<b, r>> \in stored[p]
      <3>1. <<b, r>> \in signalled[p]
        <4>1. CASE p = r
          BY <1>3, <2>1, <2>3, <4>1
        <4>2. CASE p # r
          <5>1. Served(p, r)
            BY <1>p, <1>v, <1>3, <2>1, <2>5, <4>2, ColumnsHeard DEF Peers
          <5> QED
            BY <5>1 DEF Served
        <4> QED
          BY <4>1, <4>2
      <3> QED
        BY <1>v, <3>1 DEF ControlOK, PositionAt
    <2>6. shards[Bank(round[r])][r][<<row, Column(p, c)>>] = Logit(Asked(r, round[r], row), Column(p, c))
      <3>1. CASE round[p] = round[r]
        BY <1>v, <2>2, <2>5, <3>1 DEF StoredOK
      <3>2. CASE round[r] < round[p]
        BY <1>v, <2>2, <3>2 DEF PassedOK
      <3> QED
        BY <2>4, <3>1, <3>2
    <2> QED
      BY <1>v, <2>1, <2>6
  <1> QED
    BY <1>1, <1>2, <1>3

LEMMA GatheredStep ==
    ASSUME Shape, ControlOK, WholeOK, GatheredOK, NEW a \in Ranks, RankStep(a)
    PROVE  GatheredOK'
  <1> SUFFICES ASSUME NEW r \in Ranks, NEW b \in gathered'[r], NEW row \in Rows, NEW v \in Vocab,
                      v % VocabPerTp \in GatherColumns(b)
               PROVE  logits'[r][<<row, v>>] = Logit(Asked(r, round'[r], row), v)
    BY GatheredNext, IndicesKept
  <1>p. Places /\ logits \in [Ranks -> [Rows \X Vocab -> LogitItems]]
    BY DEF Shape, Contents
  <1>1. CASE \E i \in 0 .. CommBlocks - 1 : r = a /\ CombineGather(a, i)
    <2>1. PICK i \in 0 .. CommBlocks - 1 : r = a /\ CombineGather(a, i)
      BY <1>1
    <2>2. stage[r] = "gather" /\ round' = round /\ gathered'[r] = gathered[r] \cup {i}
      BY <1>p, <2>1 DEF CombineGather, Places
    <2>3. logits'[r][<<row, v>>] = IF v % VocabPerTp \in GatherColumns(i)
                                   THEN shards[Bank(round[r])][r][<<row, v>>] ELSE logits[r][<<row, v>>]
      <3> DEFINE next == [x \in Rows \X Vocab |->
                            IF x[2] % VocabPerTp \in GatherColumns(i)
                            THEN shards[Bank(round[a])][a][x] ELSE logits[a][x]]
      <3>1. logits' = [logits EXCEPT ![a] = next]
        BY <2>1 DEF CombineGather
      <3>2. next[<<row, v>>] = IF v % VocabPerTp \in GatherColumns(i)
                               THEN shards[Bank(round[a])][a][<<row, v>>] ELSE logits[a][<<row, v>>]
        OBVIOUS
      <3> HIDE DEF next
      <3>3. logits'[a] = next
        BY <1>p, <3>1
      <3> QED
        BY <2>1, <3>2, <3>3
    <2>4. shards[Bank(round[r])][r][<<row, v>>] = Logit(Asked(r, round[r], row), v)
      BY <2>2 DEF WholeOK
    <2>5. ASSUME b \in gathered[r] PROVE logits[r][<<row, v>>] = Logit(Asked(r, round[r], row), v)
      BY <2>5 DEF GatheredOK
    <2> QED
      BY <2>2, <2>3, <2>4, <2>5
  <1>2. CASE ~ \E i \in 0 .. CommBlocks - 1 : r = a /\ CombineGather(a, i)
    <2>1. round'[r] = round[r] /\ gathered'[r] = gathered[r] /\ logits'[r] = logits[r]
      <3>1. ASSUME r = a PROVE ~NextBody(a) /\ ~Body(a)
        <4>1. NextBody(a) => gathered'[a] = {}
          BY <1>p DEF NextBody, Places
        <4>2. Body(a) => gathered'[a] = {}
          BY <1>p DEF Body, work, ControlOK, PositionAt
        <4> QED
          BY <3>1, <4>1, <4>2
      <3>2. CASE r = a
        BY <1>2, <3>1, <3>2 DEF RankStep, DispatchPush, DispatchNotify, DispatchWait, DispatchGather,
           LaneStore, LaneNotify, CombineWait, Return, SignalClear, work
      <3>3. CASE r # a
        <4>1. logits'[r] = logits[r]
          BY <1>p, <3>3 DEF RankStep, Body, DispatchPush, DispatchNotify, DispatchWait, DispatchGather,
             LaneStore, LaneNotify, CombineWait, CombineGather, Return, NextBody, SignalClear
        <4> QED
          BY <1>p, <3>3, <4>1, Others
      <3> QED
        BY <3>2, <3>3
    <2> QED
      BY <2>1 DEF GatheredOK
  <1> QED
    BY <1>1, <1>2

-----------------------------------------------------------------------------
(* The theorems.                                                           *)

LEMMA InvInit == Init => IInv
  <1> SUFFICES ASSUME Init PROVE IInv
    OBVIOUS
  <1>1. Shape
    BY ShapeInit
  <1>2. /\ \A r \in Ranks : /\ round[r] = 0 /\ stage[r] \in {"body", "stopped"}
                            /\ stage[r] = "stopped" <=> Rounds = 0
                            /\ pushed[r] = {} /\ told[r] = {} /\ heard[r] = FALSE
                            /\ stored[r] = {} /\ signalled[r] = {} /\ gathered[r] = {}
                            /\ clearing[r] = {}
        /\ \A w \in Banks, r, p \in Ranks : hiddenDone[w][r][p] = 0 /\ logitsDone[w][r][p] = 0
    BY DEF Init, Zeros, Banks
  <1>3. Cardinality({}) = 0
    BY FS_EmptySet
  <1>4. \A r \in Ranks : PositionAt(r) /\ ClearingAt(r)
    BY <1>2 DEF PositionAt, ClearingAt
  <1>5. Separated /\ Collected
    BY <1>2 DEF Separated, Collected, Peers
  <1>6. SignalsOK
    <2>1. \A p, r \in Ranks : HiddenSent(p, round[r]) = 0 /\ LogitsSent(p, r, round[r]) = 0
      <3> SUFFICES ASSUME NEW p \in Ranks, NEW r \in Ranks
                   PROVE  HiddenSent(p, round[r]) = 0 /\ LogitsSent(p, r, round[r]) = 0
        OBVIOUS
      <3>1. BlocksTold(p, r) = {} /\ told[p] = {} /\ round[p] = 0 /\ round[r] = 0
        BY <1>2 DEF BlocksTold
      <3> QED
        BY <1>3, <3>1 DEF HiddenSent, LogitsSent
    <2> QED
      BY <1>2, <2>1 DEF SignalsOK
  <1>7. PushedOK /\ HiddensExact
    BY <1>2 DEF PushedOK, HiddensExact
  <1>8. StoredOK /\ PassedOK
    BY <1>2 DEF StoredOK, PassedOK
  <1>9. WholeOK /\ GatheredOK
    BY <1>2 DEF WholeOK, GatheredOK
  <1> QED
    BY <1>1, <1>4, <1>5, <1>6, <1>7, <1>8, <1>9 DEF IInv, ControlOK

LEMMA InvNext == IInv /\ [Next]_vars => IInv'
  <1> SUFFICES ASSUME IInv, [Next]_vars PROVE IInv'
    OBVIOUS
  <1>1. ASSUME NEW r \in Ranks, RankStep(r)
        PROVE  IInv'
    <2> USE <1>1
    <2>1. Shape'
      BY ShapeStep DEF IInv
    <2>2. ControlOK'
      BY <2>1, ControlStep DEF IInv
    <2>3. PushedOK'
      BY PushedStep DEF IInv
    <2>4. HiddensExact'
      BY HiddensStep DEF IInv
    <2>5. StoredOK'
      BY StoredStep DEF IInv
    <2>6. PassedOK'
      BY PassedStep DEF IInv
    <2>7. WholeOK'
      BY WholeStep DEF IInv
    <2>8. GatheredOK'
      BY GatheredStep DEF IInv
    <2> QED
      BY <2>1, <2>2, <2>3, <2>4, <2>5, <2>6, <2>7, <2>8 DEF IInv
  <1>2. CASE UNCHANGED vars
    <2>1. /\ UNCHANGED <<indices, round, stage, pushed, told, heard, owners, stored, signalled>>
          /\ UNCHANGED <<gathered, clearing, hidden, shards, hiddenDone, logitsDone, logits>>
      BY <1>2 DEF vars
    <2>2. Shape'
      BY <2>1 DEF IInv, Shape, Places, Contents
    <2>3. ControlOK'
      <3>1. (\A r \in Ranks : PositionAt(r) /\ ClearingAt(r))'
        BY <2>1 DEF IInv, ControlOK, PositionAt, ClearingAt, Bank
      <3>2. Separated' /\ Collected'
        BY <2>1 DEF IInv, ControlOK, Separated, Collected, Served
      <3>3. SignalsOK'
        <4> SUFFICES ASSUME NEW w \in Banks, NEW r \in Ranks, NEW p \in Ranks
                     PROVE  hiddenDone'[w][r][p] = HiddenMeant(w, r, p)'
                            /\ logitsDone'[w][r][p] = LogitsMeant(w, r, p)'
          BY DEF SignalsOK, HiddenMeant, LogitsMeant
        <4>1. hiddenDone[w][r][p] = HiddenMeant(w, r, p) /\ logitsDone[w][r][p] = LogitsMeant(w, r, p)
          BY MeantFacts DEF IInv, ControlOK
        <4>2. /\ HiddenSent(p, round[r])' = HiddenSent(p, round[r])
              /\ LogitsSent(p, r, round[r])' = LogitsSent(p, r, round[r])
              /\ (Live(r, w)' <=> Live(r, w))
          BY <2>1 DEF HiddenSent, LogitsSent, BlocksTold, Live, Bank
        <4> QED
          BY <2>1, <4>1, <4>2 DEF HiddenMeant, LogitsMeant
      <3> QED
        BY <3>1, <3>2, <3>3 DEF ControlOK
    <2>4. PushedOK' /\ HiddensExact'
      BY <2>1 DEF IInv, PushedOK, HiddensExact, Asked, HiddenRow, Selected, Bank
    <2>5. StoredOK' /\ PassedOK'
      BY <2>1 DEF IInv, StoredOK, PassedOK, Asked, HiddenRow, Selected, Bank, Logit
    <2>6. WholeOK' /\ GatheredOK'
      BY <2>1 DEF IInv, WholeOK, GatheredOK, Asked, HiddenRow, Selected, Bank, Logit
    <2> QED
      BY <2>2, <2>3, <2>4, <2>5, <2>6 DEF IInv
  <1> QED
    BY <1>1, <1>2 DEF Next, Stopped

\* The invariant holds in every state, whatever the sizes.
THEOREM InvariantCorrect == Spec => []IInv
  BY InvInit, InvNext, PTL DEF Spec

LEMMA TypeFromInv == IInv => TypeOK
  <1> SUFFICES ASSUME IInv PROVE TypeOK
    OBVIOUS
  <1>1. Shape /\ SignalsOK
    BY DEF IInv, ControlOK
  <1>2. ASSUME NEW w \in Banks, NEW r \in Ranks, NEW p \in Ranks
        PROVE  hiddenDone[w][r][p] \in 0 .. MaxLogitRows /\ logitsDone[w][r][p] \in 0 .. Cores
    <2>1. MaxLogitRows \in Nat \ {0} /\ Cores \in Nat \ {0}
      BY Sizes
    <2>2. Cardinality(told[p]) \in 0 .. MaxLogitRows
      <3>1. told[p] \in SUBSET (0 .. MaxLogitRows - 1)
        BY <1>1 DEF Shape, Places, Rows
      <3> QED
        BY <2>1, <3>1, Counting
    <2>3. Cardinality(BlocksTold(p, r)) \in 0 .. Cores
      <3>1. BlocksTold(p, r) \in SUBSET (0 .. Cores - 1)
        BY DEF BlocksTold, Blocks
      <3> QED
        BY <2>1, <3>1, Counting
    <2>4. HiddenSent(p, round[r]) \in 0 .. MaxLogitRows /\ LogitsSent(p, r, round[r]) \in 0 .. Cores
      BY <2>1, <2>2, <2>3 DEF HiddenSent, LogitsSent
    <2> QED
      BY <1>1, <2>1, <2>4 DEF SignalsOK
  <1>3. ASSUME NEW w \in Banks
        PROVE  /\ hiddenDone[w] \in [Ranks -> [Ranks -> 0 .. MaxLogitRows]]
               /\ logitsDone[w] \in [Ranks -> [Ranks -> 0 .. Cores]]
    <2>1. hiddenDone[w] \in [Ranks -> [Ranks -> Nat]] /\ logitsDone[w] \in [Ranks -> [Ranks -> Nat]]
      BY <1>1 DEF Shape, Contents
    <2> QED
      BY <1>2, <2>1
  <1>4. \A w \in Banks : /\ hidden[w] \in [Ranks -> [Ranks \X Rows -> HiddenItems]]
                         /\ shards[w] \in [Ranks -> [Rows \X Vocab -> LogitItems]]
    BY <1>1 DEF Shape, Contents
  <1> QED
    BY <1>1, <1>3, <1>4 DEF TypeOK, Shape, Places, Contents, Banks, Stages

LEMMA LogitsFromInv == IInv => LogitsExact
  <1> SUFFICES ASSUME IInv, NEW r \in Ranks, stage[r] = "returned", NEW row \in Rows, NEW v \in Vocab
               PROVE  LET index == indices[r][row]
                          h == logits[r][<<row, v>>].hidden
                      IN  /\ logits[r][<<row, v>>].column = v
                          /\ h.rank = r /\ h.round = round[r]
                          /\ h.at = IF index < 0 THEN -1
                                    ELSE IF index < HiddenRows THEN index ELSE HiddenRows - 1
    BY DEF LogitsExact
  <1>1. logits[r][<<row, v>>] = Logit(Asked(r, round[r], row), v)
    <2>1. PICK b \in 0 .. CommBlocks - 1 : v % VocabPerTp \in GatherColumns(b)
      BY Decomposed, GatherCovers
    <2>2. b \in gathered[r]
      BY <2>1 DEF IInv, ControlOK, PositionAt
    <2> QED
      BY <2>1, <2>2 DEF IInv, GatheredOK
  <1> DEFINE x == logits[r][<<row, v>>]
             h == Asked(r, round[r], row)
  <1>2. x = [hidden |-> h, column |-> v]
    BY <1>1 DEF Logit
  <1>3. h = [rank |-> r, round |-> round[r], at |-> Selected(r, row)]
    BY DEF Asked, HiddenRow
  <1>4. Selected(r, row) = IF indices[r][row] < 0 THEN -1
                           ELSE IF indices[r][row] < HiddenRows THEN indices[r][row]
                           ELSE HiddenRows - 1
    BY SelectedType DEF IInv, Shape, Contents
  <1> HIDE DEF x, h
  <1>5. x.column = v /\ x.hidden = h
    BY <1>2
  <1>6. h.rank = r /\ h.round = round[r] /\ h.at = Selected(r, row)
    BY <1>3
  <1> QED
    BY <1>4, <1>5, <1>6 DEF x

\* Rows arrive whole, and so do columns: RowsExact.
THEOREM RowsCorrect == Spec => []RowsExact
  <1>1. IInv => RowsExact
    BY TypeFromInv, LogitsFromInv DEF IInv, RowsExact
  <1> QED
    BY <1>1, InvariantCorrect, PTL

\* Counters are cleared when they hold their round's signals: ClearsWhole.
THEOREM ClearsCorrect == Spec => ClearsWhole
  <1>1. IInv => [\A r \in Ranks, w \in 0 .. Heads - 1 :
                    w \in clearing[r] \ clearing'[r] =>
                      \A p \in Peers(r) : hiddenDone[w][r][p] = MaxLogitRows
                                          /\ logitsDone[w][r][p] = Cores]_vars
    BY DEF IInv, ControlOK, SignalsOK, Peers, Banks
  <1> QED
    BY <1>1, InvariantCorrect, PTL DEF ClearsWhole
=============================================================================
