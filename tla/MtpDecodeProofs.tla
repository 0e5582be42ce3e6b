-------------------------- MODULE MtpDecodeProofs --------------------------
(***************************************************************************)
(* MtpDecode keeps CommitInv and implements PlainDecode, for every batch,  *)
(* slot set, prompt and position bound; and it keeps ContextOK, so that    *)
(* drafts are made from committed tokens alone, where slots change hands   *)
(* between steps only.                                                     *)
(***************************************************************************)
EXTENDS MtpDecodeInv, SequenceTheorems, TLAPS

-----------------------------------------------------------------------------
\* Tokens and hidden rows of the positions a step can reach.
LEMMA TokenIn ==
    ASSUME NEW q \in 0 .. Requests, NEW p \in 0 .. MaxPosition + 1
    PROVE  Token(q, p) \in Tokens
  BY DEF Token, Plain!Token, Tokens

LEMMA OtherIn == Other \in Tokens /\ OtherHidden \in Hiddens
  <1>1. 0 \in 0 .. Requests /\ 0 \in 0 .. MaxPosition + 1 /\ 0 \in Positions
    BY SizesAssumption DEF Positions
  <1> QED
    BY <1>1, TokenIn DEF Other, Token, OtherHidden, Hidden, Hiddens

LEMMA HiddenIn ==
    ASSUME NEW q \in 0 .. Requests, NEW p \in Positions
    PROVE  Hidden(q, p) \in Hiddens
  BY DEF Hidden, Hiddens

LEMMA PairOf ==
    ASSUME NEW S, NEW x \in Pairs(S)
    PROVE  x = <<x[1], x[2]>> /\ x[1] \in S /\ x[2] \in S
  BY DEF Pairs

LEMMA PaddedIn == Padded \in WorkRows
  <1>1. <<0, 0>> \in Pairs(Positions) /\ <<0, 0>> \in Pairs(0 .. MaxPosition + 2)
    BY SizesAssumption DEF Positions, Pairs
  <1>2. 0 \in Positions /\ 0 \in 0 .. 2
    BY SizesAssumption DEF Positions
  <1>3. <<Other, Other>> \in Pairs(Tokens) /\ <<OtherHidden, OtherHidden>> \in Pairs(Hiddens)
    BY OtherIn DEF Pairs
  <1> QED
    BY <1>1, <1>2, <1>3, OtherIn DEF Padded, WorkRows

\* What TypeOK says of a row's slot.
LEMMA RowType ==
    ASSUME TypeOK, NEW r \in Rows
    PROVE  /\ batch[r].slot \in Slots \cup {-1} /\ batch[r].request \in 0 .. Requests
           /\ batch[r].generation \in 0 .. Requests
           /\ batch[r] \in [slot : Slots \cup {-1}, generation : 0 .. Requests, request : 0 .. Requests]
           /\ batch[r].slot # -1 => batch[r].slot \in Slots
  BY DEF TypeOK

LEMMA SlotType ==
    ASSUME TypeOK, NEW s \in Slots
    PROVE  /\ owner[s] \in 0 .. Requests
           /\ state[s] \in [valid : BOOLEAN, generation : 0 .. Requests, tail : Tokens,
                            draft : Tokens, position : Positions, count : 0 .. MaxPosition]
           /\ state[s].position \in Positions /\ state[s].generation \in 0 .. Requests
           /\ state[s].tail \in Tokens /\ state[s].draft \in Tokens
           /\ state[s].count \in 0 .. MaxPosition
           /\ state[s].position \in Nat
  BY SizesAssumption DEF TypeOK, Positions

LEMMA WorkType ==
    ASSUME WorkOK, NEW r \in Rows
    PROVE  /\ work[r] \in WorkRows
           /\ work[r].input \in Pairs(Tokens) /\ work[r].position \in Pairs(Positions)
           /\ work[r].sampling \in Pairs(0 .. MaxPosition + 2)
           /\ work[r].tail \in Tokens /\ work[r].tailPosition \in Positions
           /\ work[r].sampled \in Pairs(Tokens) /\ work[r].hidden \in Pairs(Hiddens)
           /\ work[r].mtpInput \in Pairs(Tokens) /\ work[r].mtpPosition \in Pairs(Positions)
           /\ work[r].accepted \in 0 .. 2 /\ work[r].draft \in Tokens
           /\ work[r].packed \in {<<>>} \cup Pairs(Hiddens)
  BY DEF WorkOK, WorkRows

LEMMA CacheType ==
    ASSUME TypeOK, NEW q \in 0 .. Requests
    PROVE  /\ cache[q] \in [Positions -> Tokens] /\ draftCache[q] \in [Positions -> Hiddens \X Tokens]
           /\ \A p \in Positions : cache[q][p] \in Tokens /\ draftCache[q][p] \in Hiddens \X Tokens
  <1>1. cache \in [0 .. Requests -> [Positions -> Tokens]]
        /\ draftCache \in [0 .. Requests -> [Positions -> Hiddens \X Tokens]]
    BY DEF TypeOK
  <1>2. cache[q] \in [Positions -> Tokens] /\ draftCache[q] \in [Positions -> Hiddens \X Tokens]
    BY <1>1
  <1> QED
    BY <1>2

\* A function given by its values is in the set its values are in.
LEMMA FunctionIn ==
    ASSUME NEW D, NEW S, NEW f, f = [x \in D |-> f[x]], \A x \in D : f[x] \in S
    PROVE  f \in [D -> S]
  OBVIOUS

\* A row that names a slot of a live request is one the step may commit.
LEMMA LiveRow ==
    ASSUME TypeOK, BatchOK, NEW r \in Rows, Live(r)
    PROVE  /\ batch[r].slot \in Slots /\ batch[r].request \in 1 .. Requests
           /\ owner[batch[r].slot] = batch[r].request /\ owner[batch[r].slot] # 0
           /\ Guarded(r)
  <1>1. batch[r].slot \in Slots /\ owner[batch[r].slot] = batch[r].request
    BY RowType DEF Live
  <1>2. RowAt(r) /\ batch[r].slot # -1
    BY DEF BatchOK, Live
  <1>3. batch[r].request \in 1 .. Requests
    BY <1>2, SizesAssumption DEF RowAt, TypeOK
  <1> QED
    BY <1>1, <1>2, <1>3 DEF RowAt

\* A held slot whose request is in the step is that row's slot.
LEMMA HeldRow ==
    ASSUME TypeOK, BatchOK, NEW s \in Slots, owner[s] # 0,
           NEW r \in Rows, batch[r].request = owner[s]
    PROVE  batch[r].slot = s /\ Live(r)
  <1>1. RowAt(r)
    BY DEF BatchOK
  <1>2. batch[r].slot # -1
    BY <1>1 DEF RowAt, NoRow
  <1>3. batch[r].slot = s
    BY <1>1, <1>2 DEF RowAt
  <1> QED
    BY <1>2, <1>3 DEF Live

LEMMA AheadRow ==
    ASSUME TypeOK, BatchOK, NEW r \in Rows, batch[r].slot # -1
    PROVE  Ahead(batch[r].request) = IF phase = "advanced" THEN work[r].accepted ELSE 0
  <1>1. \A x \in Rows : batch[x].request = batch[r].request => x = r
    BY DEF BatchOK
  <1> QED
    BY <1>1 DEF Ahead

LEMMA NewestInt ==
    ASSUME TypeOK, NEW q \in 1 .. Requests
    PROVE  Newest(q) \in Nat
  <1>1. Len(out[q]) \in Nat
    BY DEF TypeOK
  <1> QED
    BY <1>1, SizesAssumption DEF Newest

\* Until a step has committed, a held slot is where the host's answers are.
LEMMA HeldSlot ==
    ASSUME TypeOK, SlotsOK, phase # "advanced", NEW s \in Slots, owner[s] # 0
    PROVE  /\ owner[s] \in 1 .. Requests
           /\ state[s].position = Newest(owner[s])
           /\ state[s].tail = Token(owner[s], Newest(owner[s]) + 1)
           /\ CachedTo(owner[s], Newest(owner[s]))
  <1>1. owner[s] \in 1 .. Requests
    BY SlotType, SizesAssumption
  <1>2. Ahead(owner[s]) = 0
    BY DEF Ahead
  <1>3. state[s].position = Newest(owner[s]) + 0
    BY <1>2 DEF SlotsOK
  <1>4. state[s].position = Newest(owner[s])
    BY <1>1, <1>3, NewestInt
  <1> QED
    BY <1>1, <1>4 DEF SlotsOK

LEMMA AheadNone ==
    ASSUME NEW q, \A r \in Rows : batch[r].request # q
    PROVE  Ahead(q) = 0
  BY DEF Ahead

-----------------------------------------------------------------------------
\* What a forward caches: the two rows of a request in the step, each at its
\* position, and nothing for a request that is not in it.
LEMMA LatestIn ==
    ASSUME NEW W \in SUBSET (Rows \X {1, 2}), W # {}
    PROVE  /\ Latest(W) \in W
           /\ \A v \in W : v[2] <= Latest(W)[2]
           /\ Latest(W)[1] \in Rows /\ Latest(W)[2] \in {1, 2}
  <1>1. \E w \in W : \A v \in W : v[2] <= w[2]
    <2>1. CASE \E w \in W : w[2] = 2
      BY <2>1
    <2>2. CASE \A w \in W : w[2] = 1
      BY <2>2
    <2> QED
      BY <2>1, <2>2
  <1>2. Latest(W) \in W /\ \A v \in W : v[2] <= Latest(W)[2]
    BY <1>1 DEF Latest
  <1> QED
    BY <1>2

LEMMA CachedAt ==
    ASSUME NEW q, NEW p \in Positions
    PROVE  Cached(q)[p] = IF Writers(q, p) = {} THEN cache[q][p]
                          ELSE work[Latest(Writers(q, p))[1]].input[Latest(Writers(q, p))[2]]
  BY DEF Cached

LEMMA CachedType ==
    ASSUME TypeOK, WorkOK, NEW q \in 0 .. Requests
    PROVE  Cached(q) \in [Positions -> Tokens]
  <1>1. ASSUME NEW p \in Positions
        PROVE  Cached(q)[p] \in Tokens
    <2>1. CASE Writers(q, p) = {}
      <3>1. cache[q][p] \in Tokens
        BY CacheType
      <3> QED
        BY <2>1, <3>1, CachedAt
    <2>2. CASE Writers(q, p) # {}
      <3> DEFINE x == Latest(Writers(q, p))
      <3>1. Writers(q, p) \in SUBSET (Rows \X {1, 2})
        BY DEF Writers
      <3>2. x[1] \in Rows /\ x[2] \in {1, 2}
        BY <2>2, <3>1, LatestIn
      <3>3. work[x[1]].input[1] \in Tokens /\ work[x[1]].input[2] \in Tokens
        BY <3>2, WorkType, PairOf
      <3>4. work[x[1]].input[x[2]] \in Tokens
        BY <3>2, <3>3
      <3> QED
        BY <2>2, <3>4, CachedAt
    <2> QED
      BY <2>1, <2>2
  <1> DEFINE f == Cached(q)
  <1>2. f = [p \in Positions |-> f[p]]
    BY DEF Cached
  <1>3. \A p \in Positions : f[p] \in Tokens
    BY <1>1
  <1>4. f \in [Positions -> Tokens]
    <2> HIDE DEF f
    <2> QED
      BY <1>2, <1>3
  <1> QED
    BY <1>4 DEF f

LEMMA CachedOther ==
    ASSUME TypeOK, NEW q \in 0 .. Requests, \A r \in Rows : batch[r].request # q
    PROVE  Cached(q) = cache[q]
  <1>1. \A p \in Positions : Writers(q, p) = {}
    BY DEF Writers
  <1>2. \A p \in Positions : Cached(q)[p] = cache[q][p]
    BY <1>1, CachedAt
  <1>3. DOMAIN Cached(q) = Positions /\ Cached(q) = [p \in Positions |-> Cached(q)[p]]
    BY DEF Cached
  <1>4. cache[q] \in [Positions -> Tokens]
    BY DEF TypeOK
  <1> QED
    BY <1>2, <1>3, <1>4

LEMMA CachedLive ==
    ASSUME TypeOK, WorkOK, BatchOK, NEW r \in Rows, batch[r].slot # -1,
           NEW n \in Int, work[r].position = <<n + 1, n + 2>>, NEW p \in Positions
    PROVE  Cached(batch[r].request)[p] = IF p = n + 1 THEN work[r].input[1]
                                         ELSE IF p = n + 2 THEN work[r].input[2]
                                         ELSE cache[batch[r].request][p]
  <1> DEFINE q == batch[r].request
             W == Writers(q, p)
  <1>1. \A x \in Rows : batch[x].request = q => x = r
    BY DEF BatchOK
  <1>2. W \in SUBSET (Rows \X {1, 2}) /\ \A x \in W : x[1] = r /\ work[r].position[x[2]] = p
    BY <1>1 DEF Writers
  <1>3. work[r].position[1] = n + 1 /\ work[r].position[2] = n + 2
    OBVIOUS
  <1>4. CASE W = {}
    <2>1. p # n + 1
      <3>1. p = n + 1 => <<r, 1>> \in W
        BY <1>3 DEF Writers
      <3> QED
        BY <3>1, <1>4
    <2>2. p # n + 2
      <3>1. p = n + 2 => <<r, 2>> \in W
        BY <1>3 DEF Writers
      <3> QED
        BY <3>1, <1>4
    <2> QED
      BY <1>4, <2>1, <2>2, CachedAt
  <1>5. CASE W # {}
    <2>1. Latest(W) \in W /\ Latest(W)[2] \in {1, 2}
      BY <1>2, <1>5, LatestIn
    <2>2. Latest(W)[1] = r /\ work[r].position[Latest(W)[2]] = p
      BY <1>2, <2>1
    <2>3. Cached(q)[p] = work[r].input[Latest(W)[2]]
      BY <1>5, <2>2, CachedAt
    <2> QED
      BY <1>3, <2>1, <2>2, <2>3
  <1> QED
    BY <1>4, <1>5

\* What the MTP layer caches is typed.
LEMMA DraftCachedType ==
    ASSUME TypeOK, WorkOK, NEW q \in 0 .. Requests, \A r \in Rows : work[r].packed # <<>>
    PROVE  DraftCached(q) \in [Positions -> Hiddens \X Tokens]
  <1>1. ASSUME NEW p \in Positions
        PROVE  DraftCached(q)[p] \in Hiddens \X Tokens
    <2> DEFINE W == DraftWriters(q, p)
    <2>0. W \in SUBSET (Rows \X {1, 2})
      BY DEF DraftWriters
    <2>1. DraftCached(q)[p] = IF W = {} THEN draftCache[q][p]
                              ELSE <<work[Latest(W)[1]].packed[Latest(W)[2]],
                                     work[Latest(W)[1]].mtpInput[Latest(W)[2]]>>
      BY DEF DraftCached
    <2>2. CASE W = {}
      <3>1. draftCache[q][p] \in Hiddens \X Tokens
        BY CacheType
      <3> QED
        BY <2>1, <2>2, <3>1
    <2>3. CASE W # {}
      <3>1. Latest(W)[1] \in Rows /\ Latest(W)[2] \in {1, 2}
        BY <2>0, <2>3, LatestIn
      <3> DEFINE r == Latest(W)[1]
      <3>2. work[r].packed \in Pairs(Hiddens) /\ work[r].mtpInput \in Pairs(Tokens)
        BY <3>1, WorkType
      <3>3. /\ work[r].packed[1] \in Hiddens /\ work[r].packed[2] \in Hiddens
            /\ work[r].mtpInput[1] \in Tokens /\ work[r].mtpInput[2] \in Tokens
        BY <3>2, PairOf
      <3>4. work[r].packed[Latest(W)[2]] \in Hiddens /\ work[r].mtpInput[Latest(W)[2]] \in Tokens
        BY <3>1, <3>3
      <3> HIDE DEF W
      <3> QED
        BY <2>1, <2>3, <3>4
    <2> QED
      BY <2>2, <2>3
  <1> DEFINE f == DraftCached(q)
  <1>2. f = [p \in Positions |-> f[p]]
    BY DEF DraftCached
  <1>3. \A p \in Positions : f[p] \in Hiddens \X Tokens
    BY <1>1
  <1>4. f \in [Positions -> Hiddens \X Tokens]
    <2> HIDE DEF f
    <2> QED
      BY <1>2, <1>3
  <1> QED
    BY <1>4 DEF f

-----------------------------------------------------------------------------
LEMMA InitInv == Init => CommitInv
  <1> SUFFICES ASSUME Init PROVE CommitInv
    OBVIOUS
  <1> USE DEF Init, Plain!Init
  <1>0. 0 \in 0 .. Requests /\ 0 \in Positions /\ 0 \in 0 .. MaxPosition /\ 0 \notin 1 .. Requests
    BY SizesAssumption DEF Positions
  <1>1. TypeOK
    <2>1. owner \in [Slots -> 0 .. Requests] /\ assigned \in 0 .. Requests
          /\ out \in [1 .. Requests -> Seq(Tokens)] /\ phase \in Phases /\ overlap \in Overlaps
      BY <1>0 DEF Phases
    <2>2. batch \in [Rows -> [slot : Slots \cup {-1}, generation : 0 .. Requests,
                              request : 0 .. Requests]]
      BY <1>0 DEF NoRow
    <2>3. state \in [Slots -> [valid : BOOLEAN, generation : 0 .. Requests, tail : Tokens,
                               draft : Tokens, position : Positions, count : 0 .. MaxPosition]]
      BY <1>0, OtherIn
    <2>4. pool \in [Slots -> Hiddens]
      BY OtherIn
    <2>5. cache \in [0 .. Requests -> [Positions -> Tokens]]
          /\ draftCache \in [0 .. Requests -> [Positions -> Hiddens \X Tokens]]
      BY OtherIn
    <2>6. \A r \in Rows : /\ work[r].position \in Pairs(Positions)
                          /\ work[r].mtpPosition \in Pairs(Positions)
                          /\ work[r].accepted \in 0 .. 2
      BY <1>0, PaddedIn DEF WorkRows
    <2> QED
      BY <2>1, <2>2, <2>3, <2>4, <2>5, <2>6 DEF TypeOK
  <1>2. WorkOK
    BY PaddedIn DEF WorkOK
  <1>3. OwnersOK
    BY <1>0 DEF OwnersOK
  <1>4. BatchOK
    BY DEF BatchOK, RowAt, NoRow
  <1>5. SlotsOK
    BY DEF SlotsOK
  <1>6. WorkAgrees
    BY DEF WorkAgrees, Guarded, Live, NoRow
  <1> QED
    BY <1>1, <1>2, <1>3, <1>4, <1>5, <1>6 DEF CommitInv

-----------------------------------------------------------------------------
\* A new request's slot: whatever step is in flight was submitted for an older
\* generation of it.
LEMMA AssignInv ==
    ASSUME CommitInv, NEW s \in Slots, Assign(s), UNCHANGED overlap
    PROVE  CommitInv'
  <1> DEFINE q == assigned + 1
  <1> USE DEF Plain!Assign
  <1>a. TypeOK /\ WorkOK /\ OwnersOK /\ BatchOK /\ SlotsOK /\ WorkAgrees
    BY DEF CommitInv
  <1>b. /\ owner[s] = 0 /\ assigned < Requests /\ assigned' = q
        /\ owner' = [owner EXCEPT ![s] = q] /\ out' = out
        /\ UNCHANGED <<phase, batch, work>> /\ HostMay
    BY DEF Assign
  <1>c. q \in 1 .. Requests /\ assigned \in 0 .. Requests /\ assigned \in Nat
    BY <1>a, <1>b, SizesAssumption DEF TypeOK
  <1>d. PICK draft \in {Token(q, Prompt + 1), Other} :
          state' = [state EXCEPT ![s] =
                      [valid |-> TRUE, generation |-> state[s].generation + 1,
                       tail |-> Token(q, Prompt), draft |-> draft,
                       position |-> Prompt - 1, count |-> 0]]
    BY <1>a DEF Assign, TypeOK
  <1>e. Prompt - 1 \in Positions /\ Prompt \in Positions /\ Prompt \in Nat /\ MaxPosition \in Nat
    BY SizesAssumption DEF Positions
  <1>f. /\ pool' = [pool EXCEPT ![s] = Hidden(q, Prompt - 1)]
        /\ cache' = [cache EXCEPT ![q] =
                       [p \in Positions |-> IF p < Prompt THEN Token(q, p) ELSE Other]]
        /\ draftCache' = [draftCache EXCEPT ![q] =
                            [p \in Positions |-> IF p < Prompt
                                                   THEN <<Hidden(q, p), Token(q, p + 1)>>
                                                   ELSE <<OtherHidden, Other>>]]
    BY DEF Assign
  <1>g. phase \in {"idle", "submitted", "advanced"}
    BY <1>b DEF HostMay
  <1>h. state[s].generation \in 0 .. assigned
    BY <1>a, <1>c, SlotType DEF OwnersOK
  <1>i. /\ \A x \in Slots : x # s => owner'[x] = owner[x] /\ state'[x] = state[x]
        /\ owner'[s] = q /\ state'[s].valid /\ state'[s].generation = state[s].generation + 1
        /\ state'[s].tail = Token(q, Prompt) /\ state'[s].position = Prompt - 1
        /\ state'[s].count = 0
    BY <1>a, <1>b, <1>d DEF TypeOK
  <1>j. \A x \in Slots : owner[x] \in 0 .. assigned
    BY <1>a, <1>c, SlotType DEF OwnersOK
  <1>k. \A r \in Rows : batch[r].request <= assigned /\ batch[r].request # q
    <2> TAKE r \in Rows
    <2>1. RowAt(r) /\ batch[r].request \in 0 .. Requests
      BY <1>a, RowType DEF BatchOK
    <2>2. batch[r].request \in 0 .. assigned
      BY <1>c, <2>1 DEF RowAt, NoRow
    <2> QED
      BY <1>c, <2>2
  <1>1. TypeOK'
    <2>1. owner' \in [Slots -> 0 .. Requests] /\ assigned' \in 0 .. Requests
      BY <1>a, <1>b, <1>c DEF TypeOK
    <2>2. state' \in [Slots -> [valid : BOOLEAN, generation : 0 .. Requests, tail : Tokens,
                               draft : Tokens, position : Positions, count : 0 .. MaxPosition]]
      <3>1. Token(q, Prompt + 1) \in Tokens /\ Token(q, Prompt) \in Tokens
        BY <1>c, SizesAssumption, TokenIn
      <3>2. state[s].generation + 1 \in 0 .. Requests
        BY <1>b, <1>c, <1>h, SizesAssumption
      <3>3. draft \in Tokens
        BY <3>1, OtherIn
      <3>4. 0 \in 0 .. MaxPosition
        BY <1>e
      <3>5. [valid |-> TRUE, generation |-> state[s].generation + 1,
             tail |-> Token(q, Prompt), draft |-> draft, position |-> Prompt - 1, count |-> 0]
            \in [valid : BOOLEAN, generation : 0 .. Requests, tail : Tokens,
                 draft : Tokens, position : Positions, count : 0 .. MaxPosition]
        BY <1>e, <3>1, <3>2, <3>3, <3>4
      <3> QED
        BY <1>a, <1>d, <3>5 DEF TypeOK
    <2>3. pool' \in [Slots -> Hiddens]
      BY <1>a, <1>c, <1>e, <1>f, HiddenIn DEF TypeOK
    <2>4. cache' \in [0 .. Requests -> [Positions -> Tokens]]
      <3>1. \A p \in Positions : Token(q, p) \in Tokens
        BY <1>c, <1>e, TokenIn DEF Positions
      <3>2. [p \in Positions |-> IF p < Prompt THEN Token(q, p) ELSE Other] \in [Positions -> Tokens]
        BY <3>1, OtherIn
      <3> QED
        BY <1>a, <1>f, <3>2 DEF TypeOK
    <2>5. draftCache' \in [0 .. Requests -> [Positions -> Hiddens \X Tokens]]
      <3>1. \A p \in Positions : Token(q, p + 1) \in Tokens /\ Hidden(q, p) \in Hiddens
        BY <1>c, <1>e, TokenIn, HiddenIn DEF Positions
      <3>2. [p \in Positions |-> IF p < Prompt THEN <<Hidden(q, p), Token(q, p + 1)>>
                                 ELSE <<OtherHidden, Other>>] \in [Positions -> Hiddens \X Tokens]
        BY <3>1, OtherIn
      <3> QED
        BY <1>a, <1>f, <3>2 DEF TypeOK
    <2> QED
      BY <1>a, <1>b, <2>1, <2>2, <2>3, <2>4, <2>5 DEF TypeOK
  <1>2. WorkOK'
    BY <1>a, <1>b DEF WorkOK
  <1>3. OwnersOK'
    <2>1. \A x, y \in Slots : owner'[x] # 0 /\ owner'[x] = owner'[y] => x = y
      BY <1>a, <1>c, <1>i, <1>j DEF OwnersOK
    <2>2. \A x \in Slots : owner'[x] <= assigned' /\ state'[x].generation <= assigned'
      <3> TAKE x \in Slots
      <3>1. owner[x] \in 0 .. assigned /\ state[x].generation \in 0 .. assigned
        BY <1>a, <1>c, SlotType DEF OwnersOK
      <3> QED
        BY <1>b, <1>c, <1>i, <3>1
    <2>3. \A x \in Slots : owner'[x] # 0 => state'[x].valid
      BY <1>a, <1>i DEF OwnersOK
    <2>4. \A x \in 1 .. Requests : x > assigned' => out'[x] = <<>>
      BY <1>a, <1>b, <1>c DEF OwnersOK
    <2> QED
      BY <2>1, <2>2, <2>3, <2>4 DEF OwnersOK
  <1>4. BatchOK'
    <2>1. ASSUME NEW r \in Rows
          PROVE  RowAt(r)'
      <3>1. RowAt(r) /\ batch'[r] = batch[r] /\ batch[r].slot \in Slots \cup {-1}
            /\ batch[r].generation \in 0 .. Requests /\ batch[r].request <= assigned
            /\ batch[r].request # q
        BY <1>a, <1>b, <1>k, RowType DEF BatchOK
      <3>2. CASE batch[r].slot = -1
        BY <3>1, <3>2 DEF RowAt, NoRow
      <3>3. CASE batch[r].slot # -1 /\ batch[r].slot # s
        <4>1. batch[r].slot \in Slots
          BY <3>1, <3>3
        <4>2. owner'[batch[r].slot] = owner[batch[r].slot] /\ state'[batch[r].slot] = state[batch[r].slot]
          BY <1>i, <3>3, <4>1
        <4>3. Guarded(r)' = Guarded(r)
          BY <3>1, <4>2 DEF Guarded
        <4>4. \A x \in Slots : owner'[x] = batch[r].request => x = batch[r].slot
          BY <1>i, <3>1, <3>3 DEF RowAt
        <4>5. batch[r].request \in 1 .. assigned'
          BY <1>b, <1>c, <3>1, <3>3 DEF RowAt
        <4> QED
          BY <3>1, <3>3, <4>2, <4>3, <4>4, <4>5 DEF RowAt
      <3>4. CASE batch[r].slot = s
        <4>1. s # -1
          BY SizesAssumption
        <4>2. batch[r].generation <= state[s].generation /\ batch[r].request \in 1 .. assigned
          BY <3>1, <3>4, <4>1 DEF RowAt
        <4>3. batch[r].generation < state'[s].generation
          BY <1>h, <1>i, <3>1, <4>2
        <4>4. ~Guarded(r)'
          BY <1>h, <1>i, <3>1, <3>4, <4>3 DEF Guarded
        <4>5. owner'[s] # batch[r].request
          BY <1>i, <3>1
        <4>6. \A x \in Slots : owner'[x] = batch[r].request => x = s
          BY <1>i, <3>1, <3>4, <4>1 DEF RowAt
        <4>7. batch[r].generation <= state'[s].generation /\ batch[r].request \in 1 .. assigned'
          BY <1>b, <1>c, <1>h, <1>i, <3>1, <4>2
        <4> QED
          BY <3>1, <3>4, <4>1, <4>4, <4>5, <4>6, <4>7 DEF RowAt
      <3> QED
        BY <3>2, <3>3, <3>4
    <2>2. phase' = "idle" => \A r \in Rows : batch'[r] = NoRow
      BY <1>a, <1>b DEF BatchOK
    <2>3. \A r, x \in Rows : batch'[r].slot # -1 /\ r # x =>
              batch'[r].slot # batch'[x].slot /\ batch'[r].request # batch'[x].request
      BY <1>a, <1>b DEF BatchOK
    <2> QED
      BY <2>1, <2>2, <2>3 DEF BatchOK
  <1>5. SlotsOK'
    <2>1. ASSUME NEW x \in Slots
          PROVE  /\ state'[x].valid => state'[x].position = Prompt - 1 + state'[x].count
                 /\ owner'[x] # 0 =>
                      /\ state'[x].position = Newest(owner[x])' + Ahead(owner[x])'
                      /\ state'[x].tail = Token(owner'[x], state'[x].position + 1)
                      /\ CachedTo(owner[x], state[x].position)'
      <3>1. CASE x = s
        <4>1. out[q] = <<>> /\ Newest(owner[x])' = Prompt - 1
          <5>1. out[q] = <<>>
            BY <1>a, <1>c DEF OwnersOK
          <5> QED
            BY <1>b, <1>e, <1>i, <3>1, <5>1 DEF Newest
        <4>2. Ahead(owner[x])' = 0
          BY <1>b, <1>i, <1>k, <3>1 DEF Ahead
        <4>3. \A p \in 0 .. Prompt - 1 : cache'[q][p] = Token(q, p)
          <5>1. cache'[q] = [p \in Positions |-> IF p < Prompt THEN Token(q, p) ELSE Other]
            BY <1>a, <1>c, <1>f DEF TypeOK
          <5> QED
            BY <1>e, <5>1 DEF Positions
        <4>4. Token(q, Prompt) = Token(q, Prompt - 1 + 1)
          BY <1>e
        <4> QED
          BY <1>e, <1>i, <3>1, <4>1, <4>2, <4>3, <4>4 DEF CachedTo
      <3>2. CASE x # s
        <4>1. owner'[x] = owner[x] /\ state'[x] = state[x] /\ owner[x] # q
          BY <1>c, <1>i, <1>j, <3>2
        <4>2. Newest(owner[x])' = Newest(owner[x]) /\ Ahead(owner[x])' = Ahead(owner[x])
          BY <1>b, <4>1 DEF Newest, Ahead
        <4>3. owner[x] # 0 => cache'[owner[x]] = cache[owner[x]]
          BY <1>a, <1>c, <1>f, <4>1, SlotType DEF TypeOK
        <4>4. owner[x] # 0 => CachedTo(owner[x], state[x].position)' = CachedTo(owner[x], state[x].position)
          BY <4>1, <4>3 DEF CachedTo
        <4> QED
          BY <1>a, <4>1, <4>2, <4>4 DEF SlotsOK
      <3> QED
        BY <3>1, <3>2
    <2> QED
      BY <2>1 DEF SlotsOK
  <1>6. WorkAgrees'
    <2>1. ASSUME NEW r \in Rows
          PROVE  /\ phase' \in {"verified", "drafted", "advanced"} => work'[r].accepted \in {1, 2}
                 /\ Guarded(r)' => PositionsAt(r, state[batch[r].slot].position)'
                 /\ Live(r)' => ContentsAt(r, batch[r].request, Newest(batch[r].request))'
      <3>1. RowAt(r)' /\ RowAt(r) /\ batch[r].slot \in Slots \cup {-1}
        BY <1>a, <1>4, RowType DEF BatchOK
      <3>2. phase' \in {"verified", "drafted", "advanced"} => work'[r].accepted \in {1, 2}
        BY <1>a, <1>b DEF WorkAgrees
      <3>3. CASE batch[r].slot = -1
        BY <1>b, <3>2, <3>3 DEF Guarded, Live
      <3>4. CASE batch[r].slot = s
        <4>1. ~Live(r)'
          BY <1>b, <1>i, <1>k, <3>4 DEF Live
        <4>2. ~Guarded(r)'
          <5>1. s # -1 /\ batch[r].generation <= state[s].generation /\ batch[r].generation \in Nat
            BY <1>a, <3>1, <3>4, SizesAssumption, RowType DEF RowAt
          <5> QED
            BY <1>b, <1>h, <1>i, <3>4, <5>1 DEF Guarded
        <4> QED
          BY <3>2, <4>1, <4>2
      <3>5. CASE batch[r].slot \in Slots \ {s}
        <4>1. owner'[batch[r].slot] = owner[batch[r].slot] /\ state'[batch[r].slot] = state[batch[r].slot]
          BY <1>i, <3>5
        <4>2. Guarded(r)' = Guarded(r) /\ Live(r)' = Live(r)
          BY <1>b, <4>1 DEF Guarded, Live
        <4>3. PositionsAt(r, state[batch[r].slot].position)' = PositionsAt(r, state[batch[r].slot].position)
          BY <1>b, <4>1 DEF PositionsAt
        <4>4. Newest(batch[r].request)' = Newest(batch[r].request)
          BY <1>b DEF Newest
        <4>5. Live(r) => cache'[batch[r].request] = cache[batch[r].request]
          <5>1. Live(r) => batch[r].request \in 1 .. Requests /\ batch[r].request # q
            BY <1>a, <1>k, LiveRow
          <5> QED
            BY <1>a, <1>f, <5>1 DEF TypeOK
        <4>6. Live(r) => ContentsAt(r, batch[r].request, Newest(batch[r].request))'
          BY <1>a, <1>b, <4>4, <4>5 DEF WorkAgrees, ContentsAt, CachedTo
        <4> QED
          BY <1>a, <3>2, <4>2, <4>3, <4>6 DEF WorkAgrees
      <3> QED
        BY <3>1, <3>3, <3>4, <3>5
    <2> QED
      BY <2>1 DEF WorkAgrees
  <1> QED
    BY <1>1, <1>2, <1>3, <1>4, <1>5, <1>6 DEF CommitInv

LEMMA ReleaseInv ==
    ASSUME CommitInv, NEW s \in Slots, Release(s), UNCHANGED overlap
    PROVE  CommitInv'
  <1>a. TypeOK /\ WorkOK /\ OwnersOK /\ BatchOK /\ SlotsOK /\ WorkAgrees
    BY DEF CommitInv
  <1>b. /\ owner' = [owner EXCEPT ![s] = 0]
        /\ UNCHANGED <<assigned, out, phase, batch, state, pool, cache, draftCache, work, overlap>>
    BY DEF Release, Plain!Release
  <1>c. /\ \A x \in Slots : x # s => owner'[x] = owner[x]
        /\ owner'[s] = 0 /\ 0 \in 0 .. Requests /\ owner \in [Slots -> 0 .. Requests]
        /\ assigned \in Nat
    BY <1>a, <1>b, SizesAssumption DEF TypeOK
  <1>1. TypeOK'
    BY <1>a, <1>b, <1>c DEF TypeOK
  <1>2. WorkOK'
    BY <1>a, <1>b DEF WorkOK
  <1>3. OwnersOK'
    <2>1. \A x \in Slots : owner'[x] <= assigned'
      BY <1>a, <1>b, <1>c DEF OwnersOK
    <2>2. \A x, y \in Slots : owner'[x] # 0 /\ owner'[x] = owner'[y] => x = y
      BY <1>a, <1>c DEF OwnersOK
    <2> QED
      BY <1>a, <1>b, <1>c, <2>1, <2>2 DEF OwnersOK
  <1>4. BatchOK'
    <2>1. ASSUME NEW r \in Rows
          PROVE  RowAt(r)'
      <3>1. RowAt(r) /\ batch'[r] = batch[r] /\ batch[r].slot \in Slots \cup {-1}
            /\ Guarded(r)' = Guarded(r)
        BY <1>a, <1>b, RowType DEF BatchOK, Guarded
      <3>2. batch[r].slot # -1 => batch[r].request # 0
        BY <1>c, <3>1 DEF RowAt
      <3>3. batch[r].slot # -1 => \A x \in Slots : owner'[x] = batch[r].request => x = batch[r].slot
        BY <1>c, <3>1, <3>2 DEF RowAt
      <3>4. batch[r].slot # -1 /\ owner'[batch[r].slot] = batch[r].request => Guarded(r)
        BY <1>c, <3>1, <3>2 DEF RowAt
      <3>5. batch[r].slot # -1 /\ Guarded(r) => owner'[batch[r].slot] \in {0, batch[r].request}
        BY <1>c, <3>1 DEF RowAt
      <3> QED
        BY <1>b, <3>1, <3>3, <3>4, <3>5 DEF RowAt
    <2> QED
      BY <1>a, <1>b, <2>1 DEF BatchOK
  <1>5. SlotsOK'
    <2>1. \A x \in Slots : owner'[x] # 0 => owner'[x] = owner[x]
      BY <1>c
    <2>2. \A x \in Slots : Newest(owner[x])' = Prompt - 1 + Len(out[owner'[x]])
      BY <1>b DEF Newest
    <2>3. ASSUME NEW x \in Slots
          PROVE  /\ state'[x].valid => state'[x].position = Prompt - 1 + state'[x].count
                 /\ owner'[x] # 0 =>
                      /\ state'[x].position = Newest(owner[x])' + Ahead(owner[x])'
                      /\ state'[x].tail = Token(owner'[x], state'[x].position + 1)
                      /\ CachedTo(owner[x], state[x].position)'
      <3>1. owner'[x] # 0 => Newest(owner[x])' = Newest(owner[x]) /\ Ahead(owner[x])' = Ahead(owner[x])
            /\ CachedTo(owner[x], state[x].position)' = CachedTo(owner[x], state[x].position)
        BY <1>b, <2>1 DEF Newest, Ahead, CachedTo
      <3> QED
        BY <1>a, <1>b, <2>1, <3>1 DEF SlotsOK
    <2> QED
      BY <2>3 DEF SlotsOK
  <1>6. WorkAgrees'
    <2>1. ASSUME NEW r \in Rows
          PROVE  /\ phase' \in {"verified", "drafted", "advanced"} => work'[r].accepted \in {1, 2}
                 /\ Guarded(r)' => PositionsAt(r, state[batch[r].slot].position)'
                 /\ Live(r)' => ContentsAt(r, batch[r].request, Newest(batch[r].request))'
      <3>1. RowAt(r) /\ batch[r].slot \in Slots \cup {-1}
        BY <1>a, RowType DEF BatchOK
      <3>2. Guarded(r)' = Guarded(r)
            /\ PositionsAt(r, state[batch[r].slot].position)' = PositionsAt(r, state[batch[r].slot].position)
        BY <1>b DEF Guarded, PositionsAt
      <3>3. Live(r)' => Live(r)
        BY <1>b, <1>c, <3>1 DEF Live, RowAt
      <3>4. ContentsAt(r, batch[r].request, Newest(batch[r].request))'
              = ContentsAt(r, batch[r].request, Newest(batch[r].request))
        BY <1>b DEF ContentsAt, Newest, CachedTo
      <3> QED
        BY <1>a, <1>b, <3>2, <3>3, <3>4 DEF WorkAgrees
    <2> QED
      BY <2>1 DEF WorkAgrees
  <1> QED
    BY <1>1, <1>2, <1>3, <1>4, <1>5, <1>6 DEF CommitInv

LEMMA SubmitInv ==
    ASSUME CommitInv, Submit, UNCHANGED overlap
    PROVE  CommitInv'
  <1>a. TypeOK /\ WorkOK /\ OwnersOK /\ BatchOK /\ SlotsOK /\ WorkAgrees
    BY DEF CommitInv
  <1>b. PICK slot \in [Rows -> Slots \cup {-1}] :
          /\ \A r \in Rows : slot[r] # -1 =>
                 /\ owner[slot[r]] # 0
                 /\ state[slot[r]].position + 2 \in Positions
                 /\ \A x \in Rows \ {r} : slot[x] # slot[r]
          /\ batch' = [r \in Rows |->
                IF slot[r] = -1 THEN NoRow
                ELSE [slot |-> slot[r], generation |-> state[slot[r]].generation,
                      request |-> owner[slot[r]]]]
    BY DEF Submit
  <1>c. /\ phase = "idle" /\ phase' = "submitted" /\ work' = [r \in Rows |-> Padded]
        /\ UNCHANGED <<overlap, owner, assigned, out, state, pool, cache, draftCache>>
    BY DEF Submit
  <1>d. ASSUME NEW r \in Rows
        PROVE  /\ slot[r] = -1 => batch'[r] = NoRow /\ batch'[r].slot = -1
               /\ slot[r] # -1 =>
                    /\ slot[r] \in Slots /\ batch'[r].slot = slot[r]
                    /\ batch'[r].generation = state[slot[r]].generation
                    /\ batch'[r].request = owner[slot[r]] /\ owner[slot[r]] \in 1 .. assigned
                    /\ state[slot[r]].valid
    <2>1. slot[r] = -1 => batch'[r] = NoRow /\ batch'[r].slot = -1
      BY <1>b DEF NoRow
    <2>2. ASSUME slot[r] # -1
          PROVE  owner[slot[r]] \in 1 .. assigned /\ state[slot[r]].valid
      <3>1. slot[r] \in Slots
        BY <1>b, <2>2
      <3>2. owner[slot[r]] \in 0 .. Requests /\ owner[slot[r]] # 0 /\ assigned \in Nat
        BY <1>a, <1>b, <2>2, <3>1, SizesAssumption, SlotType DEF TypeOK
      <3> QED
        BY <1>a, <3>1, <3>2, SizesAssumption DEF OwnersOK
    <2> QED
      BY <1>b, <2>1, <2>2
  <1>e. assigned \in 0 .. Requests /\ Requests \in Nat
    BY <1>a, SizesAssumption DEF TypeOK
  <1>1. TypeOK'
    <2>1. ASSUME NEW r \in Rows
          PROVE  batch'[r] \in [slot : Slots \cup {-1}, generation : 0 .. Requests, request : 0 .. Requests]
      <3>1. CASE slot[r] = -1
        BY <1>d, <1>e, <3>1 DEF NoRow
      <3>2. CASE slot[r] # -1
        <4>1. slot[r] \in Slots /\ owner[slot[r]] \in 0 .. Requests
              /\ state[slot[r]].generation \in 0 .. Requests
          BY <1>a, <1>d, <3>2, SlotType
        <4>2. batch'[r] = [slot |-> slot[r], generation |-> state[slot[r]].generation,
                           request |-> owner[slot[r]]]
          BY <1>b, <3>2
        <4> QED
          BY <4>1, <4>2
      <3> QED
        BY <3>1, <3>2
    <2>2. batch' \in [Rows -> [slot : Slots \cup {-1}, generation : 0 .. Requests, request : 0 .. Requests]]
      BY <1>b, <2>1
    <2>3. \A r \in Rows : /\ work'[r].position \in Pairs(Positions)
                          /\ work'[r].mtpPosition \in Pairs(Positions)
                          /\ work'[r].accepted \in 0 .. 2
      BY <1>c, PaddedIn DEF WorkRows
    <2> QED
      BY <1>a, <1>c, <2>2, <2>3 DEF TypeOK, Phases
  <1>2. WorkOK'
    BY <1>c, PaddedIn DEF WorkOK
  <1>3. OwnersOK'
    BY <1>a, <1>c DEF OwnersOK
  <1>4. BatchOK'
    <2>1. ASSUME NEW r \in Rows
          PROVE  RowAt(r)'
      <3>1. CASE slot[r] = -1
        BY <1>d, <3>1 DEF RowAt
      <3>2. CASE slot[r] # -1
        <4>1. \A x \in Slots : owner[x] = owner[slot[r]] => x = slot[r]
          BY <1>a, <1>b, <1>d, <3>2 DEF OwnersOK
        <4>2. state[slot[r]].generation \in 0 .. Requests
          BY <1>a, <1>d, <3>2, SlotType
        <4>3. Guarded(r)'
          BY <1>c, <1>d, <3>2 DEF Guarded
        <4> QED
          BY <1>c, <1>d, <1>e, <3>2, <4>1, <4>2, <4>3 DEF RowAt
      <3> QED
        BY <3>1, <3>2
    <2>2. ASSUME NEW r \in Rows, NEW x \in Rows, batch'[r].slot # -1, r # x
          PROVE  batch'[r].slot # batch'[x].slot /\ batch'[r].request # batch'[x].request
      <3>1. slot[r] # -1 /\ slot[x] # slot[r] /\ owner[slot[r]] # 0 /\ slot[r] \in Slots
        BY <1>b, <1>d, <2>2
      <3>2. CASE slot[x] = -1
        BY <1>d, <3>1, <3>2 DEF NoRow
      <3>3. CASE slot[x] # -1
        BY <1>a, <1>d, <3>1, <3>3 DEF OwnersOK
      <3> QED
        BY <3>2, <3>3
    <2> QED
      BY <1>c, <2>1, <2>2 DEF BatchOK
  <1>5. SlotsOK'
    <2>1. \A q : Newest(q)' = Newest(q) /\ Ahead(q)' = Ahead(q)
      BY <1>c DEF Newest, Ahead
    <2>2. \A q, n : CachedTo(q, n)' = CachedTo(q, n)
      BY <1>c DEF CachedTo
    <2> QED
      BY <1>a, <1>c, <2>1, <2>2 DEF SlotsOK
  <1>6. WorkAgrees'
    <2>1. ASSUME NEW r \in Rows, Guarded(r)'
          PROVE  PositionsAt(r, state[batch[r].slot].position)'
      <3>1. slot[r] # -1 /\ state'[batch'[r].slot].position = state[slot[r]].position
        BY <1>c, <1>d, <2>1 DEF Guarded
      <3> QED
        BY <1>b, <1>c, <3>1 DEF PositionsAt
    <2>2. ASSUME NEW r \in Rows
          PROVE  ContentsAt(r, batch[r].request, Newest(batch[r].request))'
      BY <1>c DEF ContentsAt
    <2> QED
      BY <1>c, <2>1, <2>2 DEF WorkAgrees
  <1> QED
    BY <1>1, <1>2, <1>3, <1>4, <1>5, <1>6 DEF CommitInv

-----------------------------------------------------------------------------
\* A step on the device that leaves the slots' state and the main cache alone.
LEMMA DeviceStep ==
    ASSUME OwnersOK, BatchOK, SlotsOK,
           UNCHANGED <<owner, assigned, out, batch, state, cache>>,
           phase \notin {"idle", "advanced"}, phase' \notin {"idle", "advanced"}
    PROVE  /\ OwnersOK' /\ BatchOK' /\ SlotsOK'
           /\ \A r \in Rows : Guarded(r)' = Guarded(r) /\ Live(r)' = Live(r)
           /\ \A q : Newest(q)' = Newest(q)
           /\ \A q, n : CachedTo(q, n)' = CachedTo(q, n)
  <1>1. OwnersOK'
    BY DEF OwnersOK
  <1>2. \A r \in Rows : Guarded(r)' = Guarded(r) /\ Live(r)' = Live(r)
    BY DEF Guarded, Live
  <1>3. BatchOK'
    <2>1. \A r \in Rows : RowAt(r)' = RowAt(r)
      BY <1>2 DEF RowAt
    <2> QED
      BY <2>1 DEF BatchOK
  <1>4. \A q : Newest(q)' = Newest(q) /\ Ahead(q)' = Ahead(q)
    BY DEF Newest, Ahead
  <1>5. \A q, n : CachedTo(q, n)' = CachedTo(q, n)
    BY DEF CachedTo
  <1>6. SlotsOK'
    BY <1>4, <1>5 DEF SlotsOK
  <1> QED
    BY <1>1, <1>2, <1>3, <1>4, <1>5, <1>6

\* The part of TypeOK a step on the device can disturb.
LEMMA DeviceType ==
    ASSUME TypeOK, WorkOK', UNCHANGED <<overlap, owner, assigned, out, batch>>, phase' \in Phases,
           state' \in [Slots -> [valid : BOOLEAN, generation : 0 .. Requests, tail : Tokens,
                                 draft : Tokens, position : Positions, count : 0 .. MaxPosition]],
           pool' \in [Slots -> Hiddens],
           cache' \in [0 .. Requests -> [Positions -> Tokens]],
           draftCache' \in [0 .. Requests -> [Positions -> Hiddens \X Tokens]]
    PROVE  TypeOK'
  <1>1. \A r \in Rows : /\ work'[r].position \in Pairs(Positions)
                        /\ work'[r].mtpPosition \in Pairs(Positions)
                        /\ work'[r].accepted \in 0 .. 2
    BY DEF WorkOK, WorkRows
  <1> QED
    BY <1>1 DEF TypeOK

LEMMA PrepareInv ==
    ASSUME CommitInv, Prepare, UNCHANGED overlap
    PROVE  CommitInv'
  <1>a. TypeOK /\ WorkOK /\ OwnersOK /\ BatchOK /\ SlotsOK /\ WorkAgrees
    BY DEF CommitInv
  <1>b. /\ phase = "submitted" /\ phase' = "prepared"
        /\ UNCHANGED <<overlap, owner, assigned, out, batch, state, pool, cache, draftCache>>
    BY DEF Prepare
  <1>c. OwnersOK' /\ BatchOK' /\ SlotsOK'
        /\ \A r \in Rows : Guarded(r)' = Guarded(r) /\ Live(r)' = Live(r)
        /\ \A q : Newest(q)' = Newest(q)
    BY <1>a, <1>b, DeviceStep
  <1>d. ASSUME NEW r \in Rows
        PROVE  /\ ~Guarded(r) => work'[r] = work[r]
               /\ Guarded(r) => LET s == batch[r].slot IN
                     work'[r] = [work[r] EXCEPT
                        !.input = <<state[s].tail, state[s].draft>>,
                        !.position = RowPositions(s),
                        !.sampling = <<state[s].position + 2, state[s].position + 3>>,
                        !.tail = state[s].tail, !.tailPosition = state[s].position]
    BY DEF Prepare
  <1>e. ASSUME NEW r \in Rows, Guarded(r)
        PROVE  LET s == batch[r].slot IN
               /\ s \in Slots /\ state[s].position \in Nat /\ state[s].position + 2 \in Positions
               /\ state[s].position + 1 \in Positions /\ state[s].position \in Positions
               /\ state[s].tail \in Tokens /\ state[s].draft \in Tokens
    <2>1. batch[r].slot \in Slots
      BY <1>a, <1>e, RowType DEF Guarded
    <2>2. state[batch[r].slot].position + 2 \in Positions
      BY <1>a, <1>b, <1>e DEF WorkAgrees, PositionsAt
    <2>3. /\ state[batch[r].slot].position \in Positions /\ state[batch[r].slot].position \in Nat
          /\ state[batch[r].slot].tail \in Tokens /\ state[batch[r].slot].draft \in Tokens
      BY <1>a, <2>1, SlotType
    <2>4. state[batch[r].slot].position + 1 \in Positions
      BY <2>2, <2>3, SizesAssumption DEF Positions
    <2> QED
      BY <2>1, <2>2, <2>3, <2>4
  <1>f. ASSUME NEW r \in Rows, Guarded(r)
        PROVE  LET s == batch[r].slot IN
               /\ work'[r] \in WorkRows
               /\ work'[r].input = <<state[s].tail, state[s].draft>>
               /\ work'[r].position = <<state[s].position + 1, state[s].position + 2>>
               /\ work'[r].sampling = <<state[s].position + 2, state[s].position + 3>>
               /\ work'[r].tail = state[s].tail /\ work'[r].tailPosition = state[s].position
    <2> DEFINE s == batch[r].slot
               n == state[s].position
    <2>1. work[r] \in WorkRows
      BY <1>a, WorkType
    <2>2. work'[r] = [work[r] EXCEPT !.input = <<state[s].tail, state[s].draft>>,
                        !.position = <<n + 1, n + 2>>, !.sampling = <<n + 2, n + 3>>,
                        !.tail = state[s].tail, !.tailPosition = n]
      BY <1>d, <1>f DEF RowPositions
    <2>3. n \in Positions /\ n + 1 \in Positions /\ n + 2 \in Positions
          /\ state[s].tail \in Tokens /\ state[s].draft \in Tokens
      BY <1>e, <1>f
    <2>4. n + 2 \in 0 .. MaxPosition + 2 /\ n + 3 \in 0 .. MaxPosition + 2
      BY <2>3, SizesAssumption DEF Positions
    <2>5. <<state[s].tail, state[s].draft>> \in Pairs(Tokens) /\ <<n + 1, n + 2>> \in Pairs(Positions)
          /\ <<n + 2, n + 3>> \in Pairs(0 .. MaxPosition + 2)
      BY <2>3, <2>4 DEF Pairs
    <2> HIDE DEF n, s
    <2>6. /\ work'[r].input = <<state[s].tail, state[s].draft>>
          /\ work'[r].position = <<n + 1, n + 2>> /\ work'[r].sampling = <<n + 2, n + 3>>
          /\ work'[r].tail = state[s].tail /\ work'[r].tailPosition = n
      BY <2>1, <2>2 DEF WorkRows
    <2>7. work'[r] \in WorkRows
      BY <2>1, <2>2, <2>3, <2>5 DEF WorkRows
    <2> QED
      BY <2>6, <2>7 DEF n, s
  <1>1. WorkOK'
    <2>1. ASSUME NEW r \in Rows
          PROVE  work'[r] \in WorkRows
      BY <1>a, <1>d, <1>f, WorkType
    <2>2. DOMAIN work' = Rows /\ work' = [r \in Rows |-> work'[r]]
      BY DEF Prepare
    <2> QED
      BY <2>1, <2>2 DEF WorkOK
  <1>2. TypeOK'
    BY <1>1, <1>a, <1>b, DeviceType DEF TypeOK, Phases
  <1>3. WorkAgrees'
    <2>1. ASSUME NEW r \in Rows, Guarded(r)
          PROVE  PositionsAt(r, state[batch[r].slot].position)'
      BY <1>b, <1>e, <1>f, <2>1 DEF PositionsAt
    <2>2. ASSUME NEW r \in Rows, Live(r)
          PROVE  ContentsAt(r, batch[r].request, Newest(batch[r].request))'
      <3> DEFINE s == batch[r].slot
                 q == batch[r].request
      <3>1. s \in Slots /\ owner[s] = q /\ owner[s] # 0 /\ Guarded(r) /\ q \in 1 .. Requests
        BY <1>a, <2>2, LiveRow
      <3>3. state[s].position = Newest(q) /\ state[s].tail = Token(q, Newest(q) + 1)
        BY <1>a, <1>b, <3>1, HeldSlot
      <3>6. /\ work'[r].input[1] = state[s].tail /\ work'[r].tail = state[s].tail
            /\ work'[r].sampling = <<state[s].position + 2, state[s].position + 3>>
        BY <1>f, <3>1
      <3> QED
        BY <1>b, <1>c, <3>3, <3>6 DEF ContentsAt
    <2> QED
      BY <1>b, <1>c, <2>1, <2>2 DEF WorkAgrees
  <1> QED
    BY <1>c, <1>1, <1>2, <1>3 DEF CommitInv

\* A forward writes a live request's tail and draft after its newest position;
\* so the first sample is the next token, and the second is when the draft was.
LEMMA ForwardInv ==
    ASSUME CommitInv, Forward, UNCHANGED overlap
    PROVE  CommitInv'
  <1>a. TypeOK /\ WorkOK /\ OwnersOK /\ BatchOK /\ SlotsOK /\ WorkAgrees
    BY DEF CommitInv
  <1>b. /\ phase = "prepared" /\ phase' = "sampled"
        /\ cache' = [q \in 0 .. Requests |-> IF q = 0 THEN cache[0] ELSE Cached(q)]
        /\ UNCHANGED <<overlap, owner, assigned, out, batch, state, pool, draftCache>>
    BY DEF Forward
  <1>c. PICK chance \in [Rows -> [1 .. 2 -> BOOLEAN]] :
          work' = [r \in Rows |->
              [work[r] EXCEPT
                  !.sampled = <<Sampled(r, 1, chance[r][1]), Sampled(r, 2, chance[r][2])>>,
                  !.hidden = <<HiddenRow(r, 1), HiddenRow(r, 2)>>]]
    BY DEF Forward
  <1>d. \A q \in 1 .. Requests : cache'[q] = Cached(q) /\ Cached(q) \in [Positions -> Tokens]
    BY <1>a, <1>b, SizesAssumption, CachedType
  <1>e. ASSUME NEW r \in Rows, NEW i \in {1, 2}, NEW chance1
        PROVE  Sampled(r, i, chance1) \in Tokens /\ HiddenRow(r, i) \in Hiddens
    <2>1. work[r].position[i] \in Positions /\ batch[r].request \in 0 .. Requests
      BY <1>a, WorkType, PairOf, RowType
    <2>2. Token(batch[r].request, work[r].position[i] + 1) \in Tokens
      <3>1. work[r].position[i] + 1 \in 0 .. MaxPosition + 1
        BY <2>1, SizesAssumption DEF Positions
      <3> QED
        BY <2>1, <3>1, TokenIn
    <2>3. Hidden(batch[r].request, work[r].position[i]) \in Hiddens
      BY <2>1, HiddenIn
    <2> QED
      BY <2>2, <2>3, OtherIn DEF Sampled, HiddenRow
  <1>f. ASSUME NEW r \in Rows
        PROVE  /\ work'[r] \in WorkRows
               /\ work'[r].sampled = <<Sampled(r, 1, chance[r][1]), Sampled(r, 2, chance[r][2])>>
               /\ work'[r].input = work[r].input /\ work'[r].position = work[r].position
               /\ work'[r].sampling = work[r].sampling /\ work'[r].tail = work[r].tail
               /\ work'[r].tailPosition = work[r].tailPosition
               /\ work'[r].accepted = work[r].accepted
    <2> DEFINE a == <<Sampled(r, 1, chance[r][1]), Sampled(r, 2, chance[r][2])>>
               h == <<HiddenRow(r, 1), HiddenRow(r, 2)>>
    <2>1. a \in Pairs(Tokens) /\ h \in Pairs(Hiddens)
      BY <1>e DEF Pairs
    <2>2. work[r] \in WorkRows
      BY <1>a, WorkType
    <2>3. work'[r] = [work[r] EXCEPT !.sampled = a, !.hidden = h]
      BY <1>c
    <2> HIDE DEF a, h
    <2>4. /\ work'[r] \in WorkRows /\ work'[r].sampled = a
          /\ work'[r].input = work[r].input /\ work'[r].position = work[r].position
          /\ work'[r].sampling = work[r].sampling /\ work'[r].tail = work[r].tail
          /\ work'[r].tailPosition = work[r].tailPosition /\ work'[r].accepted = work[r].accepted
      BY <2>1, <2>2, <2>3 DEF WorkRows
    <2> QED
      BY <2>4 DEF a
  <1>1. WorkOK'
    <2>1. work' = [r \in Rows |-> work'[r]]
      BY <1>c
    <2> QED
      BY <1>f, <2>1 DEF WorkOK
  <1>2. TypeOK'
    <2>1. cache' \in [0 .. Requests -> [Positions -> Tokens]]
      <3>1. cache[0] \in [Positions -> Tokens]
        BY <1>a, SizesAssumption, CacheType
      <3>2. \A q \in 0 .. Requests :
              (IF q = 0 THEN cache[0] ELSE Cached(q)) \in [Positions -> Tokens]
        BY <1>a, <3>1, CachedType
      <3> QED
        BY <1>b, <3>2
    <2> QED
      BY <1>1, <1>a, <1>b, <2>1, DeviceType DEF TypeOK, Phases
  <1>3. OwnersOK' /\ BatchOK'
    <2>1. \A r \in Rows : RowAt(r)' = RowAt(r)
      BY <1>b DEF RowAt, Guarded
    <2> QED
      BY <1>a, <1>b, <2>1 DEF OwnersOK, BatchOK
  <1>4. ASSUME NEW s \in Slots, owner[s] # 0
        PROVE  \A p \in 0 .. Newest(owner[s]) : cache'[owner[s]][p] = Token(owner[s], p)
    <2> DEFINE q == owner[s]
               n == Newest(q)
    <2>1. q \in 1 .. Requests /\ state[s].position = n /\ CachedTo(q, n)
      BY <1>a, <1>b, <1>4, HeldSlot
    <2>2. n \in Positions /\ n \in Nat
      BY <1>a, <2>1, SlotType
    <2>3. CASE \A r \in Rows : batch[r].request # q
      <3>1. cache'[q] = cache[q]
        BY <1>a, <1>d, <2>1, <2>3, CachedOther
      <3> QED
        BY <2>1, <3>1 DEF CachedTo
    <2>4. ASSUME NEW r \in Rows, batch[r].request = q
          PROVE  \A p \in 0 .. n : cache'[q][p] = Token(q, p)
      <3>1. batch[r].slot = s /\ Live(r)
        BY <1>a, <1>4, <2>4, HeldRow
      <3>2. Guarded(r) /\ batch[r].slot # -1
        BY <1>a, <3>1, LiveRow DEF Live
      <3>3. work[r].position = <<n + 1, n + 2>>
        BY <1>a, <1>b, <2>1, <3>1, <3>2 DEF WorkAgrees, PositionsAt
      <3>4. ASSUME NEW p \in 0 .. n
            PROVE  cache'[q][p] = Token(q, p)
        <4>1. p \in Positions /\ p # n + 1 /\ p # n + 2
          BY <2>2, <3>4, SizesAssumption DEF Positions
        <4>2. Cached(q)[p] = cache[q][p]
          BY <1>a, <2>2, <2>4, <3>2, <3>3, <4>1, CachedLive
        <4> QED
          BY <1>d, <2>1, <4>2 DEF CachedTo
      <3> QED
        BY <3>4
    <2> QED
      BY <2>3, <2>4
  <1>5. SlotsOK'
    <2>1. ASSUME NEW s \in Slots
          PROVE  /\ state'[s].valid => state'[s].position = Prompt - 1 + state'[s].count
                 /\ owner'[s] # 0 =>
                      /\ state'[s].position = Newest(owner[s])' + Ahead(owner[s])'
                      /\ state'[s].tail = Token(owner'[s], state'[s].position + 1)
                      /\ CachedTo(owner[s], state[s].position)'
      <3>1. Newest(owner[s])' = Newest(owner[s]) /\ Ahead(owner[s])' = 0
        BY <1>b DEF Newest, Ahead
      <3>2. owner[s] # 0 => /\ owner[s] \in 1 .. Requests
                            /\ state[s].position = Newest(owner[s])
                            /\ state[s].tail = Token(owner[s], state[s].position + 1)
                            /\ state[s].position \in Nat
        BY <1>a, <1>b, HeldSlot, SlotType
      <3>3. owner[s] # 0 => CachedTo(owner[s], state[s].position)'
        BY <1>4, <1>b, <3>2 DEF CachedTo
      <3> QED
        BY <1>a, <1>b, <3>1, <3>2, <3>3 DEF SlotsOK
    <2> QED
      BY <2>1 DEF SlotsOK
  <1>6. WorkAgrees'
    <2>1. ASSUME NEW r \in Rows, Guarded(r)'
          PROVE  PositionsAt(r, state[batch[r].slot].position)'
      <3>1. Guarded(r)
        BY <1>b, <2>1 DEF Guarded
      <3>2. PositionsAt(r, state[batch[r].slot].position)
        BY <1>a, <3>1 DEF WorkAgrees
      <3> QED
        BY <1>b, <1>f, <3>2 DEF PositionsAt
    <2>2. ASSUME NEW r \in Rows, Live(r)'
          PROVE  ContentsAt(r, batch[r].request, Newest(batch[r].request))'
      <3> DEFINE s == batch[r].slot
                 q == batch[r].request
                 n == Newest(q)
      <3>1. Live(r)
        BY <1>b, <2>2 DEF Live
      <3>2. s \in Slots /\ owner[s] = q /\ owner[s] # 0 /\ Guarded(r) /\ q \in 1 .. Requests /\ s # -1
        BY <1>a, <3>1, LiveRow DEF Live
      <3>3. state[s].position = n /\ n \in Nat
        BY <1>a, <1>b, <3>2, HeldSlot, NewestInt
      <3>4. work[r].position = <<n + 1, n + 2>> /\ n + 2 \in Positions
        BY <1>a, <1>b, <3>2, <3>3 DEF WorkAgrees, PositionsAt
      <3>5. work[r].tail = Token(q, n + 1) /\ work[r].input[1] = Token(q, n + 1)
            /\ work[r].sampling = <<n + 2, n + 3>>
        BY <1>a, <1>b, <3>1 DEF WorkAgrees, ContentsAt
      <3>6. n + 1 \in Positions
        BY <3>3, <3>4, SizesAssumption DEF Positions
      <3>7. cache'[q][n + 1] = Token(q, n + 1) /\ cache'[q][n + 2] = work[r].input[2]
        <4>1. Cached(q)[n + 1] = work[r].input[1]
          BY <1>a, <3>2, <3>3, <3>4, <3>6, CachedLive
        <4>2. Cached(q)[n + 2] = work[r].input[2]
          BY <1>a, <3>2, <3>3, <3>4, CachedLive
        <4> QED
          BY <1>d, <3>2, <3>5, <4>1, <4>2
      <3>8. \A p \in 0 .. n + 1 : cache'[q][p] = Token(q, p)
        BY <1>4, <3>2, <3>3, <3>7
      <3>9. work[r].input[2] = Token(q, n + 2) => \A p \in 0 .. n + 2 : cache'[q][p] = Token(q, p)
        BY <3>3, <3>7, <3>8
      <3>10. /\ work[r].position[1] = n + 1 /\ work[r].position[2] = n + 2
             /\ work[r].sampling[1] = n + 2 /\ work[r].sampling[2] = n + 3 /\ q # 0
        BY <3>2, <3>4, <3>5
      <3>11. work'[r].sampled[1] = Token(q, n + 2)
        <4>1. Plainly(r, 1)
          BY <3>3, <3>8, <3>10 DEF Plainly, Sees
        <4>2. n + 1 + 1 = n + 2
          BY <3>3
        <4> QED
          BY <1>f, <3>10, <4>1, <4>2 DEF Sampled
      <3>12. work[r].input[2] = Token(q, n + 2) => work'[r].sampled[2] = Token(q, n + 3)
        <4>1. ASSUME work[r].input[2] = Token(q, n + 2)
              PROVE  Plainly(r, 2)
          BY <3>3, <3>9, <3>10, <4>1 DEF Plainly, Sees
        <4>2. n + 2 + 1 = n + 3
          BY <3>3
        <4> QED
          BY <1>f, <3>10, <4>1, <4>2 DEF Sampled
      <3>13. Newest(q)' = n
        BY <1>b DEF Newest
      <3>14. /\ CachedTo(q, n + 1)'
             /\ work[r].input[2] = Token(q, n + 2) => CachedTo(q, n + 2)'
        BY <1>b, <3>8, <3>9, <3>13 DEF CachedTo
      <3>15. work'[r].tail = work[r].tail /\ work'[r].input = work[r].input
             /\ work'[r].sampling = work[r].sampling
        BY <1>f
      <3> QED
        BY <1>b, <3>5, <3>11, <3>12, <3>13, <3>14, <3>15 DEF ContentsAt
    <2> QED
      BY <1>b, <2>1, <2>2 DEF WorkAgrees
  <1> QED
    BY <1>1, <1>2, <1>3, <1>5, <1>6 DEF CommitInv

LEMMA CommittedRow ==
    ASSUME NEW w \in WorkRows, NEW n \in {1, 2}, NEW tokens \in Pairs(Tokens),
           NEW positions \in Pairs(Positions)
    PROVE  LET v == Committed(w, n, tokens, positions)
           IN  v \in WorkRows /\ v.accepted = n /\ v.mtpInput = tokens /\ v.mtpPosition = positions
  <1> DEFINE v == Committed(w, n, tokens, positions)
  <1>1. n \in 0 .. 2
    OBVIOUS
  <1>2. v.accepted = n /\ v.mtpInput = tokens /\ v.mtpPosition = positions
    BY DEF Committed, WorkRows
  <1>3. v \in WorkRows
    BY <1>1 DEF Committed, WorkRows
  <1> QED
    BY <1>2, <1>3

\* The draft is accepted when it is the first sample: the window then holds the
\* two samples, else the old tail and the first sample.
LEMMA VerifyInv ==
    ASSUME CommitInv, Verify, UNCHANGED overlap
    PROVE  CommitInv'
  <1>a. TypeOK /\ WorkOK /\ OwnersOK /\ BatchOK /\ SlotsOK /\ WorkAgrees
    BY DEF CommitInv
  <1>b. /\ phase = "sampled" /\ phase' = "verified"
        /\ UNCHANGED <<overlap, owner, assigned, out, batch, state, pool, cache, draftCache>>
    BY DEF Verify
  <1>c. OwnersOK' /\ BatchOK' /\ SlotsOK'
        /\ \A r \in Rows : Guarded(r)' = Guarded(r) /\ Live(r)' = Live(r)
        /\ (\A q : Newest(q)' = Newest(q)) /\ (\A q, n : CachedTo(q, n)' = CachedTo(q, n))
    BY <1>a, <1>b, DeviceStep
  <1>d. ASSUME NEW r \in Rows
        PROVE  /\ work'[r] \in WorkRows /\ work'[r].accepted \in {1, 2}
               /\ batch[r].slot # -1 /\ Accepts(r) =>
                    /\ work'[r].accepted = 2 /\ work'[r].mtpInput = work[r].sampled
                    /\ work'[r].mtpPosition = work[r].position
               /\ batch[r].slot # -1 /\ ~Accepts(r) =>
                    /\ work'[r].accepted = 1
                    /\ work'[r].mtpInput = <<work[r].tail, work[r].sampled[1]>>
                    /\ work'[r].mtpPosition = <<work[r].tailPosition, work[r].position[1]>>
    <2> DEFINE w == work[r]
    <2>1. w \in WorkRows /\ w.position \in Pairs(Positions) /\ w.sampled \in Pairs(Tokens)
          /\ w.input \in Pairs(Tokens) /\ w.tail \in Tokens /\ w.tailPosition \in Positions
      BY <1>a, WorkType
    <2>2. <<w.tail, w.sampled[1]>> \in Pairs(Tokens)
          /\ <<w.tailPosition, w.position[1]>> \in Pairs(Positions)
      <3>1. w.sampled[1] \in Tokens /\ w.position[1] \in Positions
        BY <2>1, PairOf
      <3> QED
        BY <2>1, <3>1 DEF Pairs
    <2>3. CASE batch[r].slot = -1
      <3>1. work'[r] = Committed(w, 1, w.input, w.position)
        BY <2>3 DEF Verify
      <3> QED
        BY <2>1, <2>3, <3>1, CommittedRow
    <2>4. CASE batch[r].slot # -1 /\ Accepts(r)
      <3>1. work'[r] = Committed(w, 2, w.sampled, w.position)
        BY <2>4 DEF Verify
      <3> QED
        BY <2>1, <2>4, <3>1, CommittedRow
    <2>5. CASE batch[r].slot # -1 /\ ~Accepts(r)
      <3>1. work'[r] = Committed(w, 1, <<w.tail, w.sampled[1]>>, <<w.tailPosition, w.position[1]>>)
        BY <2>5 DEF Verify
      <3>2. /\ work'[r] \in WorkRows /\ work'[r].accepted = 1
            /\ work'[r].mtpInput = <<w.tail, w.sampled[1]>>
            /\ work'[r].mtpPosition = <<w.tailPosition, w.position[1]>>
        <4>1. 1 \in {1, 2} /\ w \in WorkRows
          BY <2>1
        <4> HIDE DEF w
        <4> QED
          BY <2>2, <3>1, <4>1, CommittedRow
      <3> QED
        BY <2>5, <3>2
    <2> QED
      BY <2>3, <2>4, <2>5
  <1>1. WorkOK'
    <2>1. work' = [r \in Rows |-> work'[r]]
      BY DEF Verify
    <2> QED
      BY <1>d, <2>1 DEF WorkOK
  <1>2. TypeOK'
    BY <1>1, <1>a, <1>b, DeviceType DEF TypeOK, Phases
  <1>3. WorkAgrees'
    <2>1. ASSUME NEW r \in Rows, Guarded(r)
          PROVE  PositionsAt(r, state[batch[r].slot].position)'
      <3> DEFINE n == state[batch[r].slot].position
      <3>1. batch[r].slot # -1 /\ work[r].position = <<n + 1, n + 2>> /\ n + 2 \in Positions
        BY <1>a, <1>b, <2>1 DEF WorkAgrees, PositionsAt, Guarded
      <3>2. work[r].position[1] = n + 1 /\ work[r].position[2] = n + 2
        BY <3>1
      <3>3. work'[r].mtpPosition[2] = n + work'[r].accepted
        BY <1>d, <3>1, <3>2
      <3> QED
        BY <1>b, <3>1, <3>3 DEF PositionsAt
    <2>2. ASSUME NEW r \in Rows, Live(r)
          PROVE  ContentsAt(r, batch[r].request, Newest(batch[r].request))'
      <3> DEFINE q == batch[r].request
                 n == Newest(q)
      <3>1. batch[r].slot # -1 /\ q \in 1 .. Requests /\ n \in Nat
        BY <1>a, <2>2, LiveRow, NewestInt DEF Live
      <3>2. /\ work[r].sampled[1] = Token(q, n + 2) /\ CachedTo(q, n + 1)
            /\ work[r].input[2] = Token(q, n + 2) =>
                 work[r].sampled[2] = Token(q, n + 3) /\ CachedTo(q, n + 2)
        BY <1>a, <1>b, <2>2 DEF WorkAgrees, ContentsAt
      <3>3. /\ work'[r].mtpInput[2] = Token(q, n + work'[r].accepted + 1)
            /\ work'[r].accepted = 2 => work'[r].mtpInput[1] = Token(q, n + 2)
            /\ CachedTo(q, n + work'[r].accepted)
        <4>1. n + 1 + 1 = n + 2 /\ n + 2 + 1 = n + 3
          BY <3>1
        <4>2. CASE Accepts(r)
          <5>1. work[r].input[2] = Token(q, n + 2)
            BY <3>2, <4>2 DEF Accepts
          <5> QED
            BY <1>d, <3>1, <3>2, <4>1, <4>2, <5>1
        <4>3. CASE ~Accepts(r)
          BY <1>d, <3>1, <3>2, <4>1, <4>3
        <4> QED
          BY <4>2, <4>3
      <3>4. Newest(q)' = n /\ CachedTo(q, n + work[r].accepted)'
        <4>1. CachedTo(q, n + work'[r].accepted)
          BY <3>3
        <4> QED
          BY <1>b, <4>1 DEF Newest, CachedTo
      <3> QED
        BY <1>b, <3>3, <3>4 DEF ContentsAt
    <2> QED
      BY <1>b, <1>c, <1>d, <2>1, <2>2 DEF WorkAgrees
  <1> QED
    BY <1>c, <1>1, <1>2, <1>3 DEF CommitInv

LEMMA PackInv ==
    ASSUME CommitInv, NEW r \in Rows, Pack(r), UNCHANGED overlap
    PROVE  CommitInv'
  <1>a. TypeOK /\ WorkOK /\ OwnersOK /\ BatchOK /\ SlotsOK /\ WorkAgrees
    BY DEF CommitInv
  <1>b. /\ phase = "verified" /\ phase' = "verified"
        /\ UNCHANGED <<overlap, owner, assigned, out, batch, state, cache, draftCache>>
    BY DEF Pack
  <1>c. OwnersOK' /\ BatchOK' /\ SlotsOK'
        /\ \A x \in Rows : Guarded(x)' = Guarded(x) /\ Live(x)' = Live(x)
        /\ (\A q : Newest(q)' = Newest(q)) /\ (\A q, n : CachedTo(q, n)' = CachedTo(q, n))
    BY <1>a, <1>b, DeviceStep
  <1>d. work[r].accepted \in {1, 2} /\ work[r].hidden[1] \in Hiddens /\ work[r].hidden[2] \in Hiddens
    BY <1>a, <1>b, WorkType, PairOf DEF WorkAgrees
  <1>e. LastHidden(r) \in Hiddens
    BY <1>d DEF LastHidden
  <1>f. \E h \in Pairs(Hiddens) : work' = [work EXCEPT ![r].packed = h]
    <2>1. CASE batch[r].slot = -1
      <3>1. 1 \in Rows
        BY SizesAssumption DEF Rows
      <3>2. work[1].hidden \in Pairs(Hiddens)
        BY <1>a, <3>1, WorkType
      <3> QED
        BY <2>1, <3>2 DEF Pack
    <2>2. CASE batch[r].slot # -1
      <3>1. pool[batch[r].slot] \in Hiddens
        BY <1>a, <2>2, RowType DEF TypeOK
      <3> DEFINE h == <<IF work[r].accepted = 1 THEN pool[batch[r].slot] ELSE work[r].hidden[1],
                        LastHidden(r)>>
      <3>2. h \in Pairs(Hiddens)
        BY <1>d, <1>e, <3>1 DEF Pairs
      <3>3. work' = [work EXCEPT ![r].packed = h]
        BY <2>2 DEF Pack
      <3> HIDE DEF h
      <3> QED
        BY <3>2, <3>3
    <2> QED
      BY <2>1, <2>2
  <1>g. PICK h \in Pairs(Hiddens) : work' = [work EXCEPT ![r].packed = h]
    BY <1>f
  <1>h. pool' \in [Slots -> Hiddens]
    <2>1. CASE batch[r].slot = -1
      BY <1>a, <2>1 DEF Pack, TypeOK
    <2>2. CASE batch[r].slot # -1
      BY <1>a, <1>e, <2>2 DEF Pack, TypeOK
    <2> QED
      BY <2>1, <2>2
  <1>i. ASSUME NEW x \in Rows
        PROVE  /\ work'[x] \in WorkRows
               /\ work'[x].accepted = work[x].accepted /\ work'[x].mtpInput = work[x].mtpInput
               /\ work'[x].mtpPosition = work[x].mtpPosition
    <2>1. work[x] \in WorkRows /\ work \in [Rows -> WorkRows]
      BY <1>a, WorkType DEF WorkOK
    <2>2. CASE x = r
      <3>1. work'[x] = [work[x] EXCEPT !.packed = h]
        BY <1>g, <2>1, <2>2
      <3> QED
        BY <2>1, <3>1 DEF WorkRows
    <2>3. CASE x # r
      BY <1>g, <2>1, <2>3
    <2> QED
      BY <2>2, <2>3
  <1>1. WorkOK'
    <2>1. work' = [x \in Rows |-> work'[x]]
      BY <1>a, <1>g DEF WorkOK
    <2> QED
      BY <1>i, <2>1 DEF WorkOK
  <1>2. TypeOK'
    BY <1>1, <1>a, <1>b, <1>h, DeviceType DEF TypeOK, Phases
  <1>3. WorkAgrees'
    <2>1. ASSUME NEW x \in Rows, Guarded(x)
          PROVE  PositionsAt(x, state[batch[x].slot].position)'
      BY <1>a, <1>b, <1>i, <2>1 DEF PositionsAt, WorkAgrees
    <2>2. ASSUME NEW x \in Rows, Live(x)
          PROVE  ContentsAt(x, batch[x].request, Newest(batch[x].request))'
      <3> DEFINE q == batch[x].request
                 n == Newest(q)
      <3>1. /\ work[x].mtpInput[2] = Token(q, n + work[x].accepted + 1)
            /\ work[x].accepted = 2 => work[x].mtpInput[1] = Token(q, n + 2)
            /\ CachedTo(q, n + work[x].accepted)
        BY <1>a, <1>b, <2>2 DEF WorkAgrees, ContentsAt
      <3>2. Newest(q)' = n /\ CachedTo(q, n + work[x].accepted)'
        BY <1>b, <1>i, <3>1 DEF Newest, CachedTo
      <3> QED
        BY <1>b, <1>i, <3>1, <3>2 DEF ContentsAt
    <2> QED
      BY <1>a, <1>b, <1>c, <1>i, <2>1, <2>2 DEF WorkAgrees
  <1> QED
    BY <1>c, <1>1, <1>2, <1>3 DEF CommitInv

LEMMA DraftInv ==
    ASSUME CommitInv, Draft, UNCHANGED overlap
    PROVE  CommitInv'
  <1>a. TypeOK /\ WorkOK /\ OwnersOK /\ BatchOK /\ SlotsOK /\ WorkAgrees
    BY DEF CommitInv
  <1>b. /\ phase = "verified" /\ phase' = "drafted" /\ \A r \in Rows : work[r].packed # <<>>
        /\ draftCache' = [q \in 0 .. Requests |-> IF q = 0 THEN draftCache[0] ELSE DraftCached(q)]
        /\ UNCHANGED <<overlap, owner, assigned, out, batch, state, pool, cache>>
    BY DEF Draft
  <1>c. OwnersOK' /\ BatchOK' /\ SlotsOK'
        /\ \A r \in Rows : Guarded(r)' = Guarded(r) /\ Live(r)' = Live(r)
        /\ (\A q : Newest(q)' = Newest(q)) /\ (\A q, n : CachedTo(q, n)' = CachedTo(q, n))
    BY <1>a, <1>b, DeviceStep
  <1>d. PICK good \in [Rows -> BOOLEAN] :
          work' = [r \in Rows |-> [work[r] EXCEPT !.draft =
                      IF good[r] THEN Token(batch[r].request, work[r].mtpPosition[2] + 2)
                      ELSE Other]]
    BY DEF Draft
  <1>e. ASSUME NEW r \in Rows
        PROVE  /\ work'[r] \in WorkRows
               /\ work'[r].accepted = work[r].accepted /\ work'[r].mtpInput = work[r].mtpInput
               /\ work'[r].mtpPosition = work[r].mtpPosition
    <2> DEFINE d == IF good[r] THEN Token(batch[r].request, work[r].mtpPosition[2] + 2) ELSE Other
    <2>1. d \in Tokens
      <3>1. work[r].mtpPosition[2] \in Positions /\ batch[r].request \in 0 .. Requests
        BY <1>a, WorkType, PairOf, RowType
      <3>2. work[r].mtpPosition[2] + 2 \in 0 .. MaxPosition + 1
        BY <3>1, SizesAssumption DEF Positions
      <3> QED
        BY <3>1, <3>2, TokenIn, OtherIn
    <2>2. work'[r] = [work[r] EXCEPT !.draft = d]
      BY <1>d
    <2>3. work[r] \in WorkRows
      BY <1>a, WorkType
    <2> HIDE DEF d
    <2> QED
      BY <2>1, <2>2, <2>3 DEF WorkRows
  <1>1. WorkOK'
    <2>1. work' = [r \in Rows |-> work'[r]]
      BY <1>d
    <2> QED
      BY <1>e, <2>1 DEF WorkOK
  <1>2. TypeOK'
    <2>1. draftCache' \in [0 .. Requests -> [Positions -> Hiddens \X Tokens]]
      <3>1. \A q \in 0 .. Requests :
              (IF q = 0 THEN draftCache[0] ELSE DraftCached(q)) \in [Positions -> Hiddens \X Tokens]
        BY <1>a, <1>b, CacheType, DraftCachedType
      <3> QED
        BY <1>b, <3>1
    <2> QED
      BY <1>1, <1>a, <1>b, <2>1, DeviceType DEF TypeOK, Phases
  <1>3. WorkAgrees'
    <2>1. ASSUME NEW x \in Rows, Guarded(x)
          PROVE  PositionsAt(x, state[batch[x].slot].position)'
      BY <1>a, <1>b, <1>e, <2>1 DEF PositionsAt, WorkAgrees
    <2>2. ASSUME NEW x \in Rows, Live(x)
          PROVE  ContentsAt(x, batch[x].request, Newest(batch[x].request))'
      <3> DEFINE q == batch[x].request
                 n == Newest(q)
      <3>1. /\ work[x].mtpInput[2] = Token(q, n + work[x].accepted + 1)
            /\ work[x].accepted = 2 => work[x].mtpInput[1] = Token(q, n + 2)
            /\ CachedTo(q, n + work[x].accepted)
        BY <1>a, <1>b, <2>2 DEF WorkAgrees, ContentsAt
      <3>2. Newest(q)' = n /\ CachedTo(q, n + work[x].accepted)'
        BY <1>b, <1>e, <3>1 DEF Newest, CachedTo
      <3> QED
        BY <1>b, <1>e, <3>1, <3>2 DEF ContentsAt
    <2> QED
      BY <1>a, <1>b, <1>c, <1>e, <2>1, <2>2 DEF WorkAgrees
  <1> QED
    BY <1>c, <1>1, <1>2, <1>3 DEF CommitInv

LEMMA AdvancedSlot ==
    ASSUME NEW g, NEW slot \in [valid : BOOLEAN, generation : 0 .. g, tail : Tokens,
                         draft : Tokens, position : Positions, count : 0 .. MaxPosition],
           NEW w \in WorkRows
    PROVE  LET v == Advanced(slot, w)
           IN  /\ v.valid = slot.valid /\ v.generation = slot.generation
               /\ v.tail = w.mtpInput[2] /\ v.position = w.mtpPosition[2]
               /\ v.count = slot.count + w.accepted
               /\ slot.count + w.accepted \in 0 .. MaxPosition =>
                    v \in [valid : BOOLEAN, generation : 0 .. g, tail : Tokens,
                           draft : Tokens, position : Positions, count : 0 .. MaxPosition]
  <1> DEFINE v == Advanced(slot, w)
  <1>1. w.mtpInput[2] \in Tokens /\ w.mtpPosition[2] \in Positions /\ w.draft \in Tokens
    BY PairOf DEF WorkRows
  <1>2. /\ v.valid = slot.valid /\ v.generation = slot.generation
        /\ v.tail = w.mtpInput[2] /\ v.position = w.mtpPosition[2]
        /\ v.count = slot.count + w.accepted
    BY DEF Advanced
  <1>3. ASSUME slot.count + w.accepted \in 0 .. MaxPosition
        PROVE  v \in [valid : BOOLEAN, generation : 0 .. g, tail : Tokens,
                      draft : Tokens, position : Positions, count : 0 .. MaxPosition]
    BY <1>1, <1>3 DEF Advanced
  <1> QED
    BY <1>2, <1>3

\* A commit moves a slot on by what the step accepted, while the host's answers
\* stay behind: Ahead is the difference.
LEMMA AdvanceInv ==
    ASSUME CommitInv, Advance, UNCHANGED overlap
    PROVE  CommitInv'
  <1>a. TypeOK /\ WorkOK /\ OwnersOK /\ BatchOK /\ SlotsOK /\ WorkAgrees
    BY DEF CommitInv
  <1>b. /\ phase = "drafted" /\ phase' = "advanced"
        /\ UNCHANGED <<overlap, owner, assigned, out, batch, pool, cache, draftCache, work>>
    BY DEF Advance
  <1>c. ASSUME NEW r \in Rows, Guarded(r)
        PROVE  /\ batch[r].slot \in Slots
               /\ state'[batch[r].slot] = Advanced(state[batch[r].slot], work[r])
    <2> DEFINE s == batch[r].slot
    <2>1. s \in Slots
      BY <1>a, <1>c, RowType DEF Guarded
    <2>2. Commits(r, s) /\ \A x \in Rows : Commits(x, s) => x = r
      BY <1>a, <1>c DEF Commits, Guarded, BatchOK
    <2>3. r = CHOOSE x \in Rows : Commits(x, s)
      BY <2>2
    <2>4. state'[s] = IF \E x \in Rows : Commits(x, s)
                        THEN Advanced(state[s], work[CHOOSE x \in Rows : Commits(x, s)]) ELSE state[s]
      BY <2>1 DEF Advance
    <2> QED
      BY <2>1, <2>2, <2>3, <2>4
  <1>d. ASSUME NEW s \in Slots, \A r \in Rows : ~(batch[r].slot = s /\ Guarded(r))
        PROVE  state'[s] = state[s]
    BY <1>d DEF Advance, Commits
  <1>e. ASSUME NEW r \in Rows, Guarded(r)
        PROVE  LET s == batch[r].slot
               IN  /\ state[s].valid /\ state'[s].valid /\ state'[s].generation = state[s].generation
                   /\ state'[s].tail = work[r].mtpInput[2]
                   /\ state'[s].position = state[s].position + work[r].accepted
                   /\ state'[s].count = state[s].count + work[r].accepted
                   /\ state'[s].position = Prompt - 1 + state'[s].count
                   /\ state'[s] \in [valid : BOOLEAN, generation : 0 .. Requests, tail : Tokens,
                                     draft : Tokens, position : Positions, count : 0 .. MaxPosition]
    <2> DEFINE s == batch[r].slot
    <2>1. s \in Slots /\ state'[s] = Advanced(state[s], work[r])
      BY <1>c, <1>e
    <2>2. /\ state[s] \in [valid : BOOLEAN, generation : 0 .. Requests, tail : Tokens,
                           draft : Tokens, position : Positions, count : 0 .. MaxPosition]
          /\ work[r] \in WorkRows
          /\ state[s].position \in Positions /\ state[s].count \in 0 .. MaxPosition
      BY <1>a, <2>1, SlotType, WorkType
    <2>3. state[s].valid
      BY <1>e DEF Guarded
    <2>4. work[r].accepted \in {1, 2} /\ work[r].mtpPosition[2] = state[s].position + work[r].accepted
      BY <1>a, <1>b, <1>e DEF WorkAgrees, PositionsAt
    <2>5. state[s].position = Prompt - 1 + state[s].count
      BY <1>a, <2>1, <2>3 DEF SlotsOK
    <2>6. work[r].mtpPosition[2] \in Positions
      BY <1>a, WorkType, PairOf
    <2>7. state[s].count + work[r].accepted \in 0 .. MaxPosition
      BY <2>2, <2>4, <2>5, <2>6, SizesAssumption DEF Positions
    <2>8. /\ state'[s].valid = state[s].valid /\ state'[s].generation = state[s].generation
          /\ state'[s].tail = work[r].mtpInput[2] /\ state'[s].position = work[r].mtpPosition[2]
          /\ state'[s].count = state[s].count + work[r].accepted
          /\ state'[s] \in [valid : BOOLEAN, generation : 0 .. Requests, tail : Tokens,
                            draft : Tokens, position : Positions, count : 0 .. MaxPosition]
      BY <2>1, <2>2, <2>7, AdvancedSlot
    <2>9. state[s].position + work[r].accepted = Prompt - 1 + (state[s].count + work[r].accepted)
      BY <2>2, <2>4, <2>5, SizesAssumption
    <2> QED
      BY <2>3, <2>4, <2>8, <2>9
  <1>f. ASSUME NEW s \in Slots
        PROVE  \/ state'[s] = state[s]
               \/ \E r \in Rows : batch[r].slot = s /\ Guarded(r)
    BY <1>d
  <1>1. WorkOK'
    BY <1>a, <1>b DEF WorkOK
  <1>2. TypeOK'
    <2>1. \A s \in Slots : state'[s] \in [valid : BOOLEAN, generation : 0 .. Requests, tail : Tokens,
                             draft : Tokens, position : Positions, count : 0 .. MaxPosition]
      BY <1>a, <1>e, <1>f, SlotType
    <2>2. state' = [s \in Slots |-> state'[s]]
      BY DEF Advance
    <2>3. state' \in [Slots -> [valid : BOOLEAN, generation : 0 .. Requests, tail : Tokens,
                             draft : Tokens, position : Positions, count : 0 .. MaxPosition]]
      BY <2>1, <2>2
    <2> QED
      BY <1>1, <1>a, <1>b, <2>3, DeviceType DEF TypeOK, Phases
  <1>g. \A s \in Slots : state'[s].generation = state[s].generation
                         /\ (state'[s].valid <=> state[s].valid)
    BY <1>e, <1>f
  <1>h. \A r \in Rows : batch[r].slot # -1 => batch[r].slot \in Slots
    BY <1>a, RowType
  <1>i. \A r \in Rows : (Guarded(r)' <=> Guarded(r)) /\ (Live(r)' <=> Live(r))
    BY <1>b, <1>g, <1>h DEF Guarded, Live
  <1>3. OwnersOK'
    BY <1>a, <1>b, <1>g DEF OwnersOK
  <1>4. BatchOK'
    <2>1. ASSUME NEW r \in Rows
          PROVE  RowAt(r)'
      <3>1. RowAt(r)
        BY <1>a DEF BatchOK
      <3> QED
        BY <1>b, <1>g, <1>h, <1>i, <3>1 DEF RowAt
    <2> QED
      BY <1>a, <1>b, <2>1 DEF BatchOK
  <1>5. SlotsOK'
    <2>1. ASSUME NEW s \in Slots, state'[s].valid
          PROVE  state'[s].position = Prompt - 1 + state'[s].count
      BY <1>a, <1>e, <1>f, <2>1 DEF SlotsOK
    <2>2. ASSUME NEW s \in Slots, owner[s] # 0
          PROVE  /\ state'[s].position = Newest(owner[s])' + Ahead(owner[s])'
                 /\ state'[s].tail = Token(owner'[s], state'[s].position + 1)
                 /\ \A p \in 0 .. state'[s].position : cache[owner[s]][p] = Token(owner[s], p)
      <3> DEFINE q == owner[s]
                 n == Newest(q)
      <3>1. /\ q \in 1 .. Requests /\ state[s].position = n
            /\ state[s].tail = Token(q, n + 1) /\ CachedTo(q, n) /\ n \in Nat
        BY <1>a, <1>b, <2>2, HeldSlot, NewestInt
      <3>2. Newest(q)' = n
        BY <1>b DEF Newest
      <3>3. ASSUME NEW r \in Rows, batch[r].request = q
            PROVE  /\ state'[s].position = n + work[r].accepted /\ Ahead(q)' = work[r].accepted
                   /\ state'[s].tail = Token(q, n + work[r].accepted + 1)
                   /\ CachedTo(q, n + work[r].accepted)
        <4>1. batch[r].slot = s /\ Live(r)
          BY <1>a, <2>2, <3>3, HeldRow
        <4>2. Guarded(r)
          BY <1>a, <4>1, LiveRow
        <4>3. state'[s].position = n + work[r].accepted /\ state'[s].tail = work[r].mtpInput[2]
          BY <1>e, <3>1, <4>1, <4>2
        <4>4. work[r].mtpInput[2] = Token(q, n + work[r].accepted + 1) /\ CachedTo(q, n + work[r].accepted)
          BY <1>a, <1>b, <3>3, <4>1 DEF WorkAgrees, ContentsAt
        <4>5. \A x \in Rows : batch[x].request = q => x = r
          BY <1>a, <3>3, <4>1 DEF BatchOK, Live
        <4>6. Ahead(q)' = work[r].accepted
          BY <1>b, <3>3, <4>5 DEF Ahead
        <4> QED
          BY <4>3, <4>4, <4>6
      <3>4. CASE \E r \in Rows : batch[r].request = q
        <4>1. PICK r \in Rows : batch[r].request = q
          BY <3>4
        <4>2. \A p \in 0 .. n + work[r].accepted : cache[q][p] = Token(q, p)
          BY <3>3, <4>1 DEF CachedTo
        <4>3. owner' = owner
          BY <1>b
        <4> QED
          BY <3>2, <3>3, <4>1, <4>2, <4>3
      <3>5. CASE \A r \in Rows : batch[r].request # q
        <4>1. Ahead(q)' = 0
          BY <1>b, <3>5 DEF Ahead
        <4>2. state'[s] = state[s]
          <5>1. \A r \in Rows : batch[r].slot = s => ~Guarded(r)
            <6> SUFFICES ASSUME NEW r \in Rows, batch[r].slot = s, Guarded(r)
                         PROVE  FALSE
              OBVIOUS
            <6>1. RowAt(r) /\ s # -1
              BY <1>a, SizesAssumption DEF BatchOK
            <6> QED
              BY <2>2, <3>5, <6>1 DEF RowAt
          <5> QED
            BY <1>f, <5>1
        <4>3. owner' = owner /\ \A p \in 0 .. n : cache[q][p] = Token(q, p)
          BY <1>b, <3>1 DEF CachedTo
        <4> QED
          BY <3>1, <3>2, <4>1, <4>2, <4>3
      <3> QED
        BY <3>4, <3>5
    <2> QED
      BY <1>b, <2>1, <2>2 DEF SlotsOK, CachedTo
  <1>6. WorkAgrees'
    <2>1. ASSUME NEW r \in Rows
          PROVE  PositionsAt(r, state[batch[r].slot].position)'
      BY <1>b DEF PositionsAt
    <2>2. ASSUME NEW r \in Rows, Live(r)
          PROVE  ContentsAt(r, batch[r].request, Newest(batch[r].request))'
      <3>1. ContentsAt(r, batch[r].request, Newest(batch[r].request))
        BY <1>a, <2>2 DEF WorkAgrees
      <3> QED
        BY <1>b, <3>1 DEF ContentsAt, Newest, CachedTo
    <2> QED
      BY <1>a, <1>b, <1>i, <2>1, <2>2 DEF WorkAgrees
  <1> QED
    BY <1>1, <1>2, <1>3, <1>4, <1>5, <1>6 DEF CommitInv

-----------------------------------------------------------------------------
\* What the host is answered for a request that still holds its slot: the next
\* tokens of it, as many as the step accepted.
Answers(q) == \E r \in Rows : batch[r].request = q /\ owner[batch[r].slot] = q

AcceptedFor(q) ==
    IF Answers(q) THEN work[CHOOSE r \in Rows : batch[r].request = q].accepted ELSE 0

LEMMA AnsweredRow ==
    ASSUME CommitInv, phase = "advanced", NEW q \in 1 .. Requests,
           NEW r \in Rows, batch[r].request = q, owner[batch[r].slot] = q
    PROVE  /\ Live(r) /\ batch[r].slot \in Slots /\ q <= assigned
           /\ r = CHOOSE x \in Rows : batch[x].request = q
           /\ work[r].accepted \in {1, 2}
           /\ Answered(r) = Plain!Following(q, work[r].accepted)
           /\ Answered(r) \in Seq(Tokens) /\ Len(Answered(r)) = work[r].accepted
  <1> DEFINE n == Newest(q)
             w == work[r]
  <1>a. TypeOK /\ WorkOK /\ BatchOK /\ WorkAgrees
    BY DEF CommitInv
  <1>1. batch[r].slot # -1
    BY <1>a DEF BatchOK, RowAt, NoRow
  <1>2. Live(r) /\ batch[r].slot \in Slots
    BY <1>1, <1>a, RowType DEF Live
  <1>3. \A x \in Rows : batch[x].request = q => x = r
    BY <1>1, <1>a DEF BatchOK
  <1>4. r = CHOOSE x \in Rows : batch[x].request = q
    BY <1>3
  <1>5. q <= assigned
    BY <1>1, <1>a DEF BatchOK, RowAt
  <1>6. /\ w.accepted \in {1, 2} /\ w.mtpInput[2] = Token(q, n + w.accepted + 1)
        /\ w.accepted = 2 => w.mtpInput[1] = Token(q, n + 2)
    BY <1>2, <1>a DEF WorkAgrees, ContentsAt
  <1>7. w.mtpInput = <<w.mtpInput[1], w.mtpInput[2]>> /\ w.mtpInput[1] \in Tokens /\ w.mtpInput[2] \in Tokens
    BY <1>a, WorkType, PairOf
  <1>8. Len(out[q]) \in Nat /\ n = Prompt - 1 + Len(out[q]) /\ Prompt \in Nat
    BY <1>a, SizesAssumption DEF TypeOK, Newest
  <1>9. Answered(r) = Plain!Following(q, w.accepted)
        /\ Answered(r) \in Seq(Tokens) /\ Len(Answered(r)) = w.accepted
    <2> DEFINE f == Plain!Following(q, w.accepted)
    <2>1. \A i \in 1 .. w.accepted : f[i] = Token(q, n + 1 + i)
      <3>1. \A i \in Nat : Prompt + Len(out[q]) + i = n + 1 + i
        BY <1>8
      <3>2. w.accepted \in Nat
        BY <1>6
      <3> QED
        BY <3>1, <3>2 DEF Plain!Following, Token
    <2>2. CASE w.accepted = 1
      <3>1. Answered(r) = <<w.mtpInput[2]>>
        BY <2>2 DEF Answered
      <3>2. n + 1 + 1 = n + w.accepted + 1
        BY <1>8, <2>2
      <3>3. f[1] = w.mtpInput[2]
        BY <1>6, <2>1, <2>2, <3>2
      <3>4. f = [i \in 1 .. 1 |-> f[i]]
        BY <2>2 DEF Plain!Following
      <3>5. f = <<w.mtpInput[2]>>
        <4> HIDE DEF f
        <4> QED
          BY <1>7, <3>3, <3>4
      <3> QED
        BY <1>7, <2>2, <3>1, <3>5
    <2>3. CASE w.accepted = 2
      <3>1. Answered(r) = <<w.mtpInput[1], w.mtpInput[2]>>
        BY <1>7, <2>3 DEF Answered
      <3>2. n + 1 + 1 = n + 2 /\ n + 1 + 2 = n + w.accepted + 1
        BY <1>8, <2>3
      <3>3. f[1] = w.mtpInput[1] /\ f[2] = w.mtpInput[2]
        BY <1>6, <2>1, <2>3, <3>2
      <3>4. f = [i \in 1 .. 2 |-> f[i]]
        BY <2>3 DEF Plain!Following
      <3>5. f = <<w.mtpInput[1], w.mtpInput[2]>>
        <4> HIDE DEF f
        <4>1. f \in [1 .. 2 -> Tokens]
          BY <1>7, <3>3, <3>4
        <4> QED
          BY <3>3, <4>1
      <3> QED
        BY <1>7, <2>3, <3>1, <3>5
    <2> QED
      BY <1>6, <2>2, <2>3
  <1> QED
    BY <1>2, <1>4, <1>5, <1>6, <1>9

LEMMA CollectInv ==
    ASSUME CommitInv, Collect, UNCHANGED overlap
    PROVE  CommitInv'
  <1>a. TypeOK /\ WorkOK /\ OwnersOK /\ BatchOK /\ SlotsOK /\ WorkAgrees
    BY DEF CommitInv
  <1>b. /\ phase = "advanced" /\ phase' = "idle"
        /\ batch' = [r \in Rows |-> NoRow] /\ work' = [r \in Rows |-> Padded]
        /\ UNCHANGED <<overlap, owner, assigned, state, pool, cache, draftCache>>
    BY DEF Collect
  <1> DEFINE row(q) == CHOOSE r \in Rows : batch[r].request = q
  <1>c. ASSUME NEW q \in 1 .. Requests
        PROVE  /\ out[q] \in Seq(Tokens) /\ out'[q] \in Seq(Tokens)
               /\ ~Answers(q) => out'[q] = out[q]
               /\ \A r \in Rows : batch[r].request = q /\ owner[batch[r].slot] = q =>
                    Len(out'[q]) = Len(out[q]) + work[r].accepted
    <2>1. out'[q] = IF Answers(q) THEN out[q] \o Answered(row(q)) ELSE out[q]
      BY DEF Collect, Answers
    <2>2. out[q] \in Seq(Tokens)
      BY <1>a DEF TypeOK
    <2>3. ASSUME NEW r \in Rows, batch[r].request = q, owner[batch[r].slot] = q
          PROVE  out'[q] \in Seq(Tokens) /\ Len(out'[q]) = Len(out[q]) + work[r].accepted
      <3>1. out'[q] = out[q] \o Answered(r)
        <4>1. Answers(q) /\ r = row(q)
          BY <1>b, <2>3, AnsweredRow DEF Answers
        <4> HIDE DEF row
        <4> QED
          BY <2>1, <4>1
      <3>2. Answered(r) \in Seq(Tokens) /\ Len(Answered(r)) = work[r].accepted
        BY <1>b, <2>3, AnsweredRow
      <3> DEFINE a == Answered(r)
      <3>3. a \in Seq(Tokens) /\ Len(a) = work[r].accepted /\ out'[q] = out[q] \o a
        BY <3>1, <3>2
      <3> HIDE DEF a
      <3>4. out[q] \o a \in Seq(Tokens) /\ Len(out[q] \o a) = Len(out[q]) + Len(a)
        BY <2>2, <3>3, ConcatProperties
      <3> QED
        BY <3>3, <3>4
    <2>4. ~Answers(q) => out'[q] = out[q]
      BY <2>1
    <2> HIDE DEF row
    <2> QED
      BY <2>2, <2>3, <2>4 DEF Answers
  <1>1. TypeOK'
    <2>1. out' \in [1 .. Requests -> Seq(Tokens)]
      <3>1. out' = [q \in 1 .. Requests |-> out'[q]]
        BY DEF Collect
      <3> QED
        BY <1>c, <3>1
    <2>2. batch' \in [Rows -> [slot : Slots \cup {-1}, generation : 0 .. Requests, request : 0 .. Requests]]
      BY <1>b, SizesAssumption DEF NoRow
    <2>3. \A r \in Rows : /\ work'[r].position \in Pairs(Positions)
                          /\ work'[r].mtpPosition \in Pairs(Positions)
                          /\ work'[r].accepted \in 0 .. 2
      BY <1>b, PaddedIn DEF WorkRows
    <2> QED
      BY <1>a, <1>b, <2>1, <2>2, <2>3 DEF TypeOK, Phases
  <1>2. WorkOK'
    BY <1>b, PaddedIn DEF WorkOK
  <1>3. OwnersOK'
    <2>1. ASSUME NEW q \in 1 .. Requests, q > assigned
          PROVE  out'[q] = <<>>
      <3>1. ~Answers(q)
        <4>1. assigned \in Nat
          BY <1>a, SizesAssumption DEF TypeOK
        <4>2. ASSUME NEW r \in Rows, batch[r].request = q, owner[batch[r].slot] = q
              PROVE  q <= assigned
          BY <1>b, <4>2, AnsweredRow
        <4> QED
          BY <2>1, <4>1, <4>2 DEF Answers
      <3> QED
        BY <1>a, <1>c, <2>1, <3>1 DEF OwnersOK
    <2> QED
      BY <1>a, <1>b, <2>1 DEF OwnersOK
  <1>4. BatchOK'
    BY <1>b DEF BatchOK, RowAt, NoRow
  <1>5. SlotsOK'
    <2>1. ASSUME NEW s \in Slots, owner[s] # 0
          PROVE  state[s].position = Newest(owner[s])' + Ahead(owner[s])'
      <3> DEFINE q == owner[s]
      <3>1. q \in 1 .. Requests
        BY <1>a, <2>1, SlotType, SizesAssumption
      <3>2. Ahead(q)' = 0 /\ Newest(q)' = Prompt - 1 + Len(out'[q])
        BY <1>b DEF Ahead, Newest
      <3>3. state[s].position = Newest(q) + Ahead(q) /\ Newest(q) = Prompt - 1 + Len(out[q])
        BY <1>a, <2>1 DEF SlotsOK, Newest
      <3>4. Len(out[q]) \in Nat /\ Len(out'[q]) \in Nat
        BY <1>c, <3>1
      <3>5. ASSUME NEW r \in Rows, batch[r].request = q
            PROVE  Len(out'[q]) = Len(out[q]) + Ahead(q) /\ Ahead(q) \in {1, 2}
        <4>1. batch[r].slot = s /\ Live(r)
          BY <1>a, <2>1, <3>5, HeldRow
        <4>2. Ahead(q) = work[r].accepted
          BY <1>a, <1>b, <3>5, <4>1, AheadRow DEF Live
        <4>3. work[r].accepted \in {1, 2}
          BY <1>b, <3>1, <3>5, <4>1, AnsweredRow
        <4> QED
          BY <1>c, <3>1, <3>5, <4>1, <4>2, <4>3
      <3>6. ASSUME \A r \in Rows : batch[r].request # q
            PROVE  Len(out'[q]) = Len(out[q]) + Ahead(q) /\ Ahead(q) = 0
        <4>1. Ahead(q) = 0 /\ ~Answers(q)
          BY <3>6 DEF Ahead, Answers
        <4> QED
          BY <1>c, <3>1, <3>4, <4>1
      <3>7. Len(out'[q]) = Len(out[q]) + Ahead(q) /\ Ahead(q) \in Nat
        BY <3>5, <3>6
      <3> QED
        BY <3>2, <3>3, <3>4, <3>7, SizesAssumption
    <2> QED
      BY <1>a, <1>b, <2>1 DEF SlotsOK, CachedTo
  <1>6. WorkAgrees'
    BY <1>b DEF WorkAgrees, Guarded, Live, NoRow
  <1> QED
    BY <1>1, <1>2, <1>3, <1>4, <1>5, <1>6 DEF CommitInv

-----------------------------------------------------------------------------
\* A step of the code is a step of PlainDecode, or leaves what it shows alone.
LEMMA CollectRefines ==
    ASSUME CommitInv, Collect
    PROVE  Plain!Step
  <1> DEFINE row(q) == CHOOSE r \in Rows : batch[r].request = q
             more == [q \in 1 .. Requests |-> AcceptedFor(q)]
  <1>a. TypeOK /\ phase = "advanced" /\ UNCHANGED <<owner, assigned>>
    BY DEF CommitInv, Collect
  <1>1. ASSUME NEW q \in 1 .. Requests
        PROVE  /\ more[q] \in 0 .. 2
               /\ more[q] > 0 => \E s \in Slots : owner[s] = q
               /\ out'[q] = out[q] \o Plain!Following(q, more[q])
    <2>1. out'[q] = IF Answers(q) THEN out[q] \o Answered(row(q)) ELSE out[q]
      BY DEF Collect, Answers
    <2>2. ASSUME NEW r \in Rows, batch[r].request = q, owner[batch[r].slot] = q
          PROVE  /\ more[q] \in 0 .. 2
                 /\ more[q] > 0 => \E s \in Slots : owner[s] = q
                 /\ out'[q] = out[q] \o Plain!Following(q, more[q])
      <3>1. /\ r = row(q) /\ work[r].accepted \in {1, 2} /\ batch[r].slot \in Slots
            /\ Answered(r) = Plain!Following(q, work[r].accepted)
        BY <1>a, <2>2, AnsweredRow
      <3>2. Answers(q) /\ more[q] = work[r].accepted
        BY <2>2, <3>1 DEF Answers, AcceptedFor
      <3> HIDE DEF more, row
      <3>3. out'[q] = out[q] \o Plain!Following(q, more[q])
        BY <2>1, <3>1, <3>2
      <3> QED
        BY <2>2, <3>1, <3>2, <3>3
    <2>3. CASE ~Answers(q)
      <3>1. more[q] = 0 /\ out'[q] = out[q]
        BY <2>1, <2>3 DEF AcceptedFor
      <3>2. Plain!Following(q, 0) \in [1 .. 0 -> Tokens]
        BY DEF Plain!Following
      <3>3. out[q] \in Seq(Tokens)
        BY <1>a DEF TypeOK
      <3>4. out[q] \o Plain!Following(q, 0) = out[q]
        <4> DEFINE f == Plain!Following(q, 0)
        <4>1. f \in [1 .. 0 -> Tokens]
          BY <3>2
        <4> HIDE DEF f
        <4>2. f \in Seq(Tokens) /\ Len(f) = 0
          BY <4>1
        <4>3. f = <<>>
          BY <4>2, EmptySeq
        <4>4. out[q] \o f = out[q]
          BY <3>3, <4>3, ConcatEmptySeq
        <4> QED
          BY <4>4 DEF f
      <3> HIDE DEF more
      <3> QED
        BY <3>1, <3>4
    <2> QED
      BY <2>2, <2>3 DEF Answers
  <1>2. more \in [1 .. Requests -> 0 .. 2]
    <2>1. ASSUME NEW q \in 1 .. Requests
          PROVE  AcceptedFor(q) \in 0 .. 2
      BY <1>1
    <2> QED
      BY <2>1
  <1>3. out' = [q \in 1 .. Requests |-> out[q] \o Plain!Following(q, more[q])]
    <2>1. out' = [q \in 1 .. Requests |-> out'[q]]
      BY DEF Collect
    <2> HIDE DEF more
    <2> QED
      BY <1>1, <2>1
  <1> HIDE DEF more
  <1> QED
    BY <1>1, <1>2, <1>3, <1>a DEF Plain!Step

LEMMA NextInv == CommitInv /\ [Next]_vars => CommitInv'
  <1> SUFFICES ASSUME CommitInv, [Next]_vars PROVE CommitInv'
    OBVIOUS
  <1>1. CASE UNCHANGED vars
    <2>1. TypeOK' /\ WorkOK' /\ OwnersOK'
      BY <1>1 DEF CommitInv, vars, TypeOK, WorkOK, OwnersOK
    <2>2. BatchOK'
      BY <1>1 DEF CommitInv, vars, BatchOK, RowAt, Guarded
    <2>3. SlotsOK'
      BY <1>1 DEF CommitInv, vars, SlotsOK, Newest, Ahead, CachedTo
    <2>4. WorkAgrees'
      BY <1>1 DEF CommitInv, vars, WorkAgrees, Guarded, Live, PositionsAt, ContentsAt, Newest, CachedTo
    <2> QED
      BY <2>1, <2>2, <2>3, <2>4 DEF CommitInv
  <1>2. ASSUME NEW s \in Slots, Assign(s) \/ Release(s), UNCHANGED overlap
        PROVE  CommitInv'
    BY <1>2, AssignInv, ReleaseInv
  <1>3. CASE UNCHANGED overlap /\ (Submit \/ Prepare \/ Forward \/ Verify)
    BY <1>3, SubmitInv, PrepareInv, ForwardInv, VerifyInv
  <1>4. ASSUME NEW r \in Rows, Pack(r), UNCHANGED overlap
        PROVE  CommitInv'
    BY <1>4, PackInv
  <1>5. CASE UNCHANGED overlap /\ (Draft \/ Advance \/ Collect)
    BY <1>5, DraftInv, AdvanceInv, CollectInv
  <1> QED
    BY <1>1, <1>2, <1>3, <1>4, <1>5 DEF Next, Stopped

LEMMA NextRefines ==
    CommitInv /\ [Next]_vars => [Plain!Next]_<<owner, assigned, out>>
  <1> SUFFICES ASSUME CommitInv, [Next]_vars PROVE [Plain!Next]_<<owner, assigned, out>>
    OBVIOUS
  <1>1. CASE UNCHANGED vars
    BY <1>1 DEF vars
  <1>2. ASSUME NEW s \in Slots, Assign(s) \/ Release(s)
        PROVE  Plain!Next
    BY <1>2 DEF Assign, Release, Plain!Next
  <1>3. CASE Submit \/ Prepare \/ Forward \/ Verify \/ Draft \/ Advance
    BY <1>3 DEF Submit, Prepare, Forward, Verify, Draft, Advance
  <1>4. ASSUME NEW r \in Rows, Pack(r)
        PROVE  UNCHANGED <<owner, assigned, out>>
    BY <1>4 DEF Pack
  <1>5. CASE Collect
    BY <1>5, CollectRefines DEF Plain!Next
  <1> QED
    BY <1>1, <1>2, <1>3, <1>4, <1>5 DEF Next, Stopped

-----------------------------------------------------------------------------
\* The part of the invariant that carries the answers holds in every state.
THEOREM CommitCorrect == Spec => []CommitInv
  <1>1. Init => CommitInv
    BY InitInv
  <1>2. CommitInv /\ [Next]_vars => CommitInv'
    BY NextInv
  <1> QED
    BY <1>1, <1>2, PTL DEF Spec

\* Between steps the device state of a held slot says what the host was
\* answered for its request: its last token, its position, its count.
THEOREM AgreesCorrect == Spec => []StateAgrees
  <1>1. CommitInv => StateAgrees
    <2> SUFFICES ASSUME CommitInv PROVE StateAgrees
      OBVIOUS
    <2>1. TypeOK /\ SlotsOK /\ OwnersOK
      BY DEF CommitInv
    <2>2. ASSUME phase = "idle", NEW s \in Slots, owner[s] # 0
          PROVE  LET q == owner[s]
                 IN  /\ state[s].count = Len(out[q])
                     /\ state[s].position = Prompt - 1 + Len(out[q])
                     /\ state[s].tail = Token(q, state[s].position + 1)
      <3>1. owner[s] \in 1 .. Requests /\ state[s].position = Newest(owner[s])
            /\ state[s].tail = Token(owner[s], Newest(owner[s]) + 1)
        BY <2>1, <2>2, HeldSlot
      <3>2. state[s].position = Prompt - 1 + state[s].count
        BY <2>1, <2>2 DEF SlotsOK, OwnersOK
      <3>3. Len(out[owner[s]]) \in Nat /\ state[s].count \in Nat
        BY <2>1, <3>1, SlotType, SizesAssumption DEF TypeOK
      <3> QED
        BY <3>1, <3>2, <3>3, SizesAssumption DEF Newest
    <2> QED
      BY <2>1, <2>2 DEF StateAgrees
  <1> QED
    BY <1>1, CommitCorrect, PTL

\* Speculative decoding answers what plain decoding of each request would:
\* MtpDecode implements PlainDecode.
THEOREM PlainCorrect == Spec => DecodesPlainly
  <1>1. Init => Plain!Init
    BY DEF Init
  <1>2. CommitInv /\ [Next]_vars => [Plain!Next]_<<owner, assigned, out>>
    BY NextRefines
  <1> QED
    BY <1>1, <1>2, CommitCorrect, PTL DEF Spec, DecodesPlainly, Plain!Spec

-----------------------------------------------------------------------------
\* What the MTP layer caches for a row of the step: its window, each token with
\* the hidden row before it, and nothing elsewhere.
LEMMA DraftCachedLive ==
    ASSUME TypeOK, WorkOK, BatchOK, NEW r \in Rows, batch[r].slot # -1,
           NEW m \in Int, work[r].mtpPosition = <<m - 1, m>>, NEW p \in Positions
    PROVE  DraftCached(batch[r].request)[p] =
               IF p = m - 1 THEN <<work[r].packed[1], work[r].mtpInput[1]>>
               ELSE IF p = m THEN <<work[r].packed[2], work[r].mtpInput[2]>>
               ELSE draftCache[batch[r].request][p]
  <1> DEFINE q == batch[r].request
             W == DraftWriters(q, p)
  <1>0. DraftCached(q)[p] = IF W = {} THEN draftCache[q][p]
                            ELSE <<work[Latest(W)[1]].packed[Latest(W)[2]],
                                   work[Latest(W)[1]].mtpInput[Latest(W)[2]]>>
    BY DEF DraftCached
  <1>1. \A x \in Rows : batch[x].request = q => x = r
    BY DEF BatchOK
  <1>2. W \in SUBSET (Rows \X {1, 2}) /\ \A x \in W : x[1] = r /\ work[r].mtpPosition[x[2]] = p
    BY <1>1 DEF DraftWriters
  <1>3. work[r].mtpPosition[1] = m - 1 /\ work[r].mtpPosition[2] = m
    OBVIOUS
  <1>4. CASE W = {}
    <2>1. p = m - 1 => <<r, 1>> \in W
      BY <1>3 DEF DraftWriters
    <2>2. p = m => <<r, 2>> \in W
      BY <1>3 DEF DraftWriters
    <2> HIDE DEF W
    <2> QED
      BY <1>0, <1>4, <2>1, <2>2
  <1>5. CASE W # {}
    <2>1. Latest(W) \in W /\ Latest(W)[2] \in {1, 2}
      BY <1>2, <1>5, LatestIn
    <2>2. Latest(W)[1] = r /\ work[r].mtpPosition[Latest(W)[2]] = p
      BY <1>2, <2>1
    <2>3. DraftCached(q)[p] = <<work[r].packed[Latest(W)[2]], work[r].mtpInput[Latest(W)[2]]>>
      BY <1>0, <1>5, <2>2
    <2> HIDE DEF W
    <2> QED
      BY <1>3, <2>1, <2>2, <2>3
  <1> QED
    BY <1>4, <1>5

LEMMA DraftCachedOther ==
    ASSUME TypeOK, NEW q \in 0 .. Requests, \A r \in Rows : batch[r].request # q
    PROVE  DraftCached(q) = draftCache[q]
  <1>1. \A p \in Positions : DraftWriters(q, p) = {}
    BY DEF DraftWriters
  <1> DEFINE f == DraftCached(q)
  <1>2. \A p \in Positions : f[p] = draftCache[q][p]
    BY <1>1 DEF DraftCached
  <1>3. f = [p \in Positions |-> f[p]]
    BY DEF DraftCached
  <1>4. draftCache[q] = [p \in Positions |-> draftCache[q][p]]
    BY CacheType
  <1>5. f = draftCache[q]
    <2> HIDE DEF f
    <2> QED
      BY <1>2, <1>3, <1>4
  <1> QED
    BY <1>5

\* A held slot that no row names is of no request of the step.
LEMMA FreeOfRows ==
    ASSUME TypeOK, BatchOK, NEW s \in Slots, owner[s] # 0, \A r \in Rows : batch[r].slot # s
    PROVE  \A r \in Rows : batch[r].request # owner[s]
  BY HeldRow

-----------------------------------------------------------------------------
LEMMA ContextInit == Init => ContextOK
  BY DEF Init, Plain!Init, ContextOK, NoRow

LEMMA ContextAssign ==
    ASSUME CommitInv, ContextOK, NEW s \in Slots, Assign(s), UNCHANGED overlap, ~overlap
    PROVE  ContextOK'
  <1> DEFINE q == assigned + 1
  <1>a. TypeOK /\ OwnersOK /\ BatchOK /\ phase = "idle"
    BY DEF CommitInv, Assign, HostMay
  <1>b. /\ owner' = [owner EXCEPT ![s] = q] /\ out' = out /\ batch' = batch
        /\ pool' = [pool EXCEPT ![s] = Hidden(q, Prompt - 1)]
        /\ draftCache' = [draftCache EXCEPT ![q] =
                            [p \in Positions |-> IF p < Prompt
                                                   THEN <<Hidden(q, p), Token(q, p + 1)>>
                                                   ELSE <<OtherHidden, Other>>]]
        /\ assigned < Requests
    BY DEF Assign, Plain!Assign
  <1>c. q \in 1 .. Requests /\ assigned \in Nat
    BY <1>a, <1>b, SizesAssumption DEF TypeOK
  <1>d. \A r \in Rows : batch[r].slot = -1
    BY <1>a DEF BatchOK, NoRow
  <1>1. ASSUME NEW x \in Slots, owner'[x] # 0
        PROVE  SlotContext(owner[x], x, Newest(owner[x]))'
    <2>1. CASE x = s
      <3>1. owner'[x] = q
        BY <1>a, <1>b, <2>1 DEF TypeOK
      <3>2. out[q] = <<>>
        BY <1>a, <1>c DEF OwnersOK
      <3>3. Newest(owner[x])' = Prompt - 1
        BY <1>b, <3>1, <3>2, SizesAssumption DEF Newest
      <3>4. pool'[x] = Hidden(q, Prompt - 1)
        BY <1>a, <1>b, <2>1 DEF TypeOK
      <3>5. \A p \in 0 .. Prompt - 1 : draftCache'[q][p] = <<Hidden(q, p), Token(q, p + 1)>>
        <4>1. draftCache'[q] = [p \in Positions |-> IF p < Prompt
                                                   THEN <<Hidden(q, p), Token(q, p + 1)>>
                                                   ELSE <<OtherHidden, Other>>]
          BY <1>a, <1>b, <1>c DEF TypeOK
        <4>2. \A p \in 0 .. Prompt - 1 : p \in Positions /\ p < Prompt
          BY SizesAssumption DEF Positions
        <4> QED
          BY <4>1, <4>2
      <3> QED
        BY <3>1, <3>3, <3>4, <3>5 DEF SlotContext, DraftedTo
    <2>2. CASE x # s
      <3>1. owner'[x] = owner[x] /\ pool'[x] = pool[x]
        BY <1>a, <1>b, <2>2 DEF TypeOK
      <3>2. owner[x] <= assigned /\ owner[x] \in 0 .. Requests
        BY <1>a, SlotType DEF OwnersOK
      <3>3. draftCache'[owner[x]] = draftCache[owner[x]]
        BY <1>a, <1>b, <1>c, <3>2 DEF TypeOK
      <3>4. SlotContext(owner[x], x, Newest(owner[x]))
        BY <1>1, <1>d, <3>1, SizesAssumption DEF ContextOK
      <3> QED
        BY <1>b, <3>1, <3>3, <3>4 DEF SlotContext, DraftedTo, Newest
    <2> QED
      BY <2>1, <2>2
  <1> QED
    BY <1>1, <1>b, <1>d DEF ContextOK

LEMMA ContextRelease ==
    ASSUME CommitInv, ContextOK, NEW s \in Slots, Release(s), UNCHANGED overlap, ~overlap
    PROVE  ContextOK'
  <1>a. TypeOK /\ BatchOK /\ phase = "idle"
    BY DEF CommitInv, Release, HostMay
  <1>b. owner' = [owner EXCEPT ![s] = 0] /\ UNCHANGED <<out, batch, pool, draftCache>>
    BY DEF Release, Plain!Release
  <1>d. \A r \in Rows : batch[r].slot = -1
    BY <1>a DEF BatchOK, NoRow
  <1>1. ASSUME NEW x \in Slots, owner'[x] # 0
        PROVE  SlotContext(owner[x], x, Newest(owner[x]))'
    <2>1. owner'[x] = owner[x]
      BY <1>1, <1>a, <1>b DEF TypeOK
    <2>2. SlotContext(owner[x], x, Newest(owner[x]))
      BY <1>1, <1>d, <2>1, SizesAssumption DEF ContextOK
    <2> QED
      BY <1>b, <2>1, <2>2 DEF SlotContext, DraftedTo, Newest
  <1> QED
    BY <1>1, <1>b, <1>d DEF ContextOK

LEMMA ContextSubmit ==
    ASSUME CommitInv, ContextOK, Submit, UNCHANGED overlap, ~overlap
    PROVE  ContextOK'
  <1>a. TypeOK /\ BatchOK
    BY DEF CommitInv
  <1>b. PICK slot \in [Rows -> Slots \cup {-1}] :
          /\ \A r \in Rows : slot[r] # -1 => owner[slot[r]] # 0
          /\ batch' = [r \in Rows |->
                IF slot[r] = -1 THEN NoRow
                ELSE [slot |-> slot[r], generation |-> state[slot[r]].generation,
                      request |-> owner[slot[r]]]]
    BY DEF Submit
  <1>c. /\ phase = "idle" /\ phase' = "submitted" /\ work' = [r \in Rows |-> Padded]
        /\ UNCHANGED <<overlap, owner, assigned, out, state, pool, cache, draftCache>>
    BY DEF Submit
  <1>d. \A r \in Rows : batch[r].slot = -1
    BY <1>a, <1>c DEF BatchOK, NoRow
  <1>1. ASSUME NEW s \in Slots, owner[s] # 0
        PROVE  SlotContext(owner[s], s, Newest(owner[s]))
    BY <1>1, <1>d, SizesAssumption DEF ContextOK
  <1>2. ASSUME NEW r \in Rows, batch'[r].slot # -1
        PROVE  Live(r)' /\ RowContext(r, batch[r].request, Newest(batch[r].request))'
    <2>1. slot[r] # -1 /\ slot[r] \in Slots /\ batch'[r].slot = slot[r]
          /\ batch'[r].request = owner[slot[r]] /\ owner[slot[r]] # 0
      BY <1>b, <1>2 DEF NoRow
    <2>2. work'[r].packed = <<>>
      BY <1>c DEF Padded
    <2>3. SlotContext(owner[slot[r]], slot[r], Newest(owner[slot[r]]))
      BY <1>1, <2>1
    <2> QED
      BY <1>c, <2>1, <2>2, <2>3 DEF RowContext, SlotContext, DraftedTo, Newest, Live
  <1>3. ASSUME NEW s \in Slots, owner'[s] # 0
        PROVE  SlotContext(owner[s], s, Newest(owner[s]))'
    BY <1>1, <1>3, <1>c DEF SlotContext, DraftedTo, Newest
  <1> QED
    BY <1>2, <1>3 DEF ContextOK

-----------------------------------------------------------------------------
\* A step on the device: the rows stay live, and what it leaves alone in pool
\* and MTP cache it leaves as it was for the slots no row names.
LEMMA ContextDevice ==
    ASSUME CommitInv, ContextOK, ~overlap, UNCHANGED <<overlap, owner, out, batch>>,
           \A r \in Rows : batch[r].slot # -1 =>
               RowContext(r, batch[r].request, Newest(batch[r].request))',
           \A s \in Slots : (\A r \in Rows : batch[r].slot # s) => pool'[s] = pool[s],
           \A q \in 1 .. Requests :
               (\A r \in Rows : batch[r].request # q) => draftCache'[q] = draftCache[q]
    PROVE  ContextOK'
  <1>a. TypeOK /\ BatchOK
    BY DEF CommitInv
  <1>1. ASSUME NEW s \in Slots, owner[s] # 0, \A r \in Rows : batch[r].slot # s
        PROVE  SlotContext(owner[s], s, Newest(owner[s]))'
    <2>1. \A r \in Rows : batch[r].request # owner[s]
      BY <1>1, <1>a, FreeOfRows
    <2>2. owner[s] \in 1 .. Requests
      BY <1>1, <1>a, SlotType, SizesAssumption
    <2>3. SlotContext(owner[s], s, Newest(owner[s]))
      BY <1>1 DEF ContextOK
    <2>4. pool'[s] = pool[s] /\ draftCache'[owner[s]] = draftCache[owner[s]]
      BY <1>1, <2>1, <2>2
    <2> QED
      BY <2>3, <2>4 DEF SlotContext, DraftedTo, Newest
  <1>2. \A r \in Rows : batch[r].slot # -1 => Live(r)'
    BY DEF ContextOK, Live
  <1> QED
    BY <1>1, <1>2 DEF ContextOK

\* The row of a slot in use, and what its request and newest position are.
LEMMA RowFacts ==
    ASSUME CommitInv, ContextOK, ~overlap, NEW r \in Rows, batch[r].slot # -1
    PROVE  LET q == batch[r].request
               n == Newest(q)
           IN  /\ Live(r) /\ Guarded(r) /\ RowContext(r, q, n) /\ ContentsAt(r, q, n)
               /\ q \in 1 .. Requests /\ n \in Nat /\ batch[r].slot \in Slots
               /\ phase # "advanced" => state[batch[r].slot].position = n /\ PositionsAt(r, n)
  <1> DEFINE q == batch[r].request
             n == Newest(q)
             s == batch[r].slot
  <1>1. TypeOK /\ BatchOK /\ SlotsOK /\ WorkAgrees
    BY DEF CommitInv
  <1>2. Live(r) /\ RowContext(r, q, n)
    BY DEF ContextOK
  <1>3. Guarded(r) /\ q \in 1 .. Requests /\ s \in Slots /\ owner[s] = q /\ owner[s] # 0
    BY <1>1, <1>2, LiveRow
  <1>4. n \in Nat
    BY <1>1, <1>3, NewestInt
  <1>5. ContentsAt(r, q, n)
    BY <1>1, <1>2 DEF WorkAgrees
  <1>6. ASSUME phase # "advanced"
        PROVE  state[s].position = n /\ PositionsAt(r, n)
    <2>1. state[s].position = n
      BY <1>1, <1>3, <1>6, HeldSlot
    <2>2. PositionsAt(r, state[s].position)
      BY <1>1, <1>3 DEF WorkAgrees
    <2> QED
      BY <2>1, <2>2
  <1> QED
    BY <1>2, <1>3, <1>4, <1>5, <1>6

LEMMA ContextPrepare ==
    ASSUME CommitInv, ContextOK, Prepare, UNCHANGED overlap, ~overlap
    PROVE  ContextOK'
  <1>a. /\ phase = "submitted" /\ phase' = "prepared"
        /\ UNCHANGED <<overlap, owner, assigned, out, batch, state, pool, cache, draftCache>>
    BY DEF Prepare
  <1>1. ASSUME NEW r \in Rows, batch[r].slot # -1
        PROVE  RowContext(r, batch[r].request, Newest(batch[r].request))'
    <2>1. RowContext(r, batch[r].request, Newest(batch[r].request))
      BY <1>1, RowFacts
    <2>2. work[r] \in WorkRows
      BY WorkType DEF CommitInv
    <2>3. work'[r].packed = work[r].packed
      BY <2>2 DEF Prepare, WorkRows
    <2>4. work[r].packed = <<>>
      BY <1>a, <2>1 DEF RowContext
    <2> QED
      BY <1>a, <2>1, <2>3, <2>4 DEF RowContext, DraftedTo, Newest
  <1> QED
    BY <1>1, <1>a, ContextDevice

\* A row that sees its request's own tokens leaves that position's hidden row.
LEMMA ContextForward ==
    ASSUME CommitInv, ContextOK, Forward, CommitInv', UNCHANGED overlap, ~overlap
    PROVE  ContextOK'
  <1>a. /\ phase = "prepared" /\ phase' = "sampled"
        /\ UNCHANGED <<overlap, owner, assigned, out, batch, state, pool, draftCache>>
    BY DEF Forward
  <1>1. ASSUME NEW r \in Rows, batch[r].slot # -1
        PROVE  RowContext(r, batch[r].request, Newest(batch[r].request))'
    <2> DEFINE q == batch[r].request
               n == Newest(q)
    <2>1. RowContext(r, q, n) /\ q \in 1 .. Requests /\ n \in Nat /\ PositionsAt(r, n) /\ Live(r)
      BY <1>1, <1>a, RowFacts
    <2>2. work[r] \in WorkRows
      BY WorkType DEF CommitInv
    <2>3. /\ work'[r].packed = work[r].packed /\ work'[r].input = work[r].input
          /\ work'[r].hidden = <<HiddenRow(r, 1), HiddenRow(r, 2)>>
      BY <2>2 DEF Forward, WorkRows
    <2>4. work[r].packed = <<>>
      BY <1>a, <2>1 DEF RowContext
    <2>5. work[r].position[1] = n + 1 /\ work[r].position[2] = n + 2
      BY <1>a, <2>1 DEF PositionsAt
    <2>6. /\ \A p \in 0 .. n + 1 : cache'[q][p] = Token(q, p)
          /\ work[r].input[2] = Token(q, n + 2) => \A p \in 0 .. n + 2 : cache'[q][p] = Token(q, p)
      <3>1. Live(r)' /\ WorkAgrees'
        BY <1>a, <2>1 DEF Live, CommitInv
      <3>2. ContentsAt(r, batch[r].request, Newest(batch[r].request))'
        BY <3>1 DEF WorkAgrees
      <3>3. Newest(batch[r].request)' = n /\ batch'[r].request = q
        BY <1>a DEF Newest
      <3> QED
        BY <1>a, <2>3, <3>2, <3>3 DEF ContentsAt, CachedTo
    <2>7. HiddenRow(r, 1) = Hidden(q, n + 1)
      BY <2>1, <2>5, <2>6 DEF HiddenRow, Sees
    <2>8. work[r].input[2] = Token(q, n + 2) => HiddenRow(r, 2) = Hidden(q, n + 2)
      BY <2>1, <2>5, <2>6 DEF HiddenRow, Sees
    <2>9. DraftedTo(q, n) /\ pool[batch[r].slot] = Hidden(q, n)
      BY <1>a, <2>1, <2>4 DEF RowContext
    <2> QED
      BY <1>a, <2>3, <2>4, <2>7, <2>8, <2>9 DEF RowContext, DraftedTo, Newest
  <1> QED
    BY <1>1, <1>a, ContextDevice

LEMMA CommittedKeeps ==
    ASSUME NEW w \in WorkRows, NEW n, NEW tokens, NEW positions
    PROVE  LET v == Committed(w, n, tokens, positions)
           IN  v.packed = w.packed /\ v.hidden = w.hidden
  BY DEF Committed, WorkRows

LEMMA ContextVerify ==
    ASSUME CommitInv, ContextOK, Verify, UNCHANGED overlap, ~overlap
    PROVE  ContextOK'
  <1>a. /\ phase = "sampled" /\ phase' = "verified"
        /\ UNCHANGED <<overlap, owner, assigned, out, batch, state, pool, cache, draftCache>>
    BY DEF Verify
  <1>1. ASSUME NEW r \in Rows, batch[r].slot # -1
        PROVE  RowContext(r, batch[r].request, Newest(batch[r].request))'
    <2> DEFINE q == batch[r].request
               n == Newest(q)
               w == work[r]
               v == work'[r]
    <2>1. /\ RowContext(r, q, n) /\ q \in 1 .. Requests /\ n \in Nat /\ PositionsAt(r, n)
          /\ ContentsAt(r, q, n)
      BY <1>1, <1>a, RowFacts
    <2>2. /\ w \in WorkRows /\ w.sampled \in Pairs(Tokens) /\ w.position \in Pairs(Positions)
          /\ w.sampled = <<w.sampled[1], w.sampled[2]>>
          /\ w.tail \in Tokens /\ w.tailPosition \in Positions
          /\ w.sampled[1] \in Tokens /\ w.position[1] \in Positions
      BY WorkType, PairOf DEF CommitInv
    <2>3. /\ w.position = <<n + 1, n + 2>> /\ w.tailPosition = n /\ w.tail = Token(q, n + 1)
          /\ w.sampled[1] = Token(q, n + 2)
          /\ w.input[2] = Token(q, n + 2) => w.sampled[2] = Token(q, n + 3)
      BY <1>a, <2>1 DEF PositionsAt, ContentsAt
    <2>4. /\ w.packed = <<>> /\ w.hidden[1] = Hidden(q, n + 1)
          /\ w.input[2] = Token(q, n + 2) => w.hidden[2] = Hidden(q, n + 2)
          /\ DraftedTo(q, n) /\ pool[batch[r].slot] = Hidden(q, n)
      BY <1>a, <2>1 DEF RowContext
    <2>6. CASE Accepts(r)
      <3>1. v = Committed(w, 2, w.sampled, w.position)
        BY <1>1, <2>6 DEF Verify
      <3>2. w.input[2] = Token(q, n + 2)
        BY <2>3, <2>6 DEF Accepts
      <3>3. v.packed = <<>> /\ v.hidden = w.hidden
        BY <2>2, <2>4, <3>1, CommittedKeeps
      <3>4. v.accepted = 2 /\ v.mtpInput = w.sampled /\ v.mtpPosition = w.position
        BY <2>2, <3>1, CommittedRow
      <3>5. v.mtpPosition = <<(n + 2) - 1, n + 2>> /\ v.mtpInput = <<Token(q, n + 2), Token(q, (n + 2) + 1)>>
        BY <2>1, <2>2, <2>3, <3>2, <3>4
      <3> QED
        BY <1>a, <2>4, <3>2, <3>3, <3>4, <3>5 DEF RowContext, DraftedTo, Newest
    <2>7. CASE ~Accepts(r)
      <3> DEFINE t == <<w.tail, w.sampled[1]>>
                 p == <<w.tailPosition, w.position[1]>>
      <3>1. v = Committed(w, 1, t, p)
        BY <1>1, <2>7 DEF Verify
      <3>2. t \in Pairs(Tokens) /\ p \in Pairs(Positions)
        BY <2>2 DEF Pairs
      <3>3. t = <<Token(q, n + 1), Token(q, (n + 1) + 1)>> /\ p = <<(n + 1) - 1, n + 1>>
        BY <2>1, <2>3
      <3> HIDE DEF t, p
      <3>4. v.packed = <<>> /\ v.hidden = w.hidden
        BY <2>2, <2>4, <3>1, CommittedKeeps
      <3>5. v.accepted = 1 /\ v.mtpInput = t /\ v.mtpPosition = p
        <4>1. w \in WorkRows /\ 1 \in {1, 2}
          BY <2>2
        <4> HIDE DEF w, v
        <4> QED
          BY <3>1, <3>2, <4>1, CommittedRow
      <3>6. v.mtpPosition = <<(n + 1) - 1, n + 1>> /\ v.mtpInput = <<Token(q, n + 1), Token(q, (n + 1) + 1)>>
        BY <3>3, <3>5, Zenon
      <3>7. v.accepted # 2 /\ v.accepted = 1 /\ v.packed = <<>> /\ v.hidden = w.hidden
        BY <3>4, <3>5
      <3> QED
        BY <1>a, <2>4, <3>6, <3>7 DEF RowContext, DraftedTo, Newest
    <2> QED
      BY <2>6, <2>7
  <1> QED
    BY <1>1, <1>a, ContextDevice

\* The packed row: the window's two hidden rows, newest last, which the pool keeps.
LEMMA ContextPack ==
    ASSUME CommitInv, ContextOK, NEW r \in Rows, Pack(r), UNCHANGED overlap, ~overlap
    PROVE  ContextOK'
  <1>a. /\ phase = "verified" /\ phase' = "verified" /\ work[r].packed = <<>>
        /\ UNCHANGED <<overlap, owner, assigned, out, batch, state, cache, draftCache>>
    BY DEF Pack
  <1>b. TypeOK /\ WorkOK /\ BatchOK /\ WorkAgrees
    BY DEF CommitInv
  <1> DEFINE a == IF work[r].accepted = 1 THEN pool[batch[r].slot] ELSE work[r].hidden[1]
             b == LastHidden(r)
             h == IF batch[r].slot = -1 THEN work[1].hidden ELSE <<a, b>>
  <1>c. work' = [work EXCEPT ![r].packed = h]
    <2>1. CASE batch[r].slot = -1
      <3> DEFINE k == work[1].hidden
      <3>1. work' = [work EXCEPT ![r].packed = k]
        BY <2>1 DEF Pack
      <3>2. h = k
        BY <2>1
      <3> HIDE DEF k, h
      <3> QED
        BY <3>1, <3>2
    <2>2. CASE batch[r].slot # -1
      <3> DEFINE k == <<a, b>>
      <3>1. work' = [work EXCEPT ![r].packed = k]
        BY <2>2 DEF Pack
      <3>2. h = k
        BY <2>2
      <3> HIDE DEF k, h
      <3> QED
        BY <3>1, <3>2
    <2> QED
      BY <2>1, <2>2
  <1>g. batch[r].slot # -1 => h = <<a, b>>
    OBVIOUS
  <1> HIDE DEF h
  <1>d. \A s \in Slots : s # batch[r].slot => pool'[s] = pool[s]
    BY <1>b DEF Pack, TypeOK
  <1>e. \A x \in Rows : x # r => work'[x] = work[x]
    BY <1>b, <1>c DEF WorkOK
  <1>f. /\ work'[r].packed = h /\ work'[r].accepted = work[r].accepted
        /\ work'[r].hidden = work[r].hidden
        /\ work'[r].mtpPosition = work[r].mtpPosition /\ work'[r].mtpInput = work[r].mtpInput
    <2>1. work[r] \in WorkRows /\ work \in [Rows -> WorkRows]
      BY <1>b, WorkType DEF WorkOK
    <2>2. work'[r] = [work[r] EXCEPT !.packed = h]
      BY <1>c, <2>1
    <2> QED
      BY <2>1, <2>2 DEF WorkRows
  <1>1. ASSUME NEW x \in Rows, batch[x].slot # -1
        PROVE  RowContext(x, batch[x].request, Newest(batch[x].request))'
    <2> DEFINE q == batch[x].request
               n == Newest(q)
               m == n + work[x].accepted
    <2>1. RowContext(x, q, n) /\ batch[x].slot \in Slots /\ n \in Nat
      BY <1>1, RowFacts
    <2>2. CASE x # r
      <3>1. batch[x].slot # batch[r].slot
        BY <1>1, <1>b, <2>2 DEF BatchOK
      <3>2. pool'[batch[x].slot] = pool[batch[x].slot] /\ work'[x] = work[x]
        BY <1>d, <1>e, <2>1, <2>2, <3>1
      <3> QED
        BY <1>a, <2>1, <3>2 DEF RowContext, DraftedTo, Newest
    <2>3. CASE x = r
      <3>1. /\ work[r].hidden[1] = Hidden(q, n + 1) /\ DraftedTo(q, n)
            /\ work[r].accepted = 2 => work[r].hidden[2] = Hidden(q, n + 2)
            /\ work[r].mtpPosition = <<m - 1, m>> /\ work[r].mtpInput = <<Token(q, m), Token(q, m + 1)>>
            /\ pool[batch[r].slot] = Hidden(q, n)
        BY <1>a, <2>1, <2>3 DEF RowContext
      <3>2. work[r].accepted \in {1, 2}
        BY <1>a, <1>b DEF WorkAgrees
      <3>3. LastHidden(r) = Hidden(q, m)
        BY <2>3, <3>1, <3>2 DEF LastHidden
      <3>4. h = <<Hidden(q, m - 1), Hidden(q, m)>>
        <4>0. h = <<a, b>>
          BY <1>1, <1>g, <2>3
        <4>1. CASE work[r].accepted = 1
          <5>1. m - 1 = n
            BY <2>1, <2>3, <4>1
          <5>2. a = Hidden(q, m - 1)
            BY <3>1, <4>1, <5>1
          <5> QED
            BY <3>3, <4>0, <5>2
        <4>2. CASE work[r].accepted = 2
          <5>1. m - 1 = n + 1
            BY <2>1, <2>3, <4>2
          <5>2. a = Hidden(q, m - 1)
            BY <3>1, <4>2, <5>1
          <5> QED
            BY <3>3, <4>0, <5>2
        <4> QED
          BY <3>2, <4>1, <4>2
      <3>5. h # <<>>
        BY <3>4
      <3>6. pool'[batch[r].slot] = Hidden(q, m)
        BY <1>1, <1>b, <2>1, <2>3, <3>3 DEF Pack, TypeOK
      <3> QED
        BY <1>a, <1>f, <2>3, <3>1, <3>4, <3>5, <3>6 DEF RowContext, DraftedTo, Newest
    <2> QED
      BY <2>2, <2>3
  <1>2. \A s \in Slots : (\A x \in Rows : batch[x].slot # s) => pool'[s] = pool[s]
    BY <1>d
  <1> QED
    BY <1>1, <1>2, <1>a, ContextDevice

\* The window's two rows take the MTP layer's cache from the newest position
\* answered to the newest committed, whether the step accepted one or two.
LEMMA ContextDraft ==
    ASSUME CommitInv, ContextOK, Draft, UNCHANGED overlap, ~overlap
    PROVE  ContextOK'
  <1>a. /\ phase = "verified" /\ phase' = "drafted" /\ \A r \in Rows : work[r].packed # <<>>
        /\ draftCache' = [q \in 0 .. Requests |-> IF q = 0 THEN draftCache[0] ELSE DraftCached(q)]
        /\ UNCHANGED <<overlap, owner, assigned, out, batch, state, pool, cache>>
    BY DEF Draft
  <1>b. TypeOK /\ WorkOK /\ BatchOK /\ WorkAgrees
    BY DEF CommitInv
  <1>c. ASSUME NEW r \in Rows
        PROVE  work'[r].packed = work[r].packed /\ work'[r].accepted = work[r].accepted
    <2>1. work[r] \in WorkRows
      BY <1>b, WorkType
    <2>2. \E d : work'[r] = [work[r] EXCEPT !.draft = d]
      BY DEF Draft
    <2>3. PICK d : work'[r] = [work[r] EXCEPT !.draft = d]
      BY <2>2
    <2> QED
      BY <2>1, <2>3 DEF WorkRows
  <1>1. ASSUME NEW r \in Rows, batch[r].slot # -1
        PROVE  RowContext(r, batch[r].request, Newest(batch[r].request))'
    <2> DEFINE q == batch[r].request
               n == Newest(q)
               m == n + work[r].accepted
    <2>1. /\ RowContext(r, q, n) /\ q \in 1 .. Requests /\ n \in Nat /\ PositionsAt(r, n)
      BY <1>1, <1>a, RowFacts
    <2>2. /\ work[r].mtpPosition = <<m - 1, m>> /\ work[r].mtpInput = <<Token(q, m), Token(q, m + 1)>>
          /\ work[r].packed = <<Hidden(q, m - 1), Hidden(q, m)>>
          /\ DraftedTo(q, n) /\ pool[batch[r].slot] = Hidden(q, m)
      BY <1>a, <2>1 DEF RowContext
    <2>3. work[r].accepted \in {1, 2} /\ n + 2 \in Positions
      BY <1>a, <1>b, <2>1 DEF WorkAgrees, PositionsAt
    <2>4. m \in Nat /\ m <= n + 2 /\ m >= n + 1
      BY <2>1, <2>3
    <2>5. ASSUME NEW p \in 0 .. m
          PROVE  draftCache'[q][p] = <<Hidden(q, p), Token(q, p + 1)>>
      <3>1. p \in Positions /\ m \in Int
        BY <2>3, <2>4, <2>5, SizesAssumption DEF Positions
      <3>2. draftCache'[q] = DraftCached(q)
        <4>1. q \in 0 .. Requests /\ q # 0
          BY <2>1, SizesAssumption
        <4> QED
          BY <1>a, <4>1
      <3> HIDE DEF m
      <3>3. DraftCached(q)[p] = IF p = m - 1 THEN <<work[r].packed[1], work[r].mtpInput[1]>>
                                ELSE IF p = m THEN <<work[r].packed[2], work[r].mtpInput[2]>>
                                ELSE draftCache[q][p]
        BY <1>1, <1>b, <2>2, <3>1, DraftCachedLive
      <3>4. /\ work[r].packed[1] = Hidden(q, m - 1) /\ work[r].packed[2] = Hidden(q, m)
            /\ work[r].mtpInput[1] = Token(q, m) /\ work[r].mtpInput[2] = Token(q, m + 1)
        BY <2>2
      <3> DEFINE old == draftCache[q][p]
                 new == draftCache'[q][p]
      <3>5. CASE p = m - 1
        <4>1. p + 1 = m
          BY <2>4, <3>5
        <4> QED
          BY <3>2, <3>3, <3>4, <3>5, <4>1
      <3>6. CASE p = m
        <4>1. p # m - 1
          BY <2>4, <3>6
        <4> QED
          BY <3>2, <3>3, <3>4, <3>6, <4>1
      <3>7. CASE p # m - 1 /\ p # m
        <4>1. p \in 0 .. n
          BY <2>1, <2>4, <2>5, <3>7 DEF m
        <4>2. old = <<Hidden(q, p), Token(q, p + 1)>>
          BY <2>2, <4>1 DEF DraftedTo
        <4>3. new = old
          BY <3>2, <3>3, <3>7
        <4> QED
          BY <4>2, <4>3
      <3> QED
        BY <3>5, <3>6, <3>7
    <2>6. DraftedTo(q, m)'
      BY <1>a, <1>c, <2>5 DEF DraftedTo, Newest
    <2>7. work'[r].packed = work[r].packed /\ work[r].packed # <<>> /\ work'[r].accepted = work[r].accepted
      BY <1>a, <1>c
    <2>8. pool'[batch'[r].slot] = Hidden(q, m) /\ Newest(batch[r].request)' = n
      BY <1>a, <2>2 DEF Newest
    <2> QED
      BY <1>a, <2>6, <2>7, <2>8 DEF RowContext
  <1>2. ASSUME NEW q \in 1 .. Requests, \A r \in Rows : batch[r].request # q
        PROVE  draftCache'[q] = draftCache[q]
    <2>1. q \in 0 .. Requests /\ q # 0
      BY SizesAssumption
    <2> QED
      BY <1>2, <1>a, <1>b, <2>1, DraftCachedOther
  <1> QED
    BY <1>1, <1>2, <1>a, ContextDevice

LEMMA ContextAdvance ==
    ASSUME CommitInv, ContextOK, Advance, UNCHANGED overlap, ~overlap
    PROVE  ContextOK'
  <1>a. /\ phase = "drafted" /\ phase' = "advanced"
        /\ UNCHANGED <<overlap, owner, assigned, out, batch, pool, cache, draftCache, work>>
    BY DEF Advance
  <1>1. ASSUME NEW r \in Rows, batch[r].slot # -1
        PROVE  RowContext(r, batch[r].request, Newest(batch[r].request))'
    <2>1. RowContext(r, batch[r].request, Newest(batch[r].request))
      BY <1>1, RowFacts
    <2> QED
      BY <1>a, <2>1 DEF RowContext, DraftedTo, Newest
  <1> QED
    BY <1>1, <1>a, ContextDevice

\* With the answers the newest position becomes the newest committed.
LEMMA ContextCollect ==
    ASSUME CommitInv, ContextOK, Collect, CommitInv', UNCHANGED overlap, ~overlap
    PROVE  ContextOK'
  <1>a. /\ phase = "advanced" /\ phase' = "idle" /\ batch' = [r \in Rows |-> NoRow]
        /\ UNCHANGED <<overlap, owner, assigned, state, pool, cache, draftCache>>
    BY DEF Collect
  <1>b. TypeOK /\ BatchOK /\ SlotsOK /\ SlotsOK' /\ TypeOK'
    BY DEF CommitInv
  <1>1. ASSUME NEW s \in Slots, owner[s] # 0
        PROVE  SlotContext(owner[s], s, Newest(owner[s]))'
    <2> DEFINE q == owner[s]
    <2>1. q \in 1 .. Requests
      BY <1>1, <1>b, SlotType, SizesAssumption
    <2>2. Newest(q) + Ahead(q) = state[s].position
      BY <1>1, <1>b DEF SlotsOK
    <2>3. Newest(q)' = state[s].position
      <3>1. Ahead(q)' = 0
        BY <1>a DEF Ahead
      <3>3. Newest(q)' \in Nat
        <4>1. Len(out'[q]) \in Nat
          BY <1>b, <2>1 DEF TypeOK
        <4>2. Newest(q)' = Prompt - 1 + Len(out'[q])
          BY <1>a DEF Newest
        <4> QED
          BY <4>1, <4>2, SizesAssumption
      <3>2. state[s].position = Newest(q)' + Ahead(q)'
        BY <1>1, <1>a, <1>b DEF SlotsOK
      <3> QED
        BY <3>1, <3>2, <3>3
    <2>4. DraftedTo(q, state[s].position) /\ pool[s] = Hidden(q, state[s].position)
      <3>1. ASSUME NEW r \in Rows, batch[r].slot = s
            PROVE  DraftedTo(q, state[s].position) /\ pool[s] = Hidden(q, state[s].position)
        <4>1. batch[r].slot # -1 /\ batch[r].request = q
          BY <3>1, SizesAssumption DEF ContextOK, Live
        <4>2. RowContext(r, q, Newest(q))
          BY <4>1, RowFacts
        <4>3. Ahead(q) = work[r].accepted
          BY <1>a, <1>b, <4>1, AheadRow
        <4>4. DraftedTo(q, Newest(q) + work[r].accepted)
              /\ pool[s] = Hidden(q, Newest(q) + work[r].accepted)
          BY <1>a, <3>1, <4>2 DEF RowContext
        <4> QED
          BY <2>2, <4>3, <4>4
      <3>2. CASE \A r \in Rows : batch[r].slot # s
        <4>1. SlotContext(q, s, Newest(q))
          BY <1>1, <3>2 DEF ContextOK
        <4>2. Ahead(q) = 0
          BY <1>1, <1>b, <3>2, FreeOfRows, AheadNone
        <4>3. Newest(q) = state[s].position
          BY <1>b, <2>1, <2>2, <4>2, NewestInt
        <4> QED
          BY <4>1, <4>3 DEF SlotContext
      <3> QED
        BY <3>1, <3>2
    <2> QED
      BY <1>a, <2>3, <2>4 DEF SlotContext, DraftedTo
  <1> QED
    BY <1>1, <1>a DEF ContextOK, NoRow

LEMMA ContextNext == CommitInv /\ ContextOK /\ [Next]_vars => ContextOK'
  <1> SUFFICES ASSUME CommitInv, ContextOK, [Next]_vars PROVE ContextOK'
    OBVIOUS
  <1>0. CommitInv'
    BY NextInv
  <1>1. CASE UNCHANGED vars
    BY <1>1 DEF vars, ContextOK, RowContext, SlotContext, DraftedTo, Newest, Live
  <1>2. CASE UNCHANGED overlap /\ overlap
    BY <1>2 DEF ContextOK
  <1>3. ASSUME NEW s \in Slots, Assign(s) \/ Release(s), UNCHANGED overlap, ~overlap
        PROVE  ContextOK'
    BY <1>3, ContextAssign, ContextRelease
  <1>4. CASE UNCHANGED overlap /\ ~overlap /\ (Submit \/ Prepare \/ Forward \/ Verify)
    BY <1>0, <1>4, ContextSubmit, ContextPrepare, ContextForward, ContextVerify
  <1>5. ASSUME NEW r \in Rows, Pack(r), UNCHANGED overlap, ~overlap
        PROVE  ContextOK'
    BY <1>5, ContextPack
  <1>6. CASE UNCHANGED overlap /\ ~overlap /\ (Draft \/ Advance \/ Collect)
    BY <1>0, <1>6, ContextDraft, ContextAdvance, ContextCollect
  <1> QED
    BY <1>1, <1>2, <1>3, <1>4, <1>5, <1>6 DEF Next, Stopped

-----------------------------------------------------------------------------
\* The invariant holds in every state: the types, the slots' owners, the rows
\* of the step in flight, the cached tokens, and the context of the drafts.
THEOREM InvariantCorrect == Spec => []IInv
  <1>1. Init => IInv
    BY InitInv, ContextInit DEF IInv
  <1>2. IInv /\ [Next]_vars => IInv'
    BY NextInv, ContextNext DEF IInv
  <1> QED
    BY <1>1, <1>2, PTL DEF Spec

\* A draft is made from the committed tokens alone, without a gap and without a
\* rejected row, where slots change hands between steps only.
THEOREM DraftCorrect == Spec => []DraftInContext
  <1>1. IInv => DraftInContext
    <2> SUFFICES ASSUME IInv, ~overlap, phase = "drafted", NEW r \in Rows, Guarded(r),
                        NEW p \in 0 .. work[r].mtpPosition[2]
                 PROVE  draftCache[batch[r].request][p] =
                            <<Hidden(batch[r].request, p), Token(batch[r].request, p + 1)>>
      BY DEF DraftInContext
    <2> DEFINE q == batch[r].request
               n == Newest(q)
    <2>1. CommitInv /\ ContextOK /\ batch[r].slot # -1
      BY DEF IInv, Guarded
    <2>2. RowContext(r, q, n) /\ PositionsAt(r, n)
      BY <2>1, RowFacts
    <2>3. DraftedTo(q, n + work[r].accepted) /\ work[r].mtpPosition[2] = n + work[r].accepted
      BY <2>2 DEF RowContext, PositionsAt
    <2> QED
      BY <2>3 DEF DraftedTo
  <1> QED
    BY <1>1, InvariantCorrect, PTL
=============================================================================
