---------------------------- MODULE MtpDecodeInv ----------------------------
(***************************************************************************)
(* The inductive invariant of MtpDecode: what a slot, a row of the step in *)
(* flight and the cached tokens of a request say of each other.            *)
(***************************************************************************)
EXTENDS MtpDecode

WorkRows ==
    [input : Pairs(Tokens), position : Pairs(Positions), sampling : Pairs(0 .. MaxPosition + 2),
     tail : Tokens, tailPosition : Positions, sampled : Pairs(Tokens), hidden : Pairs(Hiddens),
     mtpInput : Pairs(Tokens), mtpPosition : Pairs(Positions), accepted : 0 .. 2,
     packed : {<<>>} \cup Pairs(Hiddens), draft : Tokens]

WorkOK == work \in [Rows -> WorkRows]

\* A request holds one slot at most, and a slot is initialised when it is given.
OwnersOK ==
    /\ \A s, x \in Slots : owner[s] # 0 /\ owner[s] = owner[x] => s = x
    /\ \A s \in Slots : owner[s] <= assigned /\ state[s].generation <= assigned
    /\ \A s \in Slots : owner[s] # 0 => state[s].valid
    /\ \A q \in 1 .. Requests : q > assigned => out[q] = <<>>

\* A row of a step names a slot with the generation its request had it in: the
\* slot has that generation as long as nobody else has held it.
RowAt(r) ==
    /\ batch[r].slot = -1 => batch[r] = NoRow
    /\ batch[r].slot # -1 =>
         /\ batch[r].request \in 1 .. assigned
         /\ batch[r].generation <= state[batch[r].slot].generation
         /\ \A s \in Slots : owner[s] = batch[r].request => s = batch[r].slot
         /\ owner[batch[r].slot] = batch[r].request => Guarded(r)
         /\ Guarded(r) => owner[batch[r].slot] \in {0, batch[r].request}

BatchOK ==
    /\ phase = "idle" => \A r \in Rows : batch[r] = NoRow
    /\ \A r \in Rows : RowAt(r)
    /\ \A r, x \in Rows :
          batch[r].slot # -1 /\ r # x =>
              batch[r].slot # batch[x].slot /\ batch[r].request # batch[x].request

-----------------------------------------------------------------------------
\* The row's request still holds its slot.
Live(r) == batch[r].slot # -1 /\ owner[batch[r].slot] = batch[r].request

\* The newest position whose token the host has been answered.
Newest(q) == Prompt - 1 + Len(out[q])

\* What the step in flight has committed for request q, unknown to the host.
Ahead(q) ==
    IF phase = "advanced" /\ \E r \in Rows : batch[r].request = q
      THEN work[CHOOSE r \in Rows : batch[r].request = q].accepted ELSE 0

\* The cached tokens of request q are its own, up to position n.
CachedTo(q, n) == \A p \in 0 .. n : cache[q][p] = Token(q, p)

\* A slot's count and position go together; the tail of a held slot is its
\* request's own, and so is the cache before it.
SlotsOK ==
    \A s \in Slots :
        /\ state[s].valid => state[s].position = Prompt - 1 + state[s].count
        /\ owner[s] # 0 =>
             /\ state[s].position = Newest(owner[s]) + Ahead(owner[s])
             /\ state[s].tail = Token(owner[s], state[s].position + 1)
             /\ CachedTo(owner[s], state[s].position)

\* Positions of a guarded row follow the slot's.
PositionsAt(r, n) ==
    /\ phase \in {"submitted", "prepared", "sampled", "verified", "drafted"} => n + 2 \in Positions
    /\ phase \in {"prepared", "sampled"} =>
         work[r].position = <<n + 1, n + 2>> /\ work[r].tailPosition = n
    /\ phase \in {"verified", "drafted"} => work[r].mtpPosition[2] = n + work[r].accepted

\* What a live row of request q holds, whose newest position is n.
ContentsAt(r, q, n) ==
    /\ phase \in {"prepared", "sampled"} =>
         /\ work[r].tail = Token(q, n + 1) /\ work[r].input[1] = Token(q, n + 1)
         /\ work[r].sampling = <<n + 2, n + 3>>
    /\ phase = "sampled" =>
         /\ work[r].sampled[1] = Token(q, n + 2)
         /\ CachedTo(q, n + 1)
         /\ work[r].input[2] = Token(q, n + 2) =>
              work[r].sampled[2] = Token(q, n + 3) /\ CachedTo(q, n + 2)
    /\ phase \in {"verified", "drafted", "advanced"} =>
         /\ work[r].mtpInput[2] = Token(q, n + work[r].accepted + 1)
         /\ work[r].accepted = 2 => work[r].mtpInput[1] = Token(q, n + 2)
         /\ CachedTo(q, n + work[r].accepted)

WorkAgrees ==
    \A r \in Rows :
        /\ phase \in {"verified", "drafted", "advanced"} => work[r].accepted \in {1, 2}
        /\ Guarded(r) => PositionsAt(r, state[batch[r].slot].position)
        /\ Live(r) => ContentsAt(r, batch[r].request, Newest(batch[r].request))

\* What carries the answers: from it every step refines PlainDecode.
CommitInv == TypeOK /\ WorkOK /\ OwnersOK /\ BatchOK /\ SlotsOK /\ WorkAgrees

-----------------------------------------------------------------------------
\* The MTP layer's cache of request q is made from its own tokens, up to n.
DraftedTo(q, n) == \A p \in 0 .. n : draftCache[q][p] = <<Hidden(q, p), Token(q, p + 1)>>

\* What a row of request q holds for the draft, n the newest position answered:
\* the hidden rows of the positions it accepts, the window it replays, and how
\* far the pool and the MTP layer's cache have come.
RowContext(r, q, n) ==
    LET w == work[r]
        m == n + w.accepted
    IN  /\ phase \in {"submitted", "prepared", "sampled"} => w.packed = <<>>
        /\ phase \in {"drafted", "advanced"} => w.packed # <<>>
        /\ phase \in {"sampled", "verified"} => w.hidden[1] = Hidden(q, n + 1)
        /\ phase = "sampled" /\ w.input[2] = Token(q, n + 2) => w.hidden[2] = Hidden(q, n + 2)
        /\ phase = "verified" =>
             /\ w.accepted = 2 => w.hidden[2] = Hidden(q, n + 2)
             /\ w.mtpPosition = <<m - 1, m>> /\ w.mtpInput = <<Token(q, m), Token(q, m + 1)>>
             /\ w.packed # <<>> => w.packed = <<Hidden(q, m - 1), Hidden(q, m)>>
        /\ DraftedTo(q, IF phase \in {"drafted", "advanced"} THEN m ELSE n)
        /\ pool[batch[r].slot] = Hidden(q, IF w.packed = <<>> THEN n ELSE m)

\* A held slot that no row of the step names.
SlotContext(q, s, n) == DraftedTo(q, n) /\ pool[s] = Hidden(q, n)

\* Where slots change hands between steps only, every row of a step is live.
ContextOK ==
    ~overlap =>
        /\ \A r \in Rows : batch[r].slot # -1 =>
               Live(r) /\ RowContext(r, batch[r].request, Newest(batch[r].request))
        /\ \A s \in Slots : owner[s] # 0 /\ (\A r \in Rows : batch[r].slot # s) =>
               SlotContext(owner[s], s, Newest(owner[s]))

\* The strengthening of StateAgrees and of DraftInContext.
IInv == CommitInv /\ ContextOK
=============================================================================
