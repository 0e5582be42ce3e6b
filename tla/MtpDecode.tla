------------------------------ MODULE MtpDecode ------------------------------
(***************************************************************************)
(* Speculative decoding with one draft token: a step feeds the main model  *)
(* the last committed token and a draft of the next, compares the draft    *)
(* with the model's sample, replays the committed tokens through the MTP   *)
(* layer to draft the next one, and commits.  The recurrent state lives on *)
(* the device, in a slot per request; a batch row names its slot and the   *)
(* generation of the slot it was submitted for.                            *)
(*                                                                         *)
(* Tokens and hidden rows are named by request and position, so a value    *)
(* says which context it comes from; anything a plain decode would not     *)
(* have computed is Other.  Every request has cache pages of its own.      *)
(***************************************************************************)
EXTENDS Integers, Sequences

CONSTANTS
    Batch,        \* rows of a step (B)
    Slots,        \* slots of the serving state
    Requests,     \* bound: requests served
    Prompt,       \* tokens of a prompt
    MaxPosition,  \* bound: positions of a request stay below it
    Overlaps      \* may the host give slots away while a step is queued or
                  \* uncollected: either answer, or both

ASSUME SizesAssumption ==
    /\ Batch \in Nat \ {0} /\ Requests \in Nat /\ Prompt \in Nat \ {0}
    /\ MaxPosition \in Nat /\ MaxPosition > Prompt
    /\ -1 \notin Slots
    /\ Overlaps \subseteq BOOLEAN

VARIABLES
    overlap,     \* which of Overlaps this host does
    owner,       \* owner[s]: the request that holds slot s, or 0 (host)
    assigned,    \* requests given a slot so far (host)
    out,         \* out[q]: tokens the host was answered for request q
    phase,       \* how far the step in flight is
    batch,       \* batch[r]: slot, generation and request of row r, slot -1: none
    state,       \* state[s]: state_tokens and state_meta
    pool,        \* pool[s]: tail_pre_hc_pool, the hidden row of the last position
    cache,       \* cache[q][p]: the token whose keys and values are cached at p
    draftCache,  \* draftCache[q][p]: hidden row and token cached by the MTP layer
    work         \* the step's own tensors, row by row

vars == <<overlap, owner, assigned, out, phase, batch, state, pool, cache, draftCache, work>>

Plain == INSTANCE PlainDecode

Token(q, p) == Plain!Token(q, p)
Hidden(q, p) == <<q, p>>
Other == Token(0, 0)
OtherHidden == Hidden(0, 0)

Rows == 1 .. Batch
Positions == 0 .. MaxPosition - 1
Phases == {"idle", "submitted", "prepared", "sampled", "verified", "drafted", "advanced"}
NoRow == [slot |-> -1, generation |-> 0, request |-> 0]

\* What the caller pads a row with.
Padded ==
    [input |-> <<Other, Other>>, position |-> <<0, 0>>, sampling |-> <<0, 0>>,
     tail |-> Other, tailPosition |-> 0,
     sampled |-> <<Other, Other>>, hidden |-> <<OtherHidden, OtherHidden>>,
     mtpInput |-> <<Other, Other>>, mtpPosition |-> <<0, 0>>, accepted |-> 0,
     packed |-> <<>>, draft |-> Other]

-----------------------------------------------------------------------------
Init ==
    /\ overlap \in Overlaps
    /\ Plain!Init
    /\ phase = "idle"
    /\ batch = [r \in Rows |-> NoRow]
    /\ state = [s \in Slots |-> [valid |-> FALSE, generation |-> 0, tail |-> Other,
                                 draft |-> Other, position |-> 0, count |-> 0]]
    /\ pool = [s \in Slots |-> OtherHidden]
    /\ cache = [q \in 0 .. Requests |-> [p \in Positions |-> Other]]
    /\ draftCache = [q \in 0 .. Requests |-> [p \in Positions |-> <<OtherHidden, Other>>]]
    /\ work = [r \in Rows |-> Padded]

\* The host gives and frees slots between steps; with overlap, also while a
\* step it has submitted waits to run, or has run and is not collected.
HostMay == phase = "idle" \/ (overlap /\ phase \in {"submitted", "advanced"})

\* The host prefills a request and initialises a free slot for it: the prompt
\* is cached, the first answered token is the tail, a first draft is given.
Assign(s) ==
    LET q == assigned + 1
    IN  /\ HostMay /\ Plain!Assign(s)
        /\ \E draft \in {Token(q, Prompt + 1), Other} :
               state' = [state EXCEPT ![s] =
                           [valid |-> TRUE, generation |-> @.generation + 1,
                            tail |-> Token(q, Prompt), draft |-> draft,
                            position |-> Prompt - 1, count |-> 0]]
        /\ pool' = [pool EXCEPT ![s] = Hidden(q, Prompt - 1)]
        /\ cache' = [cache EXCEPT ![q] =
                       [p \in Positions |-> IF p < Prompt THEN Token(q, p) ELSE Other]]
        /\ draftCache' = [draftCache EXCEPT ![q] =
                            [p \in Positions |-> IF p < Prompt
                                                   THEN <<Hidden(q, p), Token(q, p + 1)>>
                                                   ELSE <<OtherHidden, Other>>]]
        /\ UNCHANGED <<phase, batch, work>>

\* A request ends: the slot is free, what it holds stays.
Release(s) ==
    /\ HostMay /\ Plain!Release(s)
    /\ UNCHANGED <<phase, batch, state, pool, cache, draftCache, work>>

\* The host submits a batch of requests that have room for two more tokens.
Submit ==
    /\ phase = "idle"
    /\ \E slot \in [Rows -> Slots \cup {-1}] :
           /\ \E r \in Rows : slot[r] # -1
           /\ \A r \in Rows : slot[r] # -1 =>
                  /\ owner[slot[r]] # 0
                  /\ state[slot[r]].position + 2 \in Positions
                  /\ \A x \in Rows \ {r} : slot[x] # slot[r]
           /\ batch' = [r \in Rows |->
                 IF slot[r] = -1 THEN NoRow
                 ELSE [slot |-> slot[r], generation |-> state[slot[r]].generation,
                       request |-> owner[slot[r]]]]
    /\ phase' = "submitted"
    /\ work' = [r \in Rows |-> Padded]
    /\ UNCHANGED <<owner, assigned, out, state, pool, cache, draftCache>>

\* Mutant: the generation of the slot is not looked at.
Guarded_ValidOnly(r) == batch[r].slot # -1 /\ state[batch[r].slot].valid

\* The guard of prepare and advance.
Guarded(r) ==
    /\ batch[r].slot # -1
    /\ state[batch[r].slot].valid
    /\ state[batch[r].slot].generation = batch[r].generation

\* Mutant: both rows are one position late.
RowPositions_Late(s) == <<state[s].position + 2, state[s].position + 3>>

RowPositions(s) == <<state[s].position + 1, state[s].position + 2>>

\* prepare_decode_from_device_state: bind tail and draft to the two rows.
Prepare ==
    /\ phase = "submitted"
    /\ phase' = "prepared"
    /\ work' = [r \in Rows |->
          IF ~Guarded(r) THEN work[r]
          ELSE LET s == batch[r].slot
               IN  [work[r] EXCEPT !.input = <<state[s].tail, state[s].draft>>,
                                   !.position = RowPositions(s),
                                   !.sampling = <<state[s].position + 2, state[s].position + 3>>,
                                   !.tail = state[s].tail, !.tailPosition = state[s].position]]
    /\ UNCHANGED <<owner, assigned, out, batch, state, pool, cache, draftCache>>

\* The rows that write position p of request q's cache; of a row of the batch,
\* the later row wins.
Writers(q, p) ==
    {x \in Rows \X {1, 2} : batch[x[1]].request = q /\ work[x[1]].position[x[2]] = p}

Latest(writers) == CHOOSE w \in writers : \A v \in writers : v[2] <= w[2]

\* What a main forward leaves in request q's cache.
Cached(q) ==
    [p \in Positions |->
        IF Writers(q, p) = {} THEN cache[q][p]
        ELSE LET x == Latest(Writers(q, p)) IN work[x[1]].input[x[2]]]

\* A row attends the cached rows up to its own, and sees the request's own tokens.
Sees(r, i) ==
    LET q == batch[r].request
    IN  q # 0 /\ \A p \in 0 .. work[r].position[i] : cache'[q][p] = Token(q, p)

\* A row samples as a plain decode does: in that context, and with the noise of
\* the position its token is for.
Plainly(r, i) == Sees(r, i) /\ work[r].sampling[i] = work[r].position[i] + 1

\* Out of context the sample is any token, the right one by chance.
Sampled(r, i, chance) ==
    IF Plainly(r, i) \/ (batch[r].request # 0 /\ chance)
      THEN Token(batch[r].request, work[r].position[i] + 1) ELSE Other

HiddenRow(r, i) ==
    IF Sees(r, i) THEN Hidden(batch[r].request, work[r].position[i]) ELSE OtherHidden

\* decode_fwd: cache both rows, attend, sample both.
Forward ==
    /\ phase = "prepared"
    /\ phase' = "sampled"
    /\ cache' = [q \in 0 .. Requests |-> IF q = 0 THEN cache[0] ELSE Cached(q)]
    /\ \E chance \in [Rows -> [1 .. 2 -> BOOLEAN]] :
           work' = [r \in Rows |->
               [work[r] EXCEPT
                   !.sampled = <<Sampled(r, 1, chance[r][1]), Sampled(r, 2, chance[r][2])>>,
                   !.hidden = <<HiddenRow(r, 1), HiddenRow(r, 2)>>]]
    /\ UNCHANGED <<owner, assigned, out, batch, state, pool, draftCache>>

\* Mutant: every draft is accepted.
Accepts_Always(r) == batch[r].slot # -1

\* The draft is the token the main model samples after the tail.
Accepts(r) == batch[r].slot # -1 /\ work[r].input[2] = work[r].sampled[1]

\* Row w with n tokens committed, the newest two of them at these positions.
Committed(w, n, tokens, positions) ==
    [w EXCEPT !.accepted = n, !.mtpInput = tokens, !.mtpPosition = positions]

\* verify_and_pack_mtp_tokens: the committed window, two rows, newest last.  A
\* rejected draft leaves the old tail and the sample after it.
Verify ==
    /\ phase = "sampled"
    /\ phase' = "verified"
    /\ work' = [r \in Rows |->
          LET w == work[r]
          IN  IF batch[r].slot = -1 THEN Committed(w, 1, w.input, w.position)
              ELSE IF Accepts(r) THEN Committed(w, 2, w.sampled, w.position)
              ELSE Committed(w, 1, <<w.tail, w.sampled[1]>>, <<w.tailPosition, w.position[1]>>)]
    /\ UNCHANGED <<owner, assigned, out, batch, state, pool, cache, draftCache>>

\* Mutant: the last row's hidden state is kept whatever was accepted.
LastHidden_RowOne(r) == work[r].hidden[2]

\* The hidden row of the newest position that was accepted.
LastHidden(r) == work[r].hidden[work[r].accepted]

\* pack_mtp_hidden, one row of the batch: a rejected draft replays the last
\* step's hidden row out of the pool.
Pack(r) ==
    /\ phase = "verified" /\ work[r].packed = <<>>
    /\ LET s == batch[r].slot
       IN  IF s = -1
             THEN /\ work' = [work EXCEPT ![r].packed = work[1].hidden]
                  /\ UNCHANGED pool
             ELSE /\ work' = [work EXCEPT ![r].packed =
                                <<IF work[r].accepted = 1 THEN pool[s] ELSE work[r].hidden[1],
                                  LastHidden(r)>>]
                  /\ pool' = [pool EXCEPT ![s] = LastHidden(r)]
    /\ UNCHANGED <<owner, assigned, out, phase, batch, state, cache, draftCache>>

DraftWriters(q, p) ==
    {x \in Rows \X {1, 2} : batch[x[1]].request = q /\ work[x[1]].mtpPosition[x[2]] = p}

\* What the MTP layer leaves in its cache for request q.
DraftCached(q) ==
    [p \in Positions |->
        IF DraftWriters(q, p) = {} THEN draftCache[q][p]
        ELSE LET x == Latest(DraftWriters(q, p)) IN <<work[x[1]].packed[x[2]], work[x[1]].mtpInput[x[2]]>>]

\* decode_mtp: cache the committed window, and draft a token for its last row.
Draft ==
    /\ phase = "verified" /\ \A r \in Rows : work[r].packed # <<>>
    /\ phase' = "drafted"
    /\ draftCache' = [q \in 0 .. Requests |-> IF q = 0 THEN draftCache[0] ELSE DraftCached(q)]
    /\ \E good \in [Rows -> BOOLEAN] :
           work' = [r \in Rows |-> [work[r] EXCEPT !.draft =
                       IF good[r] THEN Token(batch[r].request, work[r].mtpPosition[2] + 2)
                       ELSE Other]]
    /\ UNCHANGED <<owner, assigned, out, batch, state, pool, cache>>

\* Mutant: the slot is committed to without its guard.
Commits_Unguarded(r, s) == batch[r].slot = s

Commits(r, s) == batch[r].slot = s /\ Guarded(r)

\* A slot's state after a step's row w: the newest token is the tail.
Advanced(slot, w) ==
    [slot EXCEPT !.tail = w.mtpInput[2], !.draft = w.draft, !.position = w.mtpPosition[2],
                 !.count = @ + w.accepted]

\* advance_decode_device_state, in every slot a row commits.
Advance ==
    /\ phase = "drafted"
    /\ phase' = "advanced"
    /\ state' = [s \in Slots |->
          IF \E r \in Rows : Commits(r, s)
            THEN Advanced(state[s], work[CHOOSE r \in Rows : Commits(r, s)]) ELSE state[s]]
    /\ UNCHANGED <<owner, assigned, out, batch, pool, cache, draftCache, work>>

\* What the host takes from row r: the accepted end of the committed window.
Answered(r) == IF work[r].accepted = 2 THEN work[r].mtpInput ELSE <<work[r].mtpInput[2]>>

\* The step is back; the host answers the requests that still hold their slots.
Collect ==
    /\ phase = "advanced"
    /\ phase' = "idle"
    /\ out' = [q \in 1 .. Requests |->
          IF \E r \in Rows : batch[r].request = q /\ owner[batch[r].slot] = q
            THEN out[q] \o Answered(CHOOSE r \in Rows : batch[r].request = q)
            ELSE out[q]]
    /\ batch' = [r \in Rows |-> NoRow]
    /\ work' = [r \in Rows |-> Padded]
    /\ UNCHANGED <<owner, assigned, state, pool, cache, draftCache>>

\* Every request has had its slot.
Stopped ==
    /\ phase = "idle" /\ assigned = Requests /\ \A s \in Slots : owner[s] = 0
    /\ UNCHANGED vars

Next ==
    \/ /\ UNCHANGED overlap
       /\ \/ \E s \in Slots : Assign(s) \/ Release(s)
          \/ Submit \/ Prepare \/ Forward \/ Verify \/ (\E r \in Rows : Pack(r))
          \/ Draft \/ Advance \/ Collect
    \/ Stopped

Spec == Init /\ [][Next]_vars

-----------------------------------------------------------------------------
Tokens == [request : 0 .. Requests, at : 0 .. MaxPosition + 1]
Hiddens == (0 .. Requests) \X Positions
Pairs(S) == S \X S

TypeOK ==
    /\ overlap \in Overlaps
    /\ owner \in [Slots -> 0 .. Requests] /\ assigned \in 0 .. Requests
    /\ out \in [1 .. Requests -> Seq(Tokens)]
    /\ phase \in Phases
    /\ batch \in [Rows -> [slot : Slots \cup {-1}, generation : 0 .. Requests,
                           request : 0 .. Requests]]
    /\ state \in [Slots -> [valid : BOOLEAN, generation : 0 .. Requests, tail : Tokens,
                            draft : Tokens, position : Positions, count : 0 .. MaxPosition]]
    /\ pool \in [Slots -> Hiddens]
    /\ cache \in [0 .. Requests -> [Positions -> Tokens]]
    /\ draftCache \in [0 .. Requests -> [Positions -> Hiddens \X Tokens]]
    /\ \A r \in Rows :
           /\ work[r].position \in Pairs(Positions) /\ work[r].mtpPosition \in Pairs(Positions)
           /\ work[r].accepted \in 0 .. 2

\* The host is answered what a plain decode of each request would give: no
\* token lost, repeated, or taken from a rejected draft or another request.
DecodesPlainly == Plain!Spec

\* Between steps a slot says where its request is: the tail is the last token
\* the host was answered, at the position and the count that follow from it.
StateAgrees ==
    phase = "idle" => \A s \in Slots : owner[s] # 0 =>
        LET q == owner[s]
        IN  /\ state[s].count = Len(out[q])
            /\ state[s].position = Prompt - 1 + Len(out[q])
            /\ state[s].tail = Token(q, state[s].position + 1)

\* Where slots change hands between steps only, a draft is made from the
\* committed tokens alone: the MTP layer's cache has
\* no gap and no rejected row up to the newest position, though a step writes
\* two rows of it whether one or two tokens were committed.
DraftInContext ==
    ~overlap /\ phase = "drafted" => \A r \in Rows : Guarded(r) =>
        \A p \in 0 .. work[r].mtpPosition[2] :
            draftCache[batch[r].request][p] =
                <<Hidden(batch[r].request, p), Token(batch[r].request, p + 1)>>

\* "ABA guard: incremented when a freed slot is reassigned": a step submitted
\* for a slot's former owner leaves the new owner's hidden row alone.
PoolGuarded ==
    phase = "idle" => \A s \in Slots : owner[s] # 0 =>
        pool[s] = Hidden(owner[s], state[s].position)
=============================================================================
