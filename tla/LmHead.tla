------------------------------- MODULE LmHead -------------------------------
(***************************************************************************)
(* The language-model head of the decode and prefill programs.  Every rank *)
(* of a group owns rows of hidden states and one shard of the vocabulary.  *)
(* A head gathers the selected rows of all ranks, projects them against    *)
(* the rank's shard, and sends every owner the columns of its rows.  The   *)
(* signal counters have no epochs: each head waits for the counts of one   *)
(* round and then clears its own counters, for the next forward to start   *)
(* from zero.  The speculative program runs two heads in one forward.      *)
(*                                                                         *)
(* What a rank does before a head, the body of the forward, is one step    *)
(* that no rank completes until every rank has begun it: each layer of a   *)
(* body holds an exchange among all of them.                               *)
(***************************************************************************)
EXTENDS Integers, FiniteSets

CONSTANTS
    TpSize,        \* ranks of the group, and shards of the vocabulary (TP_SIZE)
    MaxLogitRows,  \* rows a rank asks logits for
    HiddenRows,    \* rows of hidden states a rank has
    VocabPerTp,    \* columns of a shard
    VocabTile,     \* columns of a matmul tile (FUSED_VOCAB_TILE)
    CommTile,      \* columns of a gather tile (LOGITS_COMM_TILE)
    Cores,         \* blocks of the projection (FUSED_LM_HEAD_CORES)
    Forwards,      \* bound: forwards run, one after the other
    Heads,         \* heads of a forward: 1, or 2 with a draft model
    Indices        \* the logit_row_indices a host may pass, per rank and row

AivLanes == 2

ASSUME SizesAssumption ==
    /\ {MaxLogitRows, HiddenRows, VocabPerTp, VocabTile, CommTile, Cores} \subseteq Nat \ {0}
    /\ Forwards \in Nat /\ Heads \in Nat \ {0}
    \* A lane stores to the owners it notifies.  In a group of four or more the
    \* two differ, and only a join of the lanes before the notifications, which
    \* the source does not ask for, would order them.
    /\ TpSize \in {1, 2}

Ranks == 0 .. TpSize - 1
Rows == 0 .. MaxLogitRows - 1
Blocks == 0 .. Cores - 1
Lanes == 0 .. AivLanes - 1
Vocab == 0 .. TpSize * VocabPerTp - 1

ASSUME IndicesAssumption == Indices \subseteq [Ranks -> [Rows -> Int]]

VARIABLES
    indices,    \* logit_row_indices, of every rank
    round,      \* round[r]: heads r has behind it, over all forwards
    stage,      \* stage[r]: what r is doing
    pushed,     \* pushed[r]: rows r has put into the hidden windows
    told,       \* told[r]: rows r has announced
    heard,      \* heard[r]: r has seen the rows of all its peers announced
    owners,     \* owners[r]: hidden rows r projects, <<owner, row>> -> row
    stored,     \* stored[r]: <<block, lane>> that have stored their columns
    signalled,  \* signalled[r]: <<block, lane>> that have announced them
    gathered,   \* gathered[r]: gather blocks done
    clearing,   \* clearing[r]: heads whose counters r has yet to clear
    hidden,     \* hidden[w][r]: hidden_window w of r
    shards,     \* shards[w][r]: logits_window w of r
    hiddenDone, logitsDone,  \* hiddenDone[w][r][p]: r's counters of p's signals
    logits      \* logits[r]: what the head of this round returns on r

vars == <<indices, round, stage, pushed, told, heard, owners, stored, signalled,
          gathered, clearing, hidden, shards, hiddenDone, logitsDone, logits>>

windows == <<hidden, shards>>
signals == <<hiddenDone, logitsDone>>
work == <<pushed, told, heard, owners, stored, signalled, gathered>>

Rounds == Forwards * Heads

Peers(r) == Ranks \ {r}

\* Mutant: the heads of a forward share one set of windows and counters.
Bank_Shared(n) == 0

\* The heads of a forward have windows and counters of their own.
Bank(n) == n % Heads

\* The row of hidden states that an index selects, -1 for a row of zeros.
Selected(r, row) ==
    CASE indices[r][row] < 0 -> -1
      [] indices[r][row] \in 0 .. HiddenRows - 1 -> indices[r][row]
      [] OTHER -> HiddenRows - 1

HiddenRow(r, n, at) == [rank |-> r, round |-> n, at |-> at]

Asked(r, n, row) == HiddenRow(r, n, Selected(r, row))

NoRow == HiddenRow(-1, -1, -1)

\* A logit: a hidden row against a column of the vocabulary, -1 for padding.
Logit(h, v) == [hidden |-> h, column |-> v]

NoLogit == Logit(NoRow, -1)

VocabTiles == (VocabPerTp + VocabTile - 1) \div VocabTile

\* Mutant: the last tile of a shard is pushed at full width.
Columns_Padded(tile) == tile * VocabTile .. (tile + 1) * VocabTile - 1

\* Columns of a shard that a tile pushes; the last tile may be ragged.
Columns(tile) ==
    {c \in tile * VocabTile .. (tile + 1) * VocabTile - 1 : c < VocabPerTp}

TilesOf(block) == {t \in 0 .. VocabTiles - 1 : t % Cores = block}

OwnersPerLane == IF TpSize \div AivLanes = 0 THEN 1 ELSE TpSize \div AivLanes

\* Owners whose rows a lane stores, and owners it notifies.
StoresTo(lane) == {o \in Ranks : o \div OwnersPerLane = lane}
Notifies(lane) == {o \in Ranks : o % AivLanes = lane /\ o \div AivLanes < TpSize \div AivLanes}

\* Columns of a shard that a gather block copies, the tail tile among them.
CommTiles == VocabPerTp \div CommTile
CommBlocks ==
    LET tiles == CommTiles + (IF VocabPerTp % CommTile = 0 THEN 0 ELSE 1)
    IN  IF tiles < Cores THEN tiles ELSE Cores

GatherColumns(b) ==
    {c \in 0 .. VocabPerTp - 1 :
        IF c < CommTiles * CommTile THEN (c \div CommTile) % CommBlocks = b
        ELSE b = CommTiles % CommBlocks}

-----------------------------------------------------------------------------
Zeros == [r \in Ranks |-> [p \in Ranks |-> 0]]

Init ==
    /\ indices \in Indices
    /\ round = [r \in Ranks |-> 0]
    /\ stage = [r \in Ranks |-> IF Rounds = 0 THEN "stopped" ELSE "body"]
    /\ pushed = [r \in Ranks |-> {}]
    /\ told = [r \in Ranks |-> {}]
    /\ heard = [r \in Ranks |-> FALSE]
    /\ owners = [r \in Ranks |-> [c \in Ranks \X Rows |-> NoRow]]
    /\ stored = [r \in Ranks |-> {}]
    /\ signalled = [r \in Ranks |-> {}]
    /\ gathered = [r \in Ranks |-> {}]
    /\ clearing = [r \in Ranks |-> {}]
    /\ hidden = [w \in 0 .. Heads - 1 |-> [r \in Ranks |-> [c \in Ranks \X Rows |-> NoRow]]]
    /\ shards = [w \in 0 .. Heads - 1 |-> [r \in Ranks |-> [c \in Rows \X Vocab |-> NoLogit]]]
    /\ hiddenDone = [w \in 0 .. Heads - 1 |-> Zeros]
    /\ logitsDone = [w \in 0 .. Heads - 1 |-> Zeros]
    /\ logits = [r \in Ranks |-> [c \in Rows \X Vocab |-> NoLogit]]

\* The forward before the head, which exchanges with every rank.
Body(r) ==
    /\ stage[r] = "body"
    /\ \A p \in Ranks : round[p] >= round[r]
    /\ stage' = [stage EXCEPT ![r] = "head"]
    /\ logits' = [logits EXCEPT ![r] = [c \in Rows \X Vocab |-> NoLogit]]
    /\ UNCHANGED <<indices, round, work, clearing, windows, signals>>

\* One block a row: the row goes to every rank's window, then to its counter.
DispatchPush(r, row) ==
    /\ stage[r] = "head" /\ row \notin pushed[r]
    /\ pushed' = [pushed EXCEPT ![r] = @ \cup {row}]
    /\ hidden' = [hidden EXCEPT ![Bank(round[r])] =
                    [p \in Ranks |-> [@[p] EXCEPT ![<<r, row>>] = Asked(r, round[r], row)]]]
    /\ UNCHANGED <<indices, round, stage, told, heard, owners, stored, signalled,
                   gathered, clearing, shards, signals, logits>>

\* One more signal of r in the counters of the ranks in to.
Notified(counts, r, to) ==
    [p \in Ranks |-> IF p \in to THEN [counts[p] EXCEPT ![r] = @ + 1] ELSE counts[p]]

DispatchNotify(r, row) ==
    /\ stage[r] = "head" /\ row \in pushed[r] \ told[r]
    /\ told' = [told EXCEPT ![r] = @ \cup {row}]
    /\ hiddenDone' = [hiddenDone EXCEPT ![Bank(round[r])] = Notified(@, r, Peers(r))]
    /\ UNCHANGED <<indices, round, stage, pushed, heard, owners, stored, signalled,
                   gathered, clearing, windows, logitsDone, logits>>

\* Mutant: the first row of a peer is taken for all of them.
AllRows_First(r) == \A p \in Peers(r) : hiddenDone[Bank(round[r])][r][p] >= 1

\* Mutant: a rank waits for its own counter as well, which nobody adds to.
AllRows_OwnToo(r) == \A p \in Ranks : hiddenDone[Bank(round[r])][r][p] >= MaxLogitRows

\* Every peer has announced its rows.
AllRows(r) == \A p \in Peers(r) : hiddenDone[Bank(round[r])][r][p] >= MaxLogitRows

\* The wait does not depend on the rank's own push.
DispatchWait(r) ==
    /\ stage[r] = "head" /\ ~heard[r]
    /\ AllRows(r)
    /\ heard' = [heard EXCEPT ![r] = TRUE]
    /\ UNCHANGED <<indices, round, stage, pushed, told, owners, stored, signalled,
                   gathered, clearing, windows, signals, logits>>

DispatchGather(r) ==
    /\ stage[r] = "head" /\ heard[r] /\ told[r] = Rows
    /\ stage' = [stage EXCEPT ![r] = "project"]
    /\ owners' = [owners EXCEPT ![r] = hidden[Bank(round[r])][r]]
    /\ UNCHANGED <<indices, round, pushed, told, heard, stored, signalled, gathered,
                   clearing, windows, signals, logits>>

\* The columns a lane of a block leaves in the window of the owners it serves.
Stored(r, block, lane, o, before) ==
    LET base == r * VocabPerTp
        cols == {c \in UNION {Columns(t) : t \in TilesOf(block)} : base + c \in Vocab}
        real(c) == IF c < VocabPerTp THEN base + c ELSE -1
    IN  IF o \notin StoresTo(lane) THEN before
        ELSE [c \in Rows \X Vocab |->
                IF c[2] - base \in cols
                THEN Logit(owners[r][<<o, c[1]>>], real(c[2] - base)) ELSE before[c]]

LaneStore(r, block, lane) ==
    /\ stage[r] = "project" /\ <<block, lane>> \notin stored[r]
    /\ stored' = [stored EXCEPT ![r] = @ \cup {<<block, lane>>}]
    /\ shards' = [shards EXCEPT ![Bank(round[r])] =
                    [o \in Ranks |-> Stored(r, block, lane, o, @[o])]]
    /\ UNCHANGED <<indices, round, stage, pushed, told, heard, owners, signalled,
                   gathered, clearing, hidden, signals, logits>>

LaneNotify(r, block, lane) ==
    /\ stage[r] = "project" /\ <<block, lane>> \in stored[r] \ signalled[r]
    /\ signalled' = [signalled EXCEPT ![r] = @ \cup {<<block, lane>>}]
    /\ logitsDone' = [logitsDone EXCEPT ![Bank(round[r])] = Notified(@, r, Notifies(lane) \ {r})]
    /\ UNCHANGED <<indices, round, stage, pushed, told, heard, owners, stored,
                   gathered, clearing, windows, hiddenDone, logits>>

\* Mutant: the first block of a peer is taken for all of them.
AllColumns_First(r) == \A p \in Peers(r) : logitsDone[Bank(round[r])][r][p] >= 1

\* Every block of every peer has announced its columns.
AllColumns(r) == \A p \in Peers(r) : logitsDone[Bank(round[r])][r][p] >= Cores

CombineWait(r) ==
    /\ stage[r] = "project" /\ signalled[r] = Blocks \X Lanes
    /\ AllColumns(r)
    /\ stage' = [stage EXCEPT ![r] = "gather"]
    /\ UNCHANGED <<indices, round, work, clearing, windows, signals, logits>>

CombineGather(r, b) ==
    /\ stage[r] = "gather" /\ b \notin gathered[r]
    /\ gathered' = [gathered EXCEPT ![r] = @ \cup {b}]
    /\ logits' = [logits EXCEPT ![r] =
                    [c \in Rows \X Vocab |->
                        IF c[2] % VocabPerTp \in GatherColumns(b)
                        THEN shards[Bank(round[r])][r][c] ELSE @[c]]]
    /\ UNCHANGED <<indices, round, stage, pushed, told, heard, owners, stored,
                   signalled, clearing, windows, signals>>

\* The logits are complete: they are sampled from, and the counters are due.
Return(r) ==
    /\ stage[r] = "gather" /\ gathered[r] = 0 .. CommBlocks - 1
    /\ stage' = [stage EXCEPT ![r] = "returned"]
    /\ clearing' = [clearing EXCEPT ![r] = @ \cup {Bank(round[r])}]
    /\ UNCHANGED <<indices, round, work, windows, signals, logits>>

\* Mutant: the counters of the projection are not cleared.
Zeroed_HiddenOnly(r, w) ==
    /\ hiddenDone' = [hiddenDone EXCEPT ![w][r] = [p \in Ranks |-> 0]]
    /\ UNCHANGED logitsDone

Zeroed(r, w) ==
    /\ hiddenDone' = [hiddenDone EXCEPT ![w][r] = [p \in Ranks |-> 0]]
    /\ logitsDone' = [logitsDone EXCEPT ![w][r] = [p \in Ranks |-> 0]]

\* Nothing but the end of the program waits for the clear.
SignalClear(r, w) ==
    /\ w \in clearing[r]
    /\ clearing' = [clearing EXCEPT ![r] = @ \ {w}]
    /\ Zeroed(r, w)
    /\ UNCHANGED <<indices, round, stage, work, windows, logits>>

\* A program is over when all its tasks are.
ProgramOver(r) == (round[r] + 1) % Heads = 0 => clearing[r] = {}

\* On to the draft body of this forward, or to the next forward.
NextBody(r) ==
    /\ stage[r] = "returned"
    /\ ProgramOver(r)
    /\ round' = [round EXCEPT ![r] = @ + 1]
    /\ stage' = [stage EXCEPT ![r] = IF round[r] + 1 = Rounds THEN "stopped" ELSE "body"]
    /\ pushed' = [pushed EXCEPT ![r] = {}]
    /\ told' = [told EXCEPT ![r] = {}]
    /\ heard' = [heard EXCEPT ![r] = FALSE]
    /\ stored' = [stored EXCEPT ![r] = {}]
    /\ signalled' = [signalled EXCEPT ![r] = {}]
    /\ gathered' = [gathered EXCEPT ![r] = {}]
    /\ UNCHANGED <<indices, owners, clearing, windows, signals, logits>>

RankStep(r) ==
    \/ Body(r)
    \/ \E row \in Rows : DispatchPush(r, row) \/ DispatchNotify(r, row)
    \/ DispatchWait(r) \/ DispatchGather(r)
    \/ \E b \in Blocks, lane \in Lanes : LaneStore(r, b, lane) \/ LaneNotify(r, b, lane)
    \/ CombineWait(r)
    \/ \E b \in 0 .. CommBlocks - 1 : CombineGather(r, b)
    \/ Return(r) \/ NextBody(r)
    \/ \E w \in 0 .. Heads - 1 : SignalClear(r, w)

Stopped == (\A r \in Ranks : stage[r] = "stopped") /\ UNCHANGED vars

Next == (\E r \in Ranks : RankStep(r)) \/ Stopped

Spec == Init /\ [][Next]_vars

\* Every task of a rank that can run does.
FairSpec == Spec /\ \A r \in Ranks : WF_vars(RankStep(r))

-----------------------------------------------------------------------------
HiddenItems == [rank : Ranks \cup {-1}, round : -1 .. Rounds, at : -1 .. HiddenRows - 1]
LogitItems == [hidden : HiddenItems, column : Vocab \cup {-1}]

TypeOK ==
    /\ indices \in Indices
    /\ round \in [Ranks -> 0 .. Rounds]
    /\ stage \in [Ranks -> {"body", "head", "project", "gather", "returned", "stopped"}]
    /\ pushed \in [Ranks -> SUBSET Rows] /\ told \in [Ranks -> SUBSET Rows]
    /\ heard \in [Ranks -> BOOLEAN]
    /\ owners \in [Ranks -> [Ranks \X Rows -> HiddenItems]]
    /\ stored \in [Ranks -> SUBSET (Blocks \X Lanes)]
    /\ signalled \in [Ranks -> SUBSET (Blocks \X Lanes)]
    /\ gathered \in [Ranks -> SUBSET (0 .. CommBlocks - 1)]
    /\ clearing \in [Ranks -> SUBSET (0 .. Heads - 1)]
    /\ \A w \in 0 .. Heads - 1 :
        /\ hidden[w] \in [Ranks -> [Ranks \X Rows -> HiddenItems]]
        /\ shards[w] \in [Ranks -> [Rows \X Vocab -> LogitItems]]
        /\ hiddenDone[w] \in [Ranks -> [Ranks -> 0 .. MaxLogitRows]]
        /\ logitsDone[w] \in [Ranks -> [Ranks -> 0 .. Cores]]
    /\ logits \in [Ranks -> [Rows \X Vocab -> LogitItems]]

\* A rank projects exactly the rows its group asked for in this round: none of
\* an earlier head, none that has not arrived.
HiddensExact ==
    \A r \in Ranks : stage[r] \in {"project", "gather", "returned"} =>
        \A o \in Ranks, row \in Rows :
            owners[r][<<o, row>>] = Asked(o, round[r], row)

\* What a head returns: every column of the vocabulary for every row, each the
\* rank's own row against that very column of its shard, a row of zeros where
\* the host passed no index and the last row where it passed one too large.
LogitsExact ==
    \A r \in Ranks : stage[r] = "returned" =>
        \A row \in Rows, v \in Vocab :
            LET index == indices[r][row]
                h == logits[r][<<row, v>>].hidden
            IN  /\ logits[r][<<row, v>>].column = v
                /\ h.rank = r /\ h.round = round[r]
                /\ h.at = IF index < 0 THEN -1
                          ELSE IF index < HiddenRows THEN index ELSE HiddenRows - 1

\* What a round carries, on both legs of the exchange.
RowsExact == TypeOK /\ HiddensExact /\ LogitsExact

\* When a rank clears its counters they hold all the signals of the round and
\* no other: none is still to come and none of the next round is lost.
ClearsWhole ==
    [][\A r \in Ranks, w \in 0 .. Heads - 1 :
        w \in clearing[r] \ clearing'[r] =>
            \A p \in Peers(r) : hiddenDone[w][r][p] = MaxLogitRows /\ logitsDone[w][r][p] = Cores]_vars

\* Every rank gets through every head of every forward.
AllServed == <>(\A r \in Ranks : stage[r] = "stopped")
=============================================================================
