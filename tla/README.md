# A verification development for pypto-lib

pypto-lib is a library of tensor programs, written in the PyPTO Python DSL, for
multi-card NPUs. Its largest programs serve a DeepSeek-V4-flash model with
multi-token prediction (`src/models/deepseek_v4_flash_mtp`). Most of the code is
numeric and straight-line. The part that is hard to get right is the
*distributed* part: ranks write into each other's retained windows, tell each
other so with counters, and reuse windows and counters layer after layer and
request after request, without a host that resets anything. This directory
models that part in TLA+, checks it with TLC and proves its safety with
TLAPS.

Contents

1. Inventory of the system
2. What the environment promises (assumptions)
3. The modules and how they correspond to the code
4. The runs, their bounds and what they show
5. Fairness
6. What is proved, and how
7. Disagreements between comments and the code
8. What is only model-checked, and what is not modelled
9. Plan

File names without a directory are in `src/models/deepseek_v4_flash_mtp`.

## 1. Inventory

| component | state it keeps | operations | what makes it hard | what makes it correct |
|---|---|---|---|---|
| zigzag layout (`prefill_cp_zigzag.py`) | none | owner rank and part of a segment, lanes, reverse index, final-window sources | the same facts are computed on host and device | both agree; a segment is found in the lane it was put into |
| CP tail exchange (`prefill_cp_exchange.py:337-433`) | symmetric window, `tail_ready`, `tail_consumed` on every rank | publish two tails to every peer, wait, gather, release, retire | a fast rank and a slow one, counters that restart with every request | rows gathered are of this request and wave; counters are zeroed when nobody writes them |
| SWA owner-history phase (`prefill_swa.py:728-778`) | the same window and banks | the owner publishes the cached window to all | another protocol on the same counters, only for chunks with a prefix, only in two layers | epochs stay aligned with the tail waves |
| request scatter and gather (`prefill_cp_exchange.py:132-320`, `835-947`) | entry windows, `ready`; slab windows, `complete`; the outputs | header, row scatter, receive, refuse, collect, restore, clear | only the owner knows whether a request is served; everything is retained | ranks work on the request the owner sent; an owner's output survives later owners |
| request barrier (`prefill_cp_exchange.py:967-991`) | counters that only grow | arrive, notify, wait | the only separation between two owners | nobody leaves before everybody has arrived |
| chunk metadata (`prefill_fwd.py:489-770`) | none, per chunk | segment starts, windows, `swa_indices`, CSA leaves, scratch slots | chunks of any length, empty and partial segments, groups that straddle segments | every attended key is found; every compressed group has all its tokens |
| SWA staging and cache (`prefill_swa.py:801-867`, `1213-1310`) | paged KV cache | stage key rows, commit the last window | keys come from the cache, from a predecessor on another rank, or from the rank itself | the rows read are the right positions of the right request |
| HCA and CSA compact exchanges (`prefill_cp_exchange.py:435-834`, `prefill_hca.py`, `prefill_csa.py`) | two more windows with banks of their own; the paged compressed cache | history phases, index records, records and state, commits | the number of credits depends on the prefix and differs by kind; one layer announces twice in one bank; every rank reads, one writes the cache | every layer attends exactly the records of its request; the owner's cache is its own sequence; the retirement fits the credits used |
| decode MoE exchange (`decode_moe.py`) | lanes, counts, three banks of counters | dispatch counts and rows, compute, scatter back, combine, clear | the only order inside a rank is the task graph's; write-after-read is not an edge | experts see exactly the rows routed to them, results are of this call, clears lose nothing |
| prefill MoE (`prefill_moe.py`) | lanes of rows, counts, three banks | count, pack, put, sort into aligned slabs, tiles of experts, return, clear | source and receiver derive every row position apart, from the counts alone | every token gets the sum of its own routes, and a bank is cleared after its last use |
| LM head (`lm_head.py`) | two windows and two banks per head | select rows, push to the group, project a shard, push columns, gather, self-clear | one fixed epoch, cleared by its reader; ragged tiles beside each other | every rank gets every column of its own rows; no notification lost or left |
| speculative decode state (`decode_fwd_mtp.py`) | per slot: tail and draft token, position, generation, count, hidden row; two caches | prepare, verify, pack, draft, advance | slots are reassigned between steps | the committed stream is that of plain decoding |
| attention, compressor and dense kernels | none beyond tensors | numeric | numeric | compared with golden models |
| golden runner (`src/golden`) | tensors on host and device, a worker, the log level of the process | compile, run, compare, benchmark | any call may raise, also while cleaning up after another | the verdict is the kernel's, buffers are freed, the first failure is told |
| other variants and models, contract, examples, CI | | | | |

How they interact. The host calls `l3_prefill_fwd`; on every rank
`_prefill_request` runs once per owner of the group. An owner's call is: scatter,
metadata, all layers (each with a tail exchange, the first two with a history
phase when the chunk has a prefix), retirement of the banks, gather, barrier. A
request without tokens, and one the owner refuses, skips to the barrier. Ranks
share nothing but windows: a `put` or `remote_store` into a peer's window, an
atomic add to a peer's counter (`notify`), and a `wait` on one's own counter.
The compressed layers stream the owner's history before they publish their own
records, and every layer runs a prefill MoE exchange. Decode is one host call per
step: layers with a MoE exchange each, an LM head for the main and one for the
draft model, and a clearing of the counters. The golden runner is the host of
both in tests.

## 2. What the environment promises

These are the external facts the models take from `src/docs` and from the way the
code uses the runtime; none of it is under test here.

* Windows and signals are zero when allocated, and keep their contents from then
  on. `notify` adds atomically; `wait ... Ge` is local
  (`docs/pypto-coding/l3-programming.md`).
* What one core writes to one peer arrives in that order. For `put` the document
  says so. For `remote_store` it says the opposite may happen; the scatter's
  input rows (`prefill_cp_exchange.py:231-243`), the gather's tails (`900-903`)
  and the MoE's meta and aux rows (`decode_moe.py:141`, `200`) still use it right
  before a `notify`. The models assume the order; without it those exchanges
  have no guarantee at all, whatever the counters do.
* Tasks of a rank are ordered by data flow (read-after-write, write-after-write)
  and by explicit `deps`; write-after-read is not an edge
  (`docs/debug-and-tune/dependency-and-scheduling.md`). `MoeExchange` takes only
  those edges. `CPTailExchange` takes the exchange tasks of one rank in program
  order, which their chain through the signal tensors and anchors gives.
* A put is never atomic. In `CPTailExchange`, `CPRequest` and `MoeExchange` it
  takes two steps and the destination holds a torn value between them. In
  `CPCompact`, `PrefillMoe` and `LmHead` the put and the notification that
  announces it are two steps, so that a reader that does not wait finds the old
  content.
* One context-parallel group: the compact exchange of CSA layers addresses peers
  by their place in the group (`prefill_csa.py:1356`, `1418-1455`).
* A request stays within `MAX_SEQ_LEN` (`PlansAssumption` of `CPCompact`). Beyond
  it the clamp of the HCA history (`prefill_fwd.py:1053`) and the retirement,
  which does not clamp (`1413`), would count differently.
* The group size is at least two, as `prefill_fwd.py:1912` asserts
  (`GroupAssumption` of `CPCompact`); `num_tokens_per_owner` is the same on all
  ranks; a block table maps every page a request needs; all ranks of a decode
  group run the same layers.

## 3. Modules

| module | models | state |
|---|---|---|
| `CPLayout` | zigzag ownership and lanes | none (operators) |
| `CPTailExchange` | tail wave, history phase, epochs, retirement, barrier | `window`, `ready`, `consumed`, `arrivals` are the retained windows; `stage`, `layer`, `block`, `looped` the positions of a rank's tasks; `seen` what it read |
| `RequestBarrier` | the abstract barrier | `at`, `waiting` |
| `CPTailExchangeInv` | the inductive invariant | |
| `CPPrefillProofs` | theorems and proofs of the tail exchange and of the chunks | |
| `CPRequest` | scatter, refusal, forward, gather, clears | `header`, `rows`, `ready`, `slab`, `complete`, `out` are retained; `control`, `hidden` are the request's own |
| `CPMetadata` | coordinates of a chunk, device and host formulas | none (operators) |
| `CPChunks` | a chunk through one attention layer, chunk after chunk | `cache` is retained; `local`, `history`, `logical`, `staged` are the layer's scratch; `output` the owner's result |
| `MoeExchange` | decode MoE over layers and forwards | `recv`, `recvMeta`, `routed` and three banks are retained; the rest are positions of tasks |
| `CPCompact` | the compact exchanges of HCA and CSA layers | `window`, `ready`, `consumed` by kind, and `cache`, are retained; `root` is what the layer attends |
| `PrefillMoe` | prefill MoE over layers and requests | three windows and three banks are retained; `packed`, `counts`, `grouped`, `out` belong to a layer |
| `LmHead` | the two heads of decode forwards | `hidden`, `shards` and their banks, per head; `owners`, `logits` belong to a round |
| `GoldenRunner` | one call of `run` | `host`, `device`, `buffers`, `handles`, `level`, and how the run goes: `at`, `raised`, `first`, `result` |
| `PlainDecode` | abstract specification: a request in a slot is answered the next tokens of its own continuation | `owner`, `out` |
| `MtpDecode` | speculative decoding over reassigned slots | `state`, `pool`, `cache`, `draftCache` are persistent; `batch`, `work` belong to the step in flight |
| `CPRequestInv`, `CPCompactInv`, `MtpDecodeInv`, `MoeExchangeInv`, `PrefillMoeInv`, `LmHeadInv` | the inductive invariants | |
| `CPRequestProofs`, `CPCompactProofs`, `MtpDecodeProofs`, `MoeExchangeProofs`, `PrefillMoeProofs`, `LmHeadProofs` | theorems and proofs | |
| `GoldenRunnerProofs` | invariant, theorems and proofs | |
| `MCMoeExchange`, `MCCPCompact`, `MCPrefillMoe`, `MCLmHead`, `MCGoldenRunner` | inputs for TLC: routings, prefixes, gates, row indices, argument lists | |

Composition: `CPRequest`, `CPCompact` and `PrefillMoe` are built on the promise of
`RequestBarrier`, which `CPTailExchange` implements; `MtpDecode` implements
`PlainDecode`. A module has one type invariant; where it is not listed by itself
it is the first conjunct of `IInv`, `RetiredQuiet`, `RowsExact`, `RoutesExact`,
`OutcomeExact` or `KeysFound`. `CPChunks` is proved about beside `CPTailExchange`,
in one module that extends both; so its constant, variable and definitions that
would have had the same names are called `Prompts`, `prompt`, `ChunkInit`, `ChunkSpec`
and so on.

**CPTailExchange.** `StartPut`/`FinishPut` are one publishing block of
`_prefill_cp_hidden_tail_exchange_wave`: wait for the peer's `consumed`, put two
lanes, notify. A history phase is one task instead: its owner waits for all
credits, puts to all ranks, then notifies (`HistoryNotify`); the other ranks only
notify. `Gather` reads one piece, through `ReverseIndex`, once this rank has
published and every `ready` counter has reached the epoch. `Release` is the
`consumed` notification. `NextPhase` is all the compute between two exchanges.
`Epoch` is the arithmetic of `prefill_fwd` (layers with a history phase use two
epochs). `Retire`/`ClearSlot` are `_clear_prefill_cp_exchange_signals`; `Arrive`,
`BarrierNotify`, `BarrierPass` the barrier. `plan` is chosen in `Init`: any
sequence of first chunks, continued chunks and skipped requests. A continued
chunk may follow any other request, since owners take turns.

**CPRequest** has the same requests at a coarser grain: the forward is one step,
and the barrier is `RequestBarrier`, which `CPTailExchange` implements
(`BarrierKept`). In exchange it has the paths that depend on the kind of a
request: only the owner's header says whether a request is refused, its peers
learn it from the header, and a refused request writes NaN to the owner's
output. A host call is one turn of each owner; outputs are blanked when the
first owner's turn begins (`Enter`), again by an owner's own gather (`Blanked`).

**CPMetadata and CPChunks.** Rows are tagged with request and position, so a
wrong row is visible as a wrong tag. `OverlayBase` is the index from which
`swa_indices` mean rows of the chunk, not of the cache. `SwaIndex` is what the
metadata kernel writes; `StagedRow` is what `_cp_swa_stage_sources` makes of it;
`KeysFound` puts the two together with what the attention then reads. Phases
that the exchange modules make safe are single steps. `CompressRatio` is 2 on
the instance: the leaf arithmetic (`SeedLength`, `LeafTokens`, `EndsGroup`) uses
the ratio as a parameter. The `Host...` operators are the other formulas for the
same facts, used by the host harness. For a key of the history the harness names a
row of a cache whose page i is that of block i (`RingRow`, the position modulo
`ORI_CACHE_ROWS`), the device the physical row; the owner's block table leads from
the one to the other, so `HostAgrees` compares the device's index with the `Slot`
of the harness's row. `MaxPosition` is at most `OverlayBase`, as in the code
(`ORI_CACHE_ROWS` is the block table's pages times their rows, at least
`MAX_SEQ_LEN`: `config.py:259-260`), so no position of a request wraps there.

**MoeExchange.** One action per task, guarded by that task's `deps` and by
nothing else: `SendMeta`, `CopyCounts`, `StartPush`/`FinishPush` per destination
and push group, `WaitPayload` (which may be pending for several layers,
`pending`), `Gather`, `StartScatter`/`FinishScatter`, `StartCombine`, `TellDone`,
`CombineWait`, `Reduce`, `NextLayer`, `ClearSignals`. A rank that no route was
sent to has no expert task; that its layers go on without its `dispatch_wait` is
in the guards of `Scattered` and `StartCombine`. `NextForward` is the host
(external). Expert arithmetic is left out: a result carries the call, expert and
route it belongs to.

**CPCompact.** A phase is a turn of one kind's window. `Put` and `Notify` are the
publishing blocks of the history, of an HCA layer's records and of the second
stage of a CSA layer; `PublishIndex` is the first stage of a CSA layer, which has
blocks of its own that wait for their own peer only. A phase of a CSA layer
counts two credits (`Unit`), and its index records are announced by the first of
them. `TakeHistory` is the assembly of a root from one window of history;
`CommitIndex`, `CommitRecords` and `CommitState` read the window into the root
and, on the owner, into the paged cache; `Release` gives the window back when
the last commit is over. `Epoch` is the arithmetic of the layers (`TypeIndex`,
`HistoryPhases`), `Completed` that of the retirement, which `prefill_fwd` computes apart.
Segments are one token long: what a segment computes is not at issue here, only
which records it completes.

**PrefillMoe.** Positions are computed as the code does, from counts: `Packed` from
the shards' partial counts, `Pushed` by the four streams of whole tiles and
single rows, `Resorted` from the counts received, `Tiles` as the decision between
shapes of 192, 128, 96, 64, 32 and 16 rows, `Returned` back into the source's
lane. Rows carry the call, source, slot and route they come from, so `RoutesExact`
compares the end of that chain with the routes themselves. The three exchanges
are `SendCounts`/`TakeCounts`, `PutPayload`/`NotifyPayload`/`Resort` and
`PutReverse`/`NotifyReverse`/the sum. Experts and the shared expert are left out.

**LmHead.** Blocks and lanes are tasks of their own: a row of hidden states a
`DispatchPush`, a lane of a projection block a `LaneStore` and `LaneNotify`, a block
of the gather a `CombineGather`. `Columns` is the ragged tile. `SignalClear` is the
rank's own clear, which nothing but the end of the program waits for
(`ProgramOver`). `Body` is the forward before the head: it exchanges with every
rank, so no rank enters a head before every rank has left the previous one.

**GoldenRunner.** One action per stage of `run` and of the prepared worker; at each
call of the runtime or of a caller's function an exception may be raised
instead, of a kind the pipeline catches or of another (`Raises`, `Fault`). A
tensor's content is a launch count or garbage, so a stale buffer, an output
compared after the wrong launch and a kernel that is wrong about some outputs
(`run.wrong`) are all visible. A tensor may be *given* (its `init_value` is a tensor
of its dtype). A given pure output is one buffer for the run and for the golden
function (`Shared`): `Scratch` is what the golden function leaves in the run's
tensors, and `Reference` what an output is compared with, itself if it is shared.
`Free` goes on after a free that raised, as does the cleanup of the shards of a
stacked output of which one, or the handle over all of them, failed; `Restore` and
`Leave` put the two nested log levels back.

**MtpDecode.** One action per call of `l2_decode_fwd_mtp`: `Prepare`, `Forward`
(`decode_fwd`), `Verify`, `Pack` (`pack_mtp_hidden`, a row of the batch at a
time), `Draft` (`decode_mtp`), `Advance`. Tokens and hidden rows carry the request
and the position they come from. A row of the forward samples what plain decoding
would if every cached position up to its own holds the request's own token and
the sampling key is that of the sampled position; otherwise it samples anything,
by chance also the right token. A draft is always anything. `Assign`, `Release`,
`Submit` and `Collect` are the serving host, which is not in the repository: they
are external and take what the code assumes of it (a slot is initialised as a
whole with a new generation, as the fixture's `init_state_meta` does; a request
has cache pages of its own, not reused while a step that names them is queued;
what a row without a slot computes is dropped). `overlap` says whether slots
may change hands while a step is queued or uncollected, which is what the
generation is for. `PlainDecode` is the promise; `DecodesPlainly` is the refinement.

## 4. Runs

| run | instance | what it shows |
|---|---|---|
| `tail` | 2 ranks, 3 layers, 3 requests of any kind | exact gathers, one wave apart, requests separated, retirement undisturbed, the counters implement the abstract barrier, every request ends on every rank; the proofs' invariant holds |
| `request` | 3 ranks, 4 requests (one owner serves twice), three kinds | right request received, outputs survive, clears exact, refusals do not strand a rank; the proofs' invariant holds |
| `compact` | 2 ranks, 2 CSA and 2 HCA layers, 4 requests, prefixes of 0 to 12 tokens with windows of 4 records | roots and caches exact, credits used and retired agree, every request ends |
| `prefill_moe` | 2 ranks of 2 experts, 2 layers, 2 requests, 0 to 12 tokens a rank, experts with 0 to 24 rows | routes exact from packing to sum, clears exact, every request ends |
| `lm_head` | 2 ranks, 2 forwards of 2 heads, shards of 5 columns in tiles of 2, 2 cores of 2 lanes | logits exact, clears whole, every head ends |
| `golden` | every combination of arguments, 3 lists of tensors, given or not, kernels wrong about any outputs, up to 2 calls that raise, 2 rounds | verdict, buffers, log level, told failure, launch count |
| `golden_rounds` | the same | violation, see section 7 |
| `chunks` | 2 ranks, tiles of 4 rows, up to 2 tiles a segment, 2 requests, chunks of 3, 7, 16, 18 and 32 tokens up to position 36 | every key, every window, every group, every output row |
| `moe` | 2 ranks of 4 experts (2 push groups), 2 layers, 2 forwards; all ranks are sent rows and one push block has none, or one rank or both are sent nothing | payload complete when gathered, results exact, clears exact, forwards end; the proofs' invariant holds |
| `moe_payload` | 2 ranks, all routes to one | violation, see section 7 |
| `mtp_two` | 2 rows, 2 slots, 2 requests, positions below 7, slots change hands between steps or also under a step | committed tokens and slot state are those of plain decoding; without overlap drafts see committed tokens only; the proofs' invariant holds |
| `mtp_pool` | the same, under a step | violation, see section 7 |

*Why the bounds are enough.* Tail exchange: three layers are the two with a
history phase and one without, so each way of numbering epochs occurs and so does
each change from one to another; the second request is where stale counters and
rows would show, the third where an owner is served again, and the proofs remove
the bounds altogether. Request path: four requests of three owners make every
window and bank be used by an earlier owner, by another one and by the same one
again; three ranks are where "some peer" and "every peer" differ. Compact
exchange: two layers of each kind reuse their banks within a request and the two
turns of each owner between requests; the prefixes lie at nothing, inside a
window, at its end, one past it and beyond two windows. Prefill MoE: the matmul
tile has two rows, so 24 rows are the slab of 192 and the other counts give each
tail; segments are full, short and empty, one rank or both without tokens. LM
head: the last tile of a shard is ragged and the gather has a tail block; two
forwards reuse both windows of each head, with padding and an index past the end.
Golden runner: two exceptions are what it takes for one to hide another, and two
rounds after a warmup tell the validated launch from the last; of the lists of
tensors one shares its output with the golden function without a worker, one with a
resident output, and one shares nothing. Chunks: the
lengths give an empty segment, a partial one, a full tile, uneven segments and
the full capacity, and their sums give bases inside and at the boundary of a tile
and of a compression group; the cache of two pages wraps, while the block table has the
nine pages that position 36 takes. Decode MoE: two layers
and two forwards reuse every lane and every counter; two push groups are where a
threshold per source and per group differ. Only when both
ranks have nothing to compute can one announce itself done ahead of its own pushes. Decoding: up to four
steps of a request give every order of accepted and rejected drafts
that the two-row window can tell apart (the window replays at most one position,
so what a step leaves is seen by the next one); two requests are rows of one
step, or hold one slot in turn while a row is stale; the proofs remove the bounds.

Stopping. `Stopped` (`Done` in `GoldenRunner`) is an explicit stutter at the end, so
TLC's deadlock check means something in `chunks`, `golden` and `mtp_two`; the
runs with liveness under fairness say in their cfg that the check is switched off
because a protocol deadlock is a violation of the liveness property itself.
`AllForwardsEnd` has one exception, which section 7 explains: a rank that has cleared
the counters under its own payload wait (`Stranded`) stops for good.

## 5. Fairness

`FairSpec` is weak fairness of each rank's step (and of the host's next forward
in `MoeExchange`). It says that a rank with a ready task keeps executing tasks:
ranks run on devices of their own, a task that spins in `wait` gives way to
nothing but its counter, and counters only grow between clears, so a wait once
satisfiable stays so until it is taken or its bank is cleared, which the safety
properties restrict. No strong fairness and no fairness of an individual peer or
lane is assumed. `AllServed` and `AllForwardsEnd` are checked under it. The host
of `MtpDecode` and the run of `GoldenRunner` have no fairness: a client may leave
at any time, and the properties stated of them are safety properties.

## 6. Proofs

Every model has proofs, for every value of its constants: the tail exchange, the
request path, the chunks, the compact exchanges, the two MoE exchanges, the LM
head, speculative decoding and the golden runner. Every safety property, action
property and refinement that a passing run checks is a theorem. In each model the
safety properties are not inductive, so there is a strengthening `IInv` (`ChunkInv`
of the chunks) that is proved; the temporal theorems follow from it by PTL. `IInv` is an
invariant of the runs `tail`, `request`, `mtp_two` and `moe`; those of the other five
hold on the instances of `chunks`, `compact`, `lm_head`, `prefill_moe` and `golden`, whose
configurations list the properties that follow; that of `prefill_moe` also on three
ranks.

### Tail exchange

`CPSize` at least 1, `Layers` at least 2, `Requests` a natural number, `Kinds` any of the
three.

| theorem | states |
|---|---|
| `TypeCorrect` | `TypeOK` |
| `RequestsStaySeparated` | `RequestsSeparated` |
| `BarrierRefined` | `Spec => Barrier!Spec`: every step maps to a step of `RequestBarrier` or to a stutter |
| `WavesStayClose` | `OneWaveApart` |
| `RetirementUndisturbed` | `[][...]`: no peer writes a bank between retirement and barrier |
| `InductiveInvariant` | `IInv` |
| `GatheredIsExact` | `GatherExact` |

*The argument.* `GatherExact` is not inductive: that a gathered row is right
depends on what every counter means. `IInv` has three layers, each proved on top
of the one before:

1. `BarrierInv`: the program positions are consistent,
   `arrivals[r][p]` is exactly the number of barriers `p` has announced to `r`,
   hence two ranks are at most one request apart and the one behind is in its
   barrier. This alone gives the refinement of `RequestBarrier`.
2. `CreditInv`: `ready[r][p]` and `consumed[r][p]` are
   exactly what `p` has announced and released to `r` in the request, or 0 when
   one of the two is on the other side of a clear (`Silent`). With the guards of
   `StartPut` and `Gather` this bounds the distance of two ranks to one wave, and
   shows that a rank that starts to clear has been sent everything. The last
   part is where the retirement count and the epochs have to agree.
3. `WindowInv`: for the request and epoch a rank wants
   next, what each peer has announced lies in the peer's lanes, untorn. A put can
   only hit lanes their reader has released: the credit in `StartPut`, read
   through layer 2.

In each layer there is a lemma per action for its effect and one for what it
keeps; `BarrierStep`, `CreditStep` and `WindowStep` put them together and the
temporal theorems follow by PTL. The assumptions are those named in `CPLayout`
and `CPTailExchange`.

### Request path

`CPSize` at least 1, `Requests` a natural number, `Kinds` any of the three.

| theorem | states |
|---|---|
| `InvariantCorrect` | `IInv` of `CPRequestInv` |
| `TypeCorrect` | `TypeOK`, and with it that no signal counter exceeds one |
| `ReceivedCorrect` | `ReceivedExact` |
| `OutputsCorrect` | `OutputsSurvive` |
| `ClearsCorrect` | `ClearsExactly`, an action property |

*The argument.* The barrier gives `RequestsSeparated`: two ranks are in the same
request, or one is in the next and the other waits. What a retained bank or
window means is then said with three facts about request `n` and rank `p`: the
owner has told `p` (`Sent`), `p` has copied it and cleared the counter (`Took`), and
the difference (`Pending`), which only request `request[p]` or, while `p` waits, the
next one can be. `ReadyOK` says that a ready counter is 1 exactly for a pending
announcement, and `EntryOK` that what is pending lies whole in the windows: the
next owner cannot overwrite it, because it is behind the barrier of this one.
For the way back, `CompleteOK` says that a counter of the gather is 1 exactly
while its owner awaits a peer that has notified (`Awaited`, `Notified`), `SlabOK`
that the slabs of a peer that has published are of this request, and `OutOK` what
an output is before, during and after its owner's own turn. There is a lemma per
conjunct, with a case per action.

### Chunks

`CPSize`, `TailRows`, `MaxTiles`, `CompressRatio`, `OverlayBase` and `Pages` at least 1,
`MaxPosition` at most `OverlayBase`, `Lengths` any set of chunk lengths within the capacity, any number of
requests (`SizesAssumption`, `ChunkAssumption`). A tile is a whole number of
compression groups, and at least two (`CompressAssumption`: the code has tiles of
128 rows and groups of 4).

| theorem | states |
|---|---|
| `ChunkInvariant` | `ChunkInv` of `CPPrefillProofs` |
| `ChunkTypeCorrect` | `ChunkTypeOK` |
| `KeysCorrect` | `KeysFound` |
| `WindowCorrect` | `WindowKept` |
| `OutputCorrect` | `OutputInOrder` |
| `GroupsCorrect` | `GroupsWhole` |
| `HostCorrect` | `HostAgrees` |

*The argument.* `ChunkInv` says of each phase of a layer what it leaves: the scattered
rows are those of the chunk (`LocalExact`), the history is the cached window
(`HistoryExact`), the overlay of predecessor tails and history is the window before
each lane (`LogicalExact`), and the cache holds the last window of what came before
(`CacheExact`). Every row carries its position, so the properties become arithmetic:
`KeyResolved` follows a key from its index through the staging to a row of the
chunk, of a predecessor or of the cache, and `SlotsDistinct`, that positions less
than a cache apart have slots of their own, is what keeps an overwritten page from
being one still attended. `LeafExact` and `GroupReplayed` follow a compression
group that begins in another segment. Two facts are inductions in disguise: that
all segments before a row's own are full (`BeforeIsFull`), and that the host's walk
from the end of the chunk finds the window the device computes directly
(`HostBoundsAre`). Of the indices, `HostIndexAgrees` splits keys as both sides do, into
the tile, the overlay before it and the history; a row of the history that the
harness names is the position itself, since positions fit the block table, and its
slot is the device's. The provers cannot instantiate an induction theorem; both are
proved of a least counterexample instead (`Least`).

### Compact exchanges

`CPSize` at least 2, `LayerKinds` any list of HCA and CSA layers, `Ratio` any two
positive ratios, any `MaxSeqLen`, `Requests` and `Plans` within it (the assumptions
of `CPCompact`).

| theorem | states |
|---|---|
| `InvariantCorrect` | `IInv` of `CPCompactInv` |
| `TypeCorrect` | `TypeOK`, and with it the bound `MaxCredits` of a bank |
| `RootCorrect` | `RootExact` |
| `CacheCorrect` | `CacheExact` |
| `RetiredCorrect` | `RetiredQuiet` |

*The argument.* A bank counts credits of all layers of its kind, in units of one or
two; `Done(k, p)` is the number of turns of kind `k` that `p` has behind it in its
request, and `CreditsOK` says that a bank holds that many units plus what the present
turn has announced (`Now`) or given back, or zero on the other side of a clear
(`Silent`). `Heard` and `Allowed` keep what the guards have shown: turns behind a
rank were announced to it, and whoever has its rows in a window has read the turn
before. `Settled` is the retirement: a cleared bank has had the last credit, which
is where `Completed`, computed apart from the layers, has to agree with their
epochs. From these a reader and a writer of one window are compared by their turns
(`HeardFrom`, `GivenRead`, `WritesFit`, `WritesWait`): all rows that lie unread in
it are of the turn its reader is in.

On that rest the contents. `Present` says that what a rank has put in its turn stays
until its reader has read it, `Remaining` the same of a rank that has gone on while
its reader has not. `RootOK` counts the records
that history has streamed, up to `HistoryRows` in the last window, and adds those of
the chunk when they are gathered: `GatheredExact` shows that the slots a window
announces are those between the old and the new end of the sequence, each once,
because lanes of different ranks and segments complete different records.
`CacheOK` says which requests are in the pools of each layer (`Requested`); the
owner's own turns are the only ones that add to them, and what its history streams
next time is what they have added. The state is committed last, and only then is a
turn of the chunk's own records over for its reader (`Finished`).

### Decode MoE exchange

`EP`, `Local`, `Layers` and `Forwards` at least 1, any number of tokens and routes,
`Routings` any set of routings to existing experts (`SizesAssumption`,
`RoutingsAssumption`).

| theorem | states |
|---|---|
| `InvariantCorrect` | `IInv` of `MoeExchangeInv` |
| `TypeCorrect` | `TypeOK` |
| `GatherCorrect` | `GatherExact` |
| `ReduceCorrect` | `ReduceExact` |
| `ClearsCorrect` | `ClearsExactly`, an action property |

*The argument.* `SignalsOK` says what the three counters are: the number of counts,
of push blocks and of combine notifications a source has sent this forward, until
the receiver clears them. A counter never tells the layer a notification is of, so
three facts do: `Heard` (counts are copied when all have sent theirs), `Paid` (a
gather that may run has all push blocks of its layer) and `Synchronised` (who has
passed a `combine_wait` was told by all). Together they keep two ranks within a
layer of each other, in either direction only where no lane is in use (`CountsOK`),
so that rows, counts and results of one layer never meet those of the next
(`LanesWritten`, `MetaWritten`, `ResultsWritten`). `AllScattered` is what the route
from scatter to combine adds: a rank that combines has served every source in its
layer. Rows of two push groups do not share a cell because a group owns its
experts. `ClearsExactly` is read off `SignalsOK` and `Synchronised`.

### Prefill MoE exchange

Any sizes of at least 1, any number of requests, and `Plans` any set of segment
lengths and gate choices within them; the experts of a token are distinct, as a
top-k makes them (`SizesAssumption`, `PlansAssumption`).

| theorem | states |
|---|---|
| `InvariantCorrect` | `IInv` of `PrefillMoeInv` |
| `TypeCorrect` | `TypeOK`: every position computed from the counts lies in its window |
| `RoutesCorrect` | `RoutesExact` |
| `ClearsCorrect` | `ClearsExactly`, an action property |

*The argument.* Control first. `CountersOK`: each of the three counters is the number
of layers its source has announced, until it is cleared. `Close` keeps what the
waits have shown: who has taken the counts, sorted the rows or summed the results
of a layer was told by all of them, so two ranks are within a layer of each other,
and who is a request ahead has not got beyond its first wait. Hence a rank that
reads a window finds its source in the same request and layer (`CountsHeard`,
`RowsHeard`, `ReturnsHeard`), and a rank that overwrites one has been answered for
what was in it. `ClearsExactly` is read off the same two facts.

What the windows hold is stated by `Batch`: what all ranks bring to one layer. A
row's place is a sum of counts that each side computes for itself, so the data
invariant (`PackedOK`, `CountsSentOK`, `CountsTakenOK`, `LanesOK`, `SlabsOK`, `PaddingOK`,
`ReturnsOK`) rests on lemmas about the operators alone. `PositionIs` and `RowInjective`:
counting shard by shard gives a route the row its expert and its rank among the
expert's routes give, and no other route has it. `LaneOnto`, `CountSum`: the rows for one
destination are one block, each used. `Streams`, `PushedIs`: whole tiles and single
rows together put every row once. `SlabsApart`, `ResortedIs`: the slabs of different
experts and of different sources in one do not overlap. `TilesCover`: whatever the
shapes chosen for the tail, the tiles of an expert cover its aligned slab and
nothing of the next one. `ReturnedIs`, `SummedIs`: the way back lands where the source
packed the route. `DueCount`, a bijection between the routes due to an expert and the
rows of its slab, turns this into `GroupedExact`, which is about order and number.

`Sum` is a recursive function. What it computes follows from its two equations
(`SumIs`, `SumStep`); facts about all prefixes (`SumMonotone`, `SumAdded`, `SumSwap`, `SumFind`)
are proved of a least counterexample, like those of the chunks.

### LM head

Every number of rows, columns, tiles, cores and heads, ragged ones included, any
row indices; groups of one or two ranks (`SizesAssumption`, section 8).

| theorem | states |
|---|---|
| `InvariantCorrect` | `IInv` of `LmHeadInv` |
| `RowsCorrect` | `RowsExact` |
| `ClearsCorrect` | `ClearsWhole`, an action property |

*The argument.* The heads of all forwards are numbered as rounds; `Bank(n)` is the
set of windows and counters that round `n` uses. `Separated` says how far two ranks
can be apart: the one ahead has not entered its head, and has been served by the
one behind. So a counter holds the signals of one round (`SignalsOK`): the one its
reader is in, or one that is over and waits to be cleared (`clearing`); that a new
round of the same bank finds it cleared is the order of the end of the program and
the next body. `PushedOK`, `StoredOK` and `PassedOK` say which of the cells of a
window are written, `WholeOK` that the window of a rank that has waited is, for
which every column must belong to a block that some lane stores for it, whatever the
raggedness (`Columns`, `TilesOf`).

### Speculative decoding

`Batch` and `Prompt` at least 1, `MaxPosition > Prompt`, `Requests` a natural number,
`Slots` any set without -1, `Overlaps` any set of answers (`SizesAssumption`).

| theorem | states |
|---|---|
| `CommitCorrect` | `CommitInv`, the part of the invariant about committed tokens |
| `InvariantCorrect` | `IInv` of `MtpDecodeInv` |
| `AgreesCorrect` | `StateAgrees` |
| `PlainCorrect` | `Spec => DecodesPlainly`: `MtpDecode` implements `PlainDecode` |
| `DraftCorrect` | `DraftInContext` |

*The argument.* `OwnersOK` and `BatchOK` are the generation argument: a row names a
slot with the generation its request had it in, generations only grow, so a row
that passes `Guarded` has its own request in the slot, or nobody. `SlotsOK` ties
a held slot to the host's answers: its position is the newest answered one plus
what the step in flight has committed and the host not yet collected (`Ahead`),
its tail is the request's own next token, and the cache holds the request's own
tokens up to there. It says nothing beyond, where a rejected draft lies; the next
step writes that position before anything attends it, which is what the proof of
`Forward` shows. `WorkAgrees` is what a live row holds at each stage. `Collect` then
is a step of `PlainDecode` that answers as many tokens as each row accepted,
`Assign` and `Release` are its own, and everything else stutters. `ContextOK` adds,
where slots change hands between steps only, that pool, packed rows and the MTP
layer's cache come from committed tokens: a window is two
positions ending at the newest accepted one, so one accepted token replays the
position before it out of the pool and leaves no gap.

### Golden runner

`Ranks` and `Rounds` at least 1, `Warmup` and `MaxFaults` natural numbers, `SpecLists`
any set of lists of tensors (`BoundsAssumption`).

| theorem | states |
|---|---|
| `InvariantCorrect` | `IInv` of `GoldenRunnerProofs` |
| `CleanedUpCorrect` | `CleanedUp`: buffers and log level |
| `FirstFailureCorrect` | `FirstFailureTold` |
| `LaunchesCorrect` | `LaunchesAgree` |
| `ContentsCorrect` | `FullInv`: what the tensors hold at every stage |
| `OutcomeCorrect` | `OutcomeExact`: the verdict is the kernel's |

*The argument.* `FailureOK`: an exception is on its way only from where it was
raised to `Restore`, and it is the first failure. `BuffersOK`: the buffers that are
allocated are those of the handles plus those that could not be freed, no handle
is held twice and shards name their tensor, so each `Free` takes from the one
exactly what it adds to the other or gives back, and an empty list of handles
leaves only what is lost. `LevelOK`: which of the three levels is in force at each
stage, and which one the capture remembers. `LaunchOK`: inside the worker `index`
counts the launches, and a benchmark that reaches its report has made them all.
For `OutcomeExact` the invariant also says what the tensors hold (`FullInv`). A
content is garbage or a count of launches that the launches so far bound (`TypeInv`);
what the first launch will read is untouched, and what it wrote is there, and is
the kernel's answer, until it is compared (`DataOK`); whoever has passed the
comparison has a kernel that is right about every output that could show a wrong one
(`VerdictOK`). Outputs shared with the golden function cannot: `MatchShows` proves that
a comparison passes just when `Mistakes`, the wrong outputs that are not shared, is
empty, and the property is stated with that set, because the code does no more.

## 7. Disagreements between comments and the code

`clear_moe_signals` (`decode_moe.py:467-469`) says that the final MoE output
depends on this rank observing every peer's final meta, *payload* and combine
notify. The combine depends on `[scatter_done, dispatch_push_tid]`
(`decode_moe.py:325-328`); on a rank that no route was sent to `scatter_done` has
no expert task behind it, so nothing on the way to the output consumes what
`dispatch_wait` produces. Run `moe_payload` shows that rank zeroing its counters
while its own `dispatch_wait` is pending; once they are zero that task can only be
satisfied by a later forward. The order of the read in the wait and the write in
the clear is a write-after-read, which the runtime does not track. The second
half of the comment, that no peer can notify this rank again, holds
(`ClearsExactly`), by the dependency on `dispatch_push_tid`.

The generation of a slot is called the "ABA guard" of the persistent state
(`decode_fwd_mtp.py:114-120`), and a row is said to be consumed only when its
generation matches (`162-164`). `prepare` and `advance` keep to that.
`pack_mtp_hidden` tests only that the row names a slot (`decode_prepare.py:401`)
and writes the third persistent tensor, `tail_pre_hc_pool` (`426`). Run `mtp_pool`
shows a step of a slot's former owner replacing the hidden row kept for the new
one. What follows is a worse draft after the next rejection; `mtp_two` shows
that the committed tokens are not touched.

The golden harness is said to give the golden function "cloned inputs and separate
zero-filled pure outputs, so runtime writes cannot mutate the already computed
reference" (`docs/run-and-validate/golden-harness.md:108-109`). `_compute_golden`
makes a pure output by `spec.create_tensor()` (`src/golden/runner.py:1452`), as the
run's own buffer was made; when `init_value` is a tensor of the spec's dtype, both are
that tensor (`src/golden/spec.py:163-164`). The launch
then writes over what the golden function computed. The comparison that follows is of a
tensor with itself, so a kernel that is wrong about such an output passes.
`OutcomeExact` holds because it says as much: `Shared` outputs are not in `Mistakes`.
No run is spent on this: with `Mistakes` all wrong outputs, TLC finds `OutcomeExact`
violated in run `golden`.

The docstring of `_run_l3_resident` (`src/golden/runner.py:1178-1179`) says that "a
failure in the benchmark rounds that follow is logged, not raised". A missing marker
in the log is indeed only logged; a launch that raises in one of those rounds is
echoed and raised again (`1371`), and the handler in `_run_pipeline` (`1641`) turns
`AssertionError` and `ValueError` into a failed result and lets any other exception
reach the caller. Run `golden_rounds` shows it. `FirstFailureTold` states what the
code does: such a failure is told like any other, and a run passes just when nothing
failed outside a cleanup. A free that fails is swallowed, so a passing run may contain
one.

## 8. What is only model-checked, and what is not modelled

Only model-checked: liveness (`AllServed`, `AllForwardsEnd`), since the prover has
neither fairness nor `ENABLED`; and the three violations of section 7. The provers
cannot instantiate an induction theorem either. Where a fact is an induction over
naturals, a least counterexample replaces it (`Least` in `CPPrefillProofs` and
`PrefillMoeProofs`), and a sum is a recursive function that is shown to exist the same
way (`SumsExist`). No module here declares a `RECURSIVE` operator.

Not modelled, of components that are:

* `LmHead` takes groups of one or two ranks (`SizesAssumption`; two is the default).
  With four or more, lane 0 notifies owner 2 (`lm_head.py:262`) of columns that
  lane 1 stores (`234`); whether the lanes of a core are joined at that point is
  decided by a compiler that is not in this repository. The sampling that
  follows is left out.
* `CPCompact`: block tables, the pages of the CSA root's own state, and the numbers
  inside a record. A root is compared by where its records come from.
* `CPMetadata`: `snapshot_positions` and the history slots.
* `CPCompact`: the clamp of the history rows at their capacity (`prefill_fwd.py:1053`),
  which the retirement counts leave out (`1413`), is in the model but never reached: a
  request stays within `MAX_SEQ_LEN`, so no property tells the two counts apart there.
* `MtpDecode`: `prefill_mtp`, the choice of a token, the sampling controls of the
  draft (a draft is any token). The draft is sampled with the key of the position
  before the one it is for (`decode_fwd_mtp.py:268`) and verified with the key of
  its own; that costs acceptances at most.
* `GoldenRunner`: tensors that are not contiguous (they are copied before a worker sees
  them, so they share nothing), an error of the worker's own exit, exceptions outside `Exception`,
  the check for stale generated files, the parsing and layout of reports.
* The wrap of the INT32 barrier epoch after 2^31 requests.

Not modelled at all: attention, compressor and dense kernels (numeric and
straight-line; the golden tests compare them), the declarative contract, examples
and CI, and the other model families. Most of the repository's lines are such
kernels or variants of the programs modelled here, so the modules cover a small
share of its lines and most of its protocol state.

## 9. Plan

Done, in this order: `CPLayout`, `CPTailExchange` with its proofs, `RequestBarrier`
(abstract specification, refined), `CPRequest`, `CPMetadata`, `CPChunks`,
`MoeExchange`, `PlainDecode` and `MtpDecode`, `CPCompact`, `LmHead`, `PrefillMoe`,
`GoldenRunner`, the proofs of `CPRequest`, of `MtpDecode`, of `GoldenRunner`, of
`MoeExchange`, of `LmHead`, of `CPChunks`, of `CPCompact` and of `PrefillMoe`.

To come:

1. The low-latency MoE (`src/models/deepseek_v4_flash_lowlat`), which replaces
   the counters by two alternating lanes, as another implementation of what
   `MoeExchange` promises.
2. `LmHead` for groups of four, once the order of the lanes is documented.
