----------------------------- MODULE CPRequest -----------------------------
(***************************************************************************)
(* The path of prefill requests through a context-parallel group: every    *)
(* owner in turn scatters its rows to all ranks, each rank computes its    *)
(* two zigzag segments, the owner collects the slabs and restores logical  *)
(* order.  All ranks pass the request barrier between two owners, which    *)
(* this module takes in its abstract form.  Windows and signals are kept   *)
(* across requests and host calls, so each signal bank is cleared by the   *)
(* rank it belongs to.                                                     *)
(***************************************************************************)
EXTENDS CPLayout

CONSTANTS
    Requests,   \* bound: requests served, owners taking turns
    Kinds       \* what requests may be

ASSUME RequestsAssumption == Requests \in Nat

\* "empty": the owner has no tokens.  "refused": its base position is negative
\* or its length beyond CP_REQUEST_CAPACITY, which the owner alone can tell.
ASSUME KindsAssumption == Kinds \subseteq {"served", "refused", "empty"}

VARIABLES
    plan,       \* plan[q]: kind of request q
    request,    \* request[r]: index of the request r is in
    waiting,    \* waiting[r]: r is inside the barrier that ends its request
    stage,      \* stage[r]: what r is doing
    block,      \* block[r][p]: the scatter block of owner r for peer p
    header,     \* header[r]: r's entry header window
    rows,       \* rows[r]: r's entry input, ids and table windows
    ready,      \* ready[r][p]: scatter notifications of p, as r sees them
    control,    \* control[r]: the header r received
    hidden,     \* hidden[r]: what r has computed
    slab,       \* slab[r][l]: lane l of r's hidden and tail windows
    complete,   \* complete[r][p]: gather notifications of p, as r sees them
    out         \* out[r]: r's public output, one entry per logical segment

vars == <<plan, request, waiting, stage, block, header, rows, ready, control,
          hidden, slab, complete, out>>

Stages == {"enter", "scatter", "forward", "gather", "publishing", "published",
           "restore", "clear", "arrive", "stopped"}

Owner(q) == q % CPSize

Serving(r) == Owner(request[r])

Peers(r) == Ranks \ {r}

NoRequest == -1                                  \* never written, or torn

Torn == [request |-> NoRequest, accept |-> FALSE]

NoRow == [request |-> NoRequest, seg |-> 0]

ZeroRow == [request |-> -2, seg |-> 0]

NaNRow == [request |-> -3, seg |-> 0]

Row(q, s) == [request |-> q, seg |-> s]

\* Column 0 of the header, as the owner computes it.
Header(q) == [request |-> q, accept |-> plan[q] = "served"]

\* The outputs of a request without tokens, and of a refused one.
Zero == [s \in Segments |-> ZeroRow]

NaN == [s \in Segments |-> NaNRow]

\* The window lane the owner restores logical segment s from.
RestoreLane(s) ==
    IF s < CPSize THEN Lane(s, 0) ELSE Lane(NumSegments - 1 - s, 1)

-----------------------------------------------------------------------------
Barrier == INSTANCE RequestBarrier WITH
    Members <- Ranks, Rounds <- Requests, at <- request

Init ==
    /\ plan \in [0 .. Requests - 1 -> Kinds]
    /\ Barrier!Init
    /\ stage = [r \in Ranks |-> IF Requests = 0 THEN "stopped" ELSE "enter"]
    /\ block = [r \in Ranks |-> [p \in Ranks |-> "idle"]]
    /\ header = [r \in Ranks |-> Torn]
    /\ rows = [r \in Ranks |-> NoRequest]
    /\ ready = [r \in Ranks |-> [p \in Ranks |-> 0]]
    /\ control = [r \in Ranks |-> Torn]
    /\ hidden = [r \in Ranks |-> NoRequest]
    /\ slab = [r \in Ranks |-> [l \in Lanes |-> NoRow]]
    /\ complete = [r \in Ranks |-> [p \in Ranks |-> 0]]
    /\ out = [r \in Ranks |-> Zero]

\* The outputs are blanked when the first owner's turn comes; an empty request
\* goes straight to the barrier.
Enter(r) ==
    /\ stage[r] = "enter"
    /\ out' = IF Serving(r) = 0 THEN [out EXCEPT ![r] = Zero] ELSE out
    /\ stage' = [stage EXCEPT ![r] = IF plan[request[r]] = "empty" THEN "arrive" ELSE "scatter"]
    /\ UNCHANGED <<plan, request, waiting, block, header, rows, ready, control,
                   hidden, slab, complete>>

\* One scatter block of the owner, two steps: between them the windows of the
\* peer are torn.  A refused request sends its header alone.
StartSend(r, p) ==
    /\ stage[r] = "scatter" /\ r = Serving(r) /\ block[r][p] = "idle"
    /\ block' = [block EXCEPT ![r][p] = "sending"]
    /\ header' = [header EXCEPT ![p] = Torn]
    /\ rows' = IF Header(request[r]).accept THEN [rows EXCEPT ![p] = NoRequest] ELSE rows
    /\ UNCHANGED <<plan, request, waiting, stage, ready, control, hidden, slab, complete, out>>

\* Mutant: a refused request is not announced.
Announced_ServedOnly(r, p) == p # r /\ Header(request[r]).accept

Announced(r, p) == p # r

FinishSend(r, p) ==
    /\ block[r][p] = "sending"
    /\ block' = [block EXCEPT ![r][p] = "sent"]
    /\ header' = [header EXCEPT ![p] = Header(request[r])]
    /\ rows' = IF Header(request[r]).accept THEN [rows EXCEPT ![p] = request[r]] ELSE rows
    /\ ready' = IF Announced(r, p) THEN [ready EXCEPT ![p][r] = @ + 1] ELSE ready
    /\ UNCHANGED <<plan, request, waiting, stage, control, hidden, slab, complete, out>>

\* Mutant: the receiver does not wait for the owner's announcement.
Delivered_NoWait(r) == TRUE

\* The owner's own block stores before it loads; the others wait.
Delivered(r) ==
    IF r = Serving(r) THEN block[r][r] = "sent" ELSE ready[r][Serving(r)] >= 1

\* The receiving worker copies its windows out, then clears the ready bank.
Receive(r) ==
    /\ stage[r] = "scatter" /\ block[r][r] \in {"idle", "sent"} /\ Delivered(r)
    /\ control' = [control EXCEPT ![r] = header[r]]
    /\ hidden' = IF header[r].accept THEN [hidden EXCEPT ![r] = rows[r]] ELSE hidden
    /\ block' = [block EXCEPT ![r][r] = "received"]
    /\ UNCHANGED <<plan, request, waiting, stage, header, rows, ready, slab, complete, out>>

ClearReady(r) ==
    /\ block[r][r] = "received"
    /\ ready' = [ready EXCEPT ![r] = [p \in Ranks |-> 0]]
    /\ block' = [block EXCEPT ![r][r] = "cleared"]
    /\ UNCHANGED <<plan, request, waiting, stage, header, rows, control, hidden,
                   slab, complete, out>>

\* The scatter task is over when all of its blocks are.
Scattered(r) ==
    /\ stage[r] = "scatter" /\ block[r][r] = "cleared"
    /\ r = Serving(r) => \A p \in Peers(r) : block[r][p] = "sent"
    /\ stage' = [stage EXCEPT ![r] = "forward"]
    /\ block' = [block EXCEPT ![r] = [p \in Ranks |-> "idle"]]
    /\ UNCHANGED <<plan, request, waiting, header, rows, ready, control, hidden,
                   slab, complete, out>>

\* All layers of the forward, or the refusal: the owner marks its output.
Forward(r) ==
    /\ stage[r] = "forward"
    /\ IF control[r].accept
       THEN /\ stage' = [stage EXCEPT ![r] = "gather"]
            /\ UNCHANGED out
       ELSE /\ stage' = [stage EXCEPT ![r] = "arrive"]
            /\ out' = IF r = Serving(r) THEN [out EXCEPT ![r] = NaN] ELSE out
    /\ UNCHANGED <<plan, request, waiting, block, header, rows, ready, control,
                   hidden, slab, complete>>

\* Mutant: every rank blanks its output before the gather.
Blanked_Always(r) == TRUE

\* Other owners' outputs survive a request.
Blanked(r) == control[r].request % CPSize = r

StartPublish(r) ==
    /\ stage[r] = "gather"
    /\ out' = IF Blanked(r) THEN [out EXCEPT ![r] = Zero] ELSE out
    /\ stage' = [stage EXCEPT ![r] = "publishing"]
    /\ slab' = [slab EXCEPT ![Serving(r)] =
                  [l \in Lanes |-> IF l \in {Lane(r, 0), Lane(r, 1)} THEN NoRow
                                   ELSE slab[Serving(r)][l]]]
    /\ UNCHANGED <<plan, request, waiting, block, header, rows, ready, control, hidden, complete>>

FinishPublish(r) ==
    /\ stage[r] = "publishing"
    /\ stage' = [stage EXCEPT ![r] = "published"]
    /\ slab' = [slab EXCEPT ![Serving(r)] =
                  [l \in Lanes |-> IF l \in {Lane(r, 0), Lane(r, 1)}
                                   THEN Row(hidden[r], LocalSegment(r, l - 2 * r))
                                   ELSE slab[Serving(r)][l]]]
    /\ UNCHANGED <<plan, request, waiting, block, header, rows, ready, control,
                   hidden, complete, out>>

\* A rank that is not the owner announces its slab and is done.
NotifyOwner(r) ==
    /\ stage[r] = "published" /\ r # Serving(r)
    /\ complete' = [complete EXCEPT ![Serving(r)][r] = @ + 1]
    /\ stage' = [stage EXCEPT ![r] = "clear"]
    /\ UNCHANGED <<plan, request, waiting, block, header, rows, ready, control,
                   hidden, slab, out>>

\* Mutant: the owner starts to restore with one slab missing.
AllComplete_AnyPeer(r) == \E p \in Peers(r) : complete[r][p] >= 1

AllComplete(r) == \A p \in Peers(r) : complete[r][p] >= 1

Collect(r) ==
    /\ stage[r] = "published" /\ r = Serving(r)
    /\ AllComplete(r)
    /\ stage' = [stage EXCEPT ![r] = "restore"]
    /\ UNCHANGED <<plan, request, waiting, block, header, rows, ready, control,
                   hidden, slab, complete, out>>

Restore(r, s) ==
    /\ stage[r] = "restore" /\ out[r][s] = ZeroRow
    /\ out' = [out EXCEPT ![r][s] = slab[r][RestoreLane(s)]]
    /\ UNCHANGED <<plan, request, waiting, stage, block, header, rows, ready, control,
                   hidden, slab, complete>>

Restored(r) ==
    /\ stage[r] = "restore" /\ \A s \in Segments : out[r][s] # ZeroRow
    /\ stage' = [stage EXCEPT ![r] = "clear"]
    /\ UNCHANGED <<plan, request, waiting, block, header, rows, ready, control,
                   hidden, slab, complete, out>>

\* Mutant: the bank of gather notifications is not cleared.
ClearComplete_Kept(r) ==
    /\ stage[r] = "clear"
    /\ stage' = [stage EXCEPT ![r] = "arrive"]
    /\ UNCHANGED <<plan, request, waiting, block, header, rows, ready, control,
                   hidden, slab, complete, out>>

\* Every rank of a served request clears its own bank of gather notifications.
ClearComplete(r) ==
    /\ stage[r] = "clear"
    /\ complete' = [complete EXCEPT ![r] = [p \in Ranks |-> 0]]
    /\ stage' = [stage EXCEPT ![r] = "arrive"]
    /\ UNCHANGED <<plan, request, waiting, block, header, rows, ready, control,
                   hidden, slab, out>>

Arrive(r) ==
    /\ stage[r] = "arrive"
    /\ Barrier!Reach(r)
    /\ UNCHANGED <<plan, stage, block, header, rows, ready, control, hidden,
                   slab, complete, out>>

\* Mutant: a rank leaves the barrier without waiting for its peers.
Pass_NoWait(r) == waiting[r]

Pass(r) == waiting[r] /\ \A p \in Ranks : Barrier!Through(p, r)

Leave(r) ==
    /\ Pass(r)
    /\ request' = [request EXCEPT ![r] = @ + 1]
    /\ waiting' = [waiting EXCEPT ![r] = FALSE]
    /\ stage' = [stage EXCEPT ![r] = IF request[r] + 1 = Requests THEN "stopped" ELSE "enter"]
    /\ UNCHANGED <<plan, block, header, rows, ready, control, hidden, slab, complete, out>>

RankStep(r) ==
    \/ Enter(r) \/ Receive(r) \/ ClearReady(r) \/ Scattered(r) \/ Forward(r)
    \/ \E p \in Ranks : StartSend(r, p) \/ FinishSend(r, p)
    \/ StartPublish(r) \/ FinishPublish(r) \/ NotifyOwner(r) \/ Collect(r)
    \/ \E s \in Segments : Restore(r, s)
    \/ Restored(r) \/ ClearComplete(r) \/ Arrive(r) \/ Leave(r)

Stopped == (\A r \in Ranks : stage[r] = "stopped") /\ UNCHANGED vars

Next == (\E r \in Ranks : RankStep(r)) \/ Stopped

Spec == Init /\ [][Next]_vars

FairSpec == Spec /\ \A r \in Ranks : WF_vars(RankStep(r))

-----------------------------------------------------------------------------
Rows == [request : -1 .. Requests - 1, seg : Segments]

TypeOK ==
    /\ plan \in [0 .. Requests - 1 -> Kinds]
    /\ request \in [Ranks -> 0 .. Requests]
    /\ waiting \in [Ranks -> BOOLEAN]
    /\ stage \in [Ranks -> Stages]
    /\ block \in [Ranks -> [Ranks -> {"idle", "sending", "sent", "received", "cleared"}]]
    /\ header \in [Ranks -> [request : -1 .. Requests - 1, accept : BOOLEAN]]
    /\ rows \in [Ranks -> -1 .. Requests - 1]
    /\ ready \in [Ranks -> [Ranks -> {0, 1}]]
    /\ control \in [Ranks -> [request : -1 .. Requests - 1, accept : BOOLEAN]]
    /\ hidden \in [Ranks -> -1 .. Requests - 1]
    /\ slab \in [Ranks -> [Lanes -> Rows]]
    /\ complete \in [Ranks -> [Ranks -> {0, 1}]]
    /\ out \in [Ranks -> [Segments -> Rows \cup {ZeroRow, NaNRow}]]

\* Every rank works on the request its owner scattered: never on a header or on
\* rows an earlier owner left in the retained windows, never on torn ones; and
\* so all ranks agree with the owner whether the request is served.
ReceivedExact ==
    \A r \in Ranks : block[r][r] \in {"received", "cleared"} \/ stage[r] \in {"forward", "gather", "publishing"} =>
        /\ control[r] = Header(request[r])
        /\ control[r].accept => hidden[r] = request[r]

\* What rank r's output must be once its own request q is behind it.
Wanted(q) ==
    CASE plan[q] = "served"  -> [s \in Segments |-> Row(q, s)]
      [] plan[q] = "refused" -> NaN
      [] plan[q] = "empty"   -> Zero

\* Requests of the host call that request q belongs to, up to q.
CallSoFar(q) == {k \in 0 .. q : k \div CPSize = q \div CPSize}

\* An owner's output is its own request's rows in logical order, complete, from
\* its barrier to the end of the host call: later owners leave it alone.
OutputsSurvive ==
    \A r \in Ranks :
        LET last == IF waiting[r] \/ stage[r] = "stopped" THEN request[r]
                    ELSE request[r] - 1
        IN  stage[r] # "enter" /\ request[r] < Requests =>
                \A q \in CallSoFar(request[r]) :
                    q <= last /\ Owner(q) = r => out[r] = Wanted(q)

\* A rank clears a signal bank when it holds exactly this request's
\* notifications: none is still to come, none of another request is erased.
ClearsExactly ==
    [][\A r \in Ranks :
         /\ block[r][r] = "received" /\ block'[r][r] = "cleared" =>
              ready[r] = [p \in Ranks |-> IF p = Serving(r) /\ p # r THEN 1 ELSE 0]
         /\ stage[r] = "clear" /\ stage'[r] = "arrive" =>
              complete[r] = [p \in Ranks |-> IF r = Serving(r) /\ p # r THEN 1 ELSE 0]]_vars

\* Every request is served, refused or passed over by every rank in the end.
AllServed == <>(\A r \in Ranks : stage[r] = "stopped")
=============================================================================
