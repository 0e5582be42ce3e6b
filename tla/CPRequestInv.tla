---------------------------- MODULE CPRequestInv ----------------------------
(***************************************************************************)
(* The inductive invariant of CPRequest: what every counter, window and    *)
(* output means in terms of how far the ranks have come.                   *)
(***************************************************************************)
EXTENDS CPRequest

\* Stages of a rank that has the scatter of its request behind it.
After == Stages \ {"enter", "scatter"}

\* Stages that only a served request goes through.
ServedStages == {"gather", "publishing", "published", "restore", "clear"}

-----------------------------------------------------------------------------
\* No rank is ahead by more than a request, and then the other is waiting.
RequestsSeparated ==
    \A r, p \in Ranks : request[p] < request[r] => waiting[p] /\ request[r] = request[p] + 1

\* The owner of request n has announced it to p, or stored it for itself.
Sent(n, p) ==
    /\ n \in 0 .. Requests - 1 /\ plan[n] # "empty"
    /\ \/ request[Owner(n)] > n
       \/ /\ request[Owner(n)] = n
          /\ stage[Owner(n)] \in After \/ block[Owner(n)][p] \in {"sent", "received", "cleared"}

\* Rank p has copied request n out of its windows and cleared its ready bank.
Took(n, p) ==
    request[p] > n \/ (request[p] = n /\ (stage[p] \in After \/ block[p][p] = "cleared"))

Pending(n, p) == Sent(n, p) /\ ~Took(n, p)

\* Where a rank is fits the request it is in, and its blocks fit its stage.
PositionAt(r) ==
    /\ stage[r] = "stopped" <=> request[r] = Requests
    /\ waiting[r] => stage[r] = "arrive"
    /\ stage[r] # "scatter" => \A p \in Ranks : block[r][p] = "idle"
    /\ \A p \in Peers(r) : block[r][p] \in {"idle", "sending", "sent"}
    /\ \A p \in Ranks : block[r][p] \in {"sending", "sent"} => r = Serving(r)
    /\ stage[r] \notin {"enter", "arrive", "stopped"} => plan[request[r]] # "empty"
    /\ stage[r] \in ServedStages => plan[request[r]] = "served"
    /\ stage[r] = "restore" => r = Serving(r)

PositionOK == \A r \in Ranks : PositionAt(r)

\* A rank that has received a request, or is past that, was sent it.
ReceivedAt(r) ==
    \/ block[r][r] \in {"received", "cleared"}
    \/ stage[r] \in After /\ request[r] < Requests /\ plan[request[r]] # "empty"

SentOK == \A r \in Ranks : ReceivedAt(r) => Sent(request[r], r)

\* A ready bank holds the announcements its rank has not taken yet: of the
\* request it is in, or of the next one while it waits.
Announcing(p, x) ==
    /\ x # p
    /\ \/ Owner(request[p]) = x /\ Pending(request[p], p)
       \/ Owner(request[p] + 1) = x /\ Pending(request[p] + 1, p)

ReadyOK == \A p, x \in Ranks : ready[p][x] = IF Announcing(p, x) THEN 1 ELSE 0

\* What was announced lies in the windows, whole.
EntryAt(n, p) == Pending(n, p) => header[p] = Header(n) /\ (plan[n] = "served" => rows[p] = n)

EntryOK == \A p \in Ranks : EntryAt(request[p], p) /\ EntryAt(request[p] + 1, p)

-----------------------------------------------------------------------------
\* Owner o expects slabs of a request it is serving.
Awaited(o) ==
    /\ request[o] < Requests /\ o = Serving(o)
    /\ plan[request[o]] = "served" /\ stage[o] # "arrive"

Notified(o, p) ==
    request[p] > request[o] \/ (request[p] = request[o] /\ stage[p] \in {"clear", "arrive"})

CompleteOK ==
    \A o, p \in Ranks : complete[o][p] = IF p # o /\ Awaited(o) /\ Notified(o, p) THEN 1 ELSE 0

\* An owner that restores, or has restored, was told by every peer.
CollectedOK ==
    \A o \in Ranks :
        /\ request[o] < Requests /\ o = Serving(o) /\ plan[request[o]] = "served"
        /\ stage[o] \in {"restore", "clear", "arrive"}
        => \A p \in Peers(o) : Notified(o, p)

\* Slabs in the windows of an owner that expects them are of its request.
SlabOK ==
    \A o, p \in Ranks :
        /\ Awaited(o) /\ request[p] = request[o]
        /\ stage[p] \in {"published", "restore", "clear", "arrive"}
        => \A part \in LocalParts : slab[o][Lane(p, part)] = Row(request[o], LocalSegment(p, part))

-----------------------------------------------------------------------------
\* A rank's output before, during and after its own request of a host call.
OutAt(r) ==
    /\ Serving(r) < r => out[r] = Zero
    /\ Serving(r) > r => out[r] = Wanted(request[r] - Serving(r) + r)
    /\ Serving(r) = r =>
         /\ stage[r] \in Stages \ {"restore", "clear", "arrive"} => out[r] = Zero
         /\ stage[r] = "restore" =>
              \A s \in Segments : out[r][s] \in {ZeroRow, Row(request[r], s)}
         /\ stage[r] \in {"clear", "arrive"} => out[r] = Wanted(request[r])

OutOK ==
    \A r \in Ranks :
        stage[r] = "stopped" \/ (stage[r] = "enter" /\ Serving(r) = 0) \/ OutAt(r)

\* The strengthening of ReceivedExact, OutputsSurvive and ClearsExactly.
IInv ==
    /\ TypeOK /\ RequestsSeparated /\ PositionOK
    /\ SentOK /\ ReadyOK /\ EntryOK /\ ReceivedExact
    /\ CompleteOK /\ CollectedOK /\ SlabOK /\ OutOK
=============================================================================
