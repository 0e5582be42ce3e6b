-------------------------- MODULE CPRequestProofs ---------------------------
(***************************************************************************)
(* CPRequest keeps the strengthening IInv for every group size and every  *)
(* sequence of requests, and what the runs check follows from it.          *)
(* First the facts every step rests on, types, positions and the scatter;  *)
(* then received requests, the gather and the outputs.                     *)
(***************************************************************************)
EXTENDS CPRequestInv, TLAPS

-----------------------------------------------------------------------------
(* Arithmetic of turns and lanes.                                          *)

LEMMA Multiples ==
    ASSUME NEW c \in Nat \ {0}, NEW t \in Int
    PROVE  /\ t <= -1 => c * t <= -c
           /\ t >= 2 => c * t >= 2 * c
  OBVIOUS

LEMMA NextRemainder ==
    ASSUME NEW c \in Nat \ {0}, NEW n \in Nat
    PROVE  (n + 1) % c = IF (n % c) + 1 = c THEN 0 ELSE (n % c) + 1
<1> DEFINE d == n \div c
           e == (n + 1) \div c
           m == n % c
           k == (n + 1) % c
<1>1. d \in Int /\ e \in Int /\ m \in 0 .. c - 1 /\ k \in 0 .. c - 1
  OBVIOUS
<1>2. n = c * d + m /\ n + 1 = c * e + k
  OBVIOUS
<1> HIDE DEF d, e, m, k
<1>3. c * (e - d) = m + 1 - k
  BY <1>1, <1>2
<1>4. e - d = 0 \/ e - d = 1
  BY <1>1, <1>3, Multiples
<1>5. CASE e - d = 0
  <2>1. c * (e - d) = 0
    BY <1>1, <1>5
  <2> QED
    BY <1>1, <1>3, <2>1 DEF m, k
<1>6. CASE e - d = 1
  <2>1. c * (e - d) = c
    BY <1>1, <1>6
  <2>2. k = 0 /\ m + 1 = c
    BY <1>1, <1>3, <2>1
  <2> QED
    BY <2>2 DEF m, k
<1> QED
  BY <1>4, <1>5, <1>6

\* Owners take turns in the order of their ranks.
LEMMA OwnerFacts ==
    /\ \A n \in Nat : Owner(n) \in Ranks
    /\ \A n \in Nat : Owner(n + 1) = IF Owner(n) + 1 = CPSize THEN 0 ELSE Owner(n) + 1
<1>1. \A n \in Nat : Owner(n) \in Ranks
  BY CPSizeAssumption DEF Owner, Ranks
<1>2. ASSUME NEW n \in Nat
      PROVE  Owner(n + 1) = IF Owner(n) + 1 = CPSize THEN 0 ELSE Owner(n) + 1
  BY CPSizeAssumption, NextRemainder DEF Owner
<1> QED
  BY <1>1, <1>2

\* Two requests in a row have one owner only in a group of one rank.
LEMMA NextOwner ==
    ASSUME NEW n \in Nat, NEW p \in Ranks, p # Owner(n)
    PROVE  Owner(n + 1) # Owner(n)
  BY OwnerFacts, CPSizeAssumption DEF Ranks

\* Within a host call a request is known by its owner.
LEMMA SameCall ==
    ASSUME NEW a \in Nat, NEW b \in Nat, a \div CPSize = b \div CPSize
    PROVE  a = b - Owner(b) + Owner(a)
  BY CPSizeAssumption DEF Owner

LEMMA LaneFacts ==
    /\ \A r \in Ranks, part \in LocalParts :
          Lane(r, part) \in Lanes /\ LocalSegment(r, part) \in Segments
    /\ \A r, p \in Ranks, i, j \in LocalParts : Lane(r, i) = Lane(p, j) => r = p /\ i = j
    /\ \A s \in Segments : \E p \in Ranks, part \in LocalParts :
          RestoreLane(s) = Lane(p, part) /\ LocalSegment(p, part) = s
<1>1. ASSUME NEW s \in Segments
      PROVE  \E p \in Ranks, part \in LocalParts :
                RestoreLane(s) = Lane(p, part) /\ LocalSegment(p, part) = s
  <2>1. CASE s < CPSize
    <3>1. s \in Ranks /\ 0 \in LocalParts /\ RestoreLane(s) = Lane(s, 0) /\ LocalSegment(s, 0) = s
      BY <2>1, CPSizeAssumption
         DEF Segments, NumSegments, Ranks, RestoreLane, LocalSegment, LocalParts
    <3> QED
      BY <3>1
  <2>2. CASE ~(s < CPSize)
    <3> DEFINE p == NumSegments - 1 - s
    <3>1. p \in Ranks /\ 1 \in LocalParts /\ RestoreLane(s) = Lane(p, 1) /\ LocalSegment(p, 1) = s
      BY <2>2, CPSizeAssumption
         DEF Segments, NumSegments, Ranks, RestoreLane, LocalSegment, LocalParts
    <3> QED
      BY <3>1
  <2> QED
    BY <2>1, <2>2
<1> QED
  BY <1>1, CPSizeAssumption
     DEF Ranks, LocalParts, Lane, Lanes, LocalSegment, Segments, NumSegments

-----------------------------------------------------------------------------
(* Positions.                                                              *)

\* What follows from types, separation and positions alone.
Placed == TypeOK /\ RequestsSeparated /\ PositionOK

LEMMA Active ==
    ASSUME Placed, NEW r \in Ranks
    PROVE  /\ request[r] \in Nat /\ request[r] <= Requests /\ Serving(r) \in Ranks
           /\ stage[r] # "stopped" => request[r] \in 0 .. Requests - 1
           /\ waiting[r] => stage[r] = "arrive"
<1>1. request[r] \in 0 .. Requests
  BY DEF Placed, TypeOK
<1>2. PositionAt(r)
  BY DEF Placed, PositionOK
<1>3. request[r] \in Nat /\ request[r] <= Requests
  BY <1>1, RequestsAssumption
<1>4. stage[r] # "stopped" => request[r] \in 0 .. Requests - 1
  BY <1>1, <1>2, RequestsAssumption DEF PositionAt
<1>5. Serving(r) \in Ranks
  BY <1>3, OwnerFacts DEF Serving
<1>6. waiting[r] => stage[r] = "arrive"
  BY <1>2 DEF PositionAt
<1> QED
  BY <1>3, <1>4, <1>5, <1>6

\* Nobody is ahead of a rank that has not reached its barrier.
LEMMA Order ==
    ASSUME Placed, NEW r \in Ranks, NEW p \in Ranks
    PROVE  /\ stage[r] # "arrive" => request[p] <= request[r]
           /\ request[p] <= request[r] + 1
           /\ request[r] < request[p] => waiting[r]
  BY Active DEF Placed, RequestsSeparated

-----------------------------------------------------------------------------
(* What a step leaves alone.                                               *)

\* A step of one rank leaves the position and the results of the others.
LEMMA Others ==
    ASSUME TypeOK, NEW r \in Ranks, RankStep(r), NEW p \in Ranks, p # r
    PROVE  /\ request'[p] = request[p] /\ waiting'[p] = waiting[p]
           /\ stage'[p] = stage[p] /\ block'[p] = block[p]
           /\ control'[p] = control[p] /\ hidden'[p] = hidden[p] /\ out'[p] = out[p]
<1> USE DEF TypeOK
<1>1. CASE Enter(r) \/ Receive(r) \/ ClearReady(r) \/ Scattered(r) \/ Forward(r)
  BY <1>1 DEF Enter, Receive, ClearReady, Scattered, Forward
<1>2. CASE \E q \in Ranks : StartSend(r, q) \/ FinishSend(r, q)
  BY <1>2 DEF StartSend, FinishSend
<1>3. CASE StartPublish(r) \/ FinishPublish(r) \/ NotifyOwner(r) \/ Collect(r)
  BY <1>3 DEF StartPublish, FinishPublish, NotifyOwner, Collect
<1>4. CASE (\E s \in Segments : Restore(r, s)) \/ Restored(r) \/ ClearComplete(r)
  BY <1>4 DEF Restore, Restored, ClearComplete
<1>5. CASE Arrive(r) \/ Leave(r)
  BY <1>5 DEF Arrive, Leave, Barrier!Reach
<1> QED
  BY <1>1, <1>2, <1>3, <1>4, <1>5 DEF RankStep

LEMMA PlanKept ==
    ASSUME NEW r \in Ranks, RankStep(r)
    PROVE  plan' = plan
  BY DEF RankStep, Enter, Receive, ClearReady, Scattered, Forward, StartSend, FinishSend,
         StartPublish, FinishPublish, NotifyOwner, Collect, Restore, Restored,
         ClearComplete, Arrive, Leave

\* The steps that change neither the position of a rank nor a scatter block,
\* except that the rank goes from one stage to a later one of its request.
Later(r) ==
    \/ Forward(r) \/ StartPublish(r) \/ FinishPublish(r) \/ NotifyOwner(r) \/ Collect(r)
    \/ \E s \in Segments : Restore(r, s)
    \/ Restored(r) \/ ClearComplete(r) \/ Arrive(r)

LEMMA LaterFacts ==
    ASSUME TypeOK, NEW r \in Ranks, Later(r)
    PROVE  /\ request' = request /\ block' = block /\ plan' = plan
           /\ header' = header /\ rows' = rows /\ ready' = ready
           /\ control' = control /\ hidden' = hidden
           /\ stage[r] \in After /\ stage'[r] \in After
           /\ stage[r] # "stopped" /\ stage'[r] # "stopped"
<1> USE DEF TypeOK, After, Stages
<1>1. CASE Forward(r) \/ StartPublish(r) \/ FinishPublish(r)
  BY <1>1 DEF Forward, StartPublish, FinishPublish
<1>2. CASE NotifyOwner(r) \/ Collect(r)
  BY <1>2 DEF NotifyOwner, Collect
<1>3. CASE (\E s \in Segments : Restore(r, s)) \/ Restored(r) \/ ClearComplete(r) \/ Arrive(r)
  BY <1>3 DEF Restore, Restored, ClearComplete, Arrive, Barrier!Reach
<1> QED
  BY <1>1, <1>2, <1>3 DEF Later

LEMMA Steps ==
    ASSUME NEW r \in Ranks, RankStep(r)
    PROVE  \/ Enter(r) \/ Receive(r) \/ ClearReady(r) \/ Scattered(r) \/ Leave(r) \/ Later(r)
           \/ \E p \in Ranks : StartSend(r, p) \/ FinishSend(r, p)
  BY DEF RankStep, Later

\* Only the end of a scatter block announces a request.
LEMMA SentKept ==
    ASSUME Placed, NEW r \in Ranks, RankStep(r), \A p \in Ranks : ~FinishSend(r, p),
           NEW n \in Nat, NEW p \in Ranks
    PROVE  Sent(n, p)' <=> Sent(n, p)
<1> DEFINE o == Owner(n)
<1>1. TypeOK /\ PositionAt(r) /\ plan' = plan /\ o \in Ranks
  BY PlanKept, OwnerFacts DEF Placed, PositionOK
<1>2. CASE o # r
  BY <1>1, <1>2, Others DEF Sent
<1>3. CASE o = r /\ n \in 0 .. Requests - 1 /\ plan[n] # "empty"
  <2> DEFINE S(req, st, bl) == req > n \/ (req = n /\ (st \in After \/ bl \in {"sent", "received", "cleared"}))
  <2>1. Sent(n, p) <=> S(request[r], stage[r], block[r][p])
    BY <1>3 DEF Sent
  <2>2. Sent(n, p)' <=> S(request'[r], stage'[r], block'[r][p])
    BY <1>1, <1>3 DEF Sent
  <2> SUFFICES S(request'[r], stage'[r], block'[r][p]) <=> S(request[r], stage[r], block[r][p])
    BY <2>1, <2>2
  <2> HIDE DEF o
  <2> USE DEF TypeOK
  <2>3. CASE Enter(r)
    BY <1>1, <1>3, <2>3 DEF Enter, After, PositionAt
  <2>4. CASE Receive(r)
    BY <1>1, <1>3, <2>4 DEF Receive, Delivered, After, Serving, o
  <2>5. CASE ClearReady(r)
    BY <1>1, <2>5 DEF ClearReady
  <2>6. CASE Scattered(r)
    BY <1>1, <1>3, <2>6 DEF Scattered, After, Serving, Peers, Stages, o
  <2>7. CASE Leave(r)
    <3>1. request[r] \in Nat /\ request'[r] = request[r] + 1 /\ block'[r] = block[r]
      BY <1>1, <2>7, Active DEF Leave
    <3>2. stage[r] = "arrive" /\ stage[r] \in After /\ block[r][p] = "idle"
      BY <1>1, <2>7 DEF Leave, Pass, PositionAt, After, Stages
    <3>3. request'[r] = n => stage'[r] = "enter"
      BY <1>1, <1>3, <2>7, <3>1 DEF Leave
    <3> QED
      BY <3>1, <3>2, <3>3 DEF After
  <2>8. CASE Later(r)
    BY <1>1, <2>8, LaterFacts
  <2>9. CASE \E q \in Ranks : StartSend(r, q)
    <3>1. PICK q \in Ranks : StartSend(r, q)
      BY <2>9
    <3>2. request' = request /\ stage' = stage
      BY <3>1 DEF StartSend
    <3>3. block'[r][p] = block[r][p] \/ (block[r][p] = "idle" /\ block'[r][p] = "sending")
      BY <1>1, <3>1 DEF StartSend
    <3> QED
      BY <3>2, <3>3
  <2> QED
    BY <2>3, <2>4, <2>5, <2>6, <2>7, <2>8, <2>9, Steps
<1>4. CASE ~(n \in 0 .. Requests - 1 /\ plan[n] # "empty")
  BY <1>1, <1>4 DEF Sent
<1> QED
  BY <1>2, <1>3, <1>4

\* Only clearing its ready bank ends the taking of a request.
LEMMA TookKept ==
    ASSUME Placed, NEW r \in Ranks, RankStep(r), ~ClearReady(r),
           NEW n \in 0 .. Requests - 1, plan[n] # "empty", NEW p \in Ranks
    PROVE  Took(n, p)' <=> Took(n, p)
<1>1. TypeOK /\ PositionAt(r)
  BY DEF Placed, PositionOK
<1>2. CASE p # r
  BY <1>1, <1>2, Others DEF Took
<1>3. CASE p = r
  <2> DEFINE T(req, st, bl) == req > n \/ (req = n /\ (st \in After \/ bl = "cleared"))
  <2> SUFFICES T(request'[r], stage'[r], block'[r][r]) <=> T(request[r], stage[r], block[r][r])
    BY <1>3 DEF Took
  <2> USE DEF TypeOK
  <2>3. CASE Enter(r)
    BY <1>1, <1>3, <2>3 DEF Enter, After, PositionAt
  <2>4. CASE Receive(r)
    BY <1>1, <1>3, <2>4 DEF Receive, After
  <2>6. CASE Scattered(r)
    BY <1>1, <1>3, <2>6 DEF Scattered, After, Stages
  <2>7. CASE Leave(r)
    <3>1. request[r] \in Nat /\ request'[r] = request[r] + 1 /\ block'[r] = block[r]
      BY <1>1, <2>7, Active DEF Leave
    <3>2. stage[r] = "arrive" /\ stage[r] \in After /\ block[r][r] = "idle"
      BY <1>1, <2>7 DEF Leave, Pass, PositionAt, After, Stages
    <3>3. request'[r] = n => stage'[r] = "enter"
      BY <1>1, <2>7, <3>1 DEF Leave
    <3> QED
      BY <3>1, <3>2, <3>3 DEF After
  <2>8. CASE Later(r)
    BY <1>1, <2>8, LaterFacts
  <2>9. CASE \E q \in Ranks : StartSend(r, q) \/ FinishSend(r, q)
    <3>1. PICK q \in Ranks : StartSend(r, q) \/ FinishSend(r, q)
      BY <2>9
    <3>2. request' = request /\ stage' = stage
      BY <3>1 DEF StartSend, FinishSend
    <3>3. /\ block[r][q] \in {"idle", "sending"}
          /\ block' \in {[block EXCEPT ![r][q] = "sending"], [block EXCEPT ![r][q] = "sent"]}
      BY <3>1 DEF StartSend, FinishSend
    <3>4. (block[r][r] # "cleared" /\ block'[r][r] # "cleared") \/ block'[r][r] = block[r][r]
      BY <1>1, <3>3, SMTT(30)
    <3> QED
      BY <3>2, <3>4
  <2> QED
    BY <2>3, <2>4, <2>6, <2>7, <2>8, <2>9, Steps
<1> QED
  BY <1>2, <1>3

LEMMA PendingKept ==
    ASSUME Placed, NEW r \in Ranks, RankStep(r), ~ClearReady(r),
           \A p \in Ranks : ~FinishSend(r, p), NEW n \in Nat, NEW p \in Ranks
    PROVE  Pending(n, p)' <=> Pending(n, p)
<1>1. Sent(n, p)' <=> Sent(n, p)
  BY SentKept
<1>2. Sent(n, p) => n \in 0 .. Requests - 1 /\ plan[n] # "empty"
  BY DEF Sent
<1>3. Sent(n, p) => (Took(n, p)' <=> Took(n, p))
  BY <1>2, TookKept
<1> QED
  BY <1>1, <1>3 DEF Pending

-----------------------------------------------------------------------------
(* What the invariant says where a step reads or changes the windows.      *)

\* No rank is beyond the request of a rank that is not at its barrier.
LEMMA NobodyAhead ==
    ASSUME Placed, NEW r \in Ranks, stage[r] # "arrive", NEW p \in Ranks
    PROVE  ~Sent(request[r] + 1, p)
<1>1. request[r] \in Nat /\ Owner(request[r] + 1) \in Ranks
  BY Active, OwnerFacts
<1>2. request[Owner(request[r] + 1)] <= request[r] /\ request[Owner(request[r] + 1)] \in Nat
  BY <1>1, Order, Active
<1> QED
  BY <1>1, <1>2 DEF Sent

\* While an owner has not finished its block for p, nothing is announced to p.
LEMMA Quiet ==
    ASSUME IInv, NEW r \in Ranks, NEW p \in Ranks,
           stage[r] = "scatter", r = Serving(r), block[r][p] \in {"idle", "sending"}
    PROVE  /\ ~Pending(request[p], p) /\ ~Pending(request[p] + 1, p)
           /\ \A x \in Ranks : ready[p][x] = 0
<1>1. Placed /\ TypeOK
  BY DEF IInv, Placed
<1>2. request[r] \in Nat /\ request[p] \in Nat /\ request[p] <= request[r]
  BY <1>1, Active, Order
<1>3. ~Sent(request[r], p)
  BY <1>2 DEF Sent, After, Serving
<1>4. ~Sent(request[r] + 1, p)
  BY <1>1, NobodyAhead
<1>5. ~Pending(request[p], p) /\ ~Pending(request[p] + 1, p)
  <2>1. CASE request[p] = request[r]
    BY <1>3, <1>4, <2>1 DEF Pending
  <2>2. CASE request[p] # request[r]
    <3>1. request[r] = request[p] + 1 /\ waiting[p]
      BY <1>1, <1>2, <2>2 DEF Placed, RequestsSeparated
    <3>2. Took(request[p], p)
      BY <1>1, <1>2, <3>1, Active DEF Took, After, Stages
    <3> QED
      BY <1>3, <3>1, <3>2 DEF Pending
  <2> QED
    BY <2>1, <2>2
<1>6. \A x \in Ranks : ~Announcing(p, x)
  BY <1>5 DEF Announcing
<1> QED
  BY <1>5, <1>6 DEF IInv, ReadyOK

\* What a rank finds delivered is the request it is in.
LEMMA DeliveredSent ==
    ASSUME IInv, NEW r \in Ranks, stage[r] = "scatter", block[r][r] \in {"idle", "sent"},
           Delivered(r)
    PROVE  Sent(request[r], r) /\ Pending(request[r], r)
<1>1. Placed /\ TypeOK /\ PositionAt(r)
  BY DEF IInv, Placed, PositionOK
<1>2. request[r] \in 0 .. Requests - 1 /\ request[r] \in Nat /\ Serving(r) \in Ranks
  BY <1>1, Active
<1>3. plan[request[r]] # "empty"
  BY <1>1 DEF PositionAt
<1>4. Sent(request[r], r)
  <2>1. CASE r = Serving(r)
    BY <1>2, <1>3, <2>1 DEF Sent, Serving, Delivered
  <2>2. CASE r # Serving(r)
    <3>1. ready[r][Serving(r)] >= 1
      BY <2>2 DEF Delivered
    <3>2. Announcing(r, Serving(r))
      BY <1>2, <3>1 DEF IInv, ReadyOK
    <3>3. Owner(request[r] + 1) # Serving(r)
      BY <1>2, <2>2, NextOwner DEF Serving
    <3> QED
      BY <3>2, <3>3 DEF Announcing, Pending
  <2> QED
    BY <2>1, <2>2
<1>5. ~Took(request[r], r)
  BY <1>2 DEF Took, After
<1> QED
  BY <1>4, <1>5 DEF Pending

\* A peer that took part in a served request was announced it: its owner is in
\* that request, or past it.
LEMMA OwnerThere ==
    ASSUME IInv, NEW p \in Ranks, request[p] < Requests,
           plan[request[p]] # "empty", stage[p] \in After
    PROVE  request[Serving(p)] >= request[p]
<1>1. request[p] \in Nat /\ Serving(p) \in Ranks
  BY Active DEF IInv, Placed
<1>2. request[Serving(p)] \in Nat
  BY <1>1, Active DEF IInv, Placed
<1>3. Sent(request[p], p)
  BY DEF IInv, SentOK, ReceivedAt
<1> QED
  BY <1>1, <1>2, <1>3 DEF Sent, Serving

\* What a rank received tells it what its request is.
LEMMA Received ==
    ASSUME IInv, NEW r \in Ranks, stage[r] \in {"forward", "gather", "publishing"}
    PROVE  /\ control[r].accept <=> plan[request[r]] = "served"
           /\ control[r].request = request[r]
           /\ control[r].accept => hidden[r] = request[r]
<1>1. control[r] = Header(request[r]) /\ (control[r].accept => hidden[r] = request[r])
  BY DEF IInv, ReceivedExact
<1>2. /\ Header(request[r]).accept <=> plan[request[r]] = "served"
      /\ Header(request[r]).request = request[r]
  BY DEF Header
<1> QED
  BY <1>1, <1>2, Zenon

\* The slab of a rank is announced to its owner once.
LEMMA NotToldYet ==
    ASSUME IInv, NEW r \in Ranks, stage[r] = "published", r # Serving(r)
    PROVE  /\ complete[Serving(r)][r] = 0 /\ Serving(r) \in Ranks
           /\ request[Serving(r)] = request[r] /\ Awaited(Serving(r))
<1>1. Placed /\ TypeOK /\ PositionAt(r)
  BY DEF IInv, Placed, PositionOK
<1> DEFINE o == Serving(r)
<1>2. o \in Ranks /\ request[r] \in Nat /\ request[r] \in 0 .. Requests - 1
  BY <1>1, Active
<1>3. request[o] \in Nat /\ request[o] <= request[r]
  BY <1>1, <1>2, Active, Order
<1>4. request[o] >= request[r]
  <2>1. stage[r] \in After /\ plan[request[r]] # "empty" /\ request[r] < Requests
    BY <1>1, <1>2, RequestsAssumption DEF PositionAt, After, Stages
  <2> QED
    BY <2>1, OwnerThere
<1>5. request[o] = request[r]
  BY <1>2, <1>3, <1>4
<1>6. ~Notified(o, r)
  BY <1>2, <1>3, <1>5 DEF Notified
<1>7. complete[o][r] = 0
  BY <1>2, <1>6 DEF IInv, CompleteOK
<1>8. Awaited(o)
  <2>1. plan[request[r]] = "served"
    BY <1>1 DEF PositionAt, ServedStages
  <2>2. request[o] < Requests /\ o = Serving(o) /\ plan[request[o]] = "served"
    BY <1>2, <1>5, <2>1, RequestsAssumption DEF Serving
  <2>3. stage[o] # "arrive"
    BY <1>2, <1>6, <2>2 DEF IInv, CollectedOK, Peers
  <2> QED
    BY <2>2, <2>3 DEF Awaited
<1> QED
  BY <1>2, <1>5, <1>7, <1>8
-----------------------------------------------------------------------------
(* Every step keeps the invariant: types and positions.                    *)

\* Every request has a header of its own.
LEMMA HeaderType ==
    ASSUME NEW n \in 0 .. Requests - 1
    PROVE  Header(n) \in [request : -1 .. Requests - 1, accept : BOOLEAN]
  BY RequestsAssumption DEF Header

LEMMA TypeStep ==
    ASSUME IInv, NEW r \in Ranks, RankStep(r)
    PROVE  TypeOK'
<1>1. TypeOK /\ Placed /\ PositionAt(r)
  BY DEF IInv, Placed, PositionOK
<1>2. request[r] \in Nat /\ Serving(r) \in Ranks
  BY <1>1, Active
<1>3. Zero \in [Segments -> Rows \cup {ZeroRow, NaNRow}] /\ NaN \in [Segments -> Rows \cup {ZeroRow, NaNRow}]
  BY DEF Zero, NaN
<1>4. CASE Enter(r)
  <2>1. out' \in [Ranks -> [Segments -> Rows \cup {ZeroRow, NaNRow}]]
    <3>1. CASE Serving(r) = 0
      BY <1>1, <1>3, <1>4, <3>1 DEF TypeOK, Enter
    <3>2. CASE Serving(r) # 0
      BY <1>1, <1>4, <3>2 DEF TypeOK, Enter
    <3> QED
      BY <3>1, <3>2
  <2>2. stage' \in [Ranks -> Stages]
    BY <1>1, <1>4 DEF TypeOK, Enter, Stages
  <2> QED
    BY <1>1, <1>4, <2>1, <2>2 DEF TypeOK, Enter
<1>5. CASE \E p \in Ranks : StartSend(r, p)
  <2>1. PICK p \in Ranks : StartSend(r, p)
    BY <1>5
  <2>2. Torn \in [request : -1 .. Requests - 1, accept : BOOLEAN] /\ NoRequest \in -1 .. Requests - 1
    BY RequestsAssumption DEF Torn, NoRequest
  <2>3. block' \in [Ranks -> [Ranks -> {"idle", "sending", "sent", "received", "cleared"}]]
    BY <1>1, <2>1 DEF TypeOK, StartSend
  <2>4. header' \in [Ranks -> [request : -1 .. Requests - 1, accept : BOOLEAN]]
    BY <1>1, <2>1, <2>2 DEF TypeOK, StartSend
  <2>5. rows' \in [Ranks -> -1 .. Requests - 1]
    BY <1>1, <2>1, <2>2 DEF TypeOK, StartSend
  <2> QED
    BY <1>1, <2>1, <2>3, <2>4, <2>5 DEF TypeOK, StartSend
<1>6. CASE \E p \in Ranks : FinishSend(r, p)
  <2>1. PICK p \in Ranks : FinishSend(r, p)
    BY <1>6
  <2>2. block[r][p] = "sending" /\ stage[r] = "scatter" /\ r = Serving(r)
    BY <1>1, <2>1 DEF FinishSend, PositionAt
  <2>3. ready[p][r] = 0
    BY <2>2, Quiet
  <2>4. request[r] \in 0 .. Requests - 1
    BY <1>1, <2>2, Active
  <2>5. ready' \in [Ranks -> [Ranks -> {0, 1}]]
    BY <1>1, <2>1, <2>3 DEF TypeOK, FinishSend
  <2>6. header' \in [Ranks -> [request : -1 .. Requests - 1, accept : BOOLEAN]]
    BY <1>1, <2>1, <2>4, HeaderType DEF TypeOK, FinishSend
  <2>7. rows' \in [Ranks -> -1 .. Requests - 1]
    BY <1>1, <2>1, <2>4, RequestsAssumption DEF TypeOK, FinishSend
  <2>8. block' \in [Ranks -> [Ranks -> {"idle", "sending", "sent", "received", "cleared"}]]
    BY <1>1, <2>1 DEF TypeOK, FinishSend
  <2> QED
    BY <1>1, <2>1, <2>5, <2>6, <2>7, <2>8 DEF TypeOK, FinishSend
<1>7. CASE Receive(r)
  BY <1>1, <1>7 DEF TypeOK, Receive
<1>8. CASE ClearReady(r)
  BY <1>1, <1>8 DEF TypeOK, ClearReady
<1>9. CASE Scattered(r)
  BY <1>1, <1>9 DEF TypeOK, Scattered, Stages
<1>10. CASE Forward(r)
  <2>1. out' \in [Ranks -> [Segments -> Rows \cup {ZeroRow, NaNRow}]]
    <3>1. out' = out \/ out' = [out EXCEPT ![r] = NaN]
      BY <1>10 DEF Forward
    <3>2. out \in [Ranks -> [Segments -> Rows \cup {ZeroRow, NaNRow}]]
      BY <1>1 DEF TypeOK
    <3> QED
      BY <1>3, <3>1, <3>2
  <2>2. stage' \in [Ranks -> Stages]
    BY <1>1, <1>10, ZenonT(60) DEF TypeOK, Forward, Stages
  <2> QED
    BY <1>1, <1>10, <2>1, <2>2 DEF TypeOK, Forward
<1>11. CASE StartPublish(r)
  <2>1. NoRow \in Rows
    BY RequestsAssumption, CPSizeAssumption DEF NoRow, Rows, NoRequest, Segments, NumSegments
  <2>2. slab' \in [Ranks -> [Lanes -> Rows]]
    BY <1>1, <1>11, <2>1 DEF TypeOK, StartPublish
  <2> QED
    BY <1>1, <1>3, <1>11, <2>2 DEF TypeOK, StartPublish, Stages
<1>12. CASE FinishPublish(r)
  <2>1. \A l \in {Lane(r, 0), Lane(r, 1)} : LocalSegment(r, l - 2 * r) \in Segments
    BY LaneFacts DEF Lane, LocalParts, Ranks
  <2>2. \A l \in {Lane(r, 0), Lane(r, 1)} : Row(hidden[r], LocalSegment(r, l - 2 * r)) \in Rows
    BY <1>1, <2>1 DEF TypeOK, Row, Rows
  <2>3. slab' \in [Ranks -> [Lanes -> Rows]]
    BY <1>1, <1>12, <2>2 DEF TypeOK, FinishPublish
  <2> QED
    BY <1>1, <1>12, <2>3 DEF TypeOK, FinishPublish, Stages
<1>13. CASE NotifyOwner(r)
  <2>1. complete[Serving(r)][r] = 0
    BY <1>13, NotToldYet DEF NotifyOwner
  <2>2. complete' \in [Ranks -> [Ranks -> {0, 1}]]
    <3>1. complete \in [Ranks -> [Ranks -> {0, 1}]]
      BY <1>1 DEF TypeOK
    <3>2. complete' = [complete EXCEPT ![Serving(r)][r] = @ + 1]
      BY <1>13 DEF NotifyOwner
    <3> QED
      BY <1>2, <2>1, <3>1, <3>2
  <2> QED
    BY <1>1, <1>13, <2>2 DEF TypeOK, NotifyOwner, Stages
<1>14. CASE Collect(r)
  BY <1>1, <1>14 DEF TypeOK, Collect, Stages
<1>15. CASE \E s \in Segments : Restore(r, s)
  <2>1. PICK s \in Segments : Restore(r, s)
    BY <1>15
  <2>2. slab[r][RestoreLane(s)] \in Rows
    BY <1>1, LaneFacts DEF TypeOK
  <2>3. out' \in [Ranks -> [Segments -> Rows \cup {ZeroRow, NaNRow}]]
    BY <1>1, <2>1, <2>2 DEF TypeOK, Restore
  <2> QED
    BY <1>1, <2>1, <2>3 DEF TypeOK, Restore
<1>16. CASE Restored(r)
  BY <1>1, <1>16 DEF TypeOK, Restored, Stages
<1>17. CASE ClearComplete(r)
  BY <1>1, <1>17 DEF TypeOK, ClearComplete, Stages
<1>18. CASE Arrive(r)
  BY <1>1, <1>18 DEF TypeOK, Arrive, Barrier!Reach
<1>19. CASE Leave(r)
  <2>1. stage[r] = "arrive"
    BY <1>1, <1>19 DEF Leave, Pass, PositionAt
  <2>2. request[r] + 1 \in 0 .. Requests
    BY <1>1, <2>1, RequestsAssumption, Active
  <2> QED
    BY <1>1, <1>19, <2>2 DEF TypeOK, Leave, Stages
<1> QED
  BY <1>4, <1>5, <1>6, <1>7, <1>8, <1>9, <1>10, <1>11, <1>12, <1>13, <1>14, <1>15,
     <1>16, <1>17, <1>18, <1>19 DEF RankStep

\* A rank leaves when every rank has reached the end of the request it is in.
LEMMA SeparatedStep ==
    ASSUME IInv, NEW r \in Ranks, RankStep(r)
    PROVE  RequestsSeparated'
<1>1. TypeOK /\ Placed /\ PositionAt(r)
  BY DEF IInv, Placed, PositionOK
<1>2. \A p \in Ranks : request[p] \in Nat
  BY <1>1, Active
<1>3. CASE Leave(r)
  <2>1. request' = [request EXCEPT ![r] = @ + 1] /\ waiting' = [waiting EXCEPT ![r] = FALSE]
    BY <1>3 DEF Leave
  <2>2. \A p \in Ranks : request[p] > request[r] \/ (request[p] = request[r] /\ waiting[p])
    BY <1>3 DEF Leave, Pass, Barrier!Through
  <2> SUFFICES ASSUME NEW a \in Ranks, NEW b \in Ranks, request'[b] < request'[a]
               PROVE  waiting'[b] /\ request'[a] = request'[b] + 1
    BY DEF RequestsSeparated
  <2>3. b # r
    BY <1>1, <1>2, <2>1, <2>2, Order DEF TypeOK
  <2>4. CASE a = r
    BY <1>1, <1>2, <2>1, <2>2, <2>3, <2>4 DEF TypeOK
  <2>5. CASE a # r
    BY <1>1, <1>2, <2>1, <2>3, <2>5 DEF TypeOK, Placed, RequestsSeparated
  <2> QED
    BY <2>4, <2>5
<1>4. CASE Arrive(r)
  BY <1>1, <1>2, <1>4 DEF Arrive, Barrier!Reach, TypeOK, Placed, RequestsSeparated
<1>5. CASE ~Leave(r) /\ ~Arrive(r)
  <2>1. request' = request /\ waiting' = waiting
    BY <1>5 DEF RankStep, Enter, Receive, ClearReady, Scattered, Forward, StartSend, FinishSend,
         StartPublish, FinishPublish, NotifyOwner, Collect, Restore, Restored, ClearComplete
  <2> QED
    BY <1>1, <2>1 DEF Placed, RequestsSeparated
<1> QED
  BY <1>3, <1>4, <1>5

\* Blocks, stages and plans fit each other.
LEMMA PositionStep ==
    ASSUME IInv, NEW r \in Ranks, RankStep(r)
    PROVE  PositionOK'
<1>1. TypeOK /\ Placed /\ PositionAt(r) /\ plan' = plan
  BY PlanKept DEF IInv, Placed, PositionOK
<1>2. request[r] \in Nat /\ Serving(r) \in Ranks
  BY <1>1, Active
<1>3. ASSUME NEW p \in Ranks, p # r
      PROVE  PositionAt(p)'
  <2>1. PositionAt(p)
    BY <1>1 DEF Placed, PositionOK
  <2>2. Serving(p)' = Serving(p)
    BY <1>1, <1>3, Others DEF Serving
  <2> QED
    BY <1>1, <1>3, <2>1, <2>2, Others DEF PositionAt
<1>4. PositionAt(r)'
  <2> USE DEF TypeOK, PositionAt, Stages, ServedStages
  <2>1. CASE Enter(r)
    BY <1>1, <2>1, RequestsAssumption DEF Enter, Serving
  <2>2. CASE \E p \in Ranks : StartSend(r, p)
    BY <1>1, <2>2 DEF StartSend, Serving, Peers
  <2>3. CASE \E p \in Ranks : FinishSend(r, p)
    BY <1>1, <2>3 DEF FinishSend, Serving, Peers
  <2>4. CASE Receive(r) \/ ClearReady(r)
    <3>1. stage' = stage /\ request' = request /\ waiting' = waiting /\ stage[r] = "scatter"
      BY <1>1, <2>4 DEF Receive, ClearReady
    <3>2. block' = [block EXCEPT ![r][r] = "received"] \/ block' = [block EXCEPT ![r][r] = "cleared"]
      BY <2>4 DEF Receive, ClearReady
    <3>3. /\ \A p \in Ranks : p # r => block'[r][p] = block[r][p]
          /\ block'[r][r] \notin {"sending", "sent"}
      BY <1>1, <3>2
    <3> QED
      BY <1>1, <3>1, <3>3 DEF Serving, Peers
  <2>5. CASE Scattered(r)
    BY <1>1, <2>5 DEF Scattered, Serving, Peers
  <2>6. CASE Forward(r)
    BY <1>1, <2>6, Received DEF Forward, Serving, Peers
  <2>7. CASE StartPublish(r) \/ FinishPublish(r) \/ NotifyOwner(r) \/ Collect(r)
    BY <1>1, <2>7 DEF StartPublish, FinishPublish, NotifyOwner, Collect, Serving, Peers
  <2>8. CASE (\E s \in Segments : Restore(r, s)) \/ Restored(r) \/ ClearComplete(r)
    BY <1>1, <2>8 DEF Restore, Restored, ClearComplete, Serving, Peers
  <2>9. CASE Arrive(r)
    BY <1>1, <2>9 DEF Arrive, Barrier!Reach, Serving, Peers
  <2>10. CASE Leave(r)
    <3>1. request'[r] = request[r] + 1 /\ waiting'[r] = FALSE /\ block' = block
      BY <1>1, <2>10 DEF Leave
    <3>2. \A p \in Ranks : block[r][p] = "idle"
      BY <1>1, <2>10 DEF Leave, Pass
    <3>3. stage'[r] = IF request[r] + 1 = Requests THEN "stopped" ELSE "enter"
      BY <1>1, <2>10 DEF Leave
    <3> QED
      BY <3>1, <3>2, <3>3, RequestsAssumption DEF Peers
  <2> QED
    BY <2>1, <2>2, <2>3, <2>4, <2>5, <2>6, <2>7, <2>8, <2>9, <2>10 DEF RankStep
<1> QED
  BY <1>3, <1>4 DEF PositionOK

-----------------------------------------------------------------------------
(* Every step keeps the invariant: the scatter.                            *)

\* The end of a send and the clearing of the ready bank are different steps.
LEMMA Apart ==
    ASSUME TypeOK, NEW r \in Ranks, NEW q \in Ranks, FinishSend(r, q), ClearReady(r)
    PROVE  FALSE
<1>1. block'[r][q] = "sent" /\ block[r][q] = "sending"
  BY DEF TypeOK, FinishSend
<1>2. block[r][r] = "received" /\ block'[r][q] = IF q = r THEN "cleared" ELSE block[r][q]
  BY DEF TypeOK, ClearReady
<1> QED
  BY <1>1, <1>2

\* The end of a scatter block announces its request to one peer, no more.
LEMMA FinishSendSent ==
    ASSUME Placed, NEW r \in Ranks, NEW q \in Ranks, FinishSend(r, q), NEW n \in Nat, NEW p \in Ranks
    PROVE  /\ Sent(n, p)' <=> Sent(n, p) \/ (n = request[r] /\ p = q)
           /\ stage[r] = "scatter" /\ r = Serving(r) /\ block[r][q] = "sending"
           /\ request[r] \in 0 .. Requests - 1 /\ plan[request[r]] # "empty"
<1>1. TypeOK /\ PositionAt(r) /\ Owner(n) \in Ranks
  BY OwnerFacts DEF Placed, PositionOK
<1>2. /\ request' = request /\ stage' = stage /\ plan' = plan
      /\ block' = [block EXCEPT ![r][q] = "sent"] /\ block[r][q] = "sending"
  BY DEF FinishSend
<1>3. stage[r] = "scatter" /\ r = Serving(r)
  BY <1>1, <1>2 DEF PositionAt
<1>4. request[r] \in 0 .. Requests - 1 /\ request[r] \in Nat /\ plan[request[r]] # "empty"
  BY <1>1, <1>3, Active DEF PositionAt
<1>5. ASSUME NEW x \in Ranks, NEW y \in Ranks
      PROVE  block'[x][y] = IF x = r /\ y = q THEN "sent" ELSE block[x][y]
  BY <1>1, <1>2 DEF TypeOK
<1>6. CASE n = request[r] /\ p = q
  <2>1. Owner(n) = r /\ block'[Owner(n)][p] = "sent" /\ request'[Owner(n)] = n
    BY <1>2, <1>3, <1>5, <1>6 DEF Serving
  <2>2. n \in 0 .. Requests - 1 /\ plan'[n] # "empty"
    BY <1>2, <1>4, <1>6
  <2>3. Sent(n, p)'
    BY <2>1, <2>2 DEF Sent
  <2> QED
    BY <1>2, <1>3, <1>4, <1>6, <2>3
<1>7. CASE ~(n = request[r] /\ p = q)
  <2>1. request[Owner(n)] = n => block'[Owner(n)][p] = block[Owner(n)][p]
    BY <1>1, <1>5, <1>7
  <2>2. request' = request /\ stage' = stage /\ plan' = plan
    BY <1>2
  <2>3. Sent(n, p)' <=> Sent(n, p)
    BY <2>1, <2>2 DEF Sent
  <2> QED
    BY <1>2, <1>3, <1>4, <1>7, <2>3
<1> QED
  BY <1>2, <1>3, <1>4, <1>6, <1>7

\* A rank that clears its ready bank takes the request it is in, no other.
LEMMA ClearReadyTook ==
    ASSUME Placed, NEW r \in Ranks, ClearReady(r), NEW n \in Nat, NEW p \in Ranks
    PROVE  /\ Took(n, p)' <=> Took(n, p) \/ (n = request[r] /\ p = r)
           /\ stage[r] = "scatter" /\ request' = request
<1>1. TypeOK /\ PositionAt(r)
  BY DEF Placed, PositionOK
<1>2. request' = request /\ stage' = stage /\ block' = [block EXCEPT ![r][r] = "cleared"]
      /\ block[r][r] = "received"
  BY DEF ClearReady
<1>3. stage[r] = "scatter"
  BY <1>1, <1>2 DEF PositionAt
<1>4. CASE p = r
  BY <1>1, <1>2, <1>3, <1>4 DEF TypeOK, Took, After
<1>5. CASE p # r
  <2>1. block'[p][p] = block[p][p]
    BY <1>1, <1>2, <1>5 DEF TypeOK
  <2> QED
    BY <1>2, <1>3, <1>5, <2>1 DEF Took
<1> QED
  BY <1>2, <1>3, <1>4, <1>5

LEMMA SentGrows ==
    ASSUME Placed, NEW r \in Ranks, RankStep(r), NEW n \in Nat, NEW p \in Ranks, Sent(n, p)
    PROVE  Sent(n, p)'
<1>1. CASE \E q \in Ranks : FinishSend(r, q)
  BY <1>1, FinishSendSent
<1>2. CASE \A q \in Ranks : ~FinishSend(r, q)
  BY <1>2, SentKept
<1> QED
  BY <1>1, <1>2

LEMMA SentStep ==
    ASSUME IInv, NEW r \in Ranks, RankStep(r)
    PROVE  SentOK'
<1>1. TypeOK /\ Placed /\ PositionAt(r) /\ plan' = plan
  BY PlanKept DEF IInv, Placed, PositionOK
<1>2. \A p \in Ranks : request[p] \in Nat
  BY <1>1, Active
<1>3. ASSUME NEW p \in Ranks, ReceivedAt(p), request'[p] = request[p]
      PROVE  Sent(request[p], p)'
  BY <1>1, <1>2, <1>3, SentGrows DEF IInv, SentOK
<1>4. ASSUME NEW p \in Ranks, p # r, ReceivedAt(p)'
      PROVE  Sent(request[p], p)' /\ request'[p] = request[p]
  <2>1. ReceivedAt(p)
    BY <1>1, <1>4, Others DEF ReceivedAt
  <2> QED
    BY <1>1, <1>3, <1>4, <2>1, Others
<1>5. ASSUME ReceivedAt(r)'
      PROVE  Sent(request[r], r)' /\ request'[r] = request[r]
  <2> USE DEF TypeOK
  <2>1. CASE Enter(r)
    BY <1>1, <1>5, <2>1 DEF Enter, ReceivedAt, After, PositionAt
  <2>2. CASE \E p \in Ranks : StartSend(r, p) \/ FinishSend(r, p)
    <3>1. PICK p \in Ranks : StartSend(r, p) \/ FinishSend(r, p)
      BY <2>2
    <3>2. request' = request /\ stage' = stage /\ ReceivedAt(r)
      BY <1>1, <1>5, <3>1 DEF StartSend, FinishSend, ReceivedAt
    <3> QED
      BY <1>3, <3>2
  <2>3. CASE Receive(r)
    <3>1. request' = request /\ stage[r] = "scatter" /\ block[r][r] \in {"idle", "sent"} /\ Delivered(r)
      BY <2>3 DEF Receive
    <3> QED
      BY <1>1, <1>2, <3>1, DeliveredSent, SentGrows
  <2>4. CASE ClearReady(r)
    BY <1>1, <1>3, <2>4 DEF ClearReady, ReceivedAt
  <2>5. CASE Scattered(r)
    BY <1>1, <1>3, <2>5 DEF Scattered, ReceivedAt
  <2>6. CASE Later(r)
    <3>1. request' = request /\ block' = block /\ stage[r] \in After
      BY <1>1, <2>6, LaterFacts
    <3>2. ReceivedAt(r)
      BY <1>1, <1>5, <3>1 DEF ReceivedAt
    <3> QED
      BY <1>3, <3>1, <3>2
  <2>7. CASE Leave(r)
    <3>1. /\ block'[r][r] = "idle"
          /\ request'[r] = request[r] + 1
          /\ stage'[r] = IF request[r] + 1 = Requests THEN "stopped" ELSE "enter"
      BY <1>1, <2>7 DEF Leave, Pass, PositionAt
    <3>2. stage'[r] \in After => request'[r] = Requests
      BY <3>1 DEF After
    <3> QED
      BY <1>5, <3>1, <3>2, RequestsAssumption DEF ReceivedAt
  <2> QED
    BY <2>1, <2>2, <2>3, <2>4, <2>5, <2>6, <2>7, Steps
<1> QED
  BY <1>4, <1>5 DEF SentOK

\* The end of a scatter block makes its request pending, and no other.
LEMMA FinishSendPending ==
    ASSUME IInv, NEW r \in Ranks, NEW q \in Ranks, FinishSend(r, q), RankStep(r),
           NEW n \in Nat, NEW p \in Ranks
    PROVE  Pending(n, p)' <=> Pending(n, p) \/ (n = request[r] /\ p = q)
<1>1. TypeOK /\ Placed
  BY DEF IInv, Placed
<1>2. \A x \in Ranks : request[x] \in Nat
  BY <1>1, Active
<1>3. /\ stage[r] = "scatter" /\ r = Serving(r) /\ block[r][q] = "sending"
      /\ request[r] \in 0 .. Requests - 1 /\ plan[request[r]] # "empty"
  BY <1>1, <1>2, FinishSendSent
<1>4. Sent(n, p)' <=> Sent(n, p) \/ (n = request[r] /\ p = q)
  BY <1>1, FinishSendSent
<1>5. ~ClearReady(r)
  BY <1>1, Apart
<1>6. n \in 0 .. Requests - 1 /\ plan[n] # "empty" => (Took(n, p)' <=> Took(n, p))
  BY <1>1, <1>5, TookKept
<1>7. ~Took(request[r], q)
  <2>1. ~Sent(request[r], q)
    BY <1>2, <1>3 DEF Sent, Serving, After
  <2>2. request[q] <= request[r]
    BY <1>1, <1>3, Order
  <2>3. request[q] = request[r] => ~ReceivedAt(q)
    BY <2>1 DEF IInv, SentOK
  <2> QED
    BY <1>2, <1>3, <2>2, <2>3, RequestsAssumption DEF Took, ReceivedAt
<1> QED
  BY <1>3, <1>4, <1>6, <1>7 DEF Pending, Sent

\* A rank that leaves its barrier has taken its request, and was sent no more
\* than the next one.
LEMMA LeavePending ==
    ASSUME IInv, NEW r \in Ranks, Leave(r), RankStep(r)
    PROVE  /\ \A n \in Nat, p \in Ranks : Pending(n, p)' <=> Pending(n, p)
           /\ ~Pending(request[r], r) /\ ~Pending(request[r] + 2, r)
           /\ request'[r] = request[r] + 1 /\ request'[r] + 1 = request[r] + 2
           /\ \A p \in Ranks : p # r => request'[p] = request[p]
           /\ ready' = ready /\ header' = header /\ rows' = rows
<1>1. TypeOK /\ Placed /\ PositionAt(r)
  BY DEF IInv, Placed, PositionOK
<1>2. request[r] \in Nat
  BY <1>1, Active
<1>3. /\ request' = [request EXCEPT ![r] = @ + 1]
      /\ ready' = ready /\ header' = header /\ rows' = rows
      /\ stage[r] = "arrive" /\ waiting[r]
  BY <1>1 DEF Leave, Pass, PositionAt
<1>4. \A n \in Nat, p \in Ranks : Pending(n, p)' <=> Pending(n, p)
  <2>1. ~ClearReady(r) /\ \A q \in Ranks : ~FinishSend(r, q)
    BY <1>1, <1>3 DEF ClearReady, FinishSend, PositionAt
  <2> QED
    BY <1>1, <2>1, PendingKept
<1>5. ~Pending(request[r], r)
  BY <1>3 DEF Pending, Took, After, Stages
<1>6. ~Pending(request[r] + 2, r)
  <2>1. Owner(request[r] + 2) \in Ranks
    BY <1>2, OwnerFacts
  <2>2. request[Owner(request[r] + 2)] <= request[r] + 1 /\ request[Owner(request[r] + 2)] \in Nat
    BY <1>1, <2>1, Order, Active
  <2> QED
    BY <1>2, <2>1, <2>2 DEF Pending, Sent
<1> QED
  BY <1>1, <1>2, <1>3, <1>4, <1>5, <1>6 DEF TypeOK

\* A ready bank counts the announcements its rank has not taken yet.
LEMMA ReadyStep ==
    ASSUME IInv, NEW r \in Ranks, RankStep(r)
    PROVE  ReadyOK'
<1>1. TypeOK /\ Placed /\ PositionAt(r) /\ plan' = plan
  BY PlanKept DEF IInv, Placed, PositionOK
<1>2. \A p \in Ranks : request[p] \in Nat /\ request[p] <= Requests
  BY <1>1, Active
<1>3. TypeOK'
  BY TypeStep
<1>4. ASSUME request' = request, ready' = ready,
             ~ClearReady(r), \A q \in Ranks : ~FinishSend(r, q)
      PROVE  ReadyOK'
  <2>1. \A n \in Nat, p \in Ranks : Pending(n, p)' <=> Pending(n, p)
    BY <1>1, <1>4, PendingKept
  <2>2. \A p, x \in Ranks : Announcing(p, x)' <=> Announcing(p, x)
    BY <1>2, <1>4, <2>1 DEF Announcing
  <2> QED
    BY <1>4, <2>2 DEF IInv, ReadyOK
<1>5. CASE \E q \in Ranks : FinishSend(r, q)
  <2>1. PICK q \in Ranks : FinishSend(r, q)
    BY <1>5
  <2>2. /\ stage[r] = "scatter" /\ r = Serving(r) /\ block[r][q] = "sending"
        /\ request' = request /\ request[r] \in 0 .. Requests - 1 /\ plan[request[r]] # "empty"
        /\ ready' = IF q # r THEN [ready EXCEPT ![q][r] = @ + 1] ELSE ready
    BY <1>1, <1>2, <2>1, FinishSendSent DEF FinishSend, Announced
  <2>7. \A n \in Nat, p \in Ranks :
           Pending(n, p)' <=> Pending(n, p) \/ (n = request[r] /\ p = q)
    BY <2>1, FinishSendPending
  <2>8. ASSUME NEW p \in Ranks, NEW x \in Ranks, p # q \/ x # r \/ q = r
        PROVE  /\ Announcing(p, x)' <=> Announcing(p, x)
               /\ ready'[p][x] = ready[p][x]
    <3>1. ready'[p][x] = ready[p][x]
      BY <1>1, <2>2, <2>8 DEF TypeOK
    <3>2. CASE p # q
      BY <1>2, <2>2, <2>7, <3>1, <3>2 DEF Announcing
    <3>3. CASE p = q /\ x # r
      <4>1. \A n \in Nat : Owner(n) = x => (Pending(n, q)' <=> Pending(n, q))
        BY <2>2, <2>7, <3>3 DEF Serving
      <4>2. request[q] \in Nat /\ request[q] + 1 \in Nat
        BY <1>2
      <4> QED
        BY <2>2, <3>1, <3>3, <4>1, <4>2 DEF Announcing
    <3>4. CASE p = x
      BY <3>1, <3>4 DEF Announcing
    <3> QED
      BY <2>8, <3>1, <3>2, <3>3, <3>4
  <2>9. ASSUME q # r
        PROVE  /\ Announcing(q, r)'
               /\ ready'[q][r] = 1
    <3>1. ready[q][r] = 0
      BY <2>2, Quiet
    <3>2. ready'[q][r] = 1
      BY <1>1, <2>2, <2>9, <3>1 DEF TypeOK
    <3>3. request[q] = request[r] \/ request[q] + 1 = request[r]
      BY <1>1, <1>2, <2>2, Order DEF Placed, RequestsSeparated
    <3> QED
      BY <1>2, <2>2, <2>7, <2>9, <3>2, <3>3 DEF Announcing, Serving
  <2> QED
    BY <2>8, <2>9 DEF IInv, ReadyOK
<1>6. CASE ClearReady(r)
  <2>1. /\ stage[r] = "scatter" /\ request' = request
        /\ ready' = [ready EXCEPT ![r] = [p \in Ranks |-> 0]]
    BY <1>1, <1>6, ClearReadyTook DEF ClearReady
  <2>2. \A n \in Nat, p \in Ranks : Took(n, p)' <=> Took(n, p) \/ (n = request[r] /\ p = r)
    BY <1>1, <1>6, ClearReadyTook
  <2>3. \A n \in Nat, p \in Ranks : Sent(n, p)' <=> Sent(n, p)
    <3>1. \A q \in Ranks : ~FinishSend(r, q)
      BY <1>1, <1>6, Apart
    <3> QED
      BY <1>1, <3>1, SentKept
  <2>4. ASSUME NEW p \in Ranks, NEW x \in Ranks, p # r
        PROVE  ready'[p][x] = IF Announcing(p, x)' THEN 1 ELSE 0
    <3>1. \A n \in Nat : Pending(n, p)' <=> Pending(n, p)
      BY <2>2, <2>3, <2>4 DEF Pending
    <3>2. Announcing(p, x)' <=> Announcing(p, x)
      BY <1>2, <2>1, <3>1 DEF Announcing
    <3>3. ready'[p][x] = ready[p][x]
      BY <1>1, <2>1, <2>4 DEF TypeOK
    <3> QED
      BY <3>2, <3>3 DEF IInv, ReadyOK
  <2>5. ASSUME NEW x \in Ranks
        PROVE  ready'[r][x] = 0 /\ ~Announcing(r, x)'
    <3>1. ~Sent(request[r] + 1, r)
      BY <1>1, <1>2, <2>1, NobodyAhead
    <3>2. ~Pending(request[r], r)' /\ ~Pending(request[r] + 1, r)'
      BY <1>2, <2>1, <2>2, <2>3, <3>1 DEF Pending
    <3>3. ready'[r][x] = 0
      BY <1>1, <2>1 DEF TypeOK
    <3> QED
      BY <2>1, <3>2, <3>3 DEF Announcing
  <2> QED
    BY <2>4, <2>5 DEF ReadyOK
<1>7. CASE Leave(r)
  <2>1. /\ \A n \in Nat, p \in Ranks : Pending(n, p)' <=> Pending(n, p)
        /\ ~Pending(request[r], r) /\ ~Pending(request[r] + 2, r)
        /\ request'[r] = request[r] + 1 /\ request'[r] + 1 = request[r] + 2
        /\ \A p \in Ranks : p # r => request'[p] = request[p]
        /\ ready' = ready
    BY <1>7, LeavePending
  <2>2. ASSUME NEW p \in Ranks, NEW x \in Ranks
        PROVE  Announcing(p, x)' <=> Announcing(p, x)
    <3>1. CASE p = r
      <4>1. Announcing(r, x) <=> x # r /\ Owner(request[r] + 1) = x /\ Pending(request[r] + 1, r)
        BY <2>1 DEF Announcing
      <4>2. Announcing(r, x)' <=> x # r /\ Owner(request[r] + 1) = x /\ Pending(request[r] + 1, r)
        BY <1>2, <2>1 DEF Announcing
      <4> QED
        BY <3>1, <4>1, <4>2
    <3>2. CASE p # r
      BY <1>2, <2>1, <3>2 DEF Announcing
    <3> QED
      BY <3>1, <3>2
  <2> QED
    BY <2>1, <2>2 DEF IInv, ReadyOK
<1>8. CASE ~ClearReady(r) /\ ~Leave(r) /\ \A q \in Ranks : ~FinishSend(r, q)
  <2>1. request' = request /\ ready' = ready
    BY <1>1, <1>8, Steps, LaterFacts DEF Enter, Receive, Scattered, StartSend
  <2> QED
    BY <1>4, <1>8, <2>1
<1> QED
  BY <1>5, <1>6, <1>7, <1>8

\* What is announced to a rank lies in its windows, whole, until it is taken.
LEMMA EntryStep ==
    ASSUME IInv, NEW r \in Ranks, RankStep(r)
    PROVE  EntryOK'
<1>1. TypeOK /\ Placed /\ PositionAt(r) /\ plan' = plan
  BY PlanKept DEF IInv, Placed, PositionOK
<1>2. \A p \in Ranks : request[p] \in Nat
  BY <1>1, Active
<1> DEFINE E(n, p) == header'[p] = Header(n) /\ (plan[n] = "served" => rows'[p] = n)
<1>3. \A n \in Nat, p \in Ranks : EntryAt(n, p)' <=> (Pending(n, p)' => E(n, p))
  BY <1>1 DEF EntryAt, Header
<1>4. \A n \in Nat, p \in Ranks :
         EntryAt(n, p) /\ header'[p] = header[p] /\ rows'[p] = rows[p] => (Pending(n, p) => E(n, p))
  BY DEF EntryAt
<1> HIDE DEF E
<1>5. ASSUME request' = request, header' = header, rows' = rows,
             \A n \in Nat, p \in Ranks : Pending(n, p)' => Pending(n, p)
      PROVE  EntryOK'
  BY <1>2, <1>3, <1>4, <1>5 DEF IInv, EntryOK
<1>6. CASE \E q \in Ranks : FinishSend(r, q)
  <2>1. PICK q \in Ranks : FinishSend(r, q)
    BY <1>6
  <2>2. /\ stage[r] = "scatter" /\ r = Serving(r) /\ block[r][q] = "sending"
        /\ request' = request
    BY <1>1, <1>2, <2>1, FinishSendSent DEF FinishSend
  <2>3. \A n \in Nat, p \in Ranks :
           Pending(n, p)' <=> Pending(n, p) \/ (n = request[r] /\ p = q)
    BY <2>1, FinishSendPending
  <2>4. ASSUME NEW p \in Ranks, p # q, NEW n \in {request[p], request[p] + 1}
        PROVE  Pending(n, p)' => E(n, p)
    <3>1. header'[p] = header[p] /\ rows'[p] = rows[p]
      BY <1>1, <2>1, <2>4 DEF FinishSend, TypeOK
    <3>2. EntryAt(n, p)
      BY DEF IInv, EntryOK
    <3>3. n \in Nat /\ (Pending(n, p)' => Pending(n, p))
      BY <1>2, <2>3, <2>4
    <3>4. EntryAt(n, p) /\ header'[p] = header[p] /\ rows'[p] = rows[p] => (Pending(n, p) => E(n, p))
      BY <1>4, <3>3
    <3> QED
      BY <3>1, <3>2, <3>3, <3>4
  <2>5. ASSUME NEW n \in {request[q], request[q] + 1}
        PROVE  Pending(n, q)' => E(n, q)
    <3>1. Pending(n, q)' => n = request[r]
      BY <1>2, <2>2, <2>3, Quiet
    <3>2. E(request[r], q)
      BY <1>1, <2>1 DEF E, FinishSend, Header, TypeOK
    <3> QED
      BY <3>1, <3>2
  <2> QED
    BY <1>2, <1>3, <2>2, <2>4, <2>5 DEF EntryOK
<1> DEFINE Other == ~ClearReady(r) /\ \A p \in Ranks : ~FinishSend(r, p)
<1>7. CASE Other /\ \E q \in Ranks : StartSend(r, q)
  <2>1. PICK q \in Ranks : StartSend(r, q)
    BY <1>7
  <2>2. /\ stage[r] = "scatter" /\ r = Serving(r) /\ block[r][q] = "idle"
        /\ request' = request
    BY <2>1 DEF StartSend
  <2>3. \A n \in Nat, p \in Ranks : Pending(n, p)' <=> Pending(n, p)
    BY <1>1, <1>7, PendingKept
  <2>4. ASSUME NEW p \in Ranks, p # q, NEW n \in {request[p], request[p] + 1}
        PROVE  Pending(n, p)' => E(n, p)
    <3>1. header'[p] = header[p] /\ rows'[p] = rows[p]
      BY <1>1, <2>1, <2>4 DEF StartSend, TypeOK
    <3>2. EntryAt(n, p)
      BY DEF IInv, EntryOK
    <3>3. n \in Nat /\ (Pending(n, p)' => Pending(n, p))
      BY <1>2, <2>3, <2>4
    <3>4. EntryAt(n, p) /\ header'[p] = header[p] /\ rows'[p] = rows[p] => (Pending(n, p) => E(n, p))
      BY <1>4, <3>3
    <3> QED
      BY <3>1, <3>2, <3>3, <3>4
  <2>5. ~Pending(request[q], q)' /\ ~Pending(request[q] + 1, q)'
    BY <1>2, <2>2, <2>3, Quiet
  <2> QED
    BY <1>2, <1>3, <2>2, <2>4, <2>5 DEF EntryOK
<1>8. CASE ClearReady(r)
  <2>1. \A q \in Ranks : ~FinishSend(r, q)
    BY <1>1, <1>8, Apart
  <2>2. \A n \in Nat, p \in Ranks : Pending(n, p)' => Pending(n, p)
    BY <1>1, <1>8, <2>1, SentKept, ClearReadyTook DEF Pending
  <2> QED
    BY <1>5, <1>8, <2>2 DEF ClearReady
<1>9. CASE Leave(r)
  <2>1. /\ \A n \in Nat, p \in Ranks : Pending(n, p)' <=> Pending(n, p)
        /\ ~Pending(request[r], r) /\ ~Pending(request[r] + 2, r)
        /\ request'[r] = request[r] + 1 /\ request'[r] + 1 = request[r] + 2
        /\ \A p \in Ranks : p # r => request'[p] = request[p]
        /\ header' = header /\ rows' = rows
    BY <1>9, LeavePending
  <2>2. \A p \in Ranks, n \in Nat : EntryAt(n, p) => EntryAt(n, p)'
    BY <1>3, <1>4, <2>1
  <2>3. EntryAt(request[r] + 2, r)
    BY <2>1 DEF EntryAt
  <2> QED
    BY <1>2, <2>1, <2>2, <2>3 DEF IInv, EntryOK
<1>10. CASE Other /\ (Enter(r) \/ Receive(r) \/ Scattered(r) \/ Later(r))
  <2>1. request' = request /\ header' = header /\ rows' = rows
    BY <1>1, <1>10, LaterFacts DEF Enter, Receive, Scattered
  <2>3. \A n \in Nat, p \in Ranks : Pending(n, p)' <=> Pending(n, p)
    BY <1>1, <1>10, PendingKept
  <2> QED
    BY <1>5, <2>1, <2>3
<1> QED
  BY <1>6, <1>7, <1>8, <1>9, <1>10, Steps

-----------------------------------------------------------------------------
(* Every step keeps the invariant: the gather.                             *)

\* How a rank goes through the stages of a request.
LEMMA Stays ==
    ASSUME IInv, NEW r \in Ranks, RankStep(r), ~Leave(r)
    PROVE  /\ request' = request
           /\ stage[r] = "arrive" => stage'[r] = "arrive"
           /\ stage[r] = "clear" => stage'[r] \in {"clear", "arrive"}
           /\ stage'[r] = "arrive" =>
                stage[r] \in {"clear", "arrive"} \/ plan[request[r]] # "served"
           /\ stage'[r] = "clear" => stage[r] \in {"clear", "restore"} \/ NotifyOwner(r)
           /\ stage'[r] = "restore" => stage[r] = "restore" \/ Collect(r)
           /\ stage'[r] = "published" => stage[r] = "published" \/ FinishPublish(r)
           /\ stage'[r] = "publishing" => stage[r] \in {"gather", "publishing"}
           /\ stage'[r] = "gather" => stage[r] \in {"forward", "gather"}
           /\ stage'[r] = "forward" => stage[r] = "forward" \/ block[r][r] = "cleared"
           /\ stage'[r] # "stopped"
<1>1. TypeOK /\ PositionAt(r)
  BY DEF IInv, PositionOK
<1> USE DEF TypeOK
<1>2. CASE Enter(r)
  BY <1>1, <1>2 DEF Enter
<1>3. CASE \E p \in Ranks : StartSend(r, p) \/ FinishSend(r, p)
  <2>1. request' = request /\ stage' = stage /\ stage[r] = "scatter"
    BY <1>1, <1>3 DEF StartSend, FinishSend, PositionAt
  <2> QED
    BY <2>1
<1>4. CASE Receive(r) \/ ClearReady(r)
  <2>1. request' = request /\ stage' = stage /\ stage[r] = "scatter"
    BY <1>1, <1>4 DEF Receive, ClearReady, PositionAt
  <2> QED
    BY <2>1
<1>5. CASE Scattered(r)
  BY <1>1, <1>5 DEF Scattered
<1>6. CASE Forward(r)
  BY <1>1, <1>6, Received DEF Forward
<1>7. CASE StartPublish(r) \/ FinishPublish(r)
  BY <1>1, <1>7 DEF StartPublish, FinishPublish
<1>8. CASE NotifyOwner(r) \/ Collect(r)
  BY <1>1, <1>8 DEF NotifyOwner, Collect
<1>9. CASE \E s \in Segments : Restore(r, s)
  BY <1>1, <1>9 DEF Restore
<1>10. CASE Restored(r) \/ ClearComplete(r)
  BY <1>1, <1>10 DEF Restored, ClearComplete
<1>11. CASE Arrive(r)
  BY <1>1, <1>11 DEF Arrive, Barrier!Reach
<1> QED
  BY <1>2, <1>3, <1>4, <1>5, <1>6, <1>7, <1>8, <1>9, <1>10, <1>11 DEF RankStep

\* The step from one request to the next.
LEMMA Leaves ==
    ASSUME IInv, NEW r \in Ranks, Leave(r)
    PROVE  /\ request[r] \in Nat /\ request'[r] = request[r] + 1
           /\ stage[r] = "arrive" /\ waiting[r]
           /\ stage'[r] = IF request[r] + 1 = Requests THEN "stopped" ELSE "enter"
           /\ \A p \in Ranks : block'[r][p] = "idle"
           /\ complete' = complete /\ slab' = slab /\ out' = out /\ control' = control
           /\ request[r] + 1 <= Requests
<1>1. TypeOK /\ Placed /\ PositionAt(r)
  BY DEF IInv, Placed, PositionOK
<1>2. stage[r] = "arrive" /\ waiting[r] /\ \A p \in Ranks : block[r][p] = "idle"
  BY <1>1 DEF Leave, Pass, PositionAt
<1>3. request[r] \in Nat /\ request[r] + 1 <= Requests
  BY <1>1, <1>2, Active, RequestsAssumption
<1> QED
  BY <1>1, <1>2, <1>3 DEF Leave, TypeOK

LEMMA ReceivedStep ==
    ASSUME IInv, NEW r \in Ranks, RankStep(r)
    PROVE  ReceivedExact'
<1> DEFINE Had(p) == block[p][p] \in {"received", "cleared"}
                     \/ stage[p] \in {"forward", "gather", "publishing"}
           Exact(p) == /\ control[p] = Header(request[p])
                       /\ control[p].accept => hidden[p] = request[p]
<1>1. TypeOK /\ Placed /\ PositionAt(r) /\ plan' = plan
  BY PlanKept DEF IInv, Placed, PositionOK
<1>2. \A p \in Ranks : Had(p) => Exact(p)
  BY DEF IInv, ReceivedExact
<1>3. ASSUME NEW p \in Ranks, p # r, Had(p)'
      PROVE  Exact(p)'
  <2>1. Had(p) /\ Exact(p)
    BY <1>1, <1>2, <1>3, Others
  <2> QED
    BY <1>1, <1>3, <2>1, Others DEF Header
<1>4. ASSUME Had(r)'
      PROVE  Exact(r)'
  <2>1. ASSUME Had(r), request' = request, control' = control, hidden' = hidden
        PROVE  Exact(r)'
    BY <1>1, <1>2, <2>1 DEF Header
  <2>2. CASE Receive(r)
    <3>1. /\ request' = request /\ control'[r] = header[r]
          /\ hidden'[r] = IF header[r].accept THEN rows[r] ELSE hidden[r]
          /\ stage[r] = "scatter" /\ block[r][r] \in {"idle", "sent"} /\ Delivered(r)
      BY <1>1, <2>2 DEF TypeOK, Receive
    <3>2. header[r] = Header(request[r]) /\ (plan[request[r]] = "served" => rows[r] = request[r])
      BY <3>1, DeliveredSent DEF IInv, EntryOK, EntryAt
    <3>3. Header(request[r]).accept <=> plan[request[r]] = "served"
      BY DEF Header
    <3>4. Header(request[r])' = Header(request[r])
      BY <1>1, <3>1 DEF Header
    <3> QED
      BY <3>1, <3>2, <3>3, <3>4
  <2>3. CASE Leave(r)
    <3>1. ~Had(r)'
      BY <2>3, Leaves
    <3> QED
      BY <1>4, <3>1
  <2>4. CASE Enter(r)
    <3>1. ~Had(r)'
      BY <1>1, <2>4 DEF TypeOK, Enter, PositionAt
    <3> QED
      BY <1>4, <3>1
  <2>5. CASE ~Leave(r) /\ (ClearReady(r) \/ Scattered(r) \/ Later(r) \/ \E p \in Ranks : StartSend(r, p) \/ FinishSend(r, p))
    <3>1. request' = request /\ control' = control /\ hidden' = hidden
      BY <1>1, <2>5, Stays, LaterFacts DEF ClearReady, Scattered, StartSend, FinishSend
    <3>2. block'[r][r] \in {"received", "cleared"} => block[r][r] \in {"received", "cleared"}
      BY <1>1, <2>5, LaterFacts DEF TypeOK, ClearReady, Scattered, StartSend, FinishSend
    <3>3. Had(r)
      BY <1>4, <2>5, <3>2, Stays
    <3> QED
      BY <2>1, <3>1, <3>3
  <2> QED
    BY <2>2, <2>3, <2>4, <2>5, Steps
<1> HIDE DEF Had, Exact
<1>5. \A p \in Ranks : Had(p)' => Exact(p)'
  BY <1>3, <1>4
<1> QED
  BY <1>5 DEF ReceivedExact, Had, Exact

LEMMA NotifiedGrows ==
    ASSUME IInv, NEW r \in Ranks, RankStep(r), NEW o \in Ranks, NEW p \in Ranks,
           Notified(o, p), request'[o] = request[o]
    PROVE  Notified(o, p)'
<1>1. TypeOK /\ \A x \in Ranks : request[x] \in Nat
  BY Active DEF IInv, Placed
<1>2. CASE p # r
  BY <1>1, <1>2, Others DEF Notified
<1>3. CASE p = r /\ Leave(r)
  BY <1>1, <1>3, Leaves DEF Notified
<1>4. CASE p = r /\ ~Leave(r)
  BY <1>1, <1>4, Stays DEF Notified
<1> QED
  BY <1>2, <1>3, <1>4

\* The gather bank of an owner counts the slabs announced to it.
LEMMA CompleteStep ==
    ASSUME IInv, NEW r \in Ranks, RankStep(r)
    PROVE  CompleteOK'
<1>1. TypeOK /\ Placed /\ PositionAt(r) /\ plan' = plan
  BY PlanKept DEF IInv, Placed, PositionOK
<1>2. \A p \in Ranks : request[p] \in Nat /\ Serving(p) \in Ranks
  BY <1>1, Active
<1> DEFINE Told(o, p) == p # o /\ Awaited(o) /\ Notified(o, p)
<1>3. \A o, p \in Ranks : complete[o][p] = IF Told(o, p) THEN 1 ELSE 0
  BY DEF IInv, CompleteOK
<1> SUFFICES ASSUME NEW o \in Ranks, NEW p \in Ranks
             PROVE  complete'[o][p] = IF Told(o, p)' THEN 1 ELSE 0
  BY DEF CompleteOK
<1>4. ASSUME Awaited(o)' <=> Awaited(o),
             p # o /\ Awaited(o) => (Notified(o, p)' <=> Notified(o, p)),
             complete'[o][p] = complete[o][p]
      PROVE  complete'[o][p] = IF Told(o, p)' THEN 1 ELSE 0
  BY <1>3, <1>4
<1>5. o # r => (Awaited(o)' <=> Awaited(o))
  BY <1>1, Others DEF Awaited, Serving
<1>6. CASE Leave(r)
  <2>1. complete' = complete
    BY <1>6, Leaves
  <2>2. CASE o # r
    <3>1. Notified(o, p)' <=> Notified(o, p)
      <4>1. CASE p # r
        BY <1>1, <2>2, <4>1, Others DEF Notified
      <4>2. CASE p = r
        <5>1. request'[o] = request[o] /\ request[o] \in Nat /\ request[o] <= request[r] + 1
          BY <1>1, <1>2, <2>2, Others, Order
        <5> QED
          BY <1>6, <4>2, <5>1, Leaves DEF Notified
      <4> QED
        BY <4>1, <4>2
    <3> QED
      BY <1>4, <1>5, <2>1, <2>2, <3>1
  <2>3. CASE o = r
    <3>1. complete[r][p] = 0
      BY <1>3, <1>6, <2>3, Leaves DEF Awaited
    <3>2. ASSUME Told(r, p)'
          PROVE  FALSE
      <4>1. p # r /\ request'[r] = request[r] + 1 /\ request'[p] = request[p] /\ stage'[p] = stage[p]
        BY <1>1, <1>6, <3>2, Leaves, Others
      <4>2. request[p] = request[r] + 1 /\ stage[p] \in {"clear", "arrive"}
        <5>1. request[p] <= request[r] + 1
          BY <1>1, Order
        <5> QED
          BY <1>2, <3>2, <4>1, <5>1 DEF Notified
      <4>3. request[p] < Requests /\ plan[request[p]] # "empty" /\ Serving(p) = r
        BY <1>1, <3>2, <4>1, <4>2 DEF Awaited, Serving
      <4>4. request[r] >= request[p]
        BY <4>2, <4>3, OwnerThere DEF After, Stages
      <4> QED
        BY <1>2, <4>2, <4>4
    <3> QED
      BY <2>1, <2>3, <3>1, <3>2
  <2> QED
    BY <2>2, <2>3
<1>7. CASE NotifyOwner(r)
  <2>1. /\ stage[r] = "published" /\ stage'[r] = "clear" /\ r # Serving(r) /\ request' = request
        /\ complete' = [complete EXCEPT ![Serving(r)][r] = @ + 1]
    BY <1>1, <1>7 DEF NotifyOwner, TypeOK
  <2>2. complete[Serving(r)][r] = 0 /\ request[Serving(r)] = request[r] /\ Awaited(Serving(r))
    BY <2>1, NotToldYet
  <2>3. Awaited(o)' <=> Awaited(o)
    BY <1>1, <1>5, <2>1 DEF Awaited, Serving
  <2>4. CASE o = Serving(r) /\ p = r
    <3>1. complete'[o][p] = 1
      BY <1>1, <1>2, <2>1, <2>2, <2>4 DEF TypeOK
    <3>2. Told(o, p)'
      BY <2>1, <2>2, <2>3, <2>4 DEF Notified
    <3> QED
      BY <3>1, <3>2
  <2>5. CASE ~(o = Serving(r) /\ p = r)
    <3>1. complete'[o][p] = complete[o][p]
      BY <1>1, <1>2, <2>1, <2>5 DEF TypeOK
    <3>2. CASE p = r
      BY <1>4, <2>1, <2>3, <2>5, <3>1, <3>2 DEF Awaited, Notified, Serving
    <3>3. CASE p # r
      BY <1>1, <1>4, <2>1, <2>3, <3>1, <3>3, Others DEF Notified
    <3> QED
      BY <3>2, <3>3
  <2> QED
    BY <2>4, <2>5
<1>8. CASE ClearComplete(r)
  <2>1. /\ stage[r] = "clear" /\ stage'[r] = "arrive" /\ request' = request
        /\ complete' = [complete EXCEPT ![r] = [x \in Ranks |-> 0]]
    BY <1>1, <1>8 DEF ClearComplete, TypeOK
  <2>2. CASE o = r
    BY <1>1, <2>1, <2>2 DEF TypeOK, Awaited
  <2>3. CASE o # r
    <3>1. complete'[o][p] = complete[o][p]
      BY <1>1, <2>1, <2>3 DEF TypeOK
    <3>2. Notified(o, p)' <=> Notified(o, p)
      BY <1>1, <2>1, Others DEF Notified
    <3> QED
      BY <1>4, <1>5, <2>3, <3>1, <3>2
  <2> QED
    BY <2>2, <2>3
<1>9. CASE ~Leave(r) /\ ~NotifyOwner(r) /\ ~ClearComplete(r)
  <2>1. request' = request
    BY <1>9, Stays
  <2>2. complete' = complete
    BY <1>9 DEF RankStep, Enter, Receive, ClearReady, Scattered, Forward, StartSend, FinishSend,
         StartPublish, FinishPublish, Collect, Restore, Restored, Arrive
  <2>3. plan[request[r]] = "served" =>
           /\ stage'[r] = "arrive" <=> stage[r] = "arrive"
           /\ r # Serving(r) => (stage'[r] \in {"clear", "arrive"} <=> stage[r] \in {"clear", "arrive"})
    <3>1. stage[r] = "clear" => stage'[r] = "clear"
      BY <1>1, <1>9 DEF RankStep, Enter, Receive, ClearReady, Scattered, Forward, StartSend, FinishSend,
         StartPublish, FinishPublish, Collect, Restore, Restored, Arrive, Barrier!Reach, PositionAt
    <3>2. stage[r] = "restore" => r = Serving(r)
      BY <1>1 DEF PositionAt
    <3> QED
      BY <1>9, <3>1, <3>2, Stays
  <2>4. Awaited(o)' <=> Awaited(o)
    BY <1>1, <1>5, <2>1, <2>3 DEF Awaited, Serving
  <2>5. ASSUME p # o, Awaited(o)
        PROVE  Notified(o, p)' <=> Notified(o, p)
    <3>1. CASE p # r
      BY <1>1, <2>1, <3>1, Others DEF Notified
    <3>2. CASE p = r
      <4>1. request[r] = request[o] => plan[request[r]] = "served" /\ Serving(r) = o
        BY <2>5 DEF Awaited, Serving
      <4> QED
        BY <2>1, <2>3, <2>5, <3>2, <4>1 DEF Notified
    <3> QED
      BY <3>1, <3>2
  <2> QED
    BY <1>4, <2>2, <2>4, <2>5
<1> QED
  BY <1>6, <1>7, <1>8, <1>9

\* An owner restores only after every peer has announced its slab.
LEMMA CollectedStep ==
    ASSUME IInv, NEW r \in Ranks, RankStep(r)
    PROVE  CollectedOK'
<1> DEFINE Collected(o) ==
             /\ request[o] < Requests /\ o = Serving(o) /\ plan[request[o]] = "served"
             /\ stage[o] \in {"restore", "clear", "arrive"}
<1>1. TypeOK /\ Placed /\ PositionAt(r) /\ plan' = plan
  BY PlanKept DEF IInv, Placed, PositionOK
<1> SUFFICES ASSUME NEW o \in Ranks, Collected(o)', NEW p \in Peers(o)
             PROVE  Notified(o, p)'
  BY DEF CollectedOK, Peers
<1>2. p \in Ranks /\ p # o
  BY DEF Peers
<1>3. Collected(o) => Notified(o, p)
  BY DEF IInv, CollectedOK
<1>4. CASE o # r
  <2>1. Collected(o) /\ request'[o] = request[o]
    BY <1>1, <1>4, Others DEF Serving
  <2> QED
    BY <1>2, <1>3, <2>1, NotifiedGrows
<1>5. CASE o = r /\ ~Leave(r)
  <2>1. request' = request
    BY <1>5, Stays
  <2>2. CASE Collect(r)
    <3>1. complete[r][p] >= 1
      BY <1>5, <2>2 DEF Collect, AllComplete
    <3>2. Notified(r, p)
      BY <1>2, <1>5, <3>1 DEF IInv, CompleteOK
    <3> QED
      BY <1>2, <1>5, <2>1, <3>2, NotifiedGrows
  <2>3. CASE ~Collect(r)
    <3>1. ~NotifyOwner(r)
      BY <1>5, <2>1 DEF NotifyOwner, Serving
    <3>2. Collected(r)
      BY <1>1, <1>5, <2>1, <2>3, <3>1, Stays DEF Serving
    <3> QED
      BY <1>2, <1>3, <1>5, <2>1, <3>2, NotifiedGrows
  <2> QED
    BY <2>2, <2>3
<1>6. CASE o = r /\ Leave(r)
  BY <1>6, Leaves
<1> QED
  BY <1>4, <1>5, <1>6

\* Slabs of the request an owner serves lie in its windows from publication on.
LEMMA SlabStep ==
    ASSUME IInv, NEW r \in Ranks, RankStep(r)
    PROVE  SlabOK'
<1> DEFINE Late == {"published", "restore", "clear", "arrive"}
<1>1. TypeOK /\ Placed /\ PositionAt(r) /\ plan' = plan
  BY PlanKept DEF IInv, Placed, PositionOK
<1>2. \A p \in Ranks : request[p] \in Nat /\ Serving(p) \in Ranks
  BY <1>1, Active
<1> SUFFICES ASSUME NEW o \in Ranks, NEW p \in Ranks, NEW part \in LocalParts,
                    Awaited(o)', request'[p] = request'[o], stage'[p] \in Late
             PROVE  slab'[o][Lane(p, part)] = Row(request'[o], LocalSegment(p, part))
  BY DEF SlabOK
<1>3. Lane(p, part) \in Lanes /\ LocalSegment(p, part) \in Segments
  BY LaneFacts
<1>4. ASSUME Awaited(o), request'[o] = request[o], request[p] = request[o], stage[p] \in Late,
             slab'[o][Lane(p, part)] = slab[o][Lane(p, part)]
      PROVE  slab'[o][Lane(p, part)] = Row(request'[o], LocalSegment(p, part))
  BY <1>4 DEF IInv, SlabOK
<1>5. CASE Leave(r)
  <2>1. slab' = slab /\ stage'[r] \notin Late /\ request'[r] = request[r] + 1
    BY <1>5, Leaves
  <2>2. p # r
    BY <2>1
  <2>3. request'[p] = request[p] /\ stage'[p] = stage[p]
    BY <1>1, <2>2, Others
  <2>4. CASE o = r
    <3>1. request[p] = request[r] + 1 /\ Serving(p) = r
      BY <2>1, <2>3, <2>4 DEF Awaited, Serving
    <3>2. request[p] < Requests /\ plan[request[p]] # "empty" /\ stage[p] \in After
      BY <1>1, <2>1, <2>3, <2>4, <3>1 DEF Awaited, After, Stages
    <3>3. request[r] >= request[p]
      BY <3>1, <3>2, OwnerThere
    <3> QED
      BY <1>2, <3>1, <3>3
  <2>5. CASE o # r
    <3>1. Awaited(o) /\ request'[o] = request[o]
      BY <1>1, <2>5, Others DEF Awaited, Serving
    <3> QED
      BY <1>4, <2>1, <2>3, <3>1
  <2> QED
    BY <2>4, <2>5
<1>6. CASE ~Leave(r)
  <2>1. request' = request
    BY <1>6, Stays
  <2>2. Awaited(o)
    BY <1>1, <1>6, <2>1, Stays, Others DEF Awaited, Serving
  <2>3. CASE p = r /\ FinishPublish(r)
    <3>1. o = Serving(r)
      BY <2>1, <2>2, <2>3 DEF Awaited, Serving
    <3>2. stage[r] = "publishing" /\ plan[request[r]] = "served"
      BY <1>1, <2>3 DEF FinishPublish, PositionAt, ServedStages
    <3>3. hidden[r] = request[r]
      BY <3>2, Received
    <3>4. Lane(p, part) \in {Lane(r, 0), Lane(r, 1)} /\ Lane(p, part) - 2 * r = part
      BY <2>3 DEF Lane, LocalParts, Ranks
    <3>5. slab'[o] = [l \in Lanes |-> IF l \in {Lane(r, 0), Lane(r, 1)}
                                      THEN Row(hidden[r], LocalSegment(r, l - 2 * r))
                                      ELSE slab[o][l]]
      BY <1>1, <2>3, <3>1 DEF FinishPublish, TypeOK
    <3> QED
      BY <1>3, <2>1, <2>3, <3>3, <3>4, <3>5
  <2>4. CASE ~(p = r /\ FinishPublish(r))
    <3>1. stage[p] \in Late
      <4>1. CASE p # r
        BY <1>1, <4>1, Others
      <4>2. CASE p = r
        <5>1. plan[request[r]] = "served"
          BY <2>1, <2>2, <4>2 DEF Awaited
        <5>2. stage'[r] = "clear" /\ NotifyOwner(r) => stage[r] = "published"
          BY DEF NotifyOwner
        <5>3. stage'[r] = "restore" /\ Collect(r) => stage[r] = "published"
          BY DEF Collect
        <5> QED
          BY <1>6, <2>4, <4>2, <5>1, <5>2, <5>3, Stays
      <4> QED
        BY <4>1, <4>2
    <3>2. slab'[o][Lane(p, part)] = slab[o][Lane(p, part)]
      <4>1. CASE StartPublish(r)
        <5>1. p # r
          BY <1>1, <4>1 DEF StartPublish, TypeOK
        <5>2. Lane(p, part) \notin {Lane(r, 0), Lane(r, 1)}
          BY <5>1, LaneFacts DEF LocalParts
        <5> QED
          BY <1>1, <1>3, <4>1, <5>2 DEF StartPublish, TypeOK
      <4>2. CASE FinishPublish(r)
        <5>1. Lane(p, part) \notin {Lane(r, 0), Lane(r, 1)}
          BY <2>4, <4>2, LaneFacts DEF LocalParts
        <5> QED
          BY <1>1, <1>3, <4>2, <5>1 DEF FinishPublish, TypeOK
      <4>3. CASE ~StartPublish(r) /\ ~FinishPublish(r)
        <5>1. slab' = slab
          BY <1>6, <4>3 DEF RankStep, Enter, Receive, ClearReady, Scattered, Forward, StartSend,
             FinishSend, NotifyOwner, Collect, Restore, Restored, ClearComplete, Arrive
        <5> QED
          BY <5>1
      <4> QED
        BY <4>1, <4>2, <4>3
    <3> QED
      BY <1>4, <2>1, <2>2, <3>1, <3>2
  <2> QED
    BY <2>3, <2>4
<1> QED
  BY <1>5, <1>6

\* The slab an owner restores a segment from holds that segment of its request.
LEMMA Restores ==
    ASSUME IInv, NEW r \in Ranks, stage[r] = "restore", NEW s \in Segments
    PROVE  slab[r][RestoreLane(s)] = Row(request[r], s)
<1>1. TypeOK /\ Placed /\ PositionAt(r)
  BY DEF IInv, Placed, PositionOK
<1>2. Awaited(r)
  BY <1>1, Active, RequestsAssumption DEF Awaited, PositionAt, ServedStages
<1>3. PICK p \in Ranks, part \in LocalParts :
         RestoreLane(s) = Lane(p, part) /\ LocalSegment(p, part) = s
  BY LaneFacts
<1>4. request[p] = request[r] /\ stage[p] \in {"restore", "clear", "arrive"}
  <2>1. CASE p = r
    BY <2>1
  <2>2. CASE p # r
    <3>1. Notified(r, p)
      BY <1>2, <2>2 DEF IInv, CollectedOK, Awaited, Peers
    <3>2. request[p] <= request[r] /\ request[p] \in Nat /\ request[r] \in Nat
      BY <1>1, Order, Active
    <3> QED
      BY <3>1, <3>2 DEF Notified
  <2> QED
    BY <2>1, <2>2
<1> QED
  BY <1>2, <1>3, <1>4 DEF IInv, SlabOK

\* The output of a rank, around its turn.
LEMMA OutStep ==
    ASSUME IInv, NEW r \in Ranks, RankStep(r)
    PROVE  OutOK'
<1> DEFINE Known(p) == stage[p] = "stopped" \/ (stage[p] = "enter" /\ Serving(p) = 0) \/ OutAt(p)
<1>1. TypeOK /\ Placed /\ PositionAt(r) /\ plan' = plan
  BY PlanKept DEF IInv, Placed, PositionOK
<1>2. request[r] \in Nat /\ Serving(r) \in Ranks
  BY <1>1, Active
<1>3. \A p \in Ranks : Known(p)
  BY DEF IInv, OutOK
<1>4. ASSUME NEW p \in Ranks, p # r
      PROVE  Known(p)'
  <2>1. /\ stage'[p] = stage[p] /\ request'[p] = request[p] /\ out'[p] = out[p]
        /\ Serving(p)' = Serving(p)
    BY <1>1, <1>4, Others DEF Serving
  <2>2. CASE stage[p] = "stopped" \/ (stage[p] = "enter" /\ Serving(p) = 0)
    BY <2>1, <2>2
  <2>3. CASE OutAt(p)
    BY <1>1, <2>1, <2>3 DEF OutAt, Wanted
  <2> QED
    BY <1>3, <2>2, <2>3
<1>5. Known(r)'
  <2> DEFINE Before == {"enter", "scatter", "forward", "gather", "publishing", "published"}
             Done == {"clear", "arrive"}
  <2>1. ASSUME ~Leave(r), stage[r] # "stopped", OutAt(r), out'[r] = out[r],
               \/ Serving(r) # r
               \/ stage[r] \in Before /\ stage'[r] \in Before
               \/ stage[r] \in Done /\ stage'[r] \in Done
        PROVE  Known(r)'
    <3>1. request' = request /\ Serving(r)' = Serving(r)
      BY <2>1, Stays DEF Serving
    <3> QED
      BY <1>1, <2>1, <3>1 DEF OutAt, Wanted, Stages
  <2>2. stage[r] \notin {"enter", "stopped"} => OutAt(r)
    BY <1>3
  <2>3. CASE Enter(r)
    <3>1. /\ stage[r] = "enter" /\ request' = request /\ Serving(r)' = Serving(r)
          /\ stage'[r] = IF plan[request[r]] = "empty" THEN "arrive" ELSE "scatter"
          /\ out'[r] = IF Serving(r) = 0 THEN Zero ELSE out[r]
      BY <1>1, <2>3 DEF Enter, Serving, TypeOK
    <3>2. Serving(r) < r => out'[r] = Zero
      BY <1>3, <3>1 DEF OutAt
    <3>3. Serving(r) > r => out'[r] = Wanted(request[r] - Serving(r) + r)
      <4>1. Serving(r) > r => Serving(r) # 0
        BY <1>2 DEF Ranks
      <4> QED
        BY <1>3, <3>1, <4>1 DEF OutAt
    <3>4. Serving(r) = r => out'[r] = Zero
      BY <1>3, <3>1 DEF OutAt, Stages
    <3>5. plan[request[r]] = "empty" => Wanted(request[r]) = Zero
      BY DEF Wanted
    <3> QED
      BY <1>1, <3>1, <3>2, <3>3, <3>4, <3>5 DEF OutAt, Wanted
  <2>4. CASE Forward(r)
    <3>1. /\ stage[r] = "forward" /\ ~Leave(r)
          /\ stage'[r] = IF control[r].accept THEN "gather" ELSE "arrive"
          /\ out'[r] = IF ~control[r].accept /\ r = Serving(r) THEN NaN ELSE out[r]
      BY <1>1, <2>4, Leaves DEF Forward, TypeOK
    <3>2. CASE control[r].accept \/ r # Serving(r)
      BY <2>1, <2>2, <3>1, <3>2
    <3>3. CASE ~control[r].accept /\ r = Serving(r)
      <4>1. plan[request[r]] = "refused"
        <5>1. plan[request[r]] \in Kinds
          BY <1>1, <3>1, Active DEF TypeOK
        <5> QED
          BY <1>1, <3>1, <3>3, <5>1, Received, KindsAssumption DEF PositionAt
      <4>2. request' = request /\ Serving(r)' = Serving(r)
        BY <3>1, Stays DEF Serving
      <4>3. Wanted(request[r])' = NaN
        BY <1>1, <4>1, <4>2 DEF Wanted, NaN
      <4> QED
        BY <1>2, <3>1, <3>3, <4>2, <4>3 DEF OutAt, Ranks
    <3> QED
      BY <3>2, <3>3
  <2>5. CASE StartPublish(r)
    <3>1. /\ stage[r] = "gather" /\ ~Leave(r) /\ stage'[r] = "publishing"
          /\ out'[r] = IF Blanked(r) THEN Zero ELSE out[r]
      BY <1>1, <2>5, Leaves DEF StartPublish, TypeOK
    <3>2. Blanked(r) <=> Serving(r) = r
      BY <3>1, Received DEF Blanked, Serving, Owner
    <3>3. request' = request /\ Serving(r)' = Serving(r)
      BY <3>1, Stays DEF Serving
    <3>4. CASE Serving(r) = r
      BY <1>2, <3>1, <3>2, <3>3, <3>4 DEF OutAt, Ranks
    <3>5. CASE Serving(r) # r
      BY <2>1, <2>2, <3>1, <3>2, <3>5
    <3> QED
      BY <3>4, <3>5
  <2>6. CASE Collect(r)
    <3>1. /\ stage[r] = "published" /\ ~Leave(r) /\ stage'[r] = "restore"
          /\ out'[r] = out[r] /\ r = Serving(r)
      BY <1>1, <2>6, Leaves DEF Collect, TypeOK
    <3>2. out[r] = Zero
      BY <2>2, <3>1 DEF OutAt, Stages
    <3>3. request' = request /\ Serving(r)' = Serving(r)
      BY <3>1, Stays DEF Serving
    <3> QED
      BY <1>2, <3>1, <3>2, <3>3 DEF OutAt, Zero, Ranks
  <2>7. CASE \E s \in Segments : Restore(r, s)
    <3>1. PICK s \in Segments : Restore(r, s)
      BY <2>7
    <3>2. /\ stage[r] = "restore" /\ ~Leave(r) /\ stage'[r] = "restore" /\ r = Serving(r)
          /\ \A t \in Segments : out'[r][t] = IF t = s THEN Row(request[r], s) ELSE out[r][t]
      BY <1>1, <3>1, Leaves, Restores DEF Restore, TypeOK, PositionAt
    <3>3. \A t \in Segments : out[r][t] \in {ZeroRow, Row(request[r], t)}
      BY <2>2, <3>2 DEF OutAt
    <3>4. request' = request /\ Serving(r)' = Serving(r)
      BY <3>2, Stays DEF Serving
    <3> QED
      BY <1>2, <3>2, <3>3, <3>4 DEF OutAt, Ranks
  <2>8. CASE Restored(r)
    <3>1. /\ stage[r] = "restore" /\ ~Leave(r) /\ stage'[r] = "clear" /\ r = Serving(r)
          /\ out'[r] = out[r] /\ \A t \in Segments : out[r][t] # ZeroRow
          /\ plan[request[r]] = "served"
      BY <1>1, <2>8, Leaves DEF Restored, TypeOK, PositionAt, ServedStages
    <3>2. \A t \in Segments : out[r][t] = Row(request[r], t)
      BY <2>2, <3>1 DEF OutAt
    <3>3. out[r] = Wanted(request[r])
      <4>1. out[r] = [t \in Segments |-> out[r][t]]
        BY <1>1 DEF TypeOK
      <4>2. Wanted(request[r]) = [t \in Segments |-> Row(request[r], t)]
        BY <3>1 DEF Wanted
      <4> QED
        BY <3>2, <4>1, <4>2
    <3>4. request' = request /\ Serving(r)' = Serving(r)
      BY <3>1, Stays DEF Serving
    <3> QED
      BY <1>1, <1>2, <3>1, <3>3, <3>4 DEF OutAt, Wanted, Ranks
  <2>9. CASE Leave(r)
    <3>1. /\ request'[r] = request[r] + 1 /\ out'[r] = out[r] /\ stage[r] = "arrive"
          /\ stage'[r] \in {"stopped", "enter"}
      BY <2>9, Leaves
    <3>2. Serving(r)' = IF Serving(r) + 1 = CPSize THEN 0 ELSE Serving(r) + 1
      BY <1>2, <3>1, OwnerFacts DEF Serving
    <3>3. OutAt(r)
      BY <2>2, <3>1
    <3>4. CASE Serving(r)' = 0
      BY <3>1, <3>4
    <3>5. CASE Serving(r)' = Serving(r) + 1
      <4>1. Serving(r) < r => out[r] = Zero
        BY <3>3 DEF OutAt
      <4>2. Serving(r) >= r => out[r] = Wanted(request[r] - Serving(r) + r)
        BY <1>2, <3>1, <3>3 DEF OutAt, Ranks
      <4>3. request'[r] - Serving(r)' + r = request[r] - Serving(r) + r
        BY <1>2, <3>1, <3>5 DEF Ranks
      <4>4. (Wanted(request[r] - Serving(r) + r))' = Wanted(request[r] - Serving(r) + r)
        BY <1>1, <4>3 DEF Wanted
      <4> QED
        BY <1>2, <3>1, <3>5, <4>1, <4>2, <4>4 DEF OutAt, Ranks
    <3> QED
      BY <3>2, <3>4, <3>5
  <2>10. CASE \E p \in Ranks : StartSend(r, p) \/ FinishSend(r, p)
    <3>1. stage[r] = "scatter" /\ ~Leave(r) /\ stage' = stage /\ out' = out
      BY <1>1, <2>10, Leaves DEF StartSend, FinishSend, PositionAt
    <3> QED
      BY <2>1, <2>2, <3>1
  <2>11. CASE Receive(r) \/ ClearReady(r) \/ Scattered(r)
    <3>1. stage[r] = "scatter" /\ ~Leave(r) /\ stage'[r] \in {"scatter", "forward"} /\ out' = out
      BY <1>1, <2>11, Leaves DEF Receive, ClearReady, Scattered, PositionAt, TypeOK
    <3> QED
      BY <2>1, <2>2, <3>1
  <2>12. CASE FinishPublish(r)
    BY <1>1, <2>1, <2>2, <2>12, Leaves DEF FinishPublish, TypeOK
  <2>13. CASE NotifyOwner(r)
    BY <1>1, <2>1, <2>2, <2>13, Leaves DEF NotifyOwner, TypeOK
  <2>14. CASE ClearComplete(r)
    BY <1>1, <2>1, <2>2, <2>14, Leaves DEF ClearComplete, TypeOK
  <2>15. CASE Arrive(r) /\ ~Leave(r)
    BY <1>1, <2>1, <2>2, <2>15 DEF Arrive, TypeOK
  <2> QED
    BY <2>3, <2>4, <2>5, <2>6, <2>7, <2>8, <2>9, <2>10, <2>11, <2>12, <2>13, <2>14, <2>15
       DEF RankStep
<1> HIDE DEF Known
<1>6. \A p \in Ranks : Known(p)'
  BY <1>4, <1>5
<1> QED
  BY <1>6 DEF OutOK, Known

-----------------------------------------------------------------------------
(* The theorems.                                                           *)

LEMMA InitIInv == Init => IInv
<1> SUFFICES ASSUME Init PROVE IInv
  OBVIOUS
<1>1. /\ request = [r \in Ranks |-> 0] /\ waiting = [r \in Ranks |-> FALSE]
      /\ stage = [r \in Ranks |-> IF Requests = 0 THEN "stopped" ELSE "enter"]
      /\ block = [r \in Ranks |-> [p \in Ranks |-> "idle"]]
  BY DEF Init, Barrier!Init
<1>2. TypeOK
  <2>1. Zero \in [Segments -> Rows \cup {ZeroRow, NaNRow}]
    BY DEF Zero
  <2>2. NoRow \in Rows /\ Torn \in [request : -1 .. Requests - 1, accept : BOOLEAN]
        /\ NoRequest \in -1 .. Requests - 1
    BY RequestsAssumption, CPSizeAssumption
       DEF NoRow, Rows, NoRequest, Segments, NumSegments, Torn
  <2> QED
    BY <1>1, <2>1, <2>2, RequestsAssumption DEF Init, TypeOK, Stages
<1>3. RequestsSeparated
  BY <1>1 DEF RequestsSeparated
<1>4. PositionOK
  BY <1>1 DEF PositionOK, PositionAt, Peers, ServedStages
<1>5. ASSUME NEW p \in Ranks, NEW n \in {0, 1}
      PROVE  ~Sent(n, p)
  <2>1. Owner(n) \in Ranks
    BY OwnerFacts
  <2> QED
    BY <1>1, <2>1, RequestsAssumption DEF Sent, After
<1>6. SentOK
  BY <1>1 DEF SentOK, ReceivedAt, After
<1>7. ReadyOK
  <2>1. \A p, x \in Ranks : ready[p][x] = 0
    BY DEF Init
  <2>2. \A p, x \in Ranks : ~Announcing(p, x)
    BY <1>1, <1>5 DEF Announcing, Pending
  <2> QED
    BY <2>1, <2>2 DEF ReadyOK
<1>8. EntryOK
  BY <1>1, <1>5 DEF EntryOK, EntryAt, Pending
<1>9. ReceivedExact
  BY <1>1 DEF ReceivedExact
<1>10. CompleteOK
  <2>1. \A o, p \in Ranks : complete[o][p] = 0
    BY DEF Init
  <2>2. \A o, p \in Ranks : ~(Awaited(o) /\ Notified(o, p))
    BY <1>1 DEF Awaited, Notified
  <2> QED
    BY <2>1, <2>2 DEF CompleteOK
<1>11. CollectedOK
  BY <1>1 DEF CollectedOK
<1>12. SlabOK
  BY <1>1 DEF SlabOK
<1>13. OutOK
  <2>1. \A r \in Ranks : out[r] = Zero
    BY DEF Init
  <2>2. \A r \in Ranks : Serving(r) = 0
    BY <1>1, CPSizeAssumption DEF Serving, Owner
  <2> QED
    BY <1>1, <2>1, <2>2 DEF OutOK
<1> QED
  BY <1>2, <1>3, <1>4, <1>6, <1>7, <1>8, <1>9, <1>10, <1>11, <1>12, <1>13 DEF IInv

LEMMA NextIInv == IInv /\ [Next]_vars => IInv'
<1> SUFFICES ASSUME IInv, [Next]_vars PROVE IInv'
  OBVIOUS
<1>1. ASSUME NEW r \in Ranks, RankStep(r)
      PROVE  IInv'
  BY <1>1, TypeStep, SeparatedStep, PositionStep, SentStep, ReadyStep, EntryStep,
     ReceivedStep, CompleteStep, CollectedStep, SlabStep, OutStep DEF IInv
<1>2. CASE UNCHANGED vars
  <2> USE <1>2 DEF vars
  <2>1. TypeOK' /\ RequestsSeparated' /\ PositionOK'
    BY DEF IInv, TypeOK, RequestsSeparated, PositionOK, PositionAt, Serving
  <2>3. SentOK'
    BY DEF IInv, SentOK, ReceivedAt, Sent
  <2>4. ReadyOK'
    BY DEF IInv, ReadyOK, Announcing, Pending, Sent, Took
  <2>5. EntryOK'
    BY DEF IInv, EntryOK, EntryAt, Pending, Sent, Took, Header
  <2>6. ReceivedExact'
    BY DEF IInv, ReceivedExact, Header
  <2>7. CompleteOK' /\ CollectedOK' /\ SlabOK'
    BY DEF IInv, CompleteOK, CollectedOK, SlabOK, Awaited, Notified, Serving
  <2>8. OutOK'
    BY DEF IInv, OutOK, OutAt, Serving, Wanted
  <2> QED
    BY <2>1, <2>3, <2>4, <2>5, <2>6, <2>7, <2>8 DEF IInv
<1> QED
  BY <1>1, <1>2 DEF Next, Stopped

\* IInv holds in every reachable state, for every group size, number of
\* requests and sequence of served, refused and empty ones.
THEOREM InvariantCorrect == Spec => []IInv
  BY InitIInv, NextIInv, PTL DEF Spec

\* Every variable keeps its type: in particular no signal counter exceeds one,
\* so a retained bank never accumulates notifications of two requests.
THEOREM TypeCorrect == Spec => []TypeOK
<1>1. IInv => TypeOK
  BY DEF IInv
<1> QED
  BY <1>1, InvariantCorrect, PTL

\* Every rank works on the header and the rows that the owner of its request
\* scattered, and so decides as the owner does whether it is served.
THEOREM ReceivedCorrect == Spec => []ReceivedExact
<1>1. IInv => ReceivedExact
  BY DEF IInv
<1> QED
  BY <1>1, InvariantCorrect, PTL

\* An owner's output holds its own request, complete and in logical order,
\* until the host call is over.
THEOREM OutputsCorrect == Spec => []OutputsSurvive
<1>1. IInv => OutputsSurvive
  <2> SUFFICES ASSUME IInv, NEW r \in Ranks, stage[r] # "enter", request[r] < Requests,
                      NEW q \in CallSoFar(request[r]), Owner(q) = r,
                      q <= IF waiting[r] \/ stage[r] = "stopped" THEN request[r]
                           ELSE request[r] - 1
               PROVE  out[r] = Wanted(q)
    BY DEF OutputsSurvive
  <2>1. TypeOK /\ Placed /\ PositionAt(r)
    BY DEF IInv, Placed, PositionOK
  <2>2. request[r] \in Nat /\ Serving(r) \in Ranks /\ stage[r] # "stopped"
    BY <2>1, Active, RequestsAssumption DEF PositionAt
  <2>3. q \in 0 .. request[r] /\ q \div CPSize = request[r] \div CPSize
    BY DEF CallSoFar
  <2>4. q = request[r] - Serving(r) + r
    BY <2>2, <2>3, SameCall DEF Serving
  <2>5. OutAt(r)
    BY <2>2 DEF IInv, OutOK
  <2>6. CASE q = request[r]
    <3>1. stage[r] = "arrive" /\ Serving(r) = r
      BY <2>1, <2>2, <2>6 DEF PositionAt, Serving
    <3> QED
      BY <2>5, <2>6, <3>1 DEF OutAt
  <2>7. CASE q # request[r]
    <3>1. Serving(r) > r
      BY <2>2, <2>3, <2>4, <2>7 DEF Ranks
    <3> QED
      BY <2>4, <2>5, <3>1 DEF OutAt
  <2> QED
    BY <2>6, <2>7
<1> QED
  BY <1>1, InvariantCorrect, PTL

\* What a rank finds in its ready bank when it clears it.
LEMMA ReadyBank ==
    ASSUME IInv, NEW r \in Ranks, block[r][r] = "received", NEW p \in Ranks
    PROVE  ready[r][p] = IF p = Serving(r) /\ p # r THEN 1 ELSE 0
<1>1. TypeOK /\ Placed /\ PositionAt(r)
  BY DEF IInv, Placed, PositionOK
<1>2. stage[r] = "scatter" /\ request[r] \in Nat
  BY <1>1, Active DEF PositionAt
<1>3. Pending(request[r], r)
  BY <1>2 DEF IInv, SentOK, ReceivedAt, Pending, Took, After
<1>4. ~Pending(request[r] + 1, r)
  BY <1>1, <1>2, NobodyAhead DEF Pending
<1>5. Announcing(r, p) <=> p = Serving(r) /\ p # r
  BY <1>3, <1>4 DEF Announcing, Serving
<1> QED
  BY <1>5 DEF IInv, ReadyOK

\* What a rank finds in its gather bank when it clears it.
LEMMA GatherBank ==
    ASSUME IInv, NEW r \in Ranks, stage[r] = "clear", NEW p \in Ranks
    PROVE  complete[r][p] = IF r = Serving(r) /\ p # r THEN 1 ELSE 0
<1>1. TypeOK /\ Placed /\ PositionAt(r)
  BY DEF IInv, Placed, PositionOK
<1>2. Awaited(r) <=> r = Serving(r)
  BY <1>1, Active, RequestsAssumption DEF Awaited, PositionAt, ServedStages
<1>3. Awaited(r) /\ p # r => Notified(r, p)
  BY DEF IInv, CollectedOK, Awaited, Peers
<1> QED
  BY <1>2, <1>3 DEF IInv, CompleteOK

\* A rank clears its signal banks when they hold exactly the notifications of
\* the request it is in: none of another request, and none is still to come.
THEOREM ClearsCorrect == Spec => ClearsExactly
<1> DEFINE Clears ==
             \A r \in Ranks :
               /\ block[r][r] = "received" /\ block'[r][r] = "cleared" =>
                    ready[r] = [p \in Ranks |-> IF p = Serving(r) /\ p # r THEN 1 ELSE 0]
               /\ stage[r] = "clear" /\ stage'[r] = "arrive" =>
                    complete[r] = [p \in Ranks |-> IF r = Serving(r) /\ p # r THEN 1 ELSE 0]
<1>1. IInv => Clears
  <2> SUFFICES ASSUME IInv, NEW r \in Ranks
               PROVE  /\ block[r][r] = "received" =>
                           ready[r] = [p \in Ranks |-> IF p = Serving(r) /\ p # r THEN 1 ELSE 0]
                      /\ stage[r] = "clear" =>
                           complete[r] = [p \in Ranks |-> IF r = Serving(r) /\ p # r THEN 1 ELSE 0]
    OBVIOUS
  <2>1. ready[r] = [p \in Ranks |-> ready[r][p]] /\ complete[r] = [p \in Ranks |-> complete[r][p]]
    BY DEF IInv, TypeOK
  <2> QED
    BY <2>1, ReadyBank, GatherBank
<1>2. IInv /\ [Next]_vars => [Clears]_vars
  BY <1>1
<1> QED
  BY <1>2, InvariantCorrect, PTL DEF Spec, ClearsExactly
=============================================================================
