------------------------- MODULE CPTailExchangeInv -------------------------
(***************************************************************************)
(* The inductive invariant of CPTailExchange: what every counter, lane and *)
(* program position of one rank says about every other rank.  The parts    *)
(* are stated for one rank or one ordered pair of ranks.                   *)
(***************************************************************************)
EXTENDS CPTailExchange

AllIdle == [p \in Ranks |-> "idle"]

NothingSeen == [s \in Segments |-> NotRead]

-----------------------------------------------------------------------------
(* Positions and the request barrier.                                      *)

\* A rank's position agrees with the request it serves, and the bookkeeping of
\* its loops with its position.
PositionAt(r) ==
    /\ stage[r] = "stopped" <=> request[r] = Requests
    /\ stage[r] = "history" => plan[request[r]] = "chunk" /\ layer[r] < 2
    /\ stage[r] \in {"tail", "retire", "clear"} => plan[request[r]] # "skip"
    /\ stage[r] = "arrive" => plan[request[r]] = "skip"
    /\ stage[r] \in {"history", "tail", "barrier"} => looped[r] \subseteq Peers(r)
    /\ stage[r] \in {"retire", "arrive", "stopped"} => looped[r] = {}
    /\ ~Exchanging(r) => block[r] = AllIdle /\ seen[r] = NothingSeen

PositionOK == \A r \in Ranks : PositionAt(r)

\* A barrier counter counts the requests its source has arrived at.
ArrivalsAt(r, p) ==
    arrivals[r][p] =
        IF stage[p] = "barrier" /\ (p = r \/ r \in looped[p])
        THEN request[p] + 1 ELSE request[p]

ArrivalsOK == \A r, p \in Ranks : ArrivalsAt(r, p)

BarrierInv == TypeOK /\ PositionOK /\ ArrivalsOK /\ RequestsSeparated

-----------------------------------------------------------------------------
(* Credits.                                                                *)

\* Phases a rank's request takes, and how many of them the rank has behind it.
Total(r) ==
    IF request[r] = Requests \/ plan[request[r]] = "skip" THEN 0 ELSE TailCompleted(r)

Behind(r) ==
    IF Exchanging(r) THEN Epoch(r)
    ELSE IF stage[r] \in {"retire", "clear", "barrier"} THEN Total(r) ELSE 0

\* Announcements, and releases, r has sent p in the request r is serving.
Announced(r, p) ==
    IF Exchanging(r) /\ block[r][p] = "done" THEN Behind(r) + 1 ELSE Behind(r)

Released(r, p) ==
    IF Exchanging(r) /\ p \in looped[r] THEN Behind(r) + 1 ELSE Behind(r)

Cleared(r, p) ==
    \/ stage[r] = "clear" /\ p \in looped[r]
    \/ stage[r] \in {"arrive", "barrier", "stopped"}

\* r's slots for p hold nothing of the request p is serving: p is still in the
\* request before, or r has retired this one.
Silent(r, p) ==
    request[p] < request[r] \/ (request[p] = request[r] /\ Cleared(r, p))

CountersAt(r, p) ==
    /\ ready[r][p] = IF Silent(r, p) THEN 0 ELSE Announced(p, r)
    /\ consumed[r][p] = IF Silent(r, p) THEN 0 ELSE Released(p, r)

CountersOK == \A r \in Ranks : \A p \in Peers(r) : CountersAt(r, p)

\* Blocks take the states their phase has, and start with their peer's credit.
BlockAt(r, p) ==
    /\ stage[r] = "tail" => block[r][p] # "put"
    /\ stage[r] = "history" /\ block[r][p] \in {"putting", "put"} => r = Owner(request[r])
    /\ Exchanging(r) /\ block[r][p] # "idle" => Credit(r, p)

BlocksOK == \A r, p \in Ranks : BlockAt(r, p)

\* Reading starts when every peer has announced, releasing when all is read.
ReadAt(r) ==
    Exchanging(r) =>
        /\ (\E s \in Segments : seen[r][s] # NotRead) => AllReady(r)
        /\ looped[r] # {} => Gathered(r)

ReadsOK == \A r \in Ranks : ReadAt(r)

\* No rank is past a phase a peer has not announced to it.
NotOvertaken(r, p) ==
    /\ request[p] = request[r] => Announced(p, r) >= Behind(r)
    /\ request[p] < request[r] => Behind(r) = 0

NoneOvertaken == \A r \in Ranks : \A p \in Peers(r) : NotOvertaken(r, p)

\* A rank clears only when a peer has sent it its last notice.
RetiredAfter(r, p) ==
    stage[r] \in {"clear", "barrier"} /\ plan[request[r]] # "skip" =>
        /\ request[p] >= request[r]
        /\ request[p] = request[r] => Released(p, r) = Total(p)

RetiredAfterAll == \A r \in Ranks : \A p \in Peers(r) : RetiredAfter(r, p)

CreditInv == CountersOK /\ BlocksOK /\ ReadsOK /\ NoneOvertaken /\ RetiredAfterAll

-----------------------------------------------------------------------------
(* Windows.                                                                *)

\* The request and epoch whose rows r's window has to hold next.
Wants(r) == Exchanging(r) \/ stage[r] = "barrier"

WantedRequest(r) == IF Exchanging(r) THEN request[r] ELSE request[r] + 1

WantedEpoch(r) ==
    IF ~Exchanging(r) THEN 0 ELSE IF looped[r] = {} THEN Epoch(r) ELSE Epoch(r) + 1

HistoryEpoch(q, e) == plan[q] = "chunk" /\ e \in {0, 2}

Row(q, e, s) == [request |-> q, epoch |-> e, seg |-> s]

\* What p has put into r's window for the phase r wants next.
PeerLanes(r, p) ==
    Wants(r) /\ request[p] = WantedRequest(r) /\ WantedRequest(r) < Requests =>
        /\ ~HistoryEpoch(request[p], WantedEpoch(r)) /\ Announced(p, r) > WantedEpoch(r) =>
             \A part \in LocalParts :
                window[r][Lane(p, part)] =
                    Row(request[p], WantedEpoch(r), LocalSegment(p, part))
        /\ /\ HistoryEpoch(request[p], WantedEpoch(r)) /\ p = Owner(request[p])
           /\ \/ Announced(p, r) > WantedEpoch(r)
              \/ Exchanging(p) /\ Epoch(p) = WantedEpoch(r) /\ block[p][r] = "put"
           => window[r][0] = Row(request[p], WantedEpoch(r), HistorySeg)

\* What r has put into its own window for the phase it is in.
OwnLanes(r) ==
    looped[r] = {} =>
        /\ stage[r] = "tail" /\ block[r][r] = "done" =>
             \A part \in LocalParts :
                 window[r][Lane(r, part)] = Row(request[r], Epoch(r), LocalSegment(r, part))
        /\ stage[r] = "history" /\ block[r][r] = "put" =>
             window[r][0] = Row(request[r], Epoch(r), HistorySeg)

WindowInv ==
    /\ \A r \in Ranks : OwnLanes(r)
    /\ \A r \in Ranks : \A p \in Peers(r) : PeerLanes(r, p)

\* The conjunction that every step preserves.
IInv == BarrierInv /\ CreditInv /\ WindowInv /\ GatherExact
=============================================================================
