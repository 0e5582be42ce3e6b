------------------------------ MODULE CPLayout ------------------------------
(***************************************************************************)
(* Zigzag ownership of a context-parallel prefill request.  A request is   *)
(* cut into 2*CPSize logical segments; rank r computes segments r and      *)
(* 2*CPSize-1-r, its two local parts.  Windows are laid out rank-major:    *)
(* lane 2*r+p holds part p of rank r.                                      *)
(***************************************************************************)
EXTENDS Integers

CONSTANT CPSize          \* ranks of one context-parallel group (CP_SIZE)

ASSUME CPSizeAssumption == CPSize \in Nat \ {0}

Ranks == 0 .. CPSize - 1

LocalParts == {0, 1}

NumSegments == 2 * CPSize

Segments == 0 .. NumSegments - 1

Lanes == 0 .. NumSegments - 1

\* The rank and the local part that compute logical segment s.
OwnerRank(s) == IF s < CPSize THEN s ELSE NumSegments - 1 - s

OwnerPart(s) == IF s < CPSize THEN 0 ELSE 1

\* The logical segment that part p of rank r computes.
LocalSegment(r, p) == IF p = 0 THEN r ELSE NumSegments - 1 - r

\* The window lane part p of rank r publishes to, on every peer.
Lane(r, p) == 2 * r + p

\* The window lane a reader takes logical segment s from.
ReverseIndex(s) == 2 * OwnerRank(s) + OwnerPart(s)
=============================================================================
