----------------------------- MODULE PlainDecode -----------------------------
(***************************************************************************)
(* What decoding promises: a request that holds a slot is answered with    *)
(* the tokens the model continues its prompt with, in order, whatever      *)
(* other requests hold that slot before or after it.                       *)
(***************************************************************************)
EXTENDS Integers, Sequences

CONSTANTS
    Slots,      \* slots of the serving state
    Requests,   \* requests, numbered from 1
    Prompt      \* tokens of a prompt; prefill answers the one after it

VARIABLES
    owner,      \* owner[s]: the request that holds slot s, or 0
    assigned,   \* requests given a slot so far
    out         \* out[q]: tokens decoding has answered request q with

\* The token the model, sampling at the request's own temperature and seed,
\* puts at position p of request q.
Token(q, p) == [request |-> q, at |-> p]

Init ==
    /\ owner = [s \in Slots |-> 0]
    /\ assigned = 0
    /\ out = [q \in 1 .. Requests |-> <<>>]

Assign(s) ==
    /\ owner[s] = 0 /\ assigned < Requests
    /\ assigned' = assigned + 1
    /\ owner' = [owner EXCEPT ![s] = assigned + 1]
    /\ UNCHANGED out

Release(s) ==
    /\ owner[s] # 0
    /\ owner' = [owner EXCEPT ![s] = 0]
    /\ UNCHANGED <<assigned, out>>

\* The next n tokens of request q.
Following(q, n) == [i \in 1 .. n |-> Token(q, Prompt + Len(out[q]) + i)]

\* One decode step: a request in a slot gets one more token, or two.
Step ==
    \E more \in [1 .. Requests -> 0 .. 2] :
        /\ \A q \in 1 .. Requests : more[q] > 0 => \E s \in Slots : owner[s] = q
        /\ out' = [q \in 1 .. Requests |-> out[q] \o Following(q, more[q])]
        /\ UNCHANGED <<owner, assigned>>

Next == (\E s \in Slots : Assign(s) \/ Release(s)) \/ Step

Spec == Init /\ [][Next]_<<owner, assigned, out>>
=============================================================================
