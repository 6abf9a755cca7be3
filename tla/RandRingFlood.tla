---------------------------- MODULE RandRingFlood ----------------------------
(***************************************************************************)
(* RandRing with two history variables that forget a flood once every      *)
(* message of it was delivered or thrown out: is the order of messages     *)
(* restored when the flood is over?                                        *)
(***************************************************************************)
EXTENDS RandRing, TLC

CONSTANT p1
FiveCalls == p1 :> 5

VARIABLES
  burst,  \* the calls claimed since the ring was last quiet
  since   \* how many messages had been delivered then

\* Nothing is in a bucket or on its way into one, and nothing is popped.
Quiet == /\ InBuckets = {}
         /\ popped = NIL
         /\ \A p \in Producers : pc[p] # "swap"

Track ==
  IF claimed' = claimed
    THEN UNCHANGED <<burst, since>>
    ELSE LET c == claimed'[Len(claimed')] IN
         /\ burst' = IF Quiet THEN <<c>> ELSE Append(burst, c)
         /\ since' = IF Quiet THEN Len(delivered) ELSE since

FloodSpec ==
  /\ Init /\ burst = <<>> /\ since = 0
  /\ [][Next /\ Track]_<<vars, burst, since>>

\* "For nanozap, the random order only happens when there is a flood"
\* (nanozap.go:35): as long as no more than N messages were claimed since the
\* ring was last quiet, those delivered since come in the order of their
\* tickets.
OrderOutsideFlood ==
  Len(burst) <= N =>
    /\ Len(delivered) - since <= Len(burst)
    /\ \A i \in 1..(Len(delivered) - since) : delivered[since + i] = burst[i]
=============================================================================
