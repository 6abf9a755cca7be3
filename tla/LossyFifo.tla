------------------------------ MODULE LossyFifo ------------------------------
(***************************************************************************)
(* What the ring of a Logger promises to those who log and to the core: a  *)
(* bounded queue that is first in, first out until it first overflows, and *)
(* from then on a bag that may lose messages and give them out in any      *)
(* order.  A message is given out at most once, and only if it was         *)
(* accepted; none is lost before the first overflow.                       *)
(***************************************************************************)
EXTENDS Integers, Sequences

CONSTANTS
  Calls,  \* the messages
  N       \* the capacity

VARIABLES
  accepted,  \* the messages accepted, in order
  inbox,     \* those neither written nor lost
  written,   \* those given out, in order
  flood      \* more than N messages have been outstanding at once

vars == <<accepted, inbox, written, flood>>

Init ==
  /\ accepted = <<>>
  /\ inbox = {}
  /\ written = <<>>
  /\ flood = FALSE

\* The message being written still counts as outstanding to the reader of
\* this specification but no longer to the ring, hence N + 1.
Accept(c) ==
  /\ \A i \in DOMAIN accepted : accepted[i] # c
  /\ accepted' = Append(accepted, c)
  /\ inbox' = inbox \union {c}
  /\ flood' \in BOOLEAN
  /\ flood => flood'
  /\ flood' => flood \/ Len(accepted') - Len(written) > N
  /\ ~flood' => Len(accepted') - Len(written) <= N + 1
  /\ UNCHANGED written

Write(c) ==
  /\ c \in inbox
  /\ ~flood => /\ Len(written) < Len(accepted)
               /\ c = accepted[Len(written) + 1]
  /\ inbox' = inbox \ {c}
  /\ written' = Append(written, c)
  /\ UNCHANGED <<accepted, flood>>

Lose(c) ==
  /\ c \in inbox
  /\ flood
  /\ inbox' = inbox \ {c}
  /\ UNCHANGED <<accepted, written, flood>>

Next == \E c \in Calls : Accept(c) \/ Write(c) \/ Lose(c)

Spec == Init /\ [][Next]_vars
=============================================================================
