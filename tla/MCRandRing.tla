----------------------------- MODULE MCRandRing -----------------------------
(***************************************************************************)
(* Instances of RandRing for TLC.                                          *)
(***************************************************************************)
EXTENDS RandRing, TLC

CONSTANTS p1, p2

\* One goroutine laps the other, which may stall in its push.
ThreeAndOne == (p1 :> 3) @@ (p2 :> 1)
=============================================================================
