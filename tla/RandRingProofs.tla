--------------------------- MODULE RandRingProofs ---------------------------
(***************************************************************************)
(* Theorems about RandRing for every number of producers, bodies and       *)
(* buckets: who owns a body, what is delivered and how often, the order up *)
(* to the first flood, and that the ring implements a lossy queue.         *)
(***************************************************************************)
EXTENDS RandRing, TLAPS, FiniteSetTheorems, FunctionTheorems

(***************************************************************************)
(* The inductive invariant.  OneOwner is not inductive as it stands: that  *)
(* a step moves a body and does not copy it depends on where each          *)
(* goroutine is in its code.                                               *)
(***************************************************************************)

\* A producer owns a body exactly while it is inside a call, the consumer
\* exactly from a successful pop to the free.
HandsMatchStages ==
  /\ \A p \in Producers : pc[p] = "idle" <=> hand[p] = NIL
  /\ cpc \in {"write", "free"} <=> popped # NIL

\* A body that can still be delivered holds the message of a call that has
\* begun.
ContentIsCall ==
  /\ \A p \in Producers :
       pc[p] \in {"fill", "claim", "swap"} => calls[p] >= 1
  /\ \A p \in Producers :
       pc[p] \in {"claim", "swap"} => content[hand[p]] \in Calls
  /\ \A i \in Slots : buckets[i] # NIL => content[buckets[i]] \in Calls
  /\ cpc = "write" => content[popped] \in Calls

\* OneOwner without the sets.
Disjoint ==
  /\ \A i, j \in Slots :
       i # j /\ buckets[i] # NIL => buckets[i] # buckets[j]
  /\ \A p, q \in Producers : p # q /\ hand[p] # NIL => hand[p] # hand[q]
  /\ \A i \in Slots, p \in Producers :
       buckets[i] # NIL => buckets[i] # hand[p]
  /\ \A i \in Slots : popped # NIL => popped # buckets[i]
  /\ \A p \in Producers : popped # NIL => popped # hand[p]
  /\ \A i \in Slots : buckets[i] \notin pool
  /\ \A p \in Producers : hand[p] \notin pool
  /\ popped \notin pool

IInv == TypeOK /\ HandsMatchStages /\ ContentIsCall /\ Disjoint

-----------------------------------------------------------------------------

\* A ticket selects a bucket of the ring.
LEMMA SlotInRange == ASSUME NEW t \in Nat PROVE Slot(t) \in Slots
  BY RingAssumption, SMT DEF Slot, Slots

\* A counter of the ring stays a uint64.
LEMMA StaysUint == ASSUME NEW t \in Nat PROVE (t + 1) % W \in 0..(W - 1)
  BY RingAssumption, SMT

\* The call a producer is in is one of its calls.
LEMMA CallInRange ==
  ASSUME NEW p \in Producers, NEW k \in Nat, 1 <= k, k <= MaxCalls[p]
  PROVE  <<p, k>> \in Calls
<1>1. k \in 1..MaxCalls[p]
  BY RingAssumption
<1> QED
  BY <1>1 DEF Calls

\* A body GetBody may take belongs to nobody.
LEMMA FreshBody ==
  ASSUME TypeOK, NEW b \in pool \union Unallocated, Disjoint
  PROVE  /\ b \in Bodies /\ b # NIL
         /\ \A i \in Slots : buckets[i] # b
         /\ \A p \in Producers : hand[p] # b
         /\ popped # b
<1>1. b \in Bodies /\ b # NIL
  BY RingAssumption DEF TypeOK, Unallocated
<1>2. CASE b \in pool
  BY <1>1, <1>2 DEF Disjoint
<1>3. CASE b \in Unallocated
  BY <1>1, <1>3 DEF Unallocated, InUse, InBuckets, InHands
<1> QED
  BY <1>1, <1>2, <1>3

-----------------------------------------------------------------------------

LEMMA InitIInv == Init => IInv
<1> SUFFICES ASSUME Init PROVE IInv
  OBVIOUS
<1>1. TypeOK
  <2>1. FirstWriteIndex \in 0..(W - 1) /\ 0 \in 0..(W - 1)
    BY RingAssumption DEF FirstWriteIndex
  <2>2. \A p \in Producers : MaxCalls[p] \in Nat
    BY RingAssumption
  <2>3. \A p \in Producers : calls[p] <= MaxCalls[p]
    BY <2>2 DEF Init
  <2>4. claimed \in Seq(Calls) /\ delivered \in Seq(Calls)
    BY DEF Init
  <2>5. flooded \in BOOLEAN
    BY Zenon DEF Init
  <2> QED
    BY <2>1, <2>3, <2>4, <2>5 DEF Init, TypeOK
<1>2. HandsMatchStages /\ ContentIsCall /\ Disjoint
  BY DEF Init, HandsMatchStages, ContentIsCall, Disjoint
<1> QED
  BY <1>1, <1>2 DEF IInv

-----------------------------------------------------------------------------
(***************************************************************************)
(* One lemma per action: it preserves the inductive invariant.             *)
(***************************************************************************)

LEMMA GetBodyStep ==
  ASSUME IInv, NEW p \in Producers, GetBody(p) PROVE IInv'
<1> USE DEF IInv, ringVars, prodVars, consVars, hist
<1>1. PICK b \in pool \union Unallocated :
        /\ hand' = [hand EXCEPT ![p] = b]
        /\ pool' = pool \ {b}
        /\ content' = [content EXCEPT ![b] = NIL]
  BY DEF GetBody
<1>2. /\ b \in Bodies /\ b # NIL
      /\ \A i \in Slots : buckets[i] # b
      /\ \A q \in Producers : hand[q] # b
      /\ popped # b
  BY FreshBody
<1>3. TypeOK'
  <2>1. calls' \in [Producers -> Nat]
    BY DEF GetBody, TypeOK
  <2>2. \A q \in Producers : calls'[q] <= MaxCalls[q]
    <3>1. \A q \in Producers : calls[q] \in Nat /\ MaxCalls[q] \in Nat
      BY RingAssumption DEF TypeOK
    <3>2. \A q \in Producers :
            calls'[q] = IF q = p THEN calls[p] + 1 ELSE calls[q]
      BY DEF GetBody, TypeOK
    <3>3. calls[p] + 1 <= MaxCalls[p]
      BY <3>1 DEF GetBody
    <3>4. \A q \in Producers : calls[q] <= MaxCalls[q]
      BY DEF TypeOK
    <3> QED
      BY <3>2, <3>3, <3>4
  <2>3. /\ pool' \in SUBSET Bodies
        /\ content' \in [Bodies -> Calls \union {NIL}]
        /\ hand' \in [Producers -> Bodies \union {NIL}]
    BY <1>1, <1>2 DEF TypeOK
  <2> QED
    BY <2>1, <2>2, <2>3 DEF GetBody, TypeOK
<1>4. HandsMatchStages'
  BY <1>1, <1>2 DEF GetBody, TypeOK, HandsMatchStages
<1>5. ContentIsCall'
  <2>1. \A q \in Producers :
          pc'[q] \in {"fill", "claim", "swap"} => calls'[q] >= 1
    BY DEF GetBody, TypeOK, ContentIsCall
  <2>2. /\ \A q \in Producers :
             pc'[q] \in {"claim", "swap"} => content'[hand'[q]] \in Calls
        /\ \A i \in Slots :
             buckets'[i] # NIL => content'[buckets'[i]] \in Calls
        /\ cpc' = "write" => content'[popped'] \in Calls
    BY <1>1, <1>2 DEF GetBody, TypeOK, ContentIsCall, HandsMatchStages
  <2> QED
    BY <2>1, <2>2 DEF ContentIsCall
<1>6. Disjoint'
  BY <1>1, <1>2 DEF GetBody, TypeOK, Disjoint
<1> QED
  BY <1>3, <1>4, <1>5, <1>6

LEMMA FillStep ==
  ASSUME IInv, NEW p \in Producers, Fill(p) PROVE IInv'
<1> USE DEF IInv, ringVars, prodVars, consVars, hist
<1>1. hand[p] \in Bodies /\ hand[p] # NIL
  BY DEF Fill, TypeOK, HandsMatchStages
<1>2. <<p, calls[p]>> \in Calls
  BY CallInRange DEF Fill, TypeOK, ContentIsCall
<1>3. TypeOK'
  BY <1>1, <1>2 DEF Fill, TypeOK
<1>4. HandsMatchStages'
  BY DEF Fill, TypeOK, HandsMatchStages
<1>5. ContentIsCall'
  <2>1. \A q \in Producers :
          pc'[q] \in {"fill", "claim", "swap"} => calls'[q] >= 1
    BY DEF Fill, TypeOK, ContentIsCall
  <2>2. \A b \in Bodies :
          content'[b] = IF b = hand[p] THEN <<p, calls[p]>> ELSE content[b]
    BY DEF Fill, TypeOK
  <2>3. \A q \in Producers :
          pc'[q] \in {"claim", "swap"} => content'[hand'[q]] \in Calls
    BY <1>1, <1>2, <2>2
    DEF Fill, TypeOK, ContentIsCall, HandsMatchStages, Disjoint
  <2>4. /\ \A i \in Slots :
             buckets'[i] # NIL => content'[buckets'[i]] \in Calls
        /\ cpc' = "write" => content'[popped'] \in Calls
    BY <1>2, <2>2 DEF Fill, TypeOK, ContentIsCall, HandsMatchStages
  <2> QED
    BY <2>1, <2>3, <2>4 DEF ContentIsCall
<1>6. Disjoint'
  BY DEF Fill, TypeOK, Disjoint
<1> QED
  BY <1>3, <1>4, <1>5, <1>6

LEMMA ClaimStep ==
  ASSUME IInv, NEW p \in Producers, Claim(p) PROVE IInv'
<1> USE DEF IInv, ringVars, prodVars, consVars, hist
<1>1. TypeOK'
  <2>1. writeIndex' \in 0..(W - 1)
    BY StaysUint, RingAssumption DEF Claim, TypeOK
  <2>2. ticket' \in [Producers -> 0..(W - 1)]
    BY <2>1 DEF Claim, TypeOK
  <2>3. <<p, calls[p]>> \in Calls
    BY CallInRange DEF Claim, TypeOK, ContentIsCall
  <2>4. claimed' \in Seq(Calls)
    BY <2>3 DEF Claim, TypeOK
  <2>5. flooded' \in BOOLEAN
    BY Zenon DEF Claim
  <2> QED
    BY <2>1, <2>2, <2>4, <2>5 DEF Claim, TypeOK
<1>2. HandsMatchStages'
  BY DEF Claim, TypeOK, HandsMatchStages
<1>3. ContentIsCall'
  BY DEF Claim, TypeOK, ContentIsCall, HandsMatchStages
<1>4. Disjoint'
  BY DEF Claim, TypeOK, Disjoint
<1> QED
  BY <1>1, <1>2, <1>3, <1>4

LEMMA SwapStep ==
  ASSUME IInv, NEW p \in Producers, Swap(p) PROVE IInv'
<1> USE DEF IInv, ringVars, prodVars, consVars, hist
<1> DEFINE s == Slot(ticket[p])
<1>1. s \in Slots
  BY SlotInRange DEF TypeOK
<1> HIDE DEF s
<1>2. /\ pc[p] = "swap" /\ hand[p] # NIL
      /\ buckets' = [buckets EXCEPT ![s] = hand[p]]
      /\ hand' = [hand EXCEPT ![p] = buckets[s]]
      /\ pc' = [pc EXCEPT ![p] = IF buckets[s] = NIL THEN "idle" ELSE "free"]
      /\ UNCHANGED <<pool, content, calls, cpc, popped>>
  BY DEF Swap, ThrownOut, s, HandsMatchStages
<1>3. TypeOK'
  <2>1. buckets' \in [Slots -> Bodies \union {NIL}]
    BY <1>1, <1>2 DEF TypeOK
  <2>2. hand' \in [Producers -> Bodies \union {NIL}]
    BY <1>1, <1>2 DEF TypeOK
  <2>3. pc' \in [Producers -> {"idle", "fill", "claim", "swap", "free"}]
    BY <1>2 DEF TypeOK
  <2> QED
    BY <1>2, <2>1, <2>2, <2>3 DEF Swap, TypeOK
<1>4. HandsMatchStages'
  BY <1>1, <1>2 DEF TypeOK, HandsMatchStages
<1>5. ContentIsCall'
  BY <1>1, <1>2 DEF TypeOK, ContentIsCall
<1>6. Disjoint'
  BY <1>1, <1>2 DEF TypeOK, Disjoint
<1> QED
  BY <1>3, <1>4, <1>5, <1>6

LEMMA FreeOldStep ==
  ASSUME IInv, NEW p \in Producers, FreeOld(p) PROVE IInv'
<1> USE DEF IInv, ringVars, prodVars, consVars, hist
<1>1. hand[p] \in Bodies
  BY DEF FreeOld, TypeOK, HandsMatchStages
<1>2. TypeOK'
  BY <1>1 DEF FreeOld, TypeOK
<1>3. HandsMatchStages'
  BY DEF FreeOld, TypeOK, HandsMatchStages
<1>4. ContentIsCall'
  BY DEF FreeOld, TypeOK, ContentIsCall
<1>5. Disjoint'
  BY <1>1, RingAssumption DEF FreeOld, TypeOK, Disjoint
<1> QED
  BY <1>2, <1>3, <1>4, <1>5

LEMMA ReloadStep ==
  ASSUME IInv, Reload PROVE IInv'
<1> USE DEF IInv, ringVars, prodVars, consVars, hist
<1>1. TypeOK'
  BY RingAssumption DEF Reload, TypeOK
<1>2. HandsMatchStages'
  BY RingAssumption DEF Reload, TypeOK, HandsMatchStages
<1>3. ContentIsCall'
  BY RingAssumption DEF Reload, TypeOK, ContentIsCall, HandsMatchStages, Disjoint
<1>4. Disjoint'
  BY RingAssumption DEF Reload, TypeOK, Disjoint, HandsMatchStages
<1> QED
  BY <1>1, <1>2, <1>3, <1>4

LEMMA TakeStep ==
  ASSUME IInv, Take PROVE IInv'
<1> USE DEF IInv, ringVars, prodVars, consVars, hist
<1> DEFINE s == Slot(readIndex)
<1>1. s \in Slots
  BY SlotInRange DEF TypeOK
<1> HIDE DEF s
<1>2. /\ cpc = "poll" /\ popped = NIL
      /\ buckets' = [buckets EXCEPT ![s] = NIL]
      /\ popped' = buckets[s]
      /\ UNCHANGED <<pool, content, pc, hand, calls>>
      /\ \/ buckets[s] = NIL /\ cpc' = "sleep"
         \/ buckets[s] # NIL /\ cpc' = "write"
  BY DEF Take, Emptied, s, HandsMatchStages
<1>3. TypeOK'
  <2>1. readIndex' \in 0..(W - 1)
    BY StaysUint, RingAssumption DEF Take, ReadIndexAfterPop, TypeOK
  <2> QED
    BY <1>1, <1>2, <2>1 DEF Take, TypeOK
<1>4. HandsMatchStages'
  BY <1>2 DEF HandsMatchStages
<1>5. ContentIsCall'
  BY <1>1, <1>2 DEF TypeOK, ContentIsCall
<1>6. Disjoint'
  <2>1. \A i \in Slots : buckets'[i] = IF i = s THEN NIL ELSE buckets[i]
    BY <1>1, <1>2 DEF TypeOK
  <2>2. /\ \A i \in Slots : popped' # NIL => popped' # buckets'[i]
        /\ \A i, j \in Slots :
             i # j /\ buckets'[i] # NIL => buckets'[i] # buckets'[j]
    BY <1>1, <1>2, <2>1 DEF Disjoint
  <2>3. NIL \notin pool
    BY RingAssumption DEF TypeOK
  <2> QED
    BY <1>1, <1>2, <2>1, <2>2, <2>3 DEF Disjoint
<1> QED
  BY <1>3, <1>4, <1>5, <1>6

LEMMA DeliverStep ==
  ASSUME IInv, Deliver PROVE IInv'
<1> USE DEF IInv, ringVars, prodVars, consVars, hist
<1>1. delivered' \in Seq(Calls)
  BY DEF Deliver, TypeOK, ContentIsCall
<1>2. TypeOK'
  BY <1>1 DEF Deliver, TypeOK
<1>3. HandsMatchStages'
  BY DEF Deliver, HandsMatchStages
<1>4. ContentIsCall'
  BY DEF Deliver, ContentIsCall
<1>5. Disjoint'
  BY DEF Deliver, Disjoint
<1> QED
  BY <1>2, <1>3, <1>4, <1>5

LEMMA ReleaseStep ==
  ASSUME IInv, Release PROVE IInv'
<1> USE DEF IInv, ringVars, prodVars, consVars, hist
<1>1. popped \in Bodies
  BY DEF Release, TypeOK, HandsMatchStages
<1>2. TypeOK'
  BY <1>1 DEF Release, TypeOK
<1>3. HandsMatchStages'
  BY DEF Release, HandsMatchStages
<1>4. ContentIsCall'
  BY DEF Release, ContentIsCall
<1>5. Disjoint'
  BY <1>1, RingAssumption DEF Release, TypeOK, Disjoint
<1> QED
  BY <1>2, <1>3, <1>4, <1>5

LEMMA WakeStep ==
  ASSUME IInv, Wake PROVE IInv'
<1> USE DEF IInv, ringVars, prodVars, consVars, hist
<1>1. TypeOK'
  BY RingAssumption DEF Wake, TypeOK
<1>2. HandsMatchStages'
  BY RingAssumption DEF Wake, TypeOK, HandsMatchStages
<1>3. ContentIsCall'
  BY RingAssumption DEF Wake, TypeOK, ContentIsCall, HandsMatchStages, Disjoint
<1>4. Disjoint'
  BY RingAssumption DEF Wake, TypeOK, Disjoint, HandsMatchStages
<1> QED
  BY <1>1, <1>2, <1>3, <1>4

LEMMA CollectPoolStep ==
  ASSUME IInv, CollectPool PROVE IInv'
<1> USE DEF IInv, ringVars, prodVars, consVars, hist
<1>1. TypeOK'
  BY RingAssumption DEF CollectPool, TypeOK
<1>2. HandsMatchStages'
  BY RingAssumption DEF CollectPool, TypeOK, HandsMatchStages
<1>3. ContentIsCall'
  BY RingAssumption DEF CollectPool, TypeOK, ContentIsCall, HandsMatchStages, Disjoint
<1>4. Disjoint'
  BY RingAssumption DEF CollectPool, TypeOK, Disjoint, HandsMatchStages
<1> QED
  BY <1>1, <1>2, <1>3, <1>4

-----------------------------------------------------------------------------

LEMMA NextIInv == IInv /\ [Next]_vars => IInv'
<1> SUFFICES ASSUME IInv, [Next]_vars PROVE IInv'
  OBVIOUS
<1>1. ASSUME NEW p \in Producers, Push(p) PROVE IInv'
  BY <1>1, GetBodyStep, FillStep, ClaimStep, SwapStep, FreeOldStep DEF Push
<1>2. CASE Consumer
  BY <1>2, ReloadStep, TakeStep, DeliverStep, ReleaseStep, WakeStep
  DEF Consumer
<1>3. CASE CollectPool
  BY <1>3, CollectPoolStep
<1>4. CASE UNCHANGED vars
  BY <1>4 DEF vars, ringVars, prodVars, consVars, hist, IInv, TypeOK,
     HandsMatchStages, ContentIsCall, Disjoint
<1> QED
  BY <1>1, <1>2, <1>3, <1>4 DEF Next

LEMMA DisjointIsOneOwner == IInv => OneOwner
<1> SUFFICES ASSUME IInv PROVE OneOwner
  OBVIOUS
<1> USE DEF IInv, TypeOK, Disjoint
<1>1. InBuckets \intersect InHands = {}
  BY DEF InBuckets, InHands
<1>2. popped \notin InBuckets \union InHands
  BY DEF InBuckets, InHands
<1>3. pool \intersect InUse = {}
  BY DEF InUse, InBuckets, InHands
<1> QED
  BY <1>1, <1>2, <1>3 DEF OneOwner

THEOREM Inductive == Spec => []IInv
  BY InitIInv, NextIInv, PTL DEF Spec

\* Every variable keeps its type: in particular a body that the consumer hands
\* to the core always holds the message of a call, never the empty message of
\* a body that was reset for another call.
THEOREM TypeCorrect == Spec => []TypeOK
<1>1. IInv => TypeOK
  BY DEF IInv
<1> QED
  BY <1>1, Inductive, PTL

\* Whatever the number of producers, buckets and bodies and however pushes,
\* pops and frees interleave, a logBody never has two owners.
THEOREM SingleOwner == Spec => []OneOwner
  BY DisjointIsOneOwner, Inductive, PTL

-----------------------------------------------------------------------------
(***************************************************************************)
(* The ring gives the core no message twice and none that nobody pushed,   *)
(* for every number of producers, bodies and buckets, floods included.     *)
(***************************************************************************)

Claimed   == {claimed[j] : j \in DOMAIN claimed}
Delivered == {delivered[j] : j \in DOMAIN delivered}

\* The bodies whose message may still reach the core: in a bucket, about to be
\* swapped into one, or popped and not yet written.
Live(b) ==
  /\ b # NIL
  /\ \/ \E i \in Slots : b = buckets[i]
     \/ \E p \in Producers : pc[p] = "swap" /\ b = hand[p]
     \/ cpc = "write" /\ b = popped

\* A producer fills in its own message, and a call has a ticket only once its
\* producer has passed Claim.
TicketsFollowCalls ==
  /\ \A p \in Producers :
       pc[p] \in {"claim", "swap"} => content[hand[p]] = <<p, calls[p]>>
  /\ \A p \in Producers :
       pc[p] \in {"fill", "claim"} => <<p, calls[p]>> \notin Claimed
  /\ \A p \in Producers, k \in Nat :
       k > calls[p] => <<p, k>> \notin Claimed

\* A live body holds a message that has a ticket, that was not delivered yet,
\* and that no other live body holds.
LiveIsFresh ==
  /\ \A b \in Bodies :
       Live(b) => content[b] \in Claimed /\ content[b] \notin Delivered
  /\ \A b, c \in Bodies :
       Live(b) /\ Live(c) /\ b # c => content[b] # content[c]

DInv == TicketsFollowCalls /\ LiveIsFresh /\ AtMostOnce

-----------------------------------------------------------------------------

\* What appending one element does to the elements of a sequence.
LEMMA AppendAt ==
  ASSUME NEW S, NEW s \in Seq(S), NEW x \in S
  PROVE  /\ Len(Append(s, x)) = Len(s) + 1
         /\ DOMAIN Append(s, x) = 1..(Len(s) + 1)
         /\ DOMAIN s = 1..Len(s)
         /\ Len(s) \in Nat
         /\ \A i \in 1..Len(s) : Append(s, x)[i] = s[i]
         /\ Append(s, x)[Len(s) + 1] = x
  OBVIOUS

LEMMA AppendAdds ==
  ASSUME NEW S, NEW s \in Seq(S), NEW x \in S
  PROVE  {Append(s, x)[i] : i \in DOMAIN Append(s, x)}
           = {s[i] : i \in DOMAIN s} \union {x}
<1> DEFINE t == Append(s, x)
           n == Len(s)
<1>1. /\ DOMAIN t = 1..(n + 1) /\ DOMAIN s = 1..n /\ n \in Nat
      /\ \A i \in 1..n : t[i] = s[i]
      /\ t[n + 1] = x
  BY AppendAt
<1> HIDE DEF t, n
<1>2. \A i \in 1..(n + 1) : i \in 1..n \/ i = n + 1
  BY <1>1
<1>3. 1..n \subseteq 1..(n + 1) /\ n + 1 \in 1..(n + 1)
  BY <1>1
<1>4. ASSUME NEW y, y \in {t[i] : i \in DOMAIN t}
      PROVE  y \in {s[i] : i \in DOMAIN s} \union {x}
  BY <1>1, <1>2, <1>4, Zenon
<1>5. ASSUME NEW y, y \in {s[i] : i \in DOMAIN s} \union {x}
      PROVE  y \in {t[i] : i \in DOMAIN t}
  BY <1>1, <1>3, <1>5, Zenon
<1>6. {t[i] : i \in DOMAIN t} = {s[i] : i \in DOMAIN s} \union {x}
  BY <1>4, <1>5
<1> QED
  BY <1>6 DEF t

-----------------------------------------------------------------------------

LEMMA InitDInv == Init => DInv
<1> SUFFICES ASSUME Init PROVE DInv
  OBVIOUS
<1>1. Claimed = {} /\ Delivered = {}
  BY DEF Init, Claimed, Delivered
<1>2. TicketsFollowCalls
  BY <1>1 DEF Init, TicketsFollowCalls
<1>3. \A b \in Bodies : ~Live(b)
  BY DEF Init, Live
<1>4. LiveIsFresh
  BY <1>3 DEF LiveIsFresh
<1>5. AtMostOnce
  BY DEF Init, AtMostOnce
<1> QED
  BY <1>2, <1>4, <1>5 DEF DInv

\* A step that claims and delivers nothing, brings no body to life and leaves
\* the messages of the live ones alone keeps the second half of DInv.
LEMMA LiveShrinks ==
  ASSUME DInv, UNCHANGED <<claimed, delivered>>,
         \A b \in Bodies : Live(b)' => Live(b) /\ content'[b] = content[b]
  PROVE  LiveIsFresh' /\ AtMostOnce' /\ Claimed' = Claimed
<1>1. Claimed' = Claimed /\ Delivered' = Delivered
  BY DEF Claimed, Delivered
<1>2. LiveIsFresh'
  BY <1>1 DEF DInv, LiveIsFresh
<1>3. AtMostOnce'
  BY DEF DInv, AtMostOnce
<1> QED
  BY <1>1, <1>2, <1>3

LEMMA GetBodyDelivery ==
  ASSUME IInv, DInv, NEW p \in Producers, GetBody(p) PROVE DInv'
<1> USE DEF IInv, ringVars, prodVars, consVars, hist
<1>1. PICK b \in pool \union Unallocated :
        /\ hand' = [hand EXCEPT ![p] = b]
        /\ content' = [content EXCEPT ![b] = NIL]
  BY DEF GetBody
<1>2. /\ b \in Bodies /\ b # NIL
      /\ \A i \in Slots : buckets[i] # b
      /\ \A q \in Producers : hand[q] # b
      /\ popped # b
  BY FreshBody
<1>3. \A c \in Bodies : Live(c)' => Live(c) /\ c # b
  BY <1>1, <1>2 DEF GetBody, TypeOK, Live
<1>4. LiveIsFresh' /\ AtMostOnce' /\ Claimed' = Claimed
  <2>1. \A c \in Bodies : c # b => content'[c] = content[c]
    BY <1>1 DEF TypeOK
  <2> QED
    BY <1>3, <2>1, LiveShrinks DEF GetBody
<1>5. TicketsFollowCalls'
  <2>1. /\ pc[p] = "idle" /\ pc' = [pc EXCEPT ![p] = "fill"]
        /\ calls' = [calls EXCEPT ![p] = @ + 1]
    BY DEF GetBody
  <2>2. \A q \in Producers :
          pc'[q] \in {"claim", "swap"} => content'[hand'[q]] = <<q, calls'[q]>>
    BY <1>1, <1>2, <2>1
    DEF TypeOK, DInv, TicketsFollowCalls, HandsMatchStages
  <2>3. \A q \in Producers : calls[q] \in Nat
    BY DEF TypeOK
  <2>4. calls'[p] \in Nat /\ calls'[p] > calls[p]
    BY <2>1, <2>3 DEF TypeOK
  <2>5. \A q \in Producers : q # p => pc'[q] = pc[q] /\ calls'[q] = calls[q]
    BY <2>1 DEF TypeOK
  <2>6. \A q \in Producers :
          pc'[q] \in {"fill", "claim"} => <<q, calls'[q]>> \notin Claimed
    BY <2>4, <2>5 DEF DInv, TicketsFollowCalls
  <2>7. \A q \in Producers, k \in Nat :
          k > calls'[q] => <<q, k>> \notin Claimed
    BY <2>3, <2>4, <2>5 DEF DInv, TicketsFollowCalls
  <2> QED
    BY <1>4, <2>2, <2>6, <2>7 DEF TicketsFollowCalls
<1> QED
  BY <1>4, <1>5 DEF DInv

LEMMA FillDelivery ==
  ASSUME IInv, DInv, NEW p \in Producers, Fill(p) PROVE DInv'
<1> USE DEF IInv, ringVars, prodVars, consVars, hist
<1>1. hand[p] \in Bodies /\ hand[p] # NIL
  BY DEF Fill, TypeOK, HandsMatchStages
<1>2. ~Live(hand[p])
  BY <1>1 DEF Fill, TypeOK, Live, Disjoint
<1>3. \A b \in Bodies :
        content'[b] = IF b = hand[p] THEN <<p, calls[p]>> ELSE content[b]
  BY DEF Fill, TypeOK
<1>4. \A b \in Bodies : Live(b)' => Live(b)
  BY DEF Fill, TypeOK, Live
<1>5. LiveIsFresh' /\ AtMostOnce' /\ Claimed' = Claimed
  BY <1>2, <1>3, <1>4, LiveShrinks DEF Fill
<1>6. TicketsFollowCalls'
  <2>1. \A q \in Producers :
          pc'[q] \in {"claim", "swap"} => content'[hand'[q]] = <<q, calls'[q]>>
    BY <1>1, <1>3
    DEF Fill, TypeOK, DInv, TicketsFollowCalls, HandsMatchStages, Disjoint
  <2> QED
    BY <1>5, <2>1 DEF Fill, TypeOK, DInv, TicketsFollowCalls
<1> QED
  BY <1>5, <1>6 DEF DInv

LEMMA ClaimDelivery ==
  ASSUME IInv, DInv, NEW p \in Producers, Claim(p) PROVE DInv'
<1> USE DEF IInv, ringVars, prodVars, consVars, hist
<1> DEFINE c == <<p, calls[p]>>
<1>1. c \in Calls
  BY CallInRange DEF Claim, TypeOK, ContentIsCall
<1>2. claimed' = Append(claimed, c) /\ delivered' = delivered
  BY DEF Claim
<1> HIDE DEF c
<1>3. Claimed' = Claimed \union {c} /\ Delivered' = Delivered
  <2>1. claimed \in Seq(Calls)
    BY DEF TypeOK
  <2>2. {Append(claimed, c)[j] : j \in DOMAIN Append(claimed, c)}
          = {claimed[j] : j \in DOMAIN claimed} \union {c}
    BY <1>1, <2>1, AppendAdds
  <2> QED
    BY <1>2, <2>2 DEF Claimed, Delivered
<1>4. c \notin Claimed /\ content[hand[p]] = c
  BY DEF Claim, DInv, TicketsFollowCalls, c
<1>5. Delivered \subseteq Claimed
  BY DEF DInv, AtMostOnce, Claimed, Delivered
<1>6. \A b \in Bodies : Live(b)' => Live(b) \/ b = hand[p]
  BY DEF Claim, TypeOK, Live
<1>7. LiveIsFresh'
  BY <1>3, <1>4, <1>5, <1>6 DEF Claim, DInv, LiveIsFresh
<1>8. TicketsFollowCalls'
  <2>1. \A q \in Producers, k \in Nat : q # p \/ k # calls[p] => <<q, k>> # c
    BY DEF c
  <2>2. \A q \in Producers : calls[q] \in Nat
    BY DEF TypeOK
  <2>3. /\ \A q \in Producers : pc'[q] \in {"claim", "swap"}
             => pc[q] \in {"claim", "swap"}
        /\ \A q \in Producers : pc'[q] \in {"fill", "claim"}
             => pc[q] \in {"fill", "claim"} /\ q # p
        /\ UNCHANGED <<content, hand, calls>>
    BY DEF Claim, TypeOK
  <2>4. \A q \in Producers :
          pc'[q] \in {"fill", "claim"} => <<q, calls[q]>> \notin Claimed'
    BY <1>3, <2>1, <2>2, <2>3 DEF DInv, TicketsFollowCalls
  <2>5. \A q \in Producers, k \in Nat :
          k > calls[q] => <<q, k>> \notin Claimed'
    BY <1>3, <2>1, <2>2 DEF DInv, TicketsFollowCalls
  <2> QED
    BY <2>3, <2>4, <2>5 DEF DInv, TicketsFollowCalls
<1>9. AtMostOnce'
  <2>1. /\ \A j \in DOMAIN claimed :
             j \in DOMAIN claimed' /\ claimed'[j] = claimed[j]
    BY <1>1, <1>2, AppendAt DEF TypeOK
  <2> QED
    BY <1>2, <2>1 DEF DInv, AtMostOnce
<1> QED
  BY <1>7, <1>8, <1>9 DEF DInv

LEMMA SwapDelivery ==
  ASSUME IInv, DInv, NEW p \in Producers, Swap(p) PROVE DInv'
<1> USE DEF IInv, ringVars, prodVars, consVars, hist
<1> DEFINE s == Slot(ticket[p])
<1>1. s \in Slots
  BY SlotInRange DEF TypeOK
<1> HIDE DEF s
<1>2. /\ pc[p] = "swap" /\ hand[p] # NIL
      /\ buckets' = [buckets EXCEPT ![s] = hand[p]]
      /\ hand' = [hand EXCEPT ![p] = buckets[s]]
      /\ pc' = [pc EXCEPT ![p] = IF buckets[s] = NIL THEN "idle" ELSE "free"]
      /\ UNCHANGED <<content, calls, cpc, popped, claimed, delivered>>
  BY DEF Swap, ThrownOut, s, HandsMatchStages
<1>3. \A b \in Bodies : Live(b)' => Live(b)
  BY <1>1, <1>2 DEF TypeOK, Live
<1>4. LiveIsFresh' /\ AtMostOnce' /\ Claimed' = Claimed
  BY <1>2, <1>3, LiveShrinks
<1>5. TicketsFollowCalls'
  BY <1>2, <1>4 DEF TypeOK, DInv, TicketsFollowCalls
<1> QED
  BY <1>4, <1>5 DEF DInv

LEMMA FreeOldDelivery ==
  ASSUME IInv, DInv, NEW p \in Producers, FreeOld(p) PROVE DInv'
<1> USE DEF IInv, ringVars, prodVars, consVars, hist
<1>1. \A b \in Bodies : Live(b)' => Live(b)
  BY DEF FreeOld, TypeOK, Live
<1>2. LiveIsFresh' /\ AtMostOnce' /\ Claimed' = Claimed
  BY <1>1, LiveShrinks DEF FreeOld
<1>3. TicketsFollowCalls'
  BY <1>2 DEF FreeOld, TypeOK, DInv, TicketsFollowCalls
<1> QED
  BY <1>2, <1>3 DEF DInv

LEMMA TakeDelivery ==
  ASSUME IInv, DInv, Take PROVE DInv'
<1> USE DEF IInv, ringVars, prodVars, consVars, hist
<1> DEFINE s == Slot(readIndex)
<1>1. s \in Slots
  BY SlotInRange DEF TypeOK
<1> HIDE DEF s
<1>2. /\ buckets' = [buckets EXCEPT ![s] = NIL]
      /\ popped' = buckets[s]
      /\ UNCHANGED <<content, pc, hand, calls, claimed, delivered>>
  BY DEF Take, Emptied, s
<1>3. \A b \in Bodies : Live(b)' => Live(b)
  BY <1>1, <1>2 DEF TypeOK, Live
<1>4. LiveIsFresh' /\ AtMostOnce' /\ Claimed' = Claimed
  BY <1>2, <1>3, LiveShrinks
<1>5. TicketsFollowCalls'
  BY <1>2, <1>4 DEF DInv, TicketsFollowCalls
<1> QED
  BY <1>4, <1>5 DEF DInv

LEMMA DeliverDelivery ==
  ASSUME IInv, DInv, Deliver PROVE DInv'
<1> USE DEF IInv, ringVars, prodVars, consVars, hist
<1> DEFINE m == content[popped]
<1>1. popped \in Bodies /\ Live(popped)
  BY DEF Deliver, TypeOK, HandsMatchStages, Live
<1>2. m \in Calls /\ m \in Claimed /\ m \notin Delivered
  BY <1>1 DEF Deliver, ContentIsCall, DInv, LiveIsFresh
<1>3. /\ delivered' = Append(delivered, m)
      /\ cpc' = "free"
      /\ UNCHANGED <<buckets, content, pc, hand, calls, popped, claimed>>
  BY DEF Deliver
<1> HIDE DEF m
<1>4. Delivered' = Delivered \union {m} /\ Claimed' = Claimed
  <2>1. delivered \in Seq(Calls)
    BY DEF TypeOK
  <2>2. {Append(delivered, m)[j] : j \in DOMAIN Append(delivered, m)}
          = {delivered[j] : j \in DOMAIN delivered} \union {m}
    BY <1>2, <2>1, AppendAdds
  <2> QED
    BY <1>3, <2>2 DEF Claimed, Delivered
<1>5. \A b \in Bodies : Live(b)' => Live(b) /\ b # popped
  BY <1>3 DEF Live, Disjoint
<1>6. LiveIsFresh'
  BY <1>1, <1>3, <1>4, <1>5 DEF DInv, LiveIsFresh, m
<1>7. TicketsFollowCalls'
  BY <1>3, <1>4 DEF DInv, TicketsFollowCalls
<1>8. AtMostOnce'
  <2> DEFINE n == Len(delivered)
             d == delivered'
  <2>1. /\ DOMAIN d = 1..(n + 1) /\ DOMAIN delivered = 1..n
        /\ n \in Nat
        /\ \A i \in 1..n : d[i] = delivered[i]
        /\ d[n + 1] = m
    BY <1>2, <1>3, AppendAt DEF TypeOK
  <2>2. \A i \in 1..n : d[i] \in Claimed /\ d[i] # m
    BY <1>2, <2>1 DEF DInv, AtMostOnce, Claimed, Delivered
  <2>3. \A i \in 1..(n + 1) : i \in 1..n \/ i = n + 1
    BY <2>1
  <2> HIDE DEF n, d
  <2>4. \A i \in DOMAIN d : d[i] \in Claimed
    BY <1>2, <2>1, <2>2, <2>3
  <2>5. \A i, j \in DOMAIN d : i # j => d[i] # d[j]
    BY <2>1, <2>2, <2>3 DEF DInv, AtMostOnce
  <2> QED
    BY <1>3, <2>4, <2>5 DEF AtMostOnce, Claimed, d
<1> QED
  BY <1>6, <1>7, <1>8 DEF DInv

\* Every other step leaves the live bodies and the history alone.
LEMMA OtherDelivery ==
  ASSUME IInv, DInv,
         Reload \/ Release \/ Wake \/ CollectPool \/ UNCHANGED vars
  PROVE  DInv'
<1> USE DEF IInv, ringVars, prodVars, consVars, hist, vars
<1>1. UNCHANGED <<buckets, content, pc, hand, calls, claimed, delivered>>
  BY DEF Reload, Release, Wake, CollectPool
<1>2. cpc' = "write" => cpc = "write" /\ popped' = popped
  BY DEF Reload, Release, Wake, CollectPool
<1>3. \A b \in Bodies : Live(b)' => Live(b)
  BY <1>1, <1>2 DEF Live
<1>4. LiveIsFresh' /\ AtMostOnce' /\ Claimed' = Claimed
  BY <1>1, <1>3, LiveShrinks
<1>5. TicketsFollowCalls'
  BY <1>1, <1>4 DEF DInv, TicketsFollowCalls
<1> QED
  BY <1>4, <1>5 DEF DInv

LEMMA NextDInv == IInv /\ DInv /\ [Next]_vars => DInv'
<1> SUFFICES ASSUME IInv, DInv, [Next]_vars PROVE DInv'
  OBVIOUS
<1>1. ASSUME NEW p \in Producers, Push(p) PROVE DInv'
  BY <1>1, GetBodyDelivery, FillDelivery, ClaimDelivery, SwapDelivery,
     FreeOldDelivery DEF Push
<1>2. CASE Consumer
  BY <1>2, TakeDelivery, DeliverDelivery, OtherDelivery DEF Consumer
<1>3. CASE CollectPool \/ UNCHANGED vars
  BY <1>3, OtherDelivery
<1> QED
  BY <1>1, <1>2, <1>3 DEF Next

THEOREM DeliveryInductive == Spec => [](IInv /\ DInv)
  BY InitIInv, NextIInv, InitDInv, NextDInv, PTL DEF Spec

\* However pushes lap each other and the reader, and however bodies are
\* recycled, the core is given only messages that were pushed, each at most
\* once.
THEOREM DeliveredAtMostOnce == Spec => []AtMostOnce
<1>1. DInv => AtMostOnce
  BY DEF DInv
<1> QED
  BY <1>1, DeliveryInductive, PTL

-----------------------------------------------------------------------------
(***************************************************************************)
(* Until the first flood the ring is a queue: the core gets the messages   *)
(* in the order of their tickets and misses none.  The tickets are         *)
(* numbered from 0, so that ticket t belongs to claimed[t + 1].            *)
(***************************************************************************)

\* A call gets one ticket.
OneTicketEach ==
  \A i, j \in DOMAIN claimed : i # j => claimed[i] # claimed[j]

\* The last ticket given out; the uint64 before 0 if there is none.
WriteIndexIsLast ==
  writeIndex = IF Len(claimed) = 0 THEN W - 1 ELSE Len(claimed) - 1

\* The tickets that are claimed and not yet read: at most N of them.
Outstanding == readIndex..(Len(claimed) - 1)
WindowFits == readIndex <= Len(claimed) /\ Len(claimed) <= readIndex + N

\* A producer that is about to swap has an outstanding ticket, its own.
PendingOutstanding ==
  \A p \in Producers : pc[p] = "swap" =>
    ticket[p] \in Outstanding /\ claimed[ticket[p] + 1] = <<p, calls[p]>>

\* A bucket holds the message of an outstanding ticket that selects it.
BucketOutstanding ==
  \A i \in Slots : buckets[i] # NIL =>
    \E k \in Outstanding : Slot(k) = i /\ content[buckets[i]] = claimed[k + 1]

\* Everything read was delivered, in order, but for the message in the hands
\* of the consumer.
DeliveredIsPrefix ==
  /\ Len(delivered) = IF cpc = "write" THEN readIndex - 1 ELSE readIndex
  /\ \A i \in DOMAIN delivered : delivered[i] = claimed[i]
  /\ cpc = "write" => content[popped] = claimed[readIndex]

QInv ==
  /\ OneTicketEach
  /\ WriteIndexIsLast
  /\ ~flooded => /\ WindowFits
                 /\ PendingOutstanding
                 /\ BucketOutstanding
                 /\ DeliveredIsPrefix

-----------------------------------------------------------------------------

LEMMA ZeroProduct ==
  ASSUME NEW n \in Nat \ {0}, NEW q \in Int, 0 <= n * q, n * q < n
  PROVE  q = 0
<1>1. CASE q >= 1
  <2>1. n * q >= n
    BY <1>1, SMT
  <2> QED
    BY <2>1
<1>2. CASE q <= -1
  <2>1. n * q <= -n
    BY <1>2, SMT
  <2> QED
    BY <2>1
<1> QED
  BY <1>1, <1>2

\* Two numbers less than n apart have different remainders modulo n.
LEMMA SameRemainder ==
  ASSUME NEW n \in Nat \ {0}, NEW j \in Nat, NEW k \in Nat,
         j <= k, k < j + n, j % n = k % n
  PROVE  j = k
<1> DEFINE a == j \div n
           b == k \div n
<1>1. /\ a \in Int /\ b \in Int
      /\ j = n * a + (j % n) /\ k = n * b + (k % n)
  BY SMT
<1> HIDE DEF a, b
<1>2. j % n \in Int /\ k % n \in Int
  BY SMT
<1>3. k - j = n * b - n * a
  BY <1>1, <1>2
<1>4. n * b - n * a = n * (b - a) /\ b - a \in Int
  BY <1>1
<1>5. b - a = 0
  BY <1>3, <1>4, ZeroProduct
<1> QED
  BY <1>1, <1>3, <1>4, <1>5

\* Outstanding tickets select different buckets.
LEMMA SlotsDiffer ==
  ASSUME TypeOK, WindowFits, NEW j \in Outstanding, NEW k \in Outstanding,
         Slot(j) = Slot(k)
  PROVE  j = k
<1>1. Len(claimed) \in Nat /\ readIndex \in Nat /\ N \in Nat \ {0}
  BY RingAssumption DEF TypeOK
<1>2. /\ j \in Nat /\ k \in Nat /\ j < k + N /\ k < j + N
  BY <1>1 DEF Outstanding, WindowFits
<1>3. j % N = k % N
  BY DEF Slot
<1>4. CASE j <= k
  BY <1>1, <1>2, <1>3, <1>4, SameRemainder
<1>5. CASE k <= j
  BY <1>1, <1>2, <1>3, <1>5, SameRemainder
<1> QED
  BY <1>2, <1>4, <1>5

\* No ticket number is given out twice: there are fewer calls than uint64s.
LEMMA TicketsSuffice ==
  ASSUME NEW s \in Seq(Calls), \A i, j \in DOMAIN s : i # j => s[i] # s[j]
  PROVE  Len(s) \in Nat /\ Len(s) < W
<1> DEFINE n == Len(s)
<1>1. n \in Nat /\ DOMAIN s = 1..n /\ s \in [1..n -> Calls]
  OBVIOUS
<1>2. s \in Injection(1..n, Calls)
  BY <1>1, Fun_IsInj
<1>3. IsFiniteSet(1..n) /\ Cardinality(1..n) = n
  BY <1>1, FS_Interval, SMTT(30)
<1>4. Cardinality(1..n) <= Cardinality(Calls)
  BY <1>2, FS_Injection, FewerCallsThanTickets
<1>5. Cardinality(Calls) \in Nat
  BY FS_CardinalityType, FewerCallsThanTickets
<1> QED
  BY <1>1, <1>3, <1>4, <1>5, FewerCallsThanTickets, RingAssumption

-----------------------------------------------------------------------------

LEMMA InitQInv == Init => QInv
<1> SUFFICES ASSUME Init PROVE QInv
  OBVIOUS
<1>1. Len(claimed) = 0 /\ Len(delivered) = 0 /\ DOMAIN claimed = {}
      /\ DOMAIN delivered = {}
  BY DEF Init
<1>2. OneTicketEach /\ WriteIndexIsLast
  BY <1>1 DEF Init, OneTicketEach, WriteIndexIsLast, FirstWriteIndex
<1>3. WindowFits
  BY <1>1, RingAssumption DEF Init, WindowFits
<1>4. PendingOutstanding /\ BucketOutstanding /\ DeliveredIsPrefix
  BY <1>1 DEF Init, PendingOutstanding, BucketOutstanding, DeliveredIsPrefix
<1> QED
  BY <1>2, <1>3, <1>4 DEF QInv

\* A step that touches neither the indices nor the buckets nor a message that
\* may still be delivered.
LEMMA QuietStep ==
  ASSUME QInv,
         UNCHANGED <<buckets, writeIndex, readIndex, claimed, delivered, flooded>>,
         \A p \in Producers : pc'[p] = "swap" =>
           pc[p] = "swap" /\ ticket'[p] = ticket[p] /\ calls'[p] = calls[p],
         \A i \in Slots :
           buckets[i] # NIL => content'[buckets[i]] = content[buckets[i]],
         cpc' = "write" <=> cpc = "write",
         cpc = "write" => popped' = popped /\ content'[popped] = content[popped]
  PROVE  QInv'
<1>1. OneTicketEach' /\ WriteIndexIsLast'
  BY DEF QInv, OneTicketEach, WriteIndexIsLast
<1>2. ASSUME ~flooded PROVE WindowFits' /\ DeliveredIsPrefix'
  BY <1>2 DEF QInv, WindowFits, DeliveredIsPrefix
<1>3. Outstanding' = Outstanding
  BY DEF Outstanding
<1>4. ASSUME ~flooded PROVE PendingOutstanding' /\ BucketOutstanding'
  BY <1>3, <1>4 DEF QInv, PendingOutstanding, BucketOutstanding
<1> QED
  BY <1>1, <1>2, <1>4 DEF QInv

LEMMA GetBodyQueue ==
  ASSUME IInv, QInv, NEW p \in Producers, GetBody(p) PROVE QInv'
<1> USE DEF IInv, ringVars, prodVars, consVars, hist
<1>1. PICK b \in pool \union Unallocated :
        /\ hand' = [hand EXCEPT ![p] = b]
        /\ content' = [content EXCEPT ![b] = NIL]
  BY DEF GetBody
<1>2. /\ b \in Bodies /\ b # NIL
      /\ \A i \in Slots : buckets[i] # b
      /\ popped # b
  BY FreshBody
<1>3. \A q \in Producers : pc'[q] = "swap" =>
        pc[q] = "swap" /\ ticket'[q] = ticket[q] /\ calls'[q] = calls[q]
  BY DEF GetBody, TypeOK
<1>4. \A c \in Bodies : c # b => content'[c] = content[c]
  BY <1>1 DEF TypeOK
<1>5. cpc = "write" => popped \in Bodies
  BY DEF TypeOK, HandsMatchStages
<1>6. \A i \in Slots : buckets[i] # NIL => buckets[i] \in Bodies
  BY DEF TypeOK
<1> QED
  BY <1>2, <1>3, <1>4, <1>5, <1>6, QuietStep DEF GetBody

LEMMA FillQueue ==
  ASSUME IInv, QInv, NEW p \in Producers, Fill(p) PROVE QInv'
<1> USE DEF IInv, ringVars, prodVars, consVars, hist
<1>1. hand[p] \in Bodies /\ hand[p] # NIL
  BY DEF Fill, TypeOK, HandsMatchStages
<1>2. \A b \in Bodies : b # hand[p] => content'[b] = content[b]
  BY DEF Fill, TypeOK
<1>3. \A q \in Producers : pc'[q] = "swap" =>
        pc[q] = "swap" /\ ticket'[q] = ticket[q] /\ calls'[q] = calls[q]
  BY DEF Fill, TypeOK
<1>4. cpc = "write" => popped \in Bodies /\ popped # hand[p]
  BY DEF TypeOK, HandsMatchStages, Disjoint
<1>5. \A i \in Slots :
        buckets[i] # NIL => buckets[i] \in Bodies /\ buckets[i] # hand[p]
  BY DEF TypeOK, Disjoint
<1> QED
  BY <1>2, <1>3, <1>4, <1>5, QuietStep DEF Fill

LEMMA ClaimQueue ==
  ASSUME IInv, DInv, QInv, NEW p \in Producers, Claim(p) PROVE QInv'
<1> USE DEF IInv, ringVars, prodVars, consVars, hist
<1> DEFINE c == <<p, calls[p]>>
           n == Len(claimed)
<1>1. c \in Calls
  BY CallInRange DEF Claim, TypeOK, ContentIsCall
<1>2. claimed' = Append(claimed, c)
  BY DEF Claim
<1>3. c \notin Claimed
  BY DEF Claim, DInv, TicketsFollowCalls
<1>4. claimed' \in Seq(Calls) /\ claimed \in Seq(Calls)
  BY ClaimStep DEF TypeOK
<1> HIDE DEF c
<1>5. /\ Len(claimed') = n + 1 /\ n \in Nat
      /\ DOMAIN claimed' = 1..(n + 1) /\ DOMAIN claimed = 1..n
      /\ \A i \in 1..n : claimed'[i] = claimed[i]
      /\ claimed'[n + 1] = c
  BY <1>1, <1>2, <1>4, AppendAt
<1> HIDE DEF n
<1>6. \A i \in 1..(n + 1) : i \in 1..n \/ i = n + 1
  BY <1>5
<1>7. \A i \in 1..n : claimed'[i] # c
  BY <1>3, <1>5 DEF Claimed
<1>8. OneTicketEach'
  BY <1>5, <1>6, <1>7 DEF QInv, OneTicketEach
<1>9. n + 1 < W
  BY <1>4, <1>5, <1>8, TicketsSuffice DEF OneTicketEach
<1>10. writeIndex' = n
  <2>1. writeIndex' = (writeIndex + 1) % W
    BY DEF Claim
  <2>2. writeIndex + 1 = IF n = 0 THEN W ELSE n
    <3>1. writeIndex = IF n = 0 THEN W - 1 ELSE n - 1
      BY DEF QInv, WriteIndexIsLast, n
    <3> QED
      BY <1>5, <3>1, RingAssumption
  <2>3. W % W = 0 /\ n % W = n
    BY <1>5, <1>9, RingAssumption
  <2> QED
    BY <2>1, <2>2, <2>3
<1>11. WriteIndexIsLast'
  BY <1>5, <1>10 DEF WriteIndexIsLast
<1>12. ASSUME ~flooded'
       PROVE  WindowFits' /\ PendingOutstanding' /\ BucketOutstanding'
              /\ DeliveredIsPrefix'
  <2>1. /\ ~flooded /\ n + 1 - readIndex <= N /\ readIndex' = readIndex
        /\ readIndex \in Nat /\ N \in Nat
    <3>1. flooded' = (flooded \/ Len(claimed') - readIndex > N)
          /\ readIndex' = readIndex
      BY DEF Claim
    <3>2. ~flooded /\ ~(Len(claimed') - readIndex > N)
      BY <1>12, <3>1, Zenon
    <3>3. readIndex \in Nat /\ N \in Nat
      BY RingAssumption DEF TypeOK
    <3> QED
      BY <1>5, <3>1, <3>2, <3>3
  <2>2. readIndex <= n
    BY <2>1 DEF QInv, WindowFits, n
  <2>3. WindowFits'
    BY <1>5, <2>1, <2>2 DEF WindowFits
  <2>4. /\ \A k \in Outstanding : k \in Outstanding' /\ k + 1 \in 1..n
        /\ n \in Outstanding'
    BY <1>5, <2>1, <2>2 DEF Outstanding, n
  <2>5. PendingOutstanding'
    <3>1. /\ \A q \in Producers : q # p => pc'[q] = pc[q] /\ ticket'[q] = ticket[q]
          /\ ticket'[p] = n /\ calls' = calls
      BY <1>10 DEF Claim, TypeOK
    <3>2. ASSUME NEW q \in Producers, q # p, pc'[q] = "swap"
          PROVE  /\ ticket'[q] \in Outstanding'
                 /\ claimed'[ticket'[q] + 1] = <<q, calls'[q]>>
      BY <1>5, <2>1, <2>4, <3>1, <3>2 DEF QInv, PendingOutstanding
    <3>3. claimed'[ticket'[p] + 1] = <<p, calls'[p]>>
      BY <1>5, <3>1 DEF c
    <3> QED
      BY <2>4, <3>1, <3>2, <3>3 DEF PendingOutstanding
  <2>6. BucketOutstanding'
    <3>1. UNCHANGED <<buckets, content>>
      BY DEF Claim
    <3> QED
      BY <1>5, <2>1, <2>4, <3>1 DEF QInv, BucketOutstanding
  <2>7. DeliveredIsPrefix'
    <3>1. UNCHANGED <<delivered, cpc, popped, content>>
      BY DEF Claim
    <3>2. DeliveredIsPrefix /\ Len(delivered) \in Nat
          /\ DOMAIN delivered = 1..Len(delivered)
      BY <2>1 DEF QInv, TypeOK
    <3>3. Len(delivered) <= n
      BY <1>5, <2>1, <2>2, <3>2 DEF DeliveredIsPrefix
    <3>4. \A i \in DOMAIN delivered : i \in 1..n
      BY <1>5, <3>2, <3>3
    <3>5. cpc = "write" => readIndex \in 1..n
      BY <1>5, <2>1, <2>2, <3>2 DEF DeliveredIsPrefix
    <3> QED
      BY <1>5, <2>1, <3>1, <3>2, <3>4, <3>5 DEF DeliveredIsPrefix
  <2> QED
    BY <2>3, <2>5, <2>6, <2>7
<1> QED
  BY <1>8, <1>11, <1>12 DEF QInv

LEMMA SwapQueue ==
  ASSUME IInv, DInv, QInv, NEW p \in Producers, Swap(p) PROVE QInv'
<1> USE DEF IInv, ringVars, prodVars, consVars, hist
<1> DEFINE t == ticket[p]
           s == Slot(t)
<1>1. s \in Slots
  BY SlotInRange DEF TypeOK
<1>2. /\ pc[p] = "swap"
      /\ buckets' = [buckets EXCEPT ![s] = hand[p]]
      /\ pc' = [pc EXCEPT ![p] = IF buckets[s] = NIL THEN "idle" ELSE "free"]
      /\ UNCHANGED <<content, calls, ticket, writeIndex, readIndex, cpc, popped,
                     claimed, delivered, flooded>>
  BY DEF Swap, ThrownOut
<1>3. content[hand[p]] = <<p, calls[p]>>
  BY <1>2 DEF DInv, TicketsFollowCalls
<1> HIDE DEF s, t
<1>4. OneTicketEach' /\ WriteIndexIsLast' /\ Outstanding' = Outstanding
  BY <1>2 DEF QInv, OneTicketEach, WriteIndexIsLast, Outstanding
<1>5. ASSUME ~flooded
      PROVE  WindowFits' /\ PendingOutstanding' /\ BucketOutstanding'
             /\ DeliveredIsPrefix'
  <2>1. WindowFits' /\ DeliveredIsPrefix'
    BY <1>2, <1>5 DEF QInv, WindowFits, DeliveredIsPrefix
  <2>2. PendingOutstanding'
    BY <1>2, <1>4, <1>5 DEF TypeOK, QInv, PendingOutstanding
  <2>3. BucketOutstanding'
    <3>1. \A i \in Slots : i # s => buckets'[i] = buckets[i]
      BY <1>2 DEF TypeOK
    <3>2. buckets'[s] = hand[p]
      BY <1>1, <1>2 DEF TypeOK
    <3>3. t \in Outstanding /\ Slot(t) = s /\ content[hand[p]] = claimed[t + 1]
      BY <1>2, <1>3, <1>5 DEF QInv, PendingOutstanding, s, t
    <3> QED
      BY <1>2, <1>4, <1>5, <3>1, <3>2, <3>3 DEF QInv, BucketOutstanding
  <2> QED
    BY <2>1, <2>2, <2>3
<1> QED
  BY <1>2, <1>4, <1>5 DEF QInv

\* A message in a bucket is not that of a producer which is about to swap.
LEMMA PendingBucketEmpty ==
  ASSUME IInv, DInv, QInv, ~flooded, NEW p \in Producers, pc[p] = "swap"
  PROVE  buckets[Slot(ticket[p])] = NIL
<1> DEFINE t == ticket[p]
           b == buckets[Slot(t)]
<1> SUFFICES ASSUME b # NIL PROVE FALSE
  OBVIOUS
<1>1. Slot(t) \in Slots
  BY SlotInRange DEF IInv, TypeOK
<1>2. t \in Outstanding /\ claimed[t + 1] = content[hand[p]]
  BY DEF QInv, PendingOutstanding, DInv, TicketsFollowCalls
<1>3. PICK k \in Outstanding : Slot(k) = Slot(t) /\ content[b] = claimed[k + 1]
  BY <1>1 DEF QInv, BucketOutstanding
<1>4. k = t
  BY <1>2, <1>3, SlotsDiffer DEF IInv, QInv
<1>5. content[b] = content[hand[p]]
  BY <1>2, <1>3, <1>4
<1>6. b \in Bodies /\ hand[p] \in Bodies /\ hand[p] # NIL
  BY <1>1 DEF IInv, TypeOK, HandsMatchStages
<1>7. b # hand[p]
  BY <1>1 DEF IInv, Disjoint
<1>8. Live(b) /\ Live(hand[p])
  BY <1>1, <1>6 DEF Live
<1> QED
  BY <1>5, <1>6, <1>7, <1>8 DEF DInv, LiveIsFresh

LEMMA TakeQueue ==
  ASSUME IInv, DInv, QInv, Take PROVE QInv'
<1> USE DEF IInv, ringVars, prodVars, consVars, hist
<1> DEFINE r == readIndex
           s == Slot(r)
           n == Len(claimed)
<1>1. s \in Slots
  BY SlotInRange DEF TypeOK
<1>2. /\ cpc = "poll"
      /\ buckets' = [buckets EXCEPT ![s] = NIL]
      /\ popped' = buckets[s]
      /\ UNCHANGED <<content, pc, calls, ticket, writeIndex, claimed, delivered,
                     flooded>>
      /\ \/ buckets[s] = NIL /\ cpc' = "sleep" /\ readIndex' = r
         \/ buckets[s] # NIL /\ cpc' = "write" /\ readIndex' = (r + 1) % W
  BY DEF Take, Emptied, ReadIndexAfterPop
<1>3. r \in Nat /\ n \in Nat /\ n < W /\ N \in Nat /\ W \in Nat
  BY RingAssumption, TicketsSuffice DEF QInv, OneTicketEach, TypeOK
<1>4. CASE buckets[s] = NIL
  <2>1. buckets' = buckets
    BY <1>1, <1>2, <1>4 DEF TypeOK
  <2> QED
    BY <1>2, <1>4, <2>1, QuietStep
<1>5. CASE buckets[s] # NIL
  <2> HIDE DEF s
  <2>1. OneTicketEach' /\ WriteIndexIsLast'
    BY <1>2 DEF QInv, OneTicketEach, WriteIndexIsLast
  <2>2. ASSUME ~flooded
        PROVE  WindowFits' /\ PendingOutstanding' /\ BucketOutstanding'
               /\ DeliveredIsPrefix'
    <3>1. r <= n /\ n <= r + N
      BY <2>2 DEF QInv, WindowFits
    <3>2. PICK k \in Outstanding : Slot(k) = s /\ content[buckets[s]] = claimed[k + 1]
      BY <1>1, <1>5, <2>2 DEF QInv, BucketOutstanding
    <3>3. r < n /\ r \in Outstanding
      BY <1>3, <3>2 DEF Outstanding
    <3>4. k = r
      BY <2>2, <3>2, <3>3, SlotsDiffer DEF QInv, s
    <3>5. readIndex' = r + 1
      <4>1. r + 1 \in 0..(W - 1)
        BY <1>3, <3>3
      <4>2. (r + 1) % W = r + 1
        BY <1>3, <4>1
      <4> QED
        BY <1>2, <1>5, <4>2
    <3>6. \A j \in Outstanding : j # r => j \in Outstanding'
      BY <1>2, <1>3, <3>5 DEF Outstanding
    <3>7. WindowFits'
      BY <1>2, <1>3, <3>1, <3>3, <3>5 DEF WindowFits
    <3>8. PendingOutstanding'
      <4>1. \A p \in Producers : pc[p] = "swap" => ticket[p] # r
        BY <1>5, <2>2, PendingBucketEmpty DEF s
      <4> QED
        BY <1>2, <2>2, <3>6, <4>1 DEF QInv, PendingOutstanding
    <3>9. BucketOutstanding'
      <4>1. \A i \in Slots : buckets'[i] = IF i = s THEN NIL ELSE buckets[i]
        BY <1>2 DEF TypeOK
      <4>2. ASSUME NEW i \in Slots, buckets'[i] # NIL
            PROVE  \E j \in Outstanding' :
                     Slot(j) = i /\ content'[buckets'[i]] = claimed'[j + 1]
        <5>1. i # s /\ buckets'[i] = buckets[i]
          BY <4>1, <4>2
        <5>2. PICK j \in Outstanding :
                Slot(j) = i /\ content[buckets[i]] = claimed[j + 1]
          BY <2>2, <4>2, <5>1 DEF QInv, BucketOutstanding
        <5>3. j # r
          BY <5>1, <5>2 DEF s
        <5> QED
          BY <1>2, <3>6, <5>1, <5>2, <5>3
      <4> QED
        BY <4>2 DEF BucketOutstanding
    <3>10. DeliveredIsPrefix'
      <4>1. readIndex' - 1 = r
        BY <1>3, <3>5
      <4> QED
        BY <1>2, <1>5, <2>2, <3>2, <3>4, <3>5, <4>1
        DEF QInv, DeliveredIsPrefix
    <3> QED
      BY <3>7, <3>8, <3>9, <3>10
  <2> QED
    BY <1>2, <2>1, <2>2 DEF QInv
<1> QED
  BY <1>4, <1>5

LEMMA DeliverQueue ==
  ASSUME IInv, QInv, Deliver PROVE QInv'
<1> USE DEF IInv, ringVars, prodVars, consVars, hist
<1> DEFINE m == content[popped]
           d == delivered'
           r == readIndex
<1>1. /\ cpc = "write" /\ cpc' = "free"
      /\ d = Append(delivered, m)
      /\ UNCHANGED <<buckets, content, pc, calls, ticket, writeIndex, readIndex,
                     popped, claimed, flooded>>
  BY DEF Deliver
<1>2. m \in Calls /\ delivered \in Seq(Calls) /\ r \in Nat
  BY <1>1 DEF ContentIsCall, TypeOK
<1> HIDE DEF m
<1>3. /\ Len(d) = Len(delivered) + 1 /\ Len(delivered) \in Nat
      /\ DOMAIN d = 1..(Len(delivered) + 1)
      /\ DOMAIN delivered = 1..Len(delivered)
      /\ \A i \in 1..Len(delivered) : d[i] = delivered[i]
      /\ d[Len(delivered) + 1] = m
  BY <1>1, <1>2, AppendAt
<1>4. OneTicketEach' /\ WriteIndexIsLast' /\ Outstanding' = Outstanding
  BY <1>1 DEF QInv, OneTicketEach, WriteIndexIsLast, Outstanding
<1>5. ASSUME ~flooded
      PROVE  WindowFits' /\ PendingOutstanding' /\ BucketOutstanding'
             /\ DeliveredIsPrefix'
  <2>1. WindowFits' /\ PendingOutstanding' /\ BucketOutstanding'
    BY <1>1, <1>4, <1>5 DEF QInv, WindowFits, PendingOutstanding, BucketOutstanding
  <2>2. /\ Len(delivered) = r - 1 /\ m = claimed[r]
        /\ \A i \in DOMAIN delivered : delivered[i] = claimed[i]
    BY <1>1, <1>5 DEF QInv, DeliveredIsPrefix, m
  <2>3. Len(d) = r /\ DOMAIN d = 1..r /\ d[r] = claimed[r]
        /\ \A i \in 1..(r - 1) : d[i] = claimed[i]
    BY <1>2, <1>3, <2>2
  <2>4. \A i \in 1..r : i \in 1..(r - 1) \/ i = r
    BY <1>2
  <2>5. DeliveredIsPrefix'
    BY <1>1, <2>3, <2>4 DEF DeliveredIsPrefix
  <2> QED
    BY <2>1, <2>5
<1> QED
  BY <1>1, <1>4, <1>5 DEF QInv

\* The remaining steps are quiet.
LEMMA OtherQueue ==
  ASSUME IInv, QInv,
         \/ \E p \in Producers : FreeOld(p)
         \/ Reload \/ Release \/ Wake \/ CollectPool \/ UNCHANGED vars
  PROVE  QInv'
<1> USE DEF IInv, ringVars, prodVars, consVars, hist, vars
<1>1. UNCHANGED <<buckets, writeIndex, readIndex, claimed, delivered, flooded,
                  content, calls, ticket>>
  BY DEF FreeOld, Reload, Release, Wake, CollectPool
<1>2. \A p \in Producers : pc'[p] = "swap" => pc[p] = "swap"
  BY DEF FreeOld, Reload, Release, Wake, CollectPool, TypeOK
<1>3. /\ cpc' = "write" <=> cpc = "write"
      /\ cpc = "write" => popped' = popped
  BY DEF FreeOld, Reload, Release, Wake, CollectPool
<1> QED
  BY <1>1, <1>2, <1>3, QuietStep

LEMMA NextQInv == IInv /\ DInv /\ QInv /\ [Next]_vars => QInv'
<1> SUFFICES ASSUME IInv, DInv, QInv, [Next]_vars PROVE QInv'
  OBVIOUS
<1>1. ASSUME NEW p \in Producers, Push(p) PROVE QInv'
  BY <1>1, GetBodyQueue, FillQueue, ClaimQueue, SwapQueue, OtherQueue DEF Push
<1>2. CASE Consumer
  BY <1>2, TakeQueue, DeliverQueue, OtherQueue DEF Consumer
<1>3. CASE CollectPool \/ UNCHANGED vars
  BY <1>3, OtherQueue
<1> QED
  BY <1>1, <1>2, <1>3 DEF Next

THEOREM QueueInductive == Spec => [](IInv /\ DInv /\ QInv)
  BY InitIInv, NextIInv, InitDInv, NextDInv, InitQInv, NextQInv, PTL DEF Spec

LEMMA QInvIsFifo == IInv /\ QInv => FifoUntilFlood
<1> SUFFICES ASSUME IInv, QInv, ~flooded
             PROVE  /\ Len(delivered) <= Len(claimed)
                    /\ \A i \in DOMAIN delivered : delivered[i] = claimed[i]
  BY DEF FifoUntilFlood
<1>1. WindowFits /\ DeliveredIsPrefix
  BY DEF QInv
<1>2. readIndex \in Nat /\ Len(claimed) \in Nat
  BY DEF IInv, TypeOK
<1> QED
  BY <1>1, <1>2 DEF WindowFits, DeliveredIsPrefix

\* "The random order only happens when there is a flood" (nanozap.go:35), for
\* the time before the first flood and for any number of goroutines and
\* buckets: no message is lost or reordered while none more than N are
\* outstanding.
THEOREM InOrderUntilFlood == Spec => []FifoUntilFlood
  BY QInvIsFifo, QueueInductive, PTL

-----------------------------------------------------------------------------
(***************************************************************************)
(* The ring implements the lossy queue: a step of the ring accepts,        *)
(* writes or loses one message of the queue, or changes nothing in it.     *)
(***************************************************************************)

LiveMessages == {content[b] : b \in {c \in Bodies : Live(c)}}

\* The messages in the queue are those of the live bodies.
LEMMA InFlightIsLive == IInv => InFlight = LiveMessages
<1> SUFFICES ASSUME IInv PROVE InFlight = LiveMessages
  OBVIOUS
<1> USE DEF IInv, TypeOK, HandsMatchStages
<1>1. ASSUME NEW m \in InFlight PROVE m \in LiveMessages
  <2>1. CASE m \in {content[hand[p]] : p \in {q \in Producers : pc[q] = "swap"}}
    <3>1. PICK p \in Producers : pc[p] = "swap" /\ m = content[hand[p]]
      BY <2>1
    <3>2. hand[p] \in Bodies /\ hand[p] # NIL
      BY <3>1
    <3> QED
      BY <3>1, <3>2 DEF Live, LiveMessages
  <2>2. CASE m \in {content[b] : b \in InBuckets}
    BY <2>2 DEF InBuckets, Live, LiveMessages
  <2>3. CASE cpc = "write" /\ m = content[popped]
    BY <2>3 DEF Live, LiveMessages
  <2> QED
    BY <1>1, <2>1, <2>2, <2>3 DEF InFlight
<1>2. ASSUME NEW b \in Bodies, Live(b) PROVE content[b] \in InFlight
  BY <1>2 DEF Live, InFlight, InBuckets
<1> QED
  BY <1>1, <1>2 DEF LiveMessages

LEMMA InFlightIsLiveNext == IInv' => InFlight' = LiveMessages'
<1>1. (IInv => InFlight = LiveMessages)'
  BY InFlightIsLive, PTL
<1> QED
  BY <1>1

\* A step that keeps the live bodies and their messages keeps the queue.
LEMMA SameInFlight ==
  ASSUME IInv, IInv',
         \A b \in Bodies : Live(b)' <=> Live(b),
         \A b \in Bodies : Live(b) => content'[b] = content[b]
  PROVE  InFlight' = InFlight
<1>1. LiveMessages' = LiveMessages
  BY DEF LiveMessages
<1> QED
  BY <1>1, InFlightIsLive, InFlightIsLiveNext

\* A step that ends the life of one body removes its message from the queue:
\* no other live body holds the same one.
LEMMA OneLess ==
  ASSUME IInv, IInv', DInv, NEW b \in Bodies, Live(b), UNCHANGED content,
         \A c \in Bodies : Live(c)' <=> Live(c) /\ c # b
  PROVE  content[b] \in InFlight /\ InFlight' = InFlight \ {content[b]}
<1>1. LiveMessages' = LiveMessages \ {content[b]} /\ content[b] \in LiveMessages
  BY DEF LiveMessages, DInv, LiveIsFresh
<1> QED
  BY <1>1, InFlightIsLive, InFlightIsLiveNext

-----------------------------------------------------------------------------

LEMMA InitRefines == Init => Queue!Init
<1> SUFFICES ASSUME Init PROVE Queue!Init
  OBVIOUS
<1>1. InFlight = {}
  BY DEF Init, InFlight, InBuckets
<1> QED
  BY <1>1 DEF Init, Queue!Init

\* Claim accepts the message of the producer's call.
LEMMA ClaimAccepts ==
  ASSUME IInv, IInv', DInv, QInv, NEW p \in Producers, Claim(p)
  PROVE  Queue!Accept(<<p, calls[p]>>) /\ <<p, calls[p]>> \in Calls
<1> USE DEF IInv
<1> DEFINE c == <<p, calls[p]>>
<1>1. c \in Calls
  BY CallInRange DEF Claim, TypeOK, ContentIsCall
<1>2. /\ claimed' = Append(claimed, c)
      /\ flooded' = (flooded \/ Len(claimed') - readIndex > N)
      /\ UNCHANGED <<delivered, readIndex, content, hand, buckets, cpc, popped>>
      /\ pc[p] = "claim" /\ pc' = [pc EXCEPT ![p] = "swap"]
  BY DEF Claim, consVars
<1>3. content[hand[p]] = c /\ c \notin Claimed
  BY <1>2 DEF DInv, TicketsFollowCalls
<1>4. hand[p] \in Bodies /\ hand[p] # NIL
  BY <1>2 DEF TypeOK, HandsMatchStages
<1> HIDE DEF c
<1>5. \A b \in Bodies : Live(b)' <=> Live(b) \/ b = hand[p]
  BY <1>2, <1>4 DEF Live, TypeOK
<1>6. LiveMessages' = LiveMessages \union {c}
  BY <1>2, <1>3, <1>4, <1>5 DEF LiveMessages
<1>7. InFlight' = InFlight \union {c}
  BY <1>6, InFlightIsLive, InFlightIsLiveNext
<1>8. \A i \in DOMAIN claimed : claimed[i] # c
  BY <1>3 DEF Claimed
<1>9. flooded' \in BOOLEAN /\ flooded \in BOOLEAN
  BY DEF TypeOK
<1>10. /\ flooded => flooded'
       /\ flooded' => flooded \/ Len(claimed') - readIndex > N
       /\ ~flooded' => ~(Len(claimed') - readIndex > N)
  BY <1>2, Zenon
<1>11. /\ Len(claimed') \in Nat /\ readIndex \in Nat /\ N \in Nat
       /\ Len(delivered) \in Nat
  BY RingAssumption DEF TypeOK
<1>12. ~flooded => Len(delivered) = readIndex \/ Len(delivered) = readIndex - 1
  BY DEF QInv, DeliveredIsPrefix
<1>13. /\ flooded' => flooded \/ Len(claimed') - Len(delivered) > N
       /\ ~flooded' => Len(claimed') - Len(delivered) <= N + 1
  BY <1>10, <1>11, <1>12
<1>14. Queue!Accept(c)
  BY <1>2, <1>7, <1>8, <1>9, <1>10, <1>13 DEF Queue!Accept
<1> QED
  BY <1>1, <1>14 DEF c

\* A swap that throws a body out loses its message, and happens only after a
\* flood; any other swap changes nothing in the queue.
LEMMA SwapLoses ==
  ASSUME IInv, IInv', DInv, QInv, NEW p \in Producers, Swap(p)
  PROVE  Queue!Next \/ UNCHANGED Queue!vars
<1> USE DEF IInv
<1> DEFINE s == Slot(ticket[p])
<1>1. s \in Slots
  BY SlotInRange, SMTT(30) DEF TypeOK
<1>2. PICK b \in Bodies \union {NIL} : b = buckets[s]
  BY <1>1 DEF TypeOK
<1>3. /\ pc[p] = "swap"
      /\ buckets' = [buckets EXCEPT ![s] = hand[p]]
      /\ hand' = [hand EXCEPT ![p] = b]
      /\ pc' = [pc EXCEPT ![p] = IF b = NIL THEN "idle" ELSE "free"]
      /\ UNCHANGED <<content, cpc, popped, claimed, delivered, flooded>>
  BY <1>2 DEF Swap, ThrownOut, consVars, hist
<1>4. hand[p] \in Bodies /\ hand[p] # NIL
  BY <1>3 DEF TypeOK, HandsMatchStages
<1>5. b # NIL => flooded
  BY <1>2, <1>3, PendingBucketEmpty
<1>6. PICK t \in Slots : t = s
  BY <1>1
<1> HIDE DEF s
<1>7. \A i \in Slots : buckets'[i] = IF i = t THEN hand[p] ELSE buckets[i]
  BY <1>3, <1>6 DEF TypeOK
<1>8. /\ \A q \in Producers : pc'[q] = "swap" <=> pc[q] = "swap" /\ q # p
      /\ \A q \in Producers : q # p => hand'[q] = hand[q]
  BY <1>3 DEF TypeOK
<1>9. \A c \in Bodies : Live(c)' => Live(c)
  BY <1>3, <1>4, <1>7, <1>8 DEF Live
<1>10. \A c \in Bodies : Live(c) /\ c # b => Live(c)'
  <2> SUFFICES ASSUME NEW c \in Bodies, Live(c), c # b PROVE Live(c)'
    OBVIOUS
  <2>1. CASE \E i \in Slots : c = buckets[i]
    BY <1>2, <1>6, <1>7, <2>1 DEF Live
  <2>2. CASE \E q \in Producers : pc[q] = "swap" /\ c = hand[q]
    BY <1>7, <1>8, <2>2 DEF Live
  <2>3. CASE cpc = "write" /\ c = popped
    BY <1>3, <2>3 DEF Live
  <2> QED
    BY <2>1, <2>2, <2>3 DEF Live
<1>11. CASE b = NIL
  <2>1. InFlight' = InFlight
    BY <1>3, <1>9, <1>10, <1>11, SameInFlight, RingAssumption
  <2> QED
    BY <1>3, <2>1 DEF Queue!vars
<1>12. CASE b # NIL
  <2>1. b \in Bodies /\ Live(b)
    BY <1>2, <1>6, <1>12 DEF Live
  <2>2. /\ \A q \in Producers : hand[q] # b
        /\ \A i \in Slots : i # t => buckets[i] # b
        /\ popped # b
    BY <1>2, <1>6, <1>12 DEF Disjoint
  <2>3. ~Live(b)'
    BY <1>3, <1>6, <1>7, <1>8, <2>2 DEF Live
  <2>4. content[b] \in InFlight /\ InFlight' = InFlight \ {content[b]}
    BY <1>3, <1>9, <1>10, <2>1, <2>3, OneLess
  <2>5. content[b] \in Calls
    BY <1>2, <1>6, <1>12 DEF ContentIsCall
  <2>6. Queue!Lose(content[b])
    BY <1>3, <1>5, <1>12, <2>4 DEF Queue!Lose
  <2> QED
    BY <2>5, <2>6 DEF Queue!Next
<1> QED
  BY <1>11, <1>12

\* Deliver writes the message of the popped body: the oldest unless there was
\* a flood.
LEMMA DeliverWrites ==
  ASSUME IInv, IInv', DInv, QInv, Deliver PROVE Queue!Next
<1> USE DEF IInv
<1>1. PICK b \in Bodies : b = popped
  BY DEF Deliver, TypeOK, HandsMatchStages
<1>2. /\ cpc = "write" /\ cpc' = "free"
      /\ delivered' = Append(delivered, content[b])
      /\ UNCHANGED <<buckets, content, pc, hand, popped, claimed, flooded>>
  BY <1>1 DEF Deliver, ringVars, prodVars
<1>3. b # NIL /\ Live(b) /\ content[b] \in Calls
  BY <1>1, <1>2, RingAssumption DEF Live, ContentIsCall
<1>4. \A c \in Bodies : Live(c)' <=> Live(c) /\ c # b
  BY <1>1, <1>2 DEF Live, Disjoint
<1>5. content[b] \in InFlight /\ InFlight' = InFlight \ {content[b]}
  BY <1>2, <1>3, <1>4, OneLess
<1>6. ASSUME ~flooded
      PROVE  Len(delivered) < Len(claimed)
             /\ content[b] = claimed[Len(delivered) + 1]
  <2>1. Len(delivered) = readIndex - 1 /\ content[b] = claimed[readIndex]
        /\ readIndex <= Len(claimed)
    BY <1>1, <1>2, <1>6 DEF QInv, WindowFits, DeliveredIsPrefix
  <2>2. readIndex \in Nat /\ Len(claimed) \in Nat
    BY DEF TypeOK
  <2>3. Len(delivered) + 1 = readIndex
    BY <2>1, <2>2
  <2> QED
    BY <2>1, <2>2, <2>3
<1>7. Queue!Write(content[b])
  BY <1>2, <1>5, <1>6 DEF Queue!Write
<1> QED
  BY <1>3, <1>7 DEF Queue!Next

\* Take only moves a live body; the other steps concern no live body.
LEMMA OtherRefines ==
  ASSUME IInv, IInv',
         \/ \E p \in Producers : GetBody(p) \/ Fill(p) \/ FreeOld(p)
         \/ Reload \/ Take \/ Release \/ Wake \/ CollectPool \/ UNCHANGED vars
  PROVE  UNCHANGED Queue!vars
<1> USE DEF IInv, ringVars, prodVars, consVars, hist, vars
<1>1. UNCHANGED <<claimed, delivered, flooded>>
  BY DEF GetBody, Fill, FreeOld, Reload, Take, Release, Wake, CollectPool
<1>2. ASSUME NEW p \in Producers, GetBody(p) PROVE InFlight' = InFlight
  <2>1. PICK b \in pool \union Unallocated :
          /\ hand' = [hand EXCEPT ![p] = b]
          /\ content' = [content EXCEPT ![b] = NIL]
    BY <1>2 DEF GetBody
  <2>2. /\ b \in Bodies /\ b # NIL
        /\ \A i \in Slots : buckets[i] # b
        /\ \A q \in Producers : hand[q] # b
        /\ popped # b
    BY FreshBody
  <2>3. ~Live(b) /\ \A c \in Bodies : Live(c)' <=> Live(c)
    BY <1>2, <2>1, <2>2 DEF GetBody, TypeOK, Live
  <2>4. \A c \in Bodies : c # b => content'[c] = content[c]
    BY <2>1 DEF TypeOK
  <2> QED
    BY <2>3, <2>4, SameInFlight
<1>3. ASSUME NEW p \in Producers, Fill(p) PROVE InFlight' = InFlight
  <2>1. hand[p] \in Bodies /\ hand[p] # NIL
    BY <1>3 DEF Fill, TypeOK, HandsMatchStages
  <2>2. ~Live(hand[p])
    BY <1>3, <2>1 DEF Fill, Live, Disjoint
  <2>3. \A c \in Bodies : Live(c)' <=> Live(c)
    BY <1>3 DEF Fill, TypeOK, Live
  <2>4. \A c \in Bodies : c # hand[p] => content'[c] = content[c]
    BY <1>3 DEF Fill, TypeOK
  <2> QED
    BY <2>2, <2>3, <2>4, SameInFlight
<1>4. ASSUME NEW p \in Producers, FreeOld(p) PROVE InFlight' = InFlight
  <2>1. \A c \in Bodies : Live(c)' <=> Live(c)
    BY <1>4 DEF FreeOld, TypeOK, Live
  <2> QED
    BY <1>4, <2>1, SameInFlight DEF FreeOld
<1>5. ASSUME Take PROVE InFlight' = InFlight
  <2>1. PICK s \in Slots : s = Slot(readIndex)
    BY SlotInRange DEF TypeOK
  <2>2. /\ cpc = "poll" /\ popped' = buckets[s]
        /\ buckets' = [buckets EXCEPT ![s] = NIL]
        /\ UNCHANGED <<content, pc, hand>>
        /\ \/ buckets[s] = NIL /\ cpc' = "sleep"
           \/ buckets[s] # NIL /\ cpc' = "write"
    BY <1>5, <2>1 DEF Take, Emptied
  <2>3. \A i \in Slots : buckets'[i] = IF i = s THEN NIL ELSE buckets[i]
    BY <2>2 DEF TypeOK
  <2>4. \A c \in Bodies : Live(c)' <=> Live(c)
    BY <2>2, <2>3 DEF Live
  <2> QED
    BY <2>2, <2>4, SameInFlight
<1>6. ASSUME Reload \/ Release \/ Wake \/ CollectPool \/ UNCHANGED vars
      PROVE  InFlight' = InFlight
  <2>1. UNCHANGED <<buckets, content, pc, hand>>
    BY <1>6 DEF Reload, Release, Wake, CollectPool
  <2>2. /\ cpc' = "write" <=> cpc = "write"
        /\ cpc = "write" => popped' = popped
    BY <1>6 DEF Reload, Release, Wake, CollectPool
  <2>3. \A c \in Bodies : Live(c)' <=> Live(c)
    BY <2>1, <2>2 DEF Live
  <2> QED
    BY <2>1, <2>3, SameInFlight
<1>7. InFlight' = InFlight
  BY <1>2, <1>3, <1>4, <1>5, <1>6
<1> QED
  BY <1>1, <1>7 DEF Queue!vars

LEMMA StepRefines ==
  IInv /\ IInv' /\ DInv /\ QInv /\ [Next]_vars => [Queue!Next]_Queue!vars
<1> SUFFICES ASSUME IInv, IInv', DInv, QInv, [Next]_vars
             PROVE  Queue!Next \/ UNCHANGED Queue!vars
  BY DEF Queue!vars
<1>1. ASSUME NEW p \in Producers, Push(p)
      PROVE  Queue!Next \/ UNCHANGED Queue!vars
  <2>1. CASE Claim(p)
    BY <2>1, ClaimAccepts DEF Queue!Next
  <2>2. CASE Swap(p)
    BY <2>2, SwapLoses
  <2>3. CASE GetBody(p) \/ Fill(p) \/ FreeOld(p)
    BY <2>3, OtherRefines
  <2> QED
    BY <1>1, <2>1, <2>2, <2>3 DEF Push
<1>2. CASE Consumer
  BY <1>2, DeliverWrites, OtherRefines DEF Consumer
<1>3. CASE CollectPool \/ UNCHANGED vars
  BY <1>3, OtherRefines
<1> QED
  BY <1>1, <1>2, <1>3 DEF Next

\* With any number of goroutines, buckets and recycled bodies, the ring is a
\* lossy queue to those who log and to the core: it gives each message out at
\* most once, loses none before a flood, and is first in, first out until then.
THEOREM RingRefinesQueue == Spec => ImplementsLossyFifo
  BY InitRefines, StepRefines, QueueInductive, PTL
  DEF Spec, ImplementsLossyFifo, Queue!Spec
=============================================================================
