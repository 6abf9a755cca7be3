------------------------------ MODULE RandRing ------------------------------
(***************************************************************************)
(* The ring of buckets between the goroutines that log and the write loop  *)
(* of a Logger (randring.go), with the pool its logBody objects come from  *)
(* and go back to (bodypool.go).                                           *)
(*                                                                         *)
(* Many producers push: a push claims a ticket with one atomic add, swaps  *)
(* its logBody into the bucket of that ticket and frees the body it threw  *)
(* out, if any.  One consumer pops with TryPop, hands the body it took to  *)
(* the core and frees it.  Each atomic instruction of the code is one      *)
(* action; the code between two of them touches only local variables and   *)
(* a body the goroutine owns, and is merged with one of them.              *)
(***************************************************************************)
EXTENDS Integers, Sequences, FiniteSets

CONSTANTS
  Producers,  \* the goroutines that call Debug, Info, ..., Fatal
  Bodies,     \* the addresses a logBody may be allocated at
  N,          \* number of buckets: 1 << n in newRandRing
  W,          \* number of values of a uint64: 2^64
  MaxCalls,   \* bound: how many calls each producer makes in a behaviour
  NIL         \* the nil pointer, and the message of a body after reset()

ASSUME RingAssumption ==
  /\ N \in Nat \ {0}
  /\ W \in Nat \ {0}
  /\ MaxCalls \in [Producers -> Nat]
  /\ NIL \notin Bodies

\* The k-th call of producer p; it stands for the level, text and request id
\* that this call was given.
Calls == UNION {{p} \X (1..MaxCalls[p]) : p \in Producers}
ASSUME NilIsNoCall == NIL \notin Calls

\* A Logger is not pushed to 2^64 times.
ASSUME FewerCallsThanTickets == IsFiniteSet(Calls) /\ Cardinality(Calls) < W

VARIABLES
  buckets,          \* the body in each bucket, or NIL
  writeIndex,       \* last ticket given out; starts at ^0
  writeIndexCache,  \* the consumer's copy of writeIndex
  readIndex,        \* ticket of the consumer's next bucket
  pool,             \* bodies at rest in _logBodyPool
  content,          \* the message each body holds, or NIL after reset
  pc,               \* where each producer is in Push
  hand,             \* the body each producer owns, or NIL
  ticket,           \* the value its last AddUint64 returned
  calls,            \* number of calls each producer has made
  cpc,              \* where the consumer is in its loop
  popped            \* the body the consumer owns, or NIL

(***************************************************************************)
(* History, read by the properties and by no guard.                        *)
(***************************************************************************)
VARIABLES
  claimed,    \* the calls in the order of their tickets
  delivered,  \* the calls handed to the core, in that order
  flooded     \* more than N claimed calls have been outstanding at once

ringVars == <<buckets, writeIndex, writeIndexCache, readIndex>>
prodVars == <<pc, hand, ticket, calls>>
consVars == <<cpc, popped>>
hist     == <<claimed, delivered, flooded>>
vars     == <<ringVars, pool, content, prodVars, consVars, hist>>

Slots == 0..(N - 1)

\* Mutant of Slot: the mask is one too small.
SmallMaskSlot(t) == t % (N - 1)

Slot(t) == t % N        \* t & r.mask

\* Mutants of FirstWriteIndex: the write index starts at 0, not ^0; it is a
\* signed integer.
ZeroWriteIndex == 0
SignedWriteIndex == -1

\* newRandRing: the write index starts one before the first ticket.
FirstWriteIndex == W - 1

\* Mutant of CaughtUp: off by one.
CaughtUpEarly(w) == readIndex + 1 >= w

\* TryPop's comparison of the read index with a write index: nothing to read.
CaughtUp(w) == readIndex >= w

\* Mutant of ReadIndexAfterPop: the read index is not moved.
ReadIndexStays == readIndex

\* r.readIndex++
ReadIndexAfterPop == (readIndex + 1) % W

\* Mutant of Emptied: the pop loads the bucket and leaves it as it is.
NotEmptied(i) == buckets

\* The buckets after SwapPointer(&r.buckets[i], nil).
Emptied(i) == [buckets EXCEPT ![i] = NIL]

\* Mutant of ThrownOut: the push gets back the body it put in.
PutInIfFull(p) == IF buckets[Slot(ticket[p])] = NIL THEN NIL ELSE hand[p]

\* What producer p gets back from SwapPointer(&r.buckets[idx], data).
ThrownOut(p) == buckets[Slot(ticket[p])]

InBuckets == {buckets[i] : i \in Slots} \ {NIL}
InHands   == {hand[p] : p \in Producers} \ {NIL}
InUse     == InBuckets \union InHands \union ({popped} \ {NIL})

\* Memory nobody refers to, which sync.Pool's New may be given.
Unallocated == Bodies \ (pool \union InUse)

-----------------------------------------------------------------------------

Init ==
  /\ buckets = [i \in Slots |-> NIL]
  /\ writeIndex = FirstWriteIndex
  /\ writeIndexCache = 0
  /\ readIndex = 0
  /\ pool = {}
  /\ content = [b \in Bodies |-> NIL]
  /\ pc = [p \in Producers |-> "idle"]
  /\ hand = [p \in Producers |-> NIL]
  /\ ticket = [p \in Producers |-> 0]
  /\ calls = [p \in Producers |-> 0]
  /\ cpc = "poll"
  /\ popped = NIL
  /\ claimed = <<>>
  /\ delivered = <<>>
  /\ flooded = FALSE

-----------------------------------------------------------------------------
(***************************************************************************)
(* A producer: getLogBody, fill the body, Push.                            *)
(***************************************************************************)

\* getLogBody: a pooled body or a new one, reset.
GetBody(p) ==
  /\ pc[p] = "idle"
  /\ calls[p] < MaxCalls[p]
  /\ \E b \in pool \union Unallocated :
       /\ hand' = [hand EXCEPT ![p] = b]
       /\ pool' = pool \ {b}
       /\ content' = [content EXCEPT ![b] = NIL]
  /\ pc' = [pc EXCEPT ![p] = "fill"]
  /\ calls' = [calls EXCEPT ![p] = @ + 1]
  /\ UNCHANGED <<ringVars, ticket, consVars, hist>>

\* The caller writes level, text and request id into its body.
Fill(p) ==
  /\ pc[p] = "fill"
  /\ content' = [content EXCEPT ![hand[p]] = <<p, calls[p]>>]
  /\ pc' = [pc EXCEPT ![p] = "claim"]
  /\ UNCHANGED <<ringVars, pool, hand, ticket, calls, consVars, hist>>

\* atomic.AddUint64(&r.writeIndex, 1)
Claim(p) ==
  /\ pc[p] = "claim"
  /\ writeIndex' = (writeIndex + 1) % W
  /\ ticket' = [ticket EXCEPT ![p] = writeIndex']
  /\ pc' = [pc EXCEPT ![p] = "swap"]
  /\ claimed' = Append(claimed, <<p, calls[p]>>)
  /\ flooded' = (flooded \/ Len(claimed') - readIndex > N)
  /\ UNCHANGED <<buckets, writeIndexCache, readIndex, pool, content, hand,
                 calls, consVars, delivered>>

\* Mutant of Swap: the push waits until its bucket is empty.
SwapWhenEmpty(p) ==
  /\ pc[p] = "swap"
  /\ ThrownOut(p) = NIL
  /\ buckets' = [buckets EXCEPT ![Slot(ticket[p])] = hand[p]]
  /\ hand' = [hand EXCEPT ![p] = NIL]
  /\ pc' = [pc EXCEPT ![p] = "idle"]
  /\ UNCHANGED <<writeIndex, writeIndexCache, readIndex, pool, content,
                 ticket, calls, consVars, hist>>

\* atomic.SwapPointer(&r.buckets[idx], data): the push is over if the bucket
\* was empty; otherwise the producer now owns the body it threw out.
Swap(p) ==
  /\ pc[p] = "swap"
  /\ buckets' = [buckets EXCEPT ![Slot(ticket[p])] = hand[p]]
  /\ hand' = [hand EXCEPT ![p] = ThrownOut(p)]
  /\ pc' = [pc EXCEPT ![p] = IF ThrownOut(p) = NIL THEN "idle" ELSE "free"]
  /\ UNCHANGED <<writeIndex, writeIndexCache, readIndex, pool, content,
                 ticket, calls, consVars, hist>>

\* lb.free() of the body thrown out: its message is lost.
FreeOld(p) ==
  /\ pc[p] = "free"
  /\ pool' = pool \union {hand[p]}
  /\ hand' = [hand EXCEPT ![p] = NIL]
  /\ pc' = [pc EXCEPT ![p] = "idle"]
  /\ UNCHANGED <<ringVars, content, ticket, calls, consVars, hist>>

-----------------------------------------------------------------------------
(***************************************************************************)
(* The consumer: TryPop, hand the message over, free the body.             *)
(***************************************************************************)

\* TryPop, the read index has caught up with the cached write index: reload
\* it, and report "no data" if the read index has caught up with that too.
Reload ==
  /\ cpc = "poll"
  /\ CaughtUp(writeIndexCache)
  /\ writeIndexCache' = writeIndex
  /\ cpc' = IF CaughtUp(writeIndex) THEN "sleep" ELSE "poll"
  /\ UNCHANGED <<buckets, writeIndex, readIndex, pool, content, prodVars,
                 popped, hist>>

\* TryPop, the next bucket is swapped with nil: "no data" if it was empty,
\* and the read index stays; else the body is the consumer's.
Take ==
  LET i == Slot(readIndex) IN
  /\ cpc = "poll"
  /\ ~CaughtUp(writeIndexCache)
  /\ buckets' = Emptied(i)
  /\ popped' = buckets[i]
  /\ \/ /\ buckets[i] = NIL
        /\ cpc' = "sleep"
        /\ UNCHANGED readIndex
     \/ /\ buckets[i] # NIL
        /\ cpc' = "write"
        /\ readIndex' = ReadIndexAfterPop
  /\ UNCHANGED <<writeIndex, writeIndexCache, pool, content, prodVars, hist>>

\* The write loop reads the message out of the body and gives it to the core.
Deliver ==
  /\ cpc = "write"
  /\ delivered' = Append(delivered, content[popped])
  /\ cpc' = "free"
  /\ UNCHANGED <<ringVars, pool, content, prodVars, popped, claimed, flooded>>

\* lb.free()
Release ==
  /\ cpc = "free"
  /\ pool' = pool \union {popped}
  /\ popped' = NIL
  /\ cpc' = "poll"
  /\ UNCHANGED <<ringVars, content, prodVars, hist>>

\* time.Sleep(2ms) after an unsuccessful pop.
Wake ==
  /\ cpc = "sleep"
  /\ cpc' = "poll"
  /\ UNCHANGED <<ringVars, pool, content, prodVars, popped, hist>>

\* The garbage collector may empty a sync.Pool at any time.
CollectPool ==
  /\ pool # {}
  /\ \E b \in pool : pool' = pool \ {b}
  /\ UNCHANGED <<ringVars, content, prodVars, consVars, hist>>

-----------------------------------------------------------------------------

Push(p)  == GetBody(p) \/ Fill(p) \/ Claim(p) \/ Swap(p) \/ FreeOld(p)
Consumer == Reload \/ Take \/ Deliver \/ Release \/ Wake

Next ==
  \/ \E p \in Producers : Push(p)
  \/ Consumer
  \/ CollectPool

Spec == Init /\ [][Next]_vars

\* A goroutine that has begun a call is scheduled until the call is over, and
\* the write loop is always scheduled again.  No caller has to log.
InCall(p) == Fill(p) \/ Claim(p) \/ Swap(p) \/ FreeOld(p)
Fairness ==
  /\ \A p \in Producers : WF_vars(InCall(p))
  /\ WF_vars(Consumer)

FairSpec == Spec /\ Fairness

-----------------------------------------------------------------------------
(***************************************************************************)
(* Properties                                                              *)
(***************************************************************************)

TypeOK ==
  /\ buckets \in [Slots -> Bodies \union {NIL}]
  /\ writeIndex \in 0..(W - 1)
  /\ writeIndexCache \in 0..(W - 1)
  /\ readIndex \in 0..(W - 1)
  /\ pool \in SUBSET Bodies
  /\ content \in [Bodies -> Calls \union {NIL}]
  /\ pc \in [Producers -> {"idle", "fill", "claim", "swap", "free"}]
  /\ hand \in [Producers -> Bodies \union {NIL}]
  /\ ticket \in [Producers -> 0..(W - 1)]
  /\ calls \in [Producers -> Nat]
  /\ \A p \in Producers : calls[p] <= MaxCalls[p]
  /\ cpc \in {"poll", "sleep", "write", "free"}
  /\ popped \in Bodies \union {NIL}
  /\ claimed \in Seq(Calls)
  /\ delivered \in Seq(Calls)
  /\ flooded \in BOOLEAN

\* "randring only cares about memory corruption" (randring.go:23): a body has
\* one owner.  It is in one bucket, or in the hands of one producer, or of the
\* consumer, or at rest in the pool; never in two of these places, whatever
\* the interleaving of pushes that lap each other, pops and frees.
OneOwner ==
  /\ \A i, j \in Slots :
       i # j /\ buckets[i] # NIL => buckets[i] # buckets[j]
  /\ \A p, q \in Producers : p # q /\ hand[p] # NIL => hand[p] # hand[q]
  /\ InBuckets \intersect InHands = {}
  /\ popped \notin InBuckets \union InHands
  /\ pool \intersect InUse = {}

\* Every message handed to the core is one that a caller pushed, as the caller
\* wrote it, and no message is handed over twice: a body is not read after it
\* was recycled for another call.
AtMostOnce ==
  /\ \A i \in DOMAIN delivered : \E j \in DOMAIN claimed : delivered[i] = claimed[j]
  /\ \A i, j \in DOMAIN delivered : i # j => delivered[i] # delivered[j]

\* "the random order only happens when there is a flood" (nanozap.go:35), for
\* the time before the first flood: while no more than N messages have ever
\* been outstanding, messages reach the core in the order of their tickets
\* and none is missing.
FifoUntilFlood ==
  ~flooded => /\ Len(delivered) <= Len(claimed)
              /\ \A i \in DOMAIN delivered : delivered[i] = claimed[i]

\* The messages that have a ticket and are neither delivered nor thrown out.
InFlight ==
  {content[hand[p]] : p \in {q \in Producers : pc[q] = "swap"}}
    \union {content[b] : b \in InBuckets}
    \union (IF cpc = "write" THEN {content[popped]} ELSE {})

\* The ring implements the lossy queue: a message is accepted when it gets its
\* ticket, written when the core gets it, and lost when a later push throws it
\* out of its bucket, which happens only after a flood.
Queue == INSTANCE LossyFifo WITH
  accepted <- claimed, inbox <- InFlight, written <- delivered, flood <- flooded
ImplementsLossyFifo == Queue!Spec

\* While there was no flood, every message but the newest reaches the core.
\* The newest one may wait for the next push: TryPop takes nothing from the
\* bucket of the last ticket (readIndex >= writeIndex, randring.go:83).
AllButNewestDelivered ==
  \A k \in 1..Cardinality(Calls) :
    Len(claimed) > k ~> (Len(delivered) >= k \/ flooded)

\* If the write loop polled before the first push (New starts it at once),
\* it cached the initial write index ^0 and from then on looks into the
\* buckets only: then the newest message reaches the core as well.
AllDeliveredIfPolledFirst ==
  \A k \in 1..Cardinality(Calls) :
    (Len(claimed) >= k /\ writeIndexCache = W - 1)
      ~> (Len(delivered) >= k \/ flooded)

\* "return (nil, false) if no data available" (randring.go:78): when TryPop
\* fails, the next bucket is empty.
NilMeansNoData ==
  [][cpc = "poll" /\ cpc' = "sleep" => buckets[Slot(readIndex)] = NIL]_vars
=============================================================================
