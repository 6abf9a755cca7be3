------------------------------ MODULE LogStream ------------------------------
(***************************************************************************)
(* What a Rotation promises: the bytes given to Write go, in their order,  *)
(* through a pending part into the newest of some files.  A file is        *)
(* followed by a new one when it is full, and the oldest ones are removed, *)
(* of which as many as configured are kept.                                *)
(*                                                                         *)
(* Once something has gone wrong, pending bytes and whole files may get    *)
(* lost, but what is left is still in order: nothing is ever repeated,     *)
(* moved or cut out of the middle of a file.                               *)
(***************************************************************************)
EXTENDS Integers, Sequences, FiniteSets

CONSTANTS
  Files,       \* numbers, a greater one for a newer file
  MaxSize,     \* bytes of a full file
  MaxBackups   \* files kept beside the newest one

VARIABLES
  stream,    \* the files there are, by number: their bytes
  pending,
  accepted,  \* number of bytes given so far
  broken     \* something has gone wrong

streamVars == <<stream, pending, accepted, broken>>

Init ==
  /\ \E i \in Files : stream = [j \in {i} |-> <<>>]
  /\ pending = <<>>
  /\ accepted = 0
  /\ broken = FALSE

Newest(i) == i \in DOMAIN stream /\ \A j \in DOMAIN stream : j <= i
Oldest(i) == i \in DOMAIN stream /\ \A j \in DOMAIN stream : i <= j

\* Some of the files, and perhaps a new one.
Only(kept) == [i \in kept |-> stream[i]]
WithNew(kept, new) == [i \in kept \union {new} |-> IF i = new THEN <<>> ELSE stream[i]]

Accept ==
  /\ accepted' > accepted
  /\ pending' = pending \o [i \in 1..(accepted' - accepted) |-> accepted + i]
  /\ UNCHANGED stream

Store ==
  /\ \E i \in DOMAIN stream, n \in 1..Len(pending) :
       /\ Newest(i)
       /\ stream' = [stream EXCEPT ![i] = @ \o SubSeq(pending, 1, n)]
       /\ pending' = SubSeq(pending, n + 1, Len(pending))
  /\ UNCHANGED accepted

Roll ==
  /\ broken \/ \E i \in DOMAIN stream : Newest(i) /\ Len(stream[i]) >= MaxSize
  /\ \E new \in Files :
       /\ \A i \in DOMAIN stream : i < new
       /\ stream' = WithNew(DOMAIN stream, new)
  /\ UNCHANGED <<pending, accepted>>

Expire ==
  /\ \E kept \in SUBSET DOMAIN stream :
       /\ \/ broken'
          \/ /\ \E i \in DOMAIN stream : Oldest(i) /\ kept = DOMAIN stream \ {i}
             /\ Cardinality(kept) >= MaxBackups
       /\ stream' = Only(kept)
  /\ UNCHANGED <<pending, accepted>>

\* Pending bytes get lost.
Lose ==
  /\ broken'
  /\ \E i, j \in 1..(Len(pending) + 1) : pending' = SubSeq(pending, i, j - 1)
  /\ UNCHANGED <<stream, accepted>>

\* The owner of the files starts again, with some of them and a new one.
Restart ==
  /\ broken
  /\ \E kept \in SUBSET DOMAIN stream, new \in Files :
       /\ \A i \in kept : i < new
       /\ stream' = WithNew(kept, new)
  /\ pending' = <<>>
  /\ UNCHANGED accepted

\* A fault makes `broken' true in whatever step it happens, or in one of its own.
Break == broken' /\ UNCHANGED <<stream, pending, accepted>>

Next ==
  /\ broken => broken'
  /\ Accept \/ Store \/ Roll \/ Expire \/ Lose \/ Restart \/ Break

Spec == Init /\ [][Next]_streamVars
=============================================================================
