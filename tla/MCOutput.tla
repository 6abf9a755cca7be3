------------------------------ MODULE MCOutput ------------------------------
(***************************************************************************)
(* Instances of Output for TLC.                                            *)
(***************************************************************************)
EXTENDS Output, TLC

CONSTANTS g1, g2

Locked(x, m) == Lock(AddSync(File(x)), m)

\* g1 writes to two files, each with its mutex; g2 has the same two, in the
\* opposite order.
Crossed ==
  LET a == Locked("a", "m1")  b == Locked("b", "m2")
  IN  (g1 :> NewMultiWriteSyncer(<<a, b>>)) @@ (g2 :> NewMultiWriteSyncer(<<b, a>>))

\* One mutex for both files, and a second Lock on top of it; g2 has one of them
\* through a mutex in between.
Nested ==
  LET a   == Locked("a", "m1")
      all == Lock(NewMultiWriteSyncer(<<a, AddSync(Writer("b"))>>), "m2")
  IN  (g1 :> Lock(all, "m3")) @@ (g2 :> Lock(NewMultiWriteSyncer(<<a>>), "m3"))

\* The same file twice, and an output for nothing.
Twice ==
  LET a == Locked("a", "m1")
  IN  (g1 :> NewMultiWriteSyncer(<<a, a>>)) @@ (g2 :> NewMultiWriteSyncer(<<>>))

\* Files that nobody locks.
Unlocked2 ==
  LET b == AddSync(File("b"))
  IN  (g1 :> NewMultiWriteSyncer(<<AddSync(Writer("a")), b>>)) @@ (g2 :> b)

\* An output for nothing inside of another one.
Hollow ==
  LET a == Locked("a", "m1")
  IN  (g1 :> NewMultiWriteSyncer(<<a, NewMultiWriteSyncer(<<>>)>>)) @@ (g2 :> a)

SomeSetups == {Crossed, Nested, Twice, Unlocked2, Hollow}

RECURSIVE PartsOf(_)
PartsOf(ws) == {ws} \union UNION {PartsOf(part) : part \in Range(ws.ws)}

SomeBuilt == UNION {PartsOf(setup[g]) : setup \in SomeSetups, g \in Goroutines}
=============================================================================
