----------------------------- MODULE MCRotation -----------------------------
(***************************************************************************)
(* An instance of Rotation for TLC, in an application that first gives a   *)
(* Config to New.  If that is adjusted to the sizes of the instance the    *)
(* Rotation runs.                                                          *)
(***************************************************************************)
EXTENDS Rotation, Config

Written(maxSize, maxBackups, perWrite, perSync, developed) ==
  [MaxSize |-> maxSize, MaxBackups |-> maxBackups, PerWriteSize |-> perWrite,
   PerSyncSize |-> perSync, Developed |-> developed]

\* The instance; and with every size absent, negative, small, just below a
\* wrap-around and above it.
Sample == {-1, 0, 1, 3, 200}
SomeConfigs ==
  {Written(MaxSize, MaxBackups, PerWriteSize, PerSyncSize, TRUE)}
    \union {Written(s, b, w1, w2, d) : s \in Sample, b \in {0, 1}, w1 \in Sample,
                                       w2 \in Sample, d \in BOOLEAN}

Running ==
  /\ news = 1
  /\ cfg = Written(MaxSize, MaxBackups, PerWriteSize, PerSyncSize, TRUE)

Configure == accepted = 0 /\ op = "idle" /\ closed = {} /\ New /\ UNCHANGED vars

Run(A) == A /\ Running /\ UNCHANGED confVars

MCInit == Init /\ ConfigInit

MCSpec ==
  /\ MCInit
  /\ [][Run(Next) \/ Configure]_<<vars, confVars>>
  /\ WF_<<vars, confVars>>(Run(InCall))
=============================================================================
