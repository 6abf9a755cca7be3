------------------------------ MODULE MCLogger ------------------------------
(***************************************************************************)
(* Instances of Logger for TLC.                                            *)
(***************************************************************************)
EXTENDS Logger, TLC

CONSTANTS p1, p2

TwoAndOne == (p1 :> 2) @@ (p2 :> 1)
OneEach == (p1 :> 1) @@ (p2 :> 1)

\* p1 logs a Debug message and then calls Panic, p2 calls Fatal.
DebugPanicFatal ==
  [c \in Calls |-> IF c[1] = p2 THEN FatalLevel
                   ELSE IF c[2] = 1 THEN DebugLevel ELSE PanicLevel]

\* p1 calls Panic, p2 Fatal.
PanicFatal == [c \in Calls |-> IF c[1] = p1 THEN PanicLevel ELSE FatalLevel]

\* "Fatal", no text at all, and a text that is no level.
SomeTexts == {Text("fatal", "both"), Text("", "small"), Text("verbose", "small")}

\* Debug enabled, or nothing but Fatal.
TwoLevels == {DebugLevel, FatalLevel}
=============================================================================
