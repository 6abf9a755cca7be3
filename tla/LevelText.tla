------------------------------ MODULE LevelText ------------------------------
(***************************************************************************)
(* Levels and their texts (zapcore/level.go).  A text is a word in small   *)
(* letters, capitals or both.                                              *)
(***************************************************************************)
EXTENDS Integers

DebugLevel  == -1
InfoLevel   == 0
WarnLevel   == 1
ErrorLevel  == 2
DPanicLevel == 3
PanicLevel  == 4
FatalLevel  == 5

NamedLevels == DebugLevel..FatalLevel

Word(l) ==
  CASE l = DebugLevel -> "debug"   [] l = InfoLevel  -> "info"
    [] l = WarnLevel  -> "warn"    [] l = ErrorLevel -> "error"
    [] l = DPanicLevel -> "dpanic" [] l = PanicLevel -> "panic"
    [] l = FatalLevel -> "fatal"   [] OTHER -> "level(%d)"

Letters == {"small", "capital", "both"}
Text(word, letters) == [word |-> word, letters |-> letters]

\* MarshalText gives the first, CapitalLevelEncoder the second.
String(l) == Text(Word(l), IF l \in NamedLevels THEN "small" ELSE "both")
CapitalString(l) == Text(Word(l), "capital")

\* unmarshalText: the level of a text, as a set of one, or none.  The empty
\* text is InfoLevel.
Exactly(text) ==
  IF text.word = "" THEN {InfoLevel}
  ELSE {l \in NamedLevels : text.word = Word(l) /\ text.letters \in {"small", "capital"}}

ToLower(text) == Text(text.word, "small")

\* Mutant of Unmarshaled: the text is not tried in small letters.
UnmarshaledAsIs(text) == Exactly(text)

\* Level.UnmarshalText
Unmarshaled(text) ==
  IF Exactly(text) # {} THEN Exactly(text) ELSE Exactly(ToLower(text))
=============================================================================
