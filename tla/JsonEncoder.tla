----------------------------- MODULE JsonEncoder -----------------------------
(***************************************************************************)
(* The JSON encoder of an ioCore (zapcore/json_encoder.go) and the code    *)
(* that drives it: With and Write of the core, the fields (field.go), and  *)
(* marshalers, which call the encoder back while it is inside AppendArray  *)
(* or AppendObject.                                                        *)
(*                                                                         *)
(* The bytes are tokens: a quoted string that is a key, any other string   *)
(* or number ("val"), and the punctuation, by name.  Beside them the model *)
(* keeps where MapObjectEncoder (zapcore/memory_encoder.go), the encoder   *)
(* of the tests, would put each value: its path of containers, which are   *)
(* numbered in the order they are opened; 0 is the entry itself.           *)
(***************************************************************************)
EXTENDS Integers, FiniteSets, SequencesExt

CONSTANTS
  Configs,           \* encoders: the metadata keys they have, spaced, and whether
                     \* the EncodeX functions of their EncoderConfig do nothing
  NestedNamespaces,  \* whether a marshaler may open a namespace
  SliceLengths,      \* of the slices of array.go
  MaxDepth,          \* bound: marshalers inside each other
  MaxWork            \* bound: fields and elements in a behaviour

ASSUME EncoderAssumption ==
  /\ Configs \subseteq [keys : SUBSET {"level", "time", "msg", "reqID"},
                        spaced : BOOLEAN, noop : BOOLEAN]
  /\ NestedNamespaces \in BOOLEAN
  /\ SliceLengths \subseteq Nat
  /\ MaxDepth \in Nat
  /\ MaxWork \in Nat

VARIABLES
  config,
  core,     \* the encoder of the core: the context given to With
  phase,    \* "ready", or what the encoder in use was cloned for
  buf,      \* the tokens in that encoder
  openNamespaces,
  stack,    \* the marshalers it is in: their kind, and MapObjectEncoder's cur;
            \* "errors" is an errArray, "cause" an element of it
  want,     \* the paths of the values it was given
  opened,   \* how many containers it was asked to open
  line,     \* the entry just encoded, until ioCore.Write has freed its buffer
  lineWant, \* the paths of its values
  work

encoder == <<buf, openNamespaces, stack, want, opened>>
vars == <<config, core, phase, encoder, line, lineWant, work>>

Tokens == {"lbrace", "rbrace", "lbracket", "rbracket", "colon", "comma", "space",
           "key", "val"}

-----------------------------------------------------------------------------
(***************************************************************************)
(* What the methods of the encoder append.                                 *)
(***************************************************************************)

\* addElementSeparator
Separated(b) ==
  IF b = <<>> \/ Last(b) \in {"lbrace", "lbracket", "colon", "comma", "space"} THEN b
  ELSE b \o (IF config.spaced THEN <<"comma", "space">> ELSE <<"comma">>)

\* addKey
WithKey(b) ==
  Separated(b) \o (IF config.spaced THEN <<"key", "colon", "space">>
                   ELSE <<"key", "colon">>)

\* AppendString, AppendInt64, ...: a scalar.
WithValue(b) == Separated(b) \o <<"val">>

\* EncodeLevel, EncodeTime or EncodeDuration of the configuration, which may
\* append nothing, and the fallback then.
WithEncoded(b) ==
  LET e == IF config.noop THEN b ELSE WithValue(b)
  IN  IF Len(e) = Len(b) THEN WithValue(b) ELSE e

\* EncodeEntry up to the fields: what comes before the context.
Header ==
  LET open  == <<"lbrace">>
      level == IF "level" \in config.keys THEN WithEncoded(WithKey(open)) ELSE open
      time  == IF "time" \in config.keys THEN WithEncoded(WithKey(level)) ELSE level
      msg   == IF "msg" \in config.keys THEN WithValue(WithKey(time)) ELSE time
  IN  IF "reqID" \in config.keys THEN WithValue(WithKey(msg)) ELSE msg

\* ... and with the context.
WithContext(b) == IF core.buf = <<>> THEN b ELSE Separated(b) \o core.buf

\* closeOpenNamespaces
Closings(n) == [i \in 1..n |-> "rbrace"]

\* The elements of a slice (array.go), one by one: times and durations are
\* encoded by the configuration, all others are scalars.
Elements(b, n, encoded) ==
  LET with[i \in 0..n] ==
        IF i = 0 THEN b
        ELSE IF encoded THEN WithEncoded(with[i - 1]) ELSE WithValue(with[i - 1])
  IN  with[n]

\* encodeError, but for the causes: the message and the verbose text.
WithError(b, verbose) ==
  LET basic == WithValue(WithKey(b))
  IN  IF verbose THEN WithValue(WithKey(basic)) ELSE basic

Top      == Last(stack)
InObject == Top.kind = "object"
Keyed(b) == IF InObject THEN WithKey(b) ELSE b

\* An AddTo of the core or of EncodeEntry, not inside a marshaler.
AtTopLevel == Len(stack) = 1

Frame(kind, path) == [kind |-> kind, path |-> path]
Closing(kind) == IF kind = "object" THEN "rbrace" ELSE "rbracket"

-----------------------------------------------------------------------------

Init ==
  /\ config \in Configs
  /\ core = [buf |-> <<>>, openNamespaces |-> 0, path |-> <<0>>, want |-> <<>>,
             opened |-> 0]
  /\ phase = "ready"
  /\ buf = <<>> /\ openNamespaces = 0 /\ stack = <<>> /\ want = <<>> /\ opened = 0
  /\ line = <<>> /\ lineWant = <<>>
  /\ work = 0

\* Mutant of StartFrom: the clone does not know of the namespaces that the
\* context has left open.
StartWithoutNamespaces(b, m) ==
  /\ buf' = b
  /\ openNamespaces' = 0
  /\ stack' = <<Frame("object", core.path)>>
  /\ want' = [i \in 1..m |-> <<0>>] \o core.want
  /\ opened' = core.opened
  /\ line' = <<>> /\ lineWant' = <<>>

\* clone: the fields of the encoder cloned from the core's.  Its bytes are b,
\* and m values come before those of the context.
StartFrom(b, m) ==
  /\ buf' = b
  /\ openNamespaces' = core.openNamespaces
  /\ stack' = <<Frame("object", core.path)>>
  /\ want' = [i \in 1..m |-> <<0>>] \o core.want
  /\ opened' = core.opened
  /\ line' = <<>> /\ lineWant' = <<>>

\* Mutant of Released: the namespaces are not reset.
ReleasedWithNamespaces ==
  /\ phase' = "ready"
  /\ buf' = <<>> /\ stack' = <<>> /\ want' = <<>> /\ opened' = 0
  /\ UNCHANGED openNamespaces

\* putJSONEncoder, or With returning: nobody adds to the clone any more.
Released ==
  /\ phase' = "ready"
  /\ buf' = <<>> /\ openNamespaces' = 0 /\ stack' = <<>> /\ want' = <<>> /\ opened' = 0

\* Mutant of With: clone in place of Clone, which does not copy the context.
WithoutContext ==
  /\ phase = "ready"
  /\ phase' = "with"
  /\ StartFrom(<<>>, 0)
  /\ UNCHANGED <<config, core, work>>

\* ioCore.With: clone the encoder and add fields to the clone ...
With ==
  /\ phase = "ready"
  /\ phase' = "with"
  /\ StartFrom(core.buf, 0)
  /\ UNCHANGED <<config, core, work>>

\* ... which is the encoder of the new core.
EndWith ==
  /\ phase = "with"
  /\ AtTopLevel
  /\ Released
  /\ core' = [buf |-> buf, openNamespaces |-> openNamespaces, path |-> Top.path,
              want |-> want, opened |-> opened]
  /\ UNCHANGED <<config, line, lineWant, work>>

\* ioCore.Write: EncodeEntry clones the encoder, and writes header and context.
BeginEntry ==
  /\ phase = "ready"
  /\ phase' = "entry"
  /\ StartFrom(WithContext(Header), Cardinality(config.keys))
  /\ UNCHANGED <<config, core, work>>

\* EncodeEntry closes the namespaces and returns the buffer.
EndEntry ==
  /\ phase = "entry"
  /\ AtTopLevel
  /\ Released
  /\ line' = buf \o Closings(openNamespaces) \o <<"rbrace">>
  /\ lineWant' = want
  /\ UNCHANGED <<config, core, work>>

-----------------------------------------------------------------------------
(***************************************************************************)
(* A field of With or of the entry, or a call of a marshaler.              *)
(***************************************************************************)

Encoding ==
  /\ phase \in {"with", "entry"}
  /\ work < MaxWork
  /\ work' = work + 1
  /\ UNCHANGED <<config, core, phase, line, lineWant>>

Working == Encoding /\ Top.kind # "errors"

\* n values in the container at a path.
Values(n, path) == [i \in 1..n |-> path]

\* A container in the current one.
Inner == Append(Top.path, opened + 1)

Gives(b, n) ==
  /\ buf' = b
  /\ want' = want \o Values(n, Top.path)
  /\ UNCHANGED <<openNamespaces, stack, opened>>

\* AddString, AppendInt64, ...
AddScalar ==
  /\ Working
  /\ Gives(WithValue(Keyed(buf)), 1)

\* AddTime, AddDuration, AppendTime, AppendDuration
AddEncoded ==
  /\ Working
  /\ Gives(WithEncoded(Keyed(buf)), 1)

\* AddReflected of a value that cannot be encoded: the encoder appends nothing
\* and AddTo adds the error.  Inside a marshaler nothing happens at all.
AddReflectedFails ==
  /\ Working
  /\ AtTopLevel
  /\ Gives(WithValue(WithKey(buf)), 1)

OpenNamespace ==
  /\ Working
  /\ InObject
  /\ AtTopLevel \/ NestedNamespaces
  /\ buf' = Append(WithKey(buf), "lbrace")
  /\ openNamespaces' = openNamespaces + 1
  /\ opened' = opened + 1
  /\ stack' = Append(Front(stack), Frame("object", Inner))
  /\ UNCHANGED want

\* AddArray, AddObject, AppendArray, AppendObject call the marshaler ...
BeginMarshal ==
  /\ Working
  /\ Len(stack) <= MaxDepth
  /\ \E kind \in {"object", "array"} :
       /\ buf' = Append(Separated(Keyed(buf)),
                        IF kind = "object" THEN "lbrace" ELSE "lbracket")
       /\ stack' = Append(stack, Frame(kind, Inner))
  /\ opened' = opened + 1
  /\ UNCHANGED <<openNamespaces, want>>

\* ... and close the bracket, whether or not the marshaler returned an error,
\* which AddTo adds as one more field.
EndMarshal ==
  /\ phase \in {"with", "entry"}
  /\ ~AtTopLevel /\ Top.kind # "errors"
  /\ stack' = Front(stack)
  /\ LET closed == Append(buf, Closing(Top.kind)) IN
     \/ /\ buf' = closed
        /\ UNCHANGED want
     \/ /\ Len(stack) = 2
        /\ buf' = WithValue(WithKey(closed))
        /\ want' = Append(want, stack[1].path)
  /\ UNCHANGED <<config, core, phase, openNamespaces, opened, line, lineWant, work>>

\* Bools ... Uintptrs, Durations, Times: the marshaler is the slice.
AddSlice ==
  /\ Working
  /\ \E n \in SliceLengths, encoded \in BOOLEAN :
       /\ LET open == Append(Separated(Keyed(buf)), "lbracket")
          IN  buf' = Append(Elements(open, n, encoded), "rbracket")
       /\ want' = want \o Values(n, Inner)
  /\ opened' = opened + 1
  /\ UNCHANGED <<openNamespaces, stack>>

-----------------------------------------------------------------------------
(***************************************************************************)
(* Errors.  A nil error is a field that adds nothing, and no element.      *)
(***************************************************************************)

\* An array of errors begins after the bytes b, which hold n more values.
BeginErrors(b, n) ==
  /\ buf' = Append(WithKey(b), "lbracket")
  /\ want' = want \o Values(n, Top.path)
  /\ stack' = Append(stack, Frame("errors", Inner))
  /\ opened' = opened + 1
  /\ UNCHANGED openNamespaces

\* A field with an error: its message, its verbose text if it has a different
\* one, or, if it is a group of errors, the array of its causes.
AddError ==
  /\ Working
  /\ InObject
  /\ \/ Gives(WithError(buf, FALSE), 1)
     \/ Gives(WithError(buf, TRUE), 2)
     \/ Len(stack) <= MaxDepth /\ BeginErrors(WithError(buf, FALSE), 1)

\* Errors
AddErrors ==
  /\ Working
  /\ InObject
  /\ Len(stack) <= MaxDepth
  /\ BeginErrors(buf, 0)

\* errArray.MarshalLogArray: an error becomes an object, which encodeError adds
\* its fields to.  A group of errors has an array in it again.
AppendError ==
  LET open(verbose) == WithError(Append(Separated(buf), "lbrace"), verbose) IN
  /\ Encoding
  /\ Top.kind = "errors"
  /\ \/ \E verbose \in BOOLEAN :
          /\ buf' = Append(open(verbose), "rbrace")
          /\ want' = want \o Values(IF verbose THEN 2 ELSE 1, Inner)
          /\ opened' = opened + 1
          /\ UNCHANGED stack
     \/ /\ Len(stack) <= MaxDepth
        /\ buf' = Append(WithKey(open(FALSE)), "lbracket")
        /\ want' = Append(want, Inner)
        /\ opened' = opened + 2
        /\ stack' = stack \o <<Frame("cause", Inner),
                                Frame("errors", Append(Inner, opened + 2))>>
  /\ UNCHANGED openNamespaces

\* The end of the array, and of the object it is in if that is a cause.
EndErrors ==
  LET inCause == stack[Len(stack) - 1].kind = "cause" IN
  /\ phase \in {"with", "entry"}
  /\ Top.kind = "errors"
  /\ buf' = buf \o (IF inCause THEN <<"rbracket", "rbrace">> ELSE <<"rbracket">>)
  /\ stack' = IF inCause THEN Front(Front(stack)) ELSE Front(stack)
  /\ UNCHANGED <<config, core, phase, want, openNamespaces, opened, line, lineWant,
                 work>>

Next ==
  \/ With \/ EndWith
  \/ BeginEntry \/ EndEntry
  \/ AddScalar \/ AddEncoded \/ AddReflectedFails
  \/ OpenNamespace
  \/ BeginMarshal \/ EndMarshal \/ AddSlice
  \/ AddError \/ AddErrors \/ AppendError \/ EndErrors

Spec == Init /\ [][Next]_vars

-----------------------------------------------------------------------------
(***************************************************************************)
(* A reader of the JSON.                                                   *)
(***************************************************************************)

Start == [need |-> "value", open |-> <<>>, opened |-> 0, leaves |-> <<>>]
Bad   == [Start EXCEPT !.need = "nothing"]

Path(d) == [i \in DOMAIN d.open |-> d.open[i].id]

\* The reader after one more token: `need' is what may come next.
Read(d, t) ==
  LET value == d.need \in {"value", "firstValue"} IN
  CASE t = "space" -> d
    [] t = "key" /\ d.need \in {"key", "firstKey"} -> [d EXCEPT !.need = "colon"]
    [] t = "colon" /\ d.need = "colon" -> [d EXCEPT !.need = "value"]
    [] t = "val" /\ value ->
         [d EXCEPT !.need = "more", !.leaves = Append(@, Path(d))]
    [] t = "lbrace" /\ value ->
         [d EXCEPT !.need = "firstKey", !.opened = @ + 1,
                   !.open = Append(@, [closing |-> "rbrace", id |-> d.opened])]
    [] t = "lbracket" /\ value ->
         [d EXCEPT !.need = "firstValue", !.opened = @ + 1,
                   !.open = Append(@, [closing |-> "rbracket", id |-> d.opened])]
    [] t = "comma" /\ d.need = "more" ->
         [d EXCEPT !.need = IF Last(d.open).closing = "rbrace" THEN "key" ELSE "value"]
    [] /\ t \in {"rbrace", "rbracket"}
       /\ d.open # <<>> /\ Last(d.open).closing = t
       /\ d.need \in {"more", IF t = "rbrace" THEN "firstKey" ELSE "firstValue"} ->
         [d EXCEPT !.need = IF Len(d.open) = 1 THEN "end" ELSE "more",
                   !.open = Front(@)]
    [] OTHER -> Bad

\* ... and after the tokens of b.
ReadAll(d, b) ==
  LET after[i \in 0..Len(b)] == IF i = 0 THEN d ELSE Read(after[i - 1], b[i])
  IN  after[Len(b)]

Decoded(b) == ReadAll(Start, b)

-----------------------------------------------------------------------------
(***************************************************************************)
(* Properties                                                              *)
(***************************************************************************)

\* Types; and an encoder that is back in the pool is as good as new.
TypeOK ==
  /\ phase \in {"ready", "with", "entry"}
  /\ openNamespaces \in Nat /\ core.openNamespaces \in Nat
  /\ Range(buf) \subseteq Tokens
  /\ IF phase = "ready" THEN encoder = <<<<>>, 0, <<>>, <<>>, 0>> ELSE stack # <<>>
  /\ \A i \in DOMAIN stack : stack[i].kind \in {"object", "array", "errors", "cause"}
  /\ opened \in Nat /\ work \in 0..MaxWork

\* "keep JSON valid" (json_encoder.go:236): every entry is one JSON object,
\* whatever is omitted from it, whatever fields, failing marshalers and empty
\* namespaces the context and the entry have.
ValidJson == line # <<>> => Decoded(line).need = "end"

\* A reader finds every value in the container that MapObjectEncoder, the
\* encoder of the tests, puts it into, and no other value: the namespaces of the
\* context hold the fields of the entry but not its header.
SameTree == line # <<>> => Decoded(line).leaves = lineWant
=============================================================================
