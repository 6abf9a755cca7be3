--------------------------- MODULE MCJsonEncoder ---------------------------
(***************************************************************************)
(* An instance of JsonEncoder for TLC, together with one of Fields: before *)
(* the encoder is first used, the application makes fields.                *)
(***************************************************************************)
EXTENDS JsonEncoder, Fields, TLC

\* Nothing, one key that is encoded by the user, everything; with functions that
\* append something and that do not, and with spaces and without.
SomeConfigs ==
  {[keys |-> {}, spaced |-> FALSE, noop |-> TRUE],
   [keys |-> {"time"}, spaced |-> TRUE, noop |-> TRUE],
   [keys |-> {"time"}, spaced |-> FALSE, noop |-> FALSE],
   [keys |-> {"level", "time", "msg", "reqID"}, spaced |-> TRUE, noop |-> FALSE]}

\* Two addresses with the same content.
ThreeAddresses == (1 :> "x") @@ (2 :> "x") @@ (3 :> "y")

\* 2, 3, 4 and 5 bits in place of 8, 16, 32 and 64.
SmallSizes == (8 :> 4) @@ (16 :> 8) @@ (32 :> 16) @@ (64 :> 32)

MakeFields ==
  /\ phase = "ready" /\ line = <<>> /\ core.buf = <<>> /\ config.keys = {}
  /\ Make \/ Forget
  /\ UNCHANGED vars

MCInit == Init /\ FieldInit

MCSpec ==
  /\ MCInit
  /\ [][(Next /\ made = <<>> /\ UNCHANGED made) \/ MakeFields]_<<vars, made>>
=============================================================================
