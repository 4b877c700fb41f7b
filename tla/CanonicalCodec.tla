--------------------------- MODULE CanonicalCodec ---------------------------
(***************************************************************************)
(* What the codec promises: encode gives a resource its one wire form or   *)
(* reports that the output cannot be allocated; strict decoding of any     *)
(* bytes gives back a resource exactly when the bytes are the wire form of *)
(* that resource, and otherwise a reject code.                             *)
(***************************************************************************)
EXTENDS WireFormat

CONSTANTS
  Resources,   (* The resources that are encoded.                         *)
  WireForms    (* The wire forms of every ResourceWireV1 there is.        *)

VARIABLES
  resource,  (* What is encoded.                                          *)
  sent,      (* The wire form that encode returned, if any.               *)
  received,  (* The bytes given to the decoder, if any.                   *)
  result     (* What the decoder returned, if anything.                   *)

vars == <<resource, sent, received, result>>

(* RESOURCE_WIRE_*, the reject codes of a resource wire.                   *)
RejectCodes ==
  {"BYTES", "HEADER", "MAGIC", "VERSION", "OBJECT", "FIELD_COUNT",
   "FIELD_HEADER", "FIELD_TAG", "FIELD_LENGTH", "FIELD_VALUE", "OPTION_TAG",
   "TRAILING"}

Nothing == [status |-> "nothing"]
Bytes(bytes) == [status |-> "bytes", bytes |-> bytes]
Decoded(values) == [status |-> "decoded", values |-> values]
Rejected(code) == [status |-> "rejected", code |-> code]
AllocationFailed == [status |-> "AllocationFailed"]

Init ==
  /\ resource \in Resources
  /\ sent = Nothing
  /\ received = Nothing
  /\ result = Nothing

Encode ==
  /\ sent = Nothing
  /\ sent' \in {Bytes(Encoding(resource)), AllocationFailed}
  /\ UNCHANGED <<resource, received, result>>

(* The decoder may be given any bytes.                                     *)
Deliver ==
  /\ sent.status = "bytes"
  /\ received = Nothing
  /\ received'.bytes \in Seq(Byte)
  /\ received' = Bytes(received'.bytes)
  /\ UNCHANGED <<resource, sent, result>>

Accept ==
  /\ result'.status = "decoded"
  /\ result' = Decoded(result'.values)
  /\ IsResource(result'.values)
  /\ received.bytes = Encoding(result'.values)

Reject ==
  /\ \E code \in RejectCodes : result' = Rejected(code)
  /\ received.bytes \notin WireForms

Decode ==
  /\ received.status = "bytes"
  /\ result = Nothing
  /\ Accept \/ Reject
  /\ UNCHANGED <<resource, sent, received>>

Next == Encode \/ Deliver \/ Decode

Spec == Init /\ [][Next]_vars
=============================================================================
