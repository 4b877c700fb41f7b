----------------------------- MODULE WireFormat -----------------------------
(***************************************************************************)
(* The canonical form of a ResourceWireV1 (zrm-codec/src/                  *)
(* resource_wire_v1.rs): a header, then the fields in the order of their   *)
(* tags, each framed by tag and length.  A field is a byte string, a       *)
(* big-endian number or the optional expiry epoch; every width and the     *)
(* size of a byte are parameters.                                          *)
(***************************************************************************)
EXTENDS Naturals, SequencesExt

CONSTANTS
  Base,              (* Values of a byte.                                 *)
  Magic,             (* MAGIC, a string of bytes.                         *)
  SchemaVersion,     (* SCHEMA_VERSION.                                   *)
  ObjectTag,         (* OBJECT_TAG.                                       *)
  ShortWidth,        (* Bytes of a u16: version, object, count and tags.  *)
  LengthWidth,       (* Bytes of a u32: the length of a field.            *)
  Fields,            (* The kind and width of each field; its tag is its  *)
                     (* place in this sequence.                           *)
  MaxResourceBytes   (* MAX_RESOURCE_BYTES: the longest input looked at.  *)

Byte == 0 .. Base - 1

Kinds == {"bytes", "number", "expiry"}

(* The option tag of a present expiry is one byte more than the epoch.     *)
Absent == <<>>
Some(epoch) == <<epoch>>

(* to_be_bytes of an integer that is `width` bytes wide: the low byte last. *)
BigEndian(n, width) ==
  LET Shifted[i \in 0 .. width] == IF i = 0 THEN n ELSE Shifted[i - 1] \div Base
  IN [i \in 1 .. width |-> Shifted[width - i] % Base]

(* from_be_bytes.                                                          *)
Number(bytes) ==
  LET Value[i \in 0 .. Len(bytes)] ==
        IF i = 0 THEN 0 ELSE Value[i - 1] * Base + bytes[i]
  IN Value[Len(bytes)]

Fits(n, width) == n \in Nat /\ Number(BigEndian(n, width)) = n

ASSUME FormatAssumption ==
  /\ Base \in Nat \ {0, 1}
  /\ ShortWidth \in Nat /\ LengthWidth \in Nat
  /\ Magic \in Seq(Byte)
  /\ Fields \in Seq([kind : Kinds, width : Nat \ {0}])
  /\ Fits(SchemaVersion, ShortWidth) /\ Fits(ObjectTag, ShortWidth)
  /\ \A n \in 0 .. Len(Fields) : Fits(n, ShortWidth)
  /\ \A k \in DOMAIN Fields : \A n \in 0 .. Fields[k].width + 1 : Fits(n, LengthWidth)
-----------------------------------------------------------------------------
(* The four parts of the header, and the reject code of each.              *)
HeaderParts == << Magic, BigEndian(SchemaVersion, ShortWidth),
                  BigEndian(ObjectTag, ShortWidth),
                  BigEndian(Len(Fields), ShortWidth) >>

(* Mutant of HeaderCodes: the codes of version and object are exchanged.   *)
HeaderCodesExchanged == <<"MAGIC", "OBJECT", "VERSION", "FIELD_COUNT">>

HeaderCodes == <<"MAGIC", "VERSION", "OBJECT", "FIELD_COUNT">>

Header == FlattenSeq(HeaderParts)

FieldHeaderWidth == ShortWidth + LengthWidth

(* The lengths that a field of this kind may declare.                      *)
Lengths(field) ==
  IF field.kind = "expiry" THEN {1, 1 + field.width} ELSE {field.width}

(* The bytes of a field's value, without its frame.                        *)
Payload(field, value) ==
  CASE field.kind = "bytes" -> value
    [] field.kind = "number" -> BigEndian(value, field.width)
    [] field.kind = "expiry" ->
         IF value = Absent THEN <<0>> ELSE <<1>> \o BigEndian(value[1], field.width)

(* The values that the Rust type of the field has.                         *)
IsValue(field, value) ==
  CASE field.kind = "bytes" -> value \in [1 .. field.width -> Byte]
    [] field.kind = "number" -> Fits(value, field.width)
    [] field.kind = "expiry" -> \/ value = Absent
                                \/ value = Some(value[1]) /\ Fits(value[1], field.width)

Framed(k, payload) ==
  BigEndian(k, ShortWidth) \o BigEndian(Len(payload), LengthWidth) \o payload

EncodedField(k, value) == Framed(k, Payload(Fields[k], value))

(* The first fields of a resource, in the form that encode writes them.    *)
EncodedFields(values) ==
  FlattenSeq([k \in DOMAIN values |-> EncodedField(k, values[k])])

(* A ResourceWireV1: one value per field.                                  *)
IsResource(values) ==
  /\ Len(values) = Len(Fields)
  /\ \A k \in DOMAIN Fields : IsValue(Fields[k], values[k])

(* The one wire form of a resource.                                        *)
Encoding(values) == Header \o EncodedFields(values)
=============================================================================
