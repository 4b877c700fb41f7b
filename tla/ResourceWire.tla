---------------------------- MODULE ResourceWire ----------------------------
(***************************************************************************)
(* ResourceWireV1::encode and decode_resource_wire_v1                      *)
(* (zrm-codec/src/resource_wire_v1.rs, cursor.rs): the encoder appends one *)
(* field per step to an output reserved in advance; the bytes reach the    *)
(* decoder intact or damaged; the decoder reads them through a cursor, one *)
(* header part or field per step, and stops at the first defect.           *)
(***************************************************************************)
EXTENDS WireFormat

CONSTANTS
  Resources,            (* The resources that are encoded.                *)
  AllResources,         (* Every ResourceWireV1 there is.                 *)
  WireForms,            (* Their wire forms.                              *)
  Damage(_),            (* The bytes that a decoder may be given.         *)
  AbsentExpiryBytes,    (* RESOURCE_WIRE_V1_ABSENT_EXPIRY_BYTES.          *)
  PresentExpiryBytes    (* RESOURCE_WIRE_V1_PRESENT_EXPIRY_BYTES.         *)

ASSUME WireFormsAssumption ==
  /\ \A any \in AllResources :
       IsResource(any) /\ any = [k \in DOMAIN Fields |-> any[k]]
  /\ Resources \subseteq AllResources
  /\ WireForms = {Encoding(any) : any \in AllResources}
  /\ \A any \in Resources : Damage(Encoding(any)) \subseteq Seq(Byte)

VARIABLES
  phase,     (* Which function is running, or how it returned.            *)
  resource,  (* The ResourceWireV1 given to encode.                       *)
  next,      (* Next header part or field to write or read.               *)
  output,    (* The encoder's Vec.                                        *)
  capacity,  (* The bytes reserved for it.                                *)
  wire,      (* The decoder's input.                                      *)
  position,  (* The cursor: bytes of the input taken so far.              *)
  values,    (* The fields decoded so far.                                *)
  code       (* The reject code, or "none".                               *)

vars == <<phase, resource, next, output, capacity, wire, position, values, code>>

Phases == {"reserve", "append", "encoded", "unallocated",
           "ingress", "header", "fields", "accepted", "rejected"}

ExpiryField == CHOOSE k \in DOMAIN Fields : Fields[k].kind = "expiry"

(* The bytes of the last i fields of a resource without expiry.             *)
LastFieldsBytes ==
  LET Bytes[i \in 0 .. Len(Fields)] ==
        IF i = 0 THEN 0
        ELSE LET field == Fields[Len(Fields) - i + 1] IN
             Bytes[i - 1] + FieldHeaderWidth
               + (IF field.kind = "expiry" THEN 1 ELSE field.width)
  IN Bytes

(* One field is an expiry, and the two constants are what the fields add up *)
(* to; both forms are short enough for the decoder.                         *)
ASSUME LengthsAssumption ==
  /\ \A k \in DOMAIN Fields : Fields[k].kind = "expiry" <=> k = ExpiryField
  /\ ExpiryField \in DOMAIN Fields
  /\ AbsentExpiryBytes = Len(Header) + LastFieldsBytes[Len(Fields)]
  /\ PresentExpiryBytes = AbsentExpiryBytes + Fields[ExpiryField].width
  /\ MaxResourceBytes \in Nat /\ PresentExpiryBytes <= MaxResourceBytes

(* Mutant of EncodedLength: the shorter form, whatever the expiry.          *)
EncodedLengthAbsent(expiry) == AbsentExpiryBytes

EncodedLength(expiry) ==
  IF expiry = Absent THEN AbsentExpiryBytes ELSE PresentExpiryBytes

-----------------------------------------------------------------------------
Init ==
  /\ phase = "reserve"
  /\ resource \in Resources
  /\ next = 1
  /\ output = <<>>
  /\ capacity = 0
  /\ wire = <<>>
  /\ position = 0
  /\ values = <<>>
  /\ code = "none"

(* encode: reserve, then append_header.                                    *)
ReserveOutput ==
  /\ phase = "reserve"
  /\ capacity' = EncodedLength(resource[ExpiryField])
  /\ output' = Header
  /\ phase' = "append"
  /\ UNCHANGED <<resource, next, wire, position, values, code>>

FailReserve ==
  /\ phase = "reserve"
  /\ phase' = "unallocated"
  /\ UNCHANGED <<resource, next, output, capacity, wire, position, values, code>>

(* append_fixed_field and append_expiry_field.                             *)
AppendField ==
  /\ phase = "append"
  /\ next \in DOMAIN Fields
  /\ output' = output \o EncodedField(next, resource[next])
  /\ next' = next + 1
  /\ UNCHANGED <<phase, resource, capacity, wire, position, values, code>>

ReturnOutput ==
  /\ phase = "append"
  /\ next \notin DOMAIN Fields
  /\ phase' = "encoded"
  /\ UNCHANGED <<resource, next, output, capacity, wire, position, values, code>>

(* Whoever holds the bytes gives some bytes to the decoder.                *)
Deliver ==
  /\ phase = "encoded"
  /\ wire' \in Damage(output)
  /\ next' = 1
  /\ phase' = "ingress"
  /\ UNCHANGED <<resource, output, capacity, position, values, code>>

-----------------------------------------------------------------------------
(* Cursor::take: `length` bytes are left after the first `offset` ones.    *)
Left(offset, length) == position + offset + length <= Len(wire)

Taken(offset, length) == SubSeq(wire, position + offset + 1, position + offset + length)

Reject(reason) ==
  /\ phase' = "rejected"
  /\ code' = reason
  /\ UNCHANGED <<resource, next, output, capacity, wire, position, values>>

(* validate_ingress_and_header: the size, then a complete header.          *)
TooLong == Len(wire) > MaxResourceBytes

RejectIngress ==
  /\ phase = "ingress"
  /\ \/ TooLong /\ Reject("BYTES")
     \/ ~TooLong /\ Len(wire) < Len(Header) /\ Reject("HEADER")

AcceptIngress ==
  /\ phase = "ingress"
  /\ ~TooLong
  /\ Len(wire) >= Len(Header)
  /\ phase' = "header"
  /\ UNCHANGED <<resource, next, output, capacity, wire, position, values, code>>

(* parse_header: magic, version, object and field count, in this order.    *)
HeaderPartFits ==
  LET part == HeaderParts[next] IN Left(0, Len(part)) /\ Taken(0, Len(part)) = part

ReadHeaderPart ==
  /\ phase = "header"
  /\ HeaderPartFits
  /\ position' = position + Len(HeaderParts[next])
  /\ next' = IF next < Len(HeaderParts) THEN next + 1 ELSE 1
  /\ phase' = IF next < Len(HeaderParts) THEN "header" ELSE "fields"
  /\ UNCHANGED <<resource, output, capacity, wire, values, code>>

RejectHeaderPart ==
  /\ phase = "header"
  /\ ~HeaderPartFits
  /\ Reject(HeaderCodes[next])

(* read_field_header takes the tag and the length before it looks at either. *)
DeclaredTag == Number(Taken(0, ShortWidth))
DeclaredLength == Number(Taken(ShortWidth, LengthWidth))
Value == Taken(FieldHeaderWidth, DeclaredLength)

(* How far read_fixed_field and read_expiry_field get with the next field.  *)
Reading == phase = "fields" /\ next \in DOMAIN Fields
Framing == Reading /\ Left(0, FieldHeaderWidth)
Tagged == Framing /\ DeclaredTag = next
Sized == Tagged /\ DeclaredLength \in Lengths(Fields[next])
Complete == Sized /\ Left(FieldHeaderWidth, DeclaredLength)

(* Mutant of OptionTagFits: any tag marks a present expiry.                 *)
OptionTagFitsAny ==
  (Fields[next].kind = "expiry" /\ DeclaredLength = 1) => Value[1] = 0

(* [0] is an absent expiry and [1, epoch] a present one; nothing else is.   *)
OptionTagFits ==
  Fields[next].kind = "expiry" =>
    Value[1] = (IF DeclaredLength = 1 THEN 0 ELSE 1)

(* from_be_bytes for numbers; the bytes themselves for identifiers.         *)
Parsed(field, bytes) ==
  CASE field.kind = "bytes" -> bytes
    [] field.kind = "number" -> Number(bytes)
    [] field.kind = "expiry" ->
         IF Len(bytes) = 1 THEN Absent ELSE Some(Number(Tail(bytes)))

ReadField ==
  /\ Complete
  /\ OptionTagFits
  /\ values' = Append(values, Parsed(Fields[next], Value))
  /\ position' = position + FieldHeaderWidth + DeclaredLength
  /\ next' = next + 1
  /\ UNCHANGED <<phase, resource, output, capacity, wire, code>>

RejectFieldHeader == Reading /\ ~Framing /\ Reject("FIELD_HEADER")

(* Mutant of RejectFieldTag: the tag is compared before the length is taken.  *)
RejectFieldTagEarly ==
  Reading /\ Left(0, ShortWidth) /\ DeclaredTag # next /\ Reject("FIELD_TAG")

RejectFieldTag == Framing /\ ~Tagged /\ Reject("FIELD_TAG")

RejectFieldLength == Tagged /\ ~Sized /\ Reject("FIELD_LENGTH")

RejectFieldValue == Sized /\ ~Complete /\ Reject("FIELD_VALUE")

RejectOptionTag == Complete /\ ~OptionTagFits /\ Reject("OPTION_TAG")

(* cursor.is_empty() once every field is read.                              *)
AllRead == phase = "fields" /\ next \notin DOMAIN Fields

RejectTrailing == AllRead /\ position # Len(wire) /\ Reject("TRAILING")

(* Mutant of AcceptWire: what follows the last field is ignored.            *)
AcceptWireTrailing ==
  /\ AllRead
  /\ phase' = "accepted"
  /\ UNCHANGED <<resource, next, output, capacity, wire, position, values, code>>

AcceptWire ==
  /\ AllRead
  /\ position = Len(wire)
  /\ phase' = "accepted"
  /\ UNCHANGED <<resource, next, output, capacity, wire, position, values, code>>

-----------------------------------------------------------------------------
Encode == ReserveOutput \/ FailReserve \/ AppendField \/ ReturnOutput

Decode ==
  \/ RejectIngress \/ AcceptIngress
  \/ ReadHeaderPart \/ RejectHeaderPart
  \/ ReadField \/ RejectFieldHeader \/ RejectFieldTag \/ RejectFieldLength
  \/ RejectFieldValue \/ RejectOptionTag
  \/ RejectTrailing \/ AcceptWire

Next == Encode \/ Deliver \/ Decode

Spec == Init /\ [][Next]_vars
-----------------------------------------------------------------------------
(* What callers of encode and decode_resource_wire_v1 see of them.          *)
Decoding == phase \in {"ingress", "header", "fields", "accepted", "rejected"}

Codec == INSTANCE CanonicalCodec WITH
  sent <- CASE phase \in {"reserve", "append"} -> [status |-> "nothing"]
            [] phase = "unallocated" -> [status |-> "AllocationFailed"]
            [] OTHER -> [status |-> "bytes", bytes |-> output],
  received <- IF Decoding THEN [status |-> "bytes", bytes |-> wire]
                          ELSE [status |-> "nothing"],
  result <- CASE phase = "accepted" -> [status |-> "decoded", values |-> values]
              [] phase = "rejected" -> [status |-> "rejected", code |-> code]
              [] OTHER -> [status |-> "nothing"]

(* Type invariant: the cursor never passes the end of the input, and what   *)
(* has been decoded has the Rust types of the leading fields.               *)
TypeOK ==
  /\ phase \in Phases
  /\ resource \in Resources
  /\ next \in (1 .. Len(HeaderParts)) \cup (1 .. Len(Fields) + 1)
  /\ output \in Seq(Byte)
  /\ capacity \in {0, AbsentExpiryBytes, PresentExpiryBytes}
  /\ wire \in Seq(Byte)
  /\ position \in 0 .. Len(wire)
  /\ DOMAIN values \subseteq DOMAIN Fields
  /\ \A k \in DOMAIN values : IsValue(Fields[k], values[k])
  /\ code \in Codec!RejectCodes \cup {"none"}

(* The bytes reserved for the output are the bytes written: extending a     *)
(* full Vec would allocate where the caller can no longer be told           *)
(* AllocationFailed.                                                        *)
WithinReservation ==
  /\ Len(output) <= capacity
  /\ phase = "encoded" => Len(output) = capacity

(* What the cursor has passed is canonical, whatever follows it: it is the  *)
(* encoding of the fields decoded from it, so no two inputs with different  *)
(* bytes there decode alike.                                                *)
CanonicalPrefix ==
  phase \in {"fields", "accepted"} =>
    SubSeq(wire, 1, position) = Header \o EncodedFields(values)

(* What is wrong with `rest`, the bytes where the k-th field should stand, for *)
(* each reject code of a field.  The frame is taken whole before its tag and   *)
(* then its length are compared.                                               *)
FieldDefect(reason, k, rest) ==
  LET tag == SubSeq(rest, 1, ShortWidth)
      length == SubSeq(rest, ShortWidth + 1, FieldHeaderWidth)
      allowed == IF Fields[k].kind = "expiry" THEN {1, 1 + Fields[k].width}
                                              ELSE {Fields[k].width}
      IsFramed == Len(rest) >= FieldHeaderWidth
      IsTagged == IsFramed /\ tag = BigEndian(k, ShortWidth)
      Declares(n) == IsTagged /\ length = BigEndian(n, LengthWidth)
      IsThere(n) == Len(rest) >= FieldHeaderWidth + n
  IN
  \/ reason = "FIELD_HEADER" /\ ~IsFramed
  \/ reason = "FIELD_TAG" /\ IsFramed /\ ~IsTagged
  \/ reason = "FIELD_LENGTH" /\ IsTagged /\ \A n \in allowed : ~Declares(n)
  \/ reason = "FIELD_VALUE" /\ \E n \in allowed : Declares(n) /\ ~IsThere(n)
  \/ /\ reason = "OPTION_TAG"
     /\ Fields[k].kind = "expiry"
     /\ \E n \in allowed : /\ Declares(n) /\ IsThere(n)
                           /\ rest[FieldHeaderWidth + 1] # (IF n = 1 THEN 0 ELSE 1)

(* What each reject code says of the input: its size, or that all before the   *)
(* cursor is canonical and what is wrong with the rest.                        *)
Defect(reason) ==
  LET read == SubSeq(wire, 1, position)
      rest == SubSeq(wire, position + 1, Len(wire))
  IN
  \/ reason = "BYTES" /\ Len(wire) > MaxResourceBytes
  \/ reason = "HEADER" /\ Len(wire) <= MaxResourceBytes /\ Len(wire) < Len(Header)
  \/ \E i \in 1 .. 4 :
       /\ reason = <<"MAGIC", "VERSION", "OBJECT", "FIELD_COUNT">>[i]
       /\ Len(wire) \in Len(Header) .. MaxResourceBytes
       /\ read = FlattenSeq(SubSeq(HeaderParts, 1, i - 1))
       /\ ~IsPrefix(HeaderParts[i], rest)
  \/ /\ Len(wire) <= MaxResourceBytes
     /\ read = Header \o EncodedFields(values)
     /\ \/ Len(values) < Len(Fields) /\ FieldDefect(reason, Len(values) + 1, rest)
        \/ reason = "TRAILING" /\ Len(values) = Len(Fields) /\ rest # <<>>

(* The reject code names the first defect of the input, and no other one: each *)
(* code comes with the bytes that deserve it, and two codes never fit the same *)
(* bytes.                                                                      *)
StopsAtFirstDefect == phase = "rejected" => Defect(code)

(* What encode has written in each phase, and what it has reserved.         *)
Written ==
  /\ phase \in {"reserve", "unallocated"} => output = <<>>
  /\ phase = "reserve" => next = 1
  /\ phase = "append" =>
       /\ next \in 1 .. Len(Fields) + 1
       /\ output = Header \o EncodedFields(SubSeq(resource, 1, next - 1))
  /\ phase = "encoded" \/ Decoding => output = Encoding(resource)
  /\ phase \in {"reserve", "unallocated"} \/ capacity = EncodedLength(resource[ExpiryField])

(* How far the cursor is: the header parts or fields before it are those    *)
(* decoded, and if the input is the wire form of a resource, then they are  *)
(* of that resource.  A rejected input is none.                             *)
Passed ==
  /\ phase \in {"header", "fields", "accepted", "rejected"} \/ position = 0
  /\ phase \in {"fields", "accepted", "rejected"} \/ values = <<>>
  /\ phase = "ingress" => next = 1
  /\ phase \in {"header", "fields"} => Len(wire) \in Len(Header) .. MaxResourceBytes
  /\ phase = "header" =>
       /\ next \in DOMAIN HeaderParts
       /\ SubSeq(wire, 1, position) = FlattenSeq(SubSeq(HeaderParts, 1, next - 1))
  /\ phase = "fields" =>
       /\ Len(values) = next - 1
       /\ \A any \in AllResources :
            wire = Encoding(any) => values = SubSeq(any, 1, next - 1)
  /\ phase = "accepted" => Len(values) = Len(Fields) /\ position = Len(wire)
  /\ phase = "rejected" => wire \notin WireForms

(* The part of the inductive invariant that TLC can evaluate.               *)
WireInv == TypeOK /\ Written /\ Passed /\ CanonicalPrefix /\ StopsAtFirstDefect

(* encode and decode are inverse, strictly: see CanonicalCodec.             *)
ImplementsCodec == Codec!Spec
=============================================================================
