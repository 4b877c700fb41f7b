--------------------------- MODULE MCResourceWireV1 ---------------------------
(* ResourceWire with the widths, tags and lengths of version one: bytes of    *)
(* 256 values, eighteen fields, 595 or 603 bytes.  Two resources are encoded. *)
EXTENDS ResourceWire

MCMagic == <<90, 82, 77, 49>>

Identifier == [kind |-> "bytes", width |-> 32]

MCFields ==
  [k \in 1 .. 18 |->
     CASE k = 9  -> [kind |-> "number", width |-> 16]
       [] k = 16 -> [kind |-> "number", width |-> 8]
       [] k = 17 -> [kind |-> "expiry", width |-> 8]
       [] k = 18 -> [kind |-> "number", width |-> 4]
       [] OTHER  -> Identifier]

SomeResource(quantity, created, expiry, flags) ==
  [k \in 1 .. 18 |->
     CASE k = 9  -> quantity
       [] k = 16 -> created
       [] k = 17 -> expiry
       [] k = 18 -> flags
       [] OTHER  -> [i \in 1 .. 32 |-> (k * i) % 256]]

MCResources == { SomeResource(0, 7, Absent, 0), SomeResource(70000, 0, Some(300), 258) }

MCWireForms == {Encoding(any) : any \in MCResources}

(* Every truncated end, one byte too many, any one byte cleared, and every    *)
(* byte of the header and of the first field replaced.                        *)
MCDamage(bytes) ==
  Prefixes(bytes) \cup {Append(bytes, 0)}
    \cup {[bytes EXCEPT ![i] = 0] : i \in DOMAIN bytes}
    \cup {[bytes EXCEPT ![i] = 3] : i \in 1 .. 48}
=============================================================================
