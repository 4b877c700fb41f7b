---------------------------- MODULE MCResourceWire ----------------------------
(* Small instance of ResourceWire: bytes 0, 1 and 2; u16 and u32 two bytes    *)
(* wide; a one-byte identifier, a two-byte quantity, an expiry epoch and      *)
(* flags of one byte.                                                         *)
EXTENDS ResourceWire

MCMagic == <<2, 1>>

MCFields == << [kind |-> "bytes", width |-> 1], [kind |-> "number", width |-> 2],
               [kind |-> "expiry", width |-> 1], [kind |-> "number", width |-> 1] >>

MCAllResources ==
  {<<id, quantity, expiry, flags>> :
     id \in [1 .. 1 -> Byte], quantity \in 0 .. 8,
     expiry \in {Absent} \cup {Some(n) : n \in 0 .. 2}, flags \in 0 .. 2}

MCWireForms == {Encoding(any) : any \in MCAllResources}

MCResources ==
  {<<id, quantity, expiry, flags>> :
     id \in {<<0>>, <<2>>}, quantity \in {0, 5}, expiry \in {Absent, Some(0), Some(2)},
     flags \in {0, 1}}

(* One byte replaced or removed, a truncated end, or bytes appended.          *)
Replaced(bytes) == {[bytes EXCEPT ![i] = byte] : i \in DOMAIN bytes, byte \in Byte}
Cut(bytes) == Prefixes(bytes)
Extended(bytes) == {bytes \o more : more \in SeqOf(Byte, 2) \cup {<<0, 0, 0>>}}
Shortened(bytes) == {RemoveAt(bytes, i) : i \in DOMAIN bytes}

(* Every single fault; for one of the resources also a replaced byte together *)
(* with a truncated end or with bytes appended, so that two defects compete.  *)
MCDamage(bytes) ==
  Replaced(bytes) \cup Cut(bytes) \cup Extended(bytes) \cup Shortened(bytes)
    \cup IF bytes = Encoding(<< <<2>>, 5, Some(2), 1>>)
         THEN UNION {Cut(damaged) \cup Extended(damaged) : damaged \in Replaced(bytes)}
         ELSE {}
=============================================================================
