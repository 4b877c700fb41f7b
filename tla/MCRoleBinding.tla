---------------------------- MODULE MCRoleBinding ----------------------------
(* Small instance of RoleBinding: one good wire value, and values that differ *)
(* from it in one or two fields, to the good or to the bad.                   *)
EXTENDS RoleBinding, Folds

Good == [field |-> [name \in FieldNames |-> 1], quantity |-> 1, created |-> 1,
         expiry |-> NoExpiry, flags |-> 0]

WithField(wire, name, value) == [wire EXCEPT !.field[name] = value]

OneZero == {WithField(Good, name, 0) : name \in FieldNames}

TwoZeros ==
  {WithField(wire, name, 0) : wire \in OneZero, name \in {"MachineId", "UnitId", "LabelRoot", "Nonce"}}

Epochs ==
  {[Good EXCEPT !.created = created, !.expiry = expiry] :
     created \in {0, 1}, expiry \in {NoExpiry, <<0>>, <<1>>}}

Late ==
  {[wire EXCEPT !.flags = 1] : wire \in Epochs}
    \cup {WithField(wire, "Nonce", 0) : wire \in Epochs}

Others ==
  {WithField(Good, name, 2) : name \in {"MachineId", "ProvenanceRoot", "Nonce"}}
    \cup {[Good EXCEPT !.quantity = 0]}

MCWires == OneZero \cup TwoZeros \cup Epochs \cup Late \cup Others

(* A number for every wire value: its fields as the digits of one numeral.    *)
MCDigest(wire) ==
  IF wire = WithField(Good, "MachineId", 2) THEN 0
  ELSE LET digits == [i \in 1 .. 14 |-> wire.field[FieldOrder[i]]]
           expiry == IF wire.expiry = NoExpiry THEN 2 ELSE wire.expiry[1]
           tail == <<wire.quantity, wire.created, expiry, wire.flags>>
           digit(i) == IF i <= 14 THEN digits[i] ELSE tail[i - 14]
       IN MapThenFoldSet(LAMBDA a, b : a + b, 1, LAMBDA i : digit(i) * 3 ^ (18 - i),
                         LAMBDA S : CHOOSE i \in S : TRUE, 1 .. 18)

GoodId == MCDigest(Good)
OtherId == MCDigest([Good EXCEPT !.quantity = 0])
NonceId == MCDigest(WithField(Good, "Nonce", 2))

MCPartitions ==
  {[consumed |-> <<GoodId>>, referenced |-> <<>>, created |-> <<NonceId>>],
   [consumed |-> <<>>, referenced |-> <<OtherId, GoodId>>, created |-> <<>>],
   [consumed |-> <<OtherId>>, referenced |-> <<>>, created |-> <<GoodId, NonceId>>]}

MCResourceIds == {MCDigest(wire) : wire \in MCWires}
MCLimit == [role \in Roles |-> 2]
=============================================================================
