----------------------------- MODULE RoleBinding -----------------------------
(***************************************************************************)
(* IntrinsicResourceV1 and its placement (crates/zrm-kernel/src/           *)
(* resource.rs, role_bound_resource.rs).  A caller constructs resource     *)
(* bodies from wire values, one check per step in canonical field order,   *)
(* and binds the bodies it got to the positions that a canonical partition *)
(* (see ResourceRoles) gives their identifiers.  Bodies, partitions and    *)
(* bound resources are values: the caller may keep any of them, and use    *)
(* them in any order.                                                      *)
(***************************************************************************)
EXTENDS RoleTypes

CONSTANTS
  Wires,       (* ResourceWireV1 candidates a caller may have.            *)
  Digest(_),   (* SHA-256 of a wire value's framed encoding, as a number. *)
  Partitions,  (* CanonicalResourceRolesV1 values a caller may have.      *)
  MaxBodies,   (* Bound: bodies that the caller keeps.                    *)
  MaxBound     (* Bound: bound resources that the caller keeps.           *)

(* IntrinsicResourceFieldV1, in the order in which the fields are checked.  *)
FieldOrder ==
  <<"MachineId", "DomainId", "ApplicationId", "ResourceKindId",
    "ResourceLogicId", "LogicProfileId", "ResourceKindPolicyId", "UnitId",
    "LabelRoot", "ValueRoot", "ControllerRoot", "PolicyRoot",
    "ProvenanceRoot", "Nonce">>

FieldNames == {FieldOrder[i] : i \in 1 .. 14}

NoExpiry == <<>>

(* A 32-byte field is 0 or one of the nonzero values; an expiry is <<epoch>> *)
(* or NoExpiry.                                                             *)
ASSUME WiresAssumption ==
  \A wire \in Wires :
    /\ wire.field \in [FieldNames -> Nat]
    /\ wire.quantity \in Nat
    /\ wire.created \in Nat
    /\ wire.expiry = NoExpiry \/ wire.expiry[1] \in Nat
    /\ wire.flags \in Nat

(* "The schema-fixed SHA-256 resource-ID derivation and its                 *)
(* collision-resistance assumption" of RoleBoundIntrinsicResourceV1.        *)
ASSUME DigestAssumption ==
  \A first, second \in Wires :
    /\ Digest(first) \in Nat
    /\ Digest(first) = Digest(second) => first = second

(* A partition is what try_new accepts: AcceptedIsCanonical of ResourceRoles. *)
ASSUME PartitionsAssumption ==
  \A roles \in Partitions :
    roles \in [Roles -> Seq(ResourceIds)] /\ CanonicalRoles(roles)

VARIABLES
  call,    (* The call in progress, or how the last one returned.         *)
  bodies,  (* The IntrinsicResourceV1 values constructed.                 *)
  bound    (* The RoleBoundIntrinsicResourceV1 values, each with the      *)
           (* partition it was bound in.                                  *)

bindingVars == <<call, bodies, bound>>

-----------------------------------------------------------------------------
(* validate_intrinsic_fields: require_nonzero on the fourteen fields, then  *)
(* validate_epoch_order, then ResourceFlagsV1::try_from_bits, which knows   *)
(* no flag.                                                                 *)
Checks == 1 .. 16

(* Mutant of Fails: an expiry in the epoch of creation is refused.          *)
FailsAtCreation(wire, n) ==
  \/ n \in 1 .. 14 /\ wire.field[FieldOrder[n]] = 0
  \/ n = 15 /\ wire.expiry # NoExpiry /\ wire.expiry[1] <= wire.created
  \/ n = 16 /\ wire.flags # 0

Fails(wire, n) ==
  \/ n \in 1 .. 14 /\ wire.field[FieldOrder[n]] = 0
  \/ n = 15 /\ wire.expiry # NoExpiry /\ wire.expiry[1] < wire.created
  \/ n = 16 /\ wire.flags # 0

ErrorOf(n) ==
  CASE n \in 1 .. 14 -> [kind |-> "ZeroField", field |-> FieldOrder[n]]
    [] n = 15 -> [kind |-> "ExpiryBeforeCreation"]
    [] n = 16 -> [kind |-> "UnknownFlags"]

Idle == [status |-> "idle"]
Checking(wire, n) == [status |-> "checking", wire |-> wire, next |-> n]
Failed(wire, error) == [status |-> "failed", wire |-> wire, error |-> error]
NotListed(body, roles) == [status |-> "not listed", body |-> body, roles |-> roles]

AllocationFailed == [kind |-> "Encode"]
AllZeroDigest == [kind |-> "AllZeroDigest"]

(* Mutant of Body: the quantity is left out of what is hashed.              *)
BodyWithoutQuantity(wire) ==
  [id |-> Digest([wire EXCEPT !.quantity = 1]), wire |-> wire]

(* The body that try_from_wire returns: the identifier of the complete wire *)
(* value, and its fields.                                                   *)
Body(wire) == [id |-> Digest(wire), wire |-> wire]

(* Where position_of finds an identifier.                                   *)
PositionsOf(roles, id) ==
  {position \in [role : Roles, ordinal : UNION {0 .. Len(roles[r]) : r \in Roles}] :
     HoldsAt(roles, position.role, position.ordinal, id)}

-----------------------------------------------------------------------------
BindingInit ==
  /\ call = Idle
  /\ bodies = {}
  /\ bound = {}

(* try_from_wire is called.                                                 *)
Construct(wire) ==
  /\ call.status # "checking"
  /\ Cardinality(bodies) < MaxBodies
  /\ call' = Checking(wire, 1)
  /\ UNCHANGED <<bodies, bound>>

PassCheck ==
  /\ call.status = "checking"
  /\ call.next \in Checks
  /\ ~Fails(call.wire, call.next)
  /\ call' = Checking(call.wire, call.next + 1)
  /\ UNCHANGED <<bodies, bound>>

RejectCheck ==
  /\ call.status = "checking"
  /\ call.next \in Checks
  /\ Fails(call.wire, call.next)
  /\ call' = Failed(call.wire, ErrorOf(call.next))
  /\ UNCHANGED <<bodies, bound>>

(* Mutants of DeriveId: before the flags are checked, and from a wire value  *)
(* without its expiry.                                                      *)
DeriveIdEarly ==
  /\ call.status = "checking"
  /\ call.next >= 16
  /\ Digest(call.wire) # 0
  /\ bodies' = bodies \cup {Body(call.wire)}
  /\ call' = Idle
  /\ UNCHANGED bound

(* construct_intrinsic_resource: only now the identifier is derived, from   *)
(* the whole wire value.                                                    *)
DeriveId ==
  /\ call.status = "checking"
  /\ call.next \notin Checks
  /\ Digest(call.wire) # 0
  /\ bodies' = bodies \cup {Body(call.wire)}
  /\ call' = Idle
  /\ UNCHANGED bound

(* Encoding cannot reserve its buffer, or the digest is the prohibited one. *)
(* HashFrameLengthOverflow is left out: it takes more bytes than u64 can    *)
(* count, and a resource has 603 at most.                                   *)
FailDerivation ==
  /\ call.status = "checking"
  /\ call.next \notin Checks
  /\ \/ call' = Failed(call.wire, AllocationFailed)
     \/ Digest(call.wire) = 0 /\ call' = Failed(call.wire, AllZeroDigest)
  /\ UNCHANGED <<bodies, bound>>

(* Mutant of Bind: the position of an identifier other than the body's.      *)
BindOther(body, roles) ==
  /\ call.status # "checking"
  /\ Cardinality(bound) < MaxBound
  /\ \E other \in bodies : \E position \in PositionsOf(roles, other.id) :
       bound' = bound \cup {[body |-> body, roles |-> roles, position |-> position]}
  /\ call' = Idle
  /\ UNCHANGED bodies

(* bind_intrinsic: the position of the body's own identifier.               *)
Bind(body, roles) ==
  /\ call.status # "checking"
  /\ Cardinality(bound) < MaxBound
  /\ \E position \in PositionsOf(roles, body.id) :
       bound' = bound \cup {[body |-> body, roles |-> roles, position |-> position]}
  /\ call' = Idle
  /\ UNCHANGED bodies

RefuseAbsent(body, roles) ==
  /\ call.status # "checking"
  /\ PositionsOf(roles, body.id) = {}
  /\ call' = NotListed(body, roles)
  /\ UNCHANGED <<bodies, bound>>

BindingNext ==
  \/ \E wire \in Wires : Construct(wire)
  \/ PassCheck \/ RejectCheck \/ DeriveId \/ FailDerivation
  \/ \E body \in bodies, roles \in Partitions :
       Bind(body, roles) \/ RefuseAbsent(body, roles)

BindingSpec == BindingInit /\ [][BindingNext]_bindingVars
-----------------------------------------------------------------------------
(* Type invariant: bodies come from the caller's wire values, bound         *)
(* resources from its bodies and partitions.                                *)
BindingTypeOK ==
  /\ call.status \in {"idle", "checking", "failed", "not listed"}
  /\ call.status \in {"checking", "failed"} => call.wire \in Wires
  /\ call.status = "checking" => call.next \in 1 .. 17
  /\ call.status = "not listed" => call.body \in bodies /\ call.roles \in Partitions
  /\ bodies \subseteq {Body(wire) : wire \in Wires}
  /\ \A b \in bound :
       /\ b.body \in bodies
       /\ b.roles \in Partitions
       /\ b.position.role \in Roles
       /\ b.position.ordinal \in Nat

(* What makes a wire value a resource body, in the words of the types: no   *)
(* identifier or commitment is zero, it does not expire before it is        *)
(* created, and it has no flag that version one does not know.              *)
NoZeroField(wire) == \A name \in FieldNames : wire.field[name] # 0
EpochsOrdered(wire) == wire.expiry = NoExpiry \/ wire.created <= wire.expiry[1]
FlagsKnown(wire) == wire.flags = 0

(* "The first failing invariant in canonical field order": the error names  *)
(* what is wrong with the wire value, and nothing that comes before it in   *)
(* that order is wrong; a derivation error means that nothing is.           *)
FirstFailureReported ==
  call.status = "failed" =>
    LET wire == call.wire
        error == call.error
    IN
    \/ \E n \in 1 .. 14 :
         /\ error = [kind |-> "ZeroField", field |-> FieldOrder[n]]
         /\ wire.field[FieldOrder[n]] = 0
         /\ \A m \in 1 .. n - 1 : wire.field[FieldOrder[m]] # 0
    \/ /\ error = [kind |-> "ExpiryBeforeCreation"]
       /\ NoZeroField(wire) /\ ~EpochsOrdered(wire)
    \/ /\ error = [kind |-> "UnknownFlags"]
       /\ NoZeroField(wire) /\ EpochsOrdered(wire) /\ ~FlagsKnown(wire)
    \/ /\ error \in {AllocationFailed, AllZeroDigest}
       /\ NoZeroField(wire) /\ EpochsOrdered(wire) /\ FlagsKnown(wire)

(* No body is without an identifier, or of a wire value that is none: what  *)
(* is bound has passed every check of the constructor.                      *)
OnlyValidBodies ==
  \A body \in bodies :
    /\ body.id # 0
    /\ NoZeroField(body.wire) /\ EpochsOrdered(body.wire) /\ FlagsKnown(body.wire)

(* Two resources bound at one position of one partition are one resource:   *)
(* no other body, whatever field it differs in, takes the place of the one  *)
(* that the partition lists there.                                          *)
NoSubstitution ==
  \A first, second \in bound :
    (first.roles = second.roles /\ first.position = second.position)
      => first.body = second.body

(* A body has one position per partition, however often it is bound, and is *)
(* refused only where no role lists its identifier.                         *)
PlacementUnique ==
  /\ \A first, second \in bound :
       (first.roles = second.roles /\ first.body = second.body)
         => first.position = second.position
  /\ call.status = "not listed" =>
       \A b \in bound : ~(b.roles = call.roles /\ b.body = call.body)
-----------------------------------------------------------------------------
(* The inductive invariant: a wire value under construction has passed the    *)
(* checks before the next one; a bound resource stands where its partition    *)
(* lists its body's identifier, and a refused one is listed nowhere.          *)
BindingInv ==
  /\ BindingTypeOK
  /\ OnlyValidBodies
  /\ FirstFailureReported
  /\ call.status = "checking" => \A n \in 1 .. call.next - 1 : ~Fails(call.wire, n)
  /\ \A b \in bound : b.position \in PositionsOf(b.roles, b.body.id)
  /\ call.status = "not listed" => PositionsOf(call.roles, call.body.id) = {}
=============================================================================
