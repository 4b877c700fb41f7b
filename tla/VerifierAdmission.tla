------------------------- MODULE VerifierAdmission -------------------------
(* What zrm-policy decides before a verifier may be dispatched: the machine *)
(* policy, the verifier policy and the cost model are validated, the pair   *)
(* of policies is checked for one epoch, and the cost of a dispatch is      *)
(* quoted, first for the largest artifact and statement the policy allows   *)
(* (the admission reservation) and then for the lengths of each dispatch.   *)
(* The artifact to be dispatched is copied beforehand under a limit that    *)
(* the caller selects, which no policy governs (BoundedArtifactV1).         *)
(*                                                                          *)
(* Every validation is a chain of checks that stops at the first that       *)
(* fails, and a step of the specification is one check of the chain. An     *)
(* optional value is a sequence of at most one element.                     *)
EXTENDS Integers, Sequences

CONSTANTS
  WordMax,            (* u64::MAX.                                           *)
  WideMax,            (* u128::MAX.                                          *)
  Ceiling,            (* The protocol ceiling of each limit.                 *)
  MinResourceBytes,   (* MIN_RESOURCE_WIRE_V1_BYTES.                         *)
  MachineCandidates,
  VerifierCandidates,
  CostCandidates,     (* Pairs of a cost model and one of its rows.          *)
  Epochs,             (* The epochs callers present.                         *)
  Lengths             (* The lengths and copy limits they present.           *)

Words == 0 .. WordMax

(* The checks of MachinePolicyV1::try_from in their order: among them those *)
(* of PolicyLimitsV1::try_from, one for each limit in declaration order and *)
(* then the minimum.                                                        *)
MachineOrder ==
  <<"UnsupportedSchemaVersion", "UnsupportedResourceCryptoSuite",
    "EnvelopeBytes", "ResourceBytes", "ConsumedResources", "ReferencedResources",
    "CreatedResources", "LogicClaims", "TransformationClaims", "AuthorityClaims",
    "DataAvailabilityClaims", "AccountingRows", "EvidenceReferences",
    "ProofArtifactBytes", "TotalProofBytes", "TotalVerifierCostUnits",
    "NestingDepth", "StorageWriteBytes",
    "ResourceWireLimitTooSmall", "UnexpectedAdmissionVerifierPolicy",
    "MissingAdmissionVerifierPolicy", "InvalidValidityWindow">>

LimitFields == {MachineOrder[n] : n \in 3 .. 18}

WidthAssumption ==
  /\ WordMax \in Nat
  /\ WideMax = (WordMax + 1) * (WordMax + 1) - 1

InputAssumption ==
  /\ Epochs \subseteq Words
  /\ Lengths \subseteq Words
  /\ \A field \in LimitFields :
       /\ Ceiling[field] \in Words
       /\ \A candidate \in MachineCandidates : candidate.limits[field] \in Words
  /\ \A verifier \in VerifierCandidates :
       {verifier.maxCost, verifier.maxArtifact, verifier.maxStatement,
        verifier.maxOutput} \subseteq Words
  /\ \A cost \in CostCandidates :
       {cost.model.maxCharge, cost.row.base, cost.row.artifact,
        cost.row.statement, cost.row.output} \subseteq Words

ASSUME WidthAssumption
ASSUME InputAssumption

VARIABLES
  machine,   (* MachinePolicyV1, if one was validated.                       *)
  verifier,  (* VerifierPolicyV1, likewise.                                  *)
  cost,      (* VerifierCostModelV1 and the row the caller selected.         *)
  admitted,  (* The epochs for which the pair of policies was found fit.     *)
  reserved,  (* Units of the admission reservation, if one was quoted.       *)
  held,      (* The length of the bounded copy of an artifact, if one is held.*)
  call       (* The call in progress, or how the last one returned.          *)

vars == <<machine, verifier, cost, admitted, reserved, held, call>>

-----------------------------------------------------------------------------
(* The checks of the other operations.                                      *)
VerifierOrder == <<"UnsupportedSchemaVersion", "InvalidValidityWindow">>

CostOrder == <<"UnsupportedModelSchema">>

ArtifactOrder == <<"LimitExceedsProtocolCeiling", "ArtifactTooLarge", "AllocationLimitExceeded">>

ShapeOrder ==
  <<"AdmissionVerifierForbidden", "AdmissionVerifierPolicyMismatch",
    "MachineMismatch", "DomainMismatch", "CostModelMismatch",
    "MachinePolicyInactive", "VerifierPolicyInactive",
    "ArtifactLimitExceedsMachine", "VerifierCostLimitExceedsMachine">>

BoundsOrder == <<"BackendFamilyMismatch", "ArtifactBytesExceeded", "PublicInputBytesExceeded">>

CapsOrder == <<"ChargeDoesNotFitU64", "ModelChargeLimitExceeded", "VerifierChargeLimitExceeded">>

-----------------------------------------------------------------------------
InvalidWindow(policy) == policy.end < policy.start

(* Mutant of Contains: the last epoch is left out.                          *)
ContainsHalfOpen(policy, epoch) == policy.start <= epoch /\ epoch < policy.end

Contains(policy, epoch) == policy.start <= epoch /\ epoch <= policy.end

(* MachinePolicyV1::try_from, PolicyLimitsV1::try_from and try_from_pair.   *)
MachineFault(candidate, check) ==
  \/ check = "UnsupportedSchemaVersion" /\ candidate.schema # 1
  \/ check = "UnsupportedResourceCryptoSuite" /\ candidate.suite # "SHA256_REFERENCE_V1"
  \/ check \in LimitFields /\ candidate.limits[check] > Ceiling[check]
  \/ /\ check = "ResourceWireLimitTooSmall"
     /\ candidate.limits["ResourceBytes"] < MinResourceBytes
  \/ /\ check = "UnexpectedAdmissionVerifierPolicy"
     /\ candidate.mode = "LocalKernel" /\ candidate.admission # <<>>
  \/ /\ check = "MissingAdmissionVerifierPolicy"
     /\ candidate.mode = "RequiredVerifier" /\ candidate.admission = <<>>
  \/ check = "InvalidValidityWindow" /\ InvalidWindow(candidate)

VerifierFault(candidate, check) ==
  \/ check = "UnsupportedSchemaVersion" /\ candidate.schema # 1
  \/ check = "InvalidValidityWindow" /\ InvalidWindow(candidate)

(* Mutant of ArtifactExceeds: only the limit of one artifact.               *)
ArtifactExceedsOne(m, v) == v.maxArtifact > m.limits["ProofArtifactBytes"]

ArtifactExceeds(m, v) ==
  \/ v.maxArtifact > m.limits["ProofArtifactBytes"]
  \/ v.maxArtifact > m.limits["TotalProofBytes"]

(* try_new_with_reservation: the allocator may refuse what passed the rest.  *)
ArtifactFault(copy, check) ==
  \/ /\ check = "LimitExceedsProtocolCeiling"
     /\ copy.selected > Ceiling["ProofArtifactBytes"]
  \/ check = "ArtifactTooLarge" /\ copy.length > copy.selected
  \/ check = "AllocationLimitExceeded" /\ copy.refused

(* check_untrusted_admission_candidate_shape, which goes on to              *)
(* check_untrusted_verifier_candidate_shape.                                *)
ShapeFault(shape, check) ==
  LET m == shape.machine
      v == shape.verifier
  IN \/ check = "AdmissionVerifierForbidden" /\ m.mode = "LocalKernel"
     \/ check = "AdmissionVerifierPolicyMismatch" /\ m.admission # <<v.id>>
     \/ check = "MachineMismatch" /\ m.machine # v.machine
     \/ check = "DomainMismatch" /\ m.domain # v.domain
     \/ check = "CostModelMismatch" /\ m.costModel # v.costModel
     \/ check = "MachinePolicyInactive" /\ ~Contains(m, shape.epoch)
     \/ check = "VerifierPolicyInactive" /\ ~Contains(v, shape.epoch)
     \/ check = "ArtifactLimitExceedsMachine" /\ ArtifactExceeds(m, v)
     \/ /\ check = "VerifierCostLimitExceedsMachine"
        /\ v.maxCost > m.limits["TotalVerifierCostUnits"]

(* The checks of compute_untrusted_candidate_quote before the arithmetic    *)
(* and after it.                                                            *)
BoundsFault(quote, check) ==
  \/ check = "BackendFamilyMismatch" /\ quote.cost.row.family # quote.verifier.family
  \/ check = "ArtifactBytesExceeded" /\ quote.artifact > quote.verifier.maxArtifact
  \/ check = "PublicInputBytesExceeded" /\ quote.statement > quote.verifier.maxStatement

CapsFault(quote, charge, check) ==
  \/ check = "ChargeDoesNotFitU64" /\ charge > WordMax
  \/ check = "ModelChargeLimitExceeded" /\ charge > quote.cost.model.maxCharge
  \/ check = "VerifierChargeLimitExceeded" /\ charge > quote.verifier.maxCost

(* Mutant of Term: the two lengths are swapped.                             *)
TermSwapped(quote, n) ==
  CASE n = 1 -> quote.cost.row.base
    [] n = 2 -> quote.cost.row.artifact * quote.statement
    [] n = 3 -> quote.cost.row.statement * quote.artifact
    [] n = 4 -> quote.cost.row.output * quote.verifier.maxOutput

(* The four charged terms, in the order they are added.                     *)
Term(quote, n) ==
  CASE n = 1 -> quote.cost.row.base
    [] n = 2 -> quote.cost.row.artifact * quote.artifact
    [] n = 3 -> quote.cost.row.statement * quote.statement
    [] n = 4 -> quote.cost.row.output * quote.verifier.maxOutput

(* checked_multiply of a term, then checked_add of it.                      *)
Overflows(charge, term) == term > WideMax \/ charge + term > WideMax

-----------------------------------------------------------------------------
Idle == [status |-> "idle"]

(* A call that has passed the checks before the next-th of its chain.       *)
Checking(kind, input, next) ==
  [status |-> "checking", kind |-> kind, input |-> input, next |-> next]

(* The arithmetic of a quote, with the terms before the next-th added, and  *)
(* the checks that follow it.                                               *)
Charging(input, next, charge) ==
  [status |-> "charging", input |-> input, next |-> next, charge |-> charge]

Capping(input, next, charge) ==
  [status |-> "capping", input |-> input, next |-> next, charge |-> charge]

Granted(input, units) == [status |-> "granted", input |-> input, units |-> units]

Rejected(kind, input, error) ==
  [status |-> "rejected", kind |-> kind, input |-> input, error |-> error]

Returned == call.status \in {"idle", "granted", "rejected"}

Order(kind) ==
  CASE kind = "machine" -> MachineOrder
    [] kind = "verifier" -> VerifierOrder
    [] kind = "cost" -> CostOrder
    [] kind = "artifact" -> ArtifactOrder
    [] kind = "shape" -> ShapeOrder
    [] kind = "quote" -> BoundsOrder

Fault(kind, input, check) ==
  CASE kind = "machine" -> MachineFault(input, check)
    [] kind = "verifier" -> VerifierFault(input, check)
    [] kind = "cost" -> input.model.schema # 1
    [] kind = "artifact" -> ArtifactFault(input, check)
    [] kind = "shape" -> ShapeFault(input, check)
    [] kind = "quote" -> BoundsFault(input, check)

Quote(use, v, c, artifact, statement) ==
  [use |-> use, verifier |-> v, cost |-> c, artifact |-> artifact, statement |-> statement]

(* Mutant of Reservation: the statement is not reserved for.                *)
ReservationOfArtifact(v, c) == Quote("reservation", v, c, v.maxArtifact, 0)

(* candidate_admission_reservation_request: the policy's own maxima.        *)
Reservation(v, c) == Quote("reservation", v, c, v.maxArtifact, v.maxStatement)

-----------------------------------------------------------------------------
Init ==
  /\ machine = <<>> /\ verifier = <<>> /\ cost = <<>>
  /\ admitted = {} /\ reserved = <<>> /\ held = <<>>
  /\ call = Idle

Begin(kind, input) ==
  /\ Returned
  /\ call' = Checking(kind, input, 1)
  /\ UNCHANGED <<machine, verifier, cost, admitted, reserved, held>>

(* The caller's operations: the three values are validated, then used.      *)
ValidateMachine ==
  machine = <<>> /\ \E candidate \in MachineCandidates : Begin("machine", candidate)

ValidateVerifier ==
  /\ machine # <<>> /\ verifier = <<>>
  /\ \E candidate \in VerifierCandidates : Begin("verifier", candidate)

SelectCost ==
  /\ verifier # <<>> /\ cost = <<>>
  /\ \E candidate \in CostCandidates : Begin("cost", candidate)

(* A copy needs no policy: it may be made before any is validated.          *)
CopyArtifact ==
  /\ held = <<>>
  /\ \E length, selected \in Lengths, refused \in BOOLEAN :
       Begin("artifact", [length |-> length, selected |-> selected, refused |-> refused])

CheckShape ==
  /\ cost # <<>>
  /\ \E epoch \in Epochs :
       Begin("shape", [machine |-> machine[1], verifier |-> verifier[1], epoch |-> epoch])

RequestReservation ==
  cost # <<>> /\ Begin("quote", Reservation(verifier[1], cost[1]))

RequestDispatch ==
  /\ cost # <<>>
  /\ \E artifact, statement \in Lengths :
       Begin("quote", Quote("dispatch", verifier[1], cost[1], artifact, statement))

(* External: the dispatcher, whose recheck of the copy is a quote for its   *)
(* length under the policy of the session.                                  *)
DispatchArtifact ==
  /\ cost # <<>> /\ held # <<>>
  /\ \E statement \in Lengths :
       Begin("quote", Quote("artifact", verifier[1], cost[1], held[1], statement))

CurrentCheck == Order(call.kind)[call.next]

InChain == call.status = "checking" /\ call.next <= Len(Order(call.kind))

PassCheck ==
  /\ InChain
  /\ ~Fault(call.kind, call.input, CurrentCheck)
  /\ call' = Checking(call.kind, call.input, call.next + 1)
  /\ UNCHANGED <<machine, verifier, cost, admitted, reserved, held>>

(* Mutant of RejectCheck: the error of the check before.                    *)
RejectCheckBefore ==
  /\ InChain
  /\ Fault(call.kind, call.input, CurrentCheck)
  /\ call' = Rejected(call.kind, call.input,
                      Order(call.kind)[IF call.next > 1 THEN call.next - 1 ELSE 1])
  /\ UNCHANGED <<machine, verifier, cost, admitted, reserved, held>>

RejectCheck ==
  /\ InChain
  /\ Fault(call.kind, call.input, CurrentCheck)
  /\ call' = Rejected(call.kind, call.input, CurrentCheck)
  /\ UNCHANGED <<machine, verifier, cost, admitted, reserved, held>>

PassedChain(kind) ==
  call.status = "checking" /\ call.kind = kind /\ call.next > Len(Order(kind))

AcceptMachine ==
  /\ PassedChain("machine")
  /\ machine' = <<call.input>>
  /\ call' = Idle
  /\ UNCHANGED <<verifier, cost, admitted, reserved, held>>

AcceptVerifier ==
  /\ PassedChain("verifier")
  /\ verifier' = <<call.input>>
  /\ call' = Idle
  /\ UNCHANGED <<machine, cost, admitted, reserved, held>>

AcceptCost ==
  /\ PassedChain("cost")
  /\ cost' = <<call.input>>
  /\ call' = Idle
  /\ UNCHANGED <<machine, verifier, admitted, reserved, held>>

AcceptArtifact ==
  /\ PassedChain("artifact")
  /\ held' = <<call.input.length>>
  /\ call' = Idle
  /\ UNCHANGED <<machine, verifier, cost, admitted, reserved>>

AcceptShape ==
  /\ PassedChain("shape")
  /\ admitted' = admitted \cup {call.input.epoch}
  /\ call' = Idle
  /\ UNCHANGED <<machine, verifier, cost, reserved, held>>

StartCharge ==
  /\ PassedChain("quote")
  /\ call' = Charging(call.input, 1, 0)
  /\ UNCHANGED <<machine, verifier, cost, admitted, reserved, held>>

CurrentTerm == Term(call.input, call.next)

AddTerm ==
  /\ call.status = "charging" /\ call.next <= 4
  /\ ~Overflows(call.charge, CurrentTerm)
  /\ call' = Charging(call.input, call.next + 1, call.charge + CurrentTerm)
  /\ UNCHANGED <<machine, verifier, cost, admitted, reserved, held>>

Overflow ==
  /\ call.status = "charging" /\ call.next <= 4
  /\ Overflows(call.charge, CurrentTerm)
  /\ call' = Rejected("quote", call.input, "ArithmeticOverflow")
  /\ UNCHANGED <<machine, verifier, cost, admitted, reserved, held>>

StartCaps ==
  /\ call.status = "charging" /\ call.next > 4
  /\ call' = Capping(call.input, 1, call.charge)
  /\ UNCHANGED <<machine, verifier, cost, admitted, reserved, held>>

PassCap ==
  /\ call.status = "capping" /\ call.next <= Len(CapsOrder)
  /\ ~CapsFault(call.input, call.charge, CapsOrder[call.next])
  /\ call' = Capping(call.input, call.next + 1, call.charge)
  /\ UNCHANGED <<machine, verifier, cost, admitted, reserved, held>>

RejectCap ==
  /\ call.status = "capping" /\ call.next <= Len(CapsOrder)
  /\ CapsFault(call.input, call.charge, CapsOrder[call.next])
  /\ call' = Rejected("quote", call.input, CapsOrder[call.next])
  /\ UNCHANGED <<machine, verifier, cost, admitted, reserved, held>>

(* The quote is returned; the caller keeps the one it reserves with.        *)
GrantQuote ==
  /\ call.status = "capping" /\ call.next > Len(CapsOrder)
  /\ call' = Granted(call.input, call.charge)
  /\ reserved' = IF call.input.use = "reservation" THEN <<call.charge>> ELSE reserved
  /\ UNCHANGED <<machine, verifier, cost, admitted, held>>

Next ==
  \/ ValidateMachine \/ ValidateVerifier \/ SelectCost
  \/ CheckShape \/ RequestReservation \/ RequestDispatch
  \/ CopyArtifact \/ DispatchArtifact
  \/ PassCheck \/ RejectCheck
  \/ AcceptMachine \/ AcceptVerifier \/ AcceptCost \/ AcceptShape \/ AcceptArtifact
  \/ StartCharge \/ AddTerm \/ Overflow
  \/ StartCaps \/ PassCap \/ RejectCap \/ GrantQuote

Spec == Init /\ [][Next]_vars
-----------------------------------------------------------------------------
(* The mathematical charge of a dispatch, with no width.                    *)
Charge(quote) ==
  quote.cost.row.base
    + quote.cost.row.artifact * quote.artifact
    + quote.cost.row.statement * quote.statement
    + quote.cost.row.output * quote.verifier.maxOutput

(* The lengths are those the policy allows.                                 *)
LengthsAllowed(quote) ==
  /\ quote.artifact <= quote.verifier.maxArtifact
  /\ quote.statement <= quote.verifier.maxStatement

QuoteRefused == call.status = "rejected" /\ call.kind = "quote"

(* Type invariant: the arithmetic stays within its u128, quotes and         *)
(* reservations within their u64.                                           *)
TypeOK ==
  /\ machine = <<>> \/ machine[1] \in MachineCandidates
  /\ verifier = <<>> \/ verifier[1] \in VerifierCandidates
  /\ cost = <<>> \/ cost[1] \in CostCandidates
  /\ admitted \subseteq Epochs
  /\ reserved = <<>> \/ reserved[1] \in Words
  /\ held = <<>> \/ held[1] \in Lengths
  /\ call.status \in {"idle", "checking", "charging", "capping", "granted", "rejected"}
  /\ call.status \in {"charging", "capping"} => call.charge \in 0 .. WideMax
  /\ call.status = "granted" => call.units \in Words

(* A rejection by a chain of checks names the first fault in the order that *)
(* the operation documents: no check before it fails.                       *)
FirstFaultReported ==
  (call.status = "rejected" /\ call.kind # "quote") =>
    \E n \in 1 .. Len(Order(call.kind)) :
      /\ call.error = Order(call.kind)[n]
      /\ Fault(call.kind, call.input, call.error)
      /\ \A m \in 1 .. n - 1 : ~Fault(call.kind, call.input, Order(call.kind)[m])

(* A quote that is granted is the exact charge of lengths that the policy   *)
(* allows, and within both caps; an arithmetic error means that the exact   *)
(* charge fits no u64, whichever term the checked arithmetic stopped at.    *)
QuoteExact ==
  /\ call.status = "granted" =>
       /\ call.input.cost.row.family = call.input.verifier.family
       /\ LengthsAllowed(call.input)
       /\ call.units = Charge(call.input)
       /\ call.units <= call.input.verifier.maxCost
       /\ call.units <= call.input.cost.model.maxCharge
  /\ (QuoteRefused /\ call.error \in {"ArithmeticOverflow", "ChargeDoesNotFitU64"}) =>
       Charge(call.input) > WordMax

(* "The conservative admission-reservation request using maxima": once it   *)
(* was quoted, no dispatch whose lengths the policy allows is refused, and  *)
(* none costs more than what was reserved.                                  *)
ReservationCovers ==
  reserved # <<>> =>
    /\ call.status = "granted" => call.units <= reserved[1]
    /\ QuoteRefused => ~LengthsAllowed(call.input)

(* A copy is never longer than the protocol lets an artifact be.            *)
HeldWithinCeiling == held # <<>> => held[1] <= Ceiling["ProofArtifactBytes"]

(* Both ends of a window belong to it ("inclusive bounds"): a policy is called *)
(* inactive only before its first epoch or after its last.                  *)
InactiveIsOutside ==
  (call.status = "rejected" /\ call.kind = "shape") =>
    /\ call.error = "MachinePolicyInactive" =>
         ~(/\ call.input.machine.start <= call.input.epoch
           /\ call.input.epoch <= call.input.machine.end)
    /\ call.error = "VerifierPolicyInactive" =>
         ~(/\ call.input.verifier.start <= call.input.epoch
           /\ call.input.epoch <= call.input.verifier.end)

(* A dispatch quoted under a pair of policies found fit for an epoch stays  *)
(* within the machine's limits, which stay within the protocol's, and both  *)
(* policies are in force at that epoch, the ends of their windows included  *)
(* and nothing beyond. The artifact held when it is        *)
(* dispatched fits them too, whatever limit it was copied under, and never  *)
(* exceeds what the protocol allows.                                        *)
AdmittedFitsMachine ==
  /\ HeldWithinCeiling
  /\ InactiveIsOutside
  /\ admitted # {} =>
       LET m == machine[1]
           v == verifier[1]
       IN /\ m.mode # "LocalKernel" /\ m.admission = <<v.id>>
          /\ \A epoch \in admitted :
               /\ m.start <= epoch /\ v.start <= epoch
               /\ epoch <= m.end /\ epoch <= v.end
          /\ \A field \in LimitFields : m.limits[field] <= Ceiling[field]
          /\ call.status = "granted" =>
               /\ call.units <= m.limits["TotalVerifierCostUnits"]
               /\ call.input.artifact <= m.limits["ProofArtifactBytes"]
               /\ call.input.artifact <= m.limits["TotalProofBytes"]
               /\ call.input.use = "artifact" =>
                    held[1] <= v.maxArtifact /\ held[1] <= m.limits["TotalProofBytes"]

-----------------------------------------------------------------------------
(* The inductive invariant: what each stage of a call has established about *)
(* its own input, and that the input is the session's.                      *)
OfQuote ==
  \/ call.status \in {"charging", "capping", "granted"}
  \/ call.status \in {"checking", "rejected"} /\ call.kind = "quote"

ShapeOf(epoch) == [machine |-> machine[1], verifier |-> verifier[1], epoch |-> epoch]

BuiltInOrder ==
  /\ verifier # <<>> => machine # <<>>
  /\ cost # <<>> => verifier # <<>>
  /\ cost = <<>> => admitted = {} /\ reserved = <<>>
  /\ call.status = "checking" =>
       \/ call.kind = "machine" /\ machine = <<>> /\ call.input \in MachineCandidates
       \/ /\ call.kind = "verifier" /\ verifier = <<>> /\ machine # <<>>
          /\ call.input \in VerifierCandidates
       \/ /\ call.kind = "cost" /\ cost = <<>> /\ verifier # <<>>
          /\ call.input \in CostCandidates
       \/ /\ call.kind = "shape" /\ cost # <<>>
          /\ call.input.epoch \in Epochs /\ call.input = ShapeOf(call.input.epoch)
       \/ /\ call.kind = "artifact" /\ held = <<>>
          /\ call.input.length \in Lengths /\ call.input.selected \in Lengths
       \/ call.kind = "quote"

QuoteOfSession ==
  OfQuote =>
    /\ cost # <<>>
    /\ call.input.verifier = verifier[1] /\ call.input.cost = cost[1]
    /\ call.input.artifact \in Words /\ call.input.statement \in Words
    /\ call.input.use = "reservation" => call.input = Reservation(verifier[1], cost[1])
    /\ call.input.use = "artifact" => held # <<>> /\ call.input.artifact = held[1]

ChainPassed ==
  call.status = "checking" =>
    /\ call.next \in Nat \ {0}
    /\ \A n \in 1 .. call.next - 1 :
         ~Fault(call.kind, call.input, Order(call.kind)[n])

(* The terms added before the n-th.                                         *)
ChargeBefore(quote, n) ==
  (IF n > 1 THEN Term(quote, 1) ELSE 0) + (IF n > 2 THEN Term(quote, 2) ELSE 0)
    + (IF n > 3 THEN Term(quote, 3) ELSE 0) + (IF n > 4 THEN Term(quote, 4) ELSE 0)

WithinBounds(quote) ==
  quote.cost.row.family = quote.verifier.family /\ LengthsAllowed(quote)

WithinCaps(quote) ==
  /\ Charge(quote) <= WordMax
  /\ Charge(quote) <= quote.cost.model.maxCharge
  /\ Charge(quote) <= quote.verifier.maxCost

ChargeSoFar ==
  /\ call.status \in {"charging", "capping", "granted"} => WithinBounds(call.input)
  /\ call.status = "charging" =>
       call.next \in 1 .. 5 /\ call.charge = ChargeBefore(call.input, call.next)
  /\ call.status = "capping" =>
       /\ call.next \in 1 .. 4 /\ call.charge = Charge(call.input)
       /\ \A n \in 1 .. call.next - 1 : ~CapsFault(call.input, call.charge, CapsOrder[n])
  /\ call.status = "granted" =>
       call.units = Charge(call.input) /\ WithinCaps(call.input)

(* A quote is refused only for a reason its input has.                      *)
RefusalJustified ==
  QuoteRefused =>
    /\ ~WithinBounds(call.input) \/ ~WithinCaps(call.input)
    /\ call.error \in {"ArithmeticOverflow", "ChargeDoesNotFitU64"} =>
         Charge(call.input) > WordMax

ReservationExact ==
  reserved # <<>> =>
    LET quote == Reservation(verifier[1], cost[1])
    IN reserved[1] = Charge(quote) /\ WithinBounds(quote) /\ WithinCaps(quote)

WithinCeilings ==
  machine # <<>> => \A field \in LimitFields : machine[1].limits[field] <= Ceiling[field]

AdmittedFaultless ==
  \A epoch \in admitted : \A n \in 1 .. Len(ShapeOrder) :
    ~ShapeFault(ShapeOf(epoch), ShapeOrder[n])

IInv ==
  /\ TypeOK /\ BuiltInOrder /\ QuoteOfSession /\ ChainPassed /\ ChargeSoFar
  /\ RefusalJustified /\ ReservationExact /\ WithinCeilings /\ HeldWithinCeiling
  /\ AdmittedFaultless /\ FirstFaultReported
=============================================================================
