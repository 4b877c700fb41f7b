------------------------------ MODULE KindPolicy ------------------------------
(* ResourceKindPolicyV1 (crates/zrm-policy/src/resource_kind.rs) beside the   *)
(* two executable interpretations of the same schema in reference_models:     *)
(* the oracle of RFC-0003 and the earlier oracle that the RFC amends.  The    *)
(* crate validates a policy once and then answers for any number of           *)
(* resources; an oracle decides each resource from the policy's bare fields.  *)
(* Each decision is a chain of checks, and a step is one check of one chain.  *)
EXTENDS Integers, Sequences

CONSTANTS
  WordMax,     (* u64::MAX.                                                   *)
  WideMax,     (* u128::MAX.                                                  *)
  Policies,    (* Policy candidates; the oracles take any host value in them. *)
  Units,       (* The units resources are denominated in.                     *)
  Quantities   (* The quantities presented, likewise any host integers.       *)

Modes == {"ConservedFungible", "AuthorityMintableFungible", "LifecycleNonFungible",
          "Transformable", "EvidenceOnly"}

ASSUME BoundsAssumption == WordMax \in Nat /\ WideMax \in Nat \ {0}

ASSUME CandidatesAssumption ==
  /\ Quantities \subseteq Int
  /\ \A policy \in Policies :
       {policy.schema, policy.start, policy.end, policy.maximum} \subseteq Int

Deciders == {"rust", "rfc0003", "earlier"}

VARIABLES
  policy,       (* The candidate under decision.                              *)
  resource,     (* The unit and quantity last asked about, if any.            *)
  constructed,  (* Has TryFrom returned a ResourceKindPolicyV1?               *)
  progress      (* Of each decider: its chain, or its verdict.                *)

vars == <<policy, resource, constructed, progress>>

-----------------------------------------------------------------------------
(* try_from and validate_dimensions.                                          *)
RustConstruction ==
  <<"UnsupportedSchema", "InvalidValidityWindow", "LifecycleMaximumMustBeOne">>

(* Mutants of RustDimensions: the zero rule before the lifecycle rule, and no *)
(* zero rule at all.                                                          *)
RustDimensionsZeroFirst ==
  <<"UnitMismatch", "ZeroQuantity", "LifecycleQuantityMustBeOne", "ExceedsMaximum">>

RustDimensionsZeroAllowed ==
  <<"UnitMismatch", "LifecycleQuantityMustBeOne", "ExceedsMaximum">>

RustDimensions ==
  <<"UnitMismatch", "LifecycleQuantityMustBeOne", "ZeroQuantity", "ExceedsMaximum">>

(* The oracles: host values first have to be protocol integers.               *)
Rfc0003Construction ==
  <<"UnsupportedSchema", "UnsupportedMode", "EpochOutOfRange",
    "InvalidValidityWindow", "MaximumOutOfRange", "LifecycleMaximumMustBeOne">>

Rfc0003Quantity ==
  <<"UnsupportedSchema", "UnsupportedMode", "EpochOutOfRange",
    "InvalidValidityWindow", "MaximumOutOfRange", "LifecycleMaximumMustBeOne",
    "UnitMismatch", "QuantityOutOfRange",
    "LifecycleQuantityMustBeOne", "ZeroQuantity", "ExceedsMaximum">>

EarlierConstruction ==
  <<"UnsupportedSchema", "UnsupportedMode", "EpochOutOfRange",
    "InvalidValidityWindow", "MaximumOutOfRange">>

EarlierQuantity ==
  <<"UnsupportedSchema", "UnsupportedMode", "EpochOutOfRange",
    "InvalidValidityWindow", "MaximumOutOfRange",
    "UnitMismatch", "QuantityOutOfRange",
    "ZeroQuantity", "ExceedsMaximum", "LifecycleQuantityMustBeOne">>

Asked == resource # <<>>

Chain(decider) ==
  CASE decider = "rust" -> IF Asked THEN RustDimensions ELSE RustConstruction
    [] decider = "rfc0003" -> IF Asked THEN Rfc0003Quantity ELSE Rfc0003Construction
    [] decider = "earlier" -> IF Asked THEN EarlierQuantity ELSE EarlierConstruction

(* Does a policy, with a resource if the check is about one, fail a check?    *)
PolicyFault(p, check) ==
  \/ check = "UnsupportedSchema" /\ p.schema # 1
  \/ check = "UnsupportedMode" /\ p.mode \notin Modes
  \/ check = "EpochOutOfRange" /\ ~({p.start, p.end} \subseteq 0 .. WordMax)
  \/ check = "InvalidValidityWindow" /\ p.start > p.end
  \/ check = "MaximumOutOfRange" /\ p.maximum \notin 0 .. WideMax
  \/ /\ check = "LifecycleMaximumMustBeOne"
     /\ p.mode = "LifecycleNonFungible" /\ p.maximum # 1

ResourceFault(p, r, check) ==
  \/ check = "UnitMismatch" /\ r.unit # p.unit
  \/ check = "QuantityOutOfRange" /\ r.quantity \notin 0 .. WideMax
  \/ /\ check = "LifecycleQuantityMustBeOne"
     /\ p.mode = "LifecycleNonFungible" /\ r.quantity # 1
  \/ check = "ZeroQuantity" /\ r.quantity = 0
  \/ check = "ExceedsMaximum" /\ r.quantity > p.maximum

Fault(check) ==
  PolicyFault(policy, check) \/ (Asked /\ ResourceFault(policy, resource[1], check))

(* What can be passed to the crate at all: its types admit no other value.    *)
TypedPolicy(p) ==
  \A check \in {"UnsupportedMode", "EpochOutOfRange", "MaximumOutOfRange"} :
    ~PolicyFault(p, check)

TypedQuantity(quantity) == quantity \in 0 .. WideMax

Checking(n) == [status |-> "checking", next |-> n]
Accepted == [status |-> "accepted"]
Rejected(reason) == [status |-> "rejected", reason |-> reason]
NotAsked == [status |-> "not asked"]

Idle == \A decider \in Deciders : progress[decider].status # "checking"
-----------------------------------------------------------------------------
(* The three decide the construction of one candidate.                        *)
Init ==
  /\ policy \in Policies
  /\ resource = <<>>
  /\ constructed = FALSE
  /\ progress = [decider \in Deciders |->
                   IF decider = "rust" /\ ~TypedPolicy(policy) THEN NotAsked
                                                                ELSE Checking(1)]

(* A resource is presented: to the policy that the crate constructed, if it   *)
(* did and the quantity is a u128, and to both oracles with the policy.       *)
Ask(unit, quantity) ==
  /\ Idle
  /\ resource' = <<[unit |-> unit, quantity |-> quantity]>>
  /\ progress' = [decider \in Deciders |->
                    IF decider = "rust" /\ ~constructed THEN progress["rust"]
                    ELSE IF decider = "rust" /\ ~TypedQuantity(quantity) THEN NotAsked
                    ELSE Checking(1)]
  /\ UNCHANGED <<policy, constructed>>

CurrentCheck(decider) == Chain(decider)[progress[decider].next]

InChain(decider) ==
  /\ progress[decider].status = "checking"
  /\ progress[decider].next <= Len(Chain(decider))

PassCheck(decider) ==
  /\ InChain(decider)
  /\ ~Fault(CurrentCheck(decider))
  /\ progress' = [progress EXCEPT ![decider] = Checking(progress[decider].next + 1)]
  /\ UNCHANGED <<policy, resource, constructed>>

RejectCheck(decider) ==
  /\ InChain(decider)
  /\ Fault(CurrentCheck(decider))
  /\ progress' = [progress EXCEPT ![decider] = Rejected(CurrentCheck(decider))]
  /\ UNCHANGED <<policy, resource, constructed>>

(* Mutant of Accept: accepts without the last check of the chain.             *)
AcceptEarly(decider) ==
  /\ progress[decider].status = "checking"
  /\ progress[decider].next >= Len(Chain(decider))
  /\ progress' = [progress EXCEPT ![decider] = Accepted]
  /\ constructed' = (constructed \/ decider = "rust")
  /\ UNCHANGED <<policy, resource>>

Accept(decider) ==
  /\ progress[decider].status = "checking"
  /\ progress[decider].next > Len(Chain(decider))
  /\ progress' = [progress EXCEPT ![decider] = Accepted]
  /\ constructed' = (constructed \/ decider = "rust")
  /\ UNCHANGED <<policy, resource>>

Next ==
  \/ \E unit \in Units, quantity \in Quantities : Ask(unit, quantity)
  \/ \E decider \in Deciders :
       PassCheck(decider) \/ RejectCheck(decider) \/ Accept(decider)

Spec == Init /\ [][Next]_vars
-----------------------------------------------------------------------------
Reasons == {Rfc0003Quantity[n] : n \in 1 .. 11}

(* Type invariant: every decider is within its chain or has a verdict.        *)
TypeOK ==
  /\ policy \in Policies
  /\ resource # <<>> =>
       \E unit \in Units, quantity \in Quantities :
         resource = <<[unit |-> unit, quantity |-> quantity]>>
  /\ constructed \in BOOLEAN
  /\ DOMAIN progress = Deciders
  /\ \A decider \in Deciders :
       \/ progress[decider] \in {Accepted, NotAsked}
       \/ \E n \in 1 .. Len(Chain(decider)) + 1 : progress[decider] = Checking(n)
       \/ \E reason \in Reasons : progress[decider] = Rejected(reason)

(* The crate and the oracle of RFC-0003 agree on every policy and resource    *)
(* the crate can be asked about, down to the reason of a rejection, although  *)
(* the crate checks the policy once and the oracle again for each resource.   *)
AgreesWithRfc0003 ==
  (Idle /\ progress["rust"] # NotAsked) => progress["rust"] = progress["rfc0003"]

(* The relation that RESOURCE_KIND_POLICY_V1_ORACLE.md derives: the exact     *)
(* unit, and between one atom and the maximum; exactly one for lifecycle.     *)
Admissible(p, r) ==
  /\ r.unit = p.unit
  /\ 1 <= r.quantity /\ r.quantity <= p.maximum
  /\ p.mode = "LifecycleNonFungible" => r.quantity = 1

(* A constructed policy admits exactly the resources of that relation,        *)
(* whichever resources it was asked about before.                             *)
AdmitsExactly ==
  (Asked /\ constructed) =>
    /\ progress["rust"] = Accepted => Admissible(policy, resource[1])
    /\ progress["rust"].status = "rejected" => ~Admissible(policy, resource[1])

(* RFC-0003 narrows the earlier oracle in one place: where the crate and the  *)
(* earlier oracle disagree, the policy is a lifecycle policy whose maximum is *)
(* not one, and it is the crate that rejects.                                 *)
NarrowsLifecycleOnly ==
  (Idle /\ progress["rust"] # NotAsked
        /\ progress["rust"].status # progress["earlier"].status) =>
    /\ progress["rust"].status = "rejected"
    /\ policy.mode = "LifecycleNonFungible" /\ policy.maximum # 1
-----------------------------------------------------------------------------
(* The inductive invariant: what a chain has passed, and what a verdict says. *)
Passed(decider, n) == \A m \in 1 .. n - 1 : ~Fault(Chain(decider)[m])

FirstFault(chain, reason) ==
  \E n \in 1 .. Len(chain) :
    /\ chain[n] = reason
    /\ Fault(reason)
    /\ \A m \in 1 .. n - 1 : ~Fault(chain[m])

(* The crate's verdict on a resource is that on the policy if it has none.    *)
VerdictChain(decider) ==
  IF decider = "rust" /\ ~constructed THEN RustConstruction ELSE Chain(decider)

ProgressSound(decider) ==
  /\ progress[decider].status = "checking" => Passed(decider, progress[decider].next)
  /\ progress[decider].status = "accepted" => Passed(decider, Len(Chain(decider)) + 1)
  /\ progress[decider].status = "rejected" =>
       FirstFault(VerdictChain(decider), progress[decider].reason)

CrateTyped ==
  /\ progress["rust"].status # "not asked" \/ constructed => TypedPolicy(policy)
  /\ constructed => \A n \in 1 .. 3 : ~PolicyFault(policy, RustConstruction[n])
  /\ Asked => /\ ~constructed => progress["rust"].status \in {"rejected", "not asked"}
              /\ (constructed /\ progress["rust"].status # "not asked")
                    => TypedQuantity(resource[1].quantity)
  /\ ~Asked => (constructed <=> progress["rust"].status = "accepted")
  /\ \A decider \in Deciders \ {"rust"} : progress[decider].status # "not asked"

IInv ==
  /\ TypeOK
  /\ \A decider \in Deciders : ProgressSound(decider)
  /\ CrateTyped
=============================================================================
