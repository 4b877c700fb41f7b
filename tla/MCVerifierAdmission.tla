------------------------ MODULE MCVerifierAdmission ------------------------
(* Small instance of VerifierAdmission: a u64 of two bits and a u128 of      *)
(* four, policies at, below and above every limit the chain compares, and    *)
(* rows whose charge overflows the wide word, the word, a cap, or nothing.   *)
EXTENDS VerifierAdmission

MCCeiling == [field \in LimitFields |-> 2]

Machine ==
  [schema |-> 1, suite |-> "SHA256_REFERENCE_V1", limits |-> MCCeiling,
   mode |-> "RequiredVerifier", admission |-> <<"policy">>, machine |-> "machine",
   domain |-> "domain", costModel |-> "model", start |-> 0, end |-> 1]

WithLimit(m, field, value) == [m EXCEPT !.limits[field] = value]

GoodMachines ==
  {Machine,
   WithLimit(Machine, "TotalProofBytes", 1),
   WithLimit(Machine, "TotalVerifierCostUnits", 1),
   [Machine EXCEPT !.mode = "LocalKernel", !.admission = <<>>],
   [Machine EXCEPT !.start = 1, !.end = 1]}

BadMachines ==
  {[Machine EXCEPT !.schema = 2, !.suite = "other"],
   [Machine EXCEPT !.suite = "other", !.limits["EnvelopeBytes"] = 3],
   [Machine EXCEPT !.admission = <<>>, !.end = 0, !.start = 1],
   [Machine EXCEPT !.mode = "LocalKernel", !.end = 0, !.start = 1],
   [Machine EXCEPT !.end = 0, !.start = 1],
   WithLimit([Machine EXCEPT !.admission = <<>>], "ResourceBytes", 0)}
    \cup {WithLimit(Machine, field, 3) : field \in LimitFields}
    \cup {WithLimit(WithLimit(Machine, field, 3), "ResourceBytes", 0) : field \in LimitFields}

MCMachines == GoodMachines \cup BadMachines

Verifier ==
  [schema |-> 1, id |-> "policy", machine |-> "machine", domain |-> "domain",
   family |-> "family", costModel |-> "model", maxCost |-> 2, maxArtifact |-> 2,
   maxStatement |-> 1, maxOutput |-> 1, start |-> 0, end |-> 2]

MCVerifiers ==
  {Verifier,
   [Verifier EXCEPT !.maxCost = 3, !.maxArtifact = 3, !.maxStatement = 3, !.maxOutput = 3],
   [Verifier EXCEPT !.maxArtifact = 3, !.maxStatement = 0],
   [Verifier EXCEPT !.maxCost = 1, !.maxArtifact = 1, !.start = 1, !.end = 1],
   [Verifier EXCEPT !.id = "other", !.machine = "other"],
   [Verifier EXCEPT !.machine = "other", !.domain = "other"],
   [Verifier EXCEPT !.domain = "other", !.costModel = "other"],
   [Verifier EXCEPT !.costModel = "other", !.start = 2],
   [Verifier EXCEPT !.schema = 2, !.start = 3],
   [Verifier EXCEPT !.start = 3]}

Row(base, artifact, statement, output) ==
  [family |-> "family", base |-> base, artifact |-> artifact,
   statement |-> statement, output |-> output]

MCCosts ==
  {[model |-> [schema |-> 1, maxCharge |-> 3], row |-> row] :
     row \in {Row(0, 1, 0, 0), Row(1, 0, 1, 0), Row(0, 0, 0, 1), Row(0, 1, 1, 1),
              Row(3, 3, 3, 3), [Row(0, 0, 0, 0) EXCEPT !.family = "other"]}}
    \cup {[model |-> [schema |-> 1, maxCharge |-> 1], row |-> Row(0, 1, 0, 1)],
          [model |-> [schema |-> 2, maxCharge |-> 1], row |-> Row(0, 1, 0, 1)]}
=============================================================================
