-------------------------- MODULE ConformanceMatrix --------------------------
(***************************************************************************)
(* The rules of the conformance matrix (tools/check_conformance.py).  A    *)
(* matrix is                                                               *)
(*   obligations  list of obligations; obligation n stands for ZRM-CBC-n;  *)
(*   header       whether schema and version are as required;              *)
(*   boundary     [level, claim, production, scope, evidence];             *)
(*   status       status of the whole matrix;                              *)
(*   dated        whether updated_at is the date of the package manifest;  *)
(*   anchors      file -> the anchors of its headings, for live files.     *)
(* A reference is [file, anchor], anchor being "" without a "#".           *)
(* wellFormed of an obligation stands for its texts, layer, target level,  *)
(* required evidence and work packages.                                    *)
(***************************************************************************)
EXTENDS Naturals, Sequences

ValidStatuses ==
  {"specified", "implemented_partial", "implemented", "verified_scoped",
   "blocked", "not_applicable"}

(* Levels ZRM-L0 to ZRM-L5 are their numbers; the two postures before them    *)
(* have names.                                                                *)
Levels == {"L0", "L1", "L2", "L3", "L4", "L5"}

ReferenceOK(matrix, reference) ==
  /\ reference.file \in DOMAIN matrix.anchors
  /\ reference.anchor # "" => reference.anchor \in matrix.anchors[reference.file]

AllLive(matrix, references) ==
  \A i \in DOMAIN references : ReferenceOK(matrix, references[i])

(* validate_status                                                            *)
StatusOK(obligation) ==
  LET built == obligation.implementation # <<>> /\ obligation.tests # <<>>
      replayed == obligation.formal # <<>> \/ obligation.evidence # <<>>
      free == obligation.deps = <<>>
  IN CASE obligation.status = "specified" ->
            /\ obligation.implementation = <<>> /\ obligation.tests = <<>>
            /\ ~replayed
       [] obligation.status = "implemented_partial" -> built
       [] obligation.status = "implemented" -> built /\ free
       [] obligation.status = "verified_scoped" -> built /\ replayed /\ free
       [] obligation.status = "blocked" -> ~free
       [] obligation.status = "not_applicable" -> obligation.evidence # <<>>

(* One turn of the loop of validate_matrix.                                   *)
ObligationOK(matrix, obligation) ==
  /\ obligation.wellFormed
  /\ obligation.status \in ValidStatuses
  /\ AllLive(matrix, obligation.implementation)
  /\ AllLive(matrix, obligation.tests)
  /\ AllLive(matrix, obligation.formal)
  /\ AllLive(matrix, obligation.evidence)
  /\ obligation.normative # <<>> /\ AllLive(matrix, obligation.normative)
  /\ StatusOK(obligation)

Statuses(matrix) == {matrix.obligations[i].status : i \in DOMAIN matrix.obligations}

(* validate_promotion_boundary                                                *)
LevelOK(matrix) ==
  LET boundary == matrix.boundary IN
  CASE boundary.level = "design-only" ->
         /\ Statuses(matrix) = {"specified"}
         /\ matrix.status = "design_obligations_only"
         /\ ~boundary.claim
    [] boundary.level = "L0-candidate" ->
         /\ "implemented_partial" \in Statuses(matrix)
         /\ matrix.status = "wp0_wp1_candidate_awaiting_human_review"
         /\ ~boundary.claim
    [] OTHER ->
         /\ boundary.level \in Levels
         /\ boundary.claim
         /\ matrix.status = "scoped_wp0_wp1_implementation"
         /\ boundary.scope # <<>>
         /\ boundary.evidence # <<>> /\ AllLive(matrix, boundary.evidence)
         /\ {"implemented", "verified_scoped"} \cap Statuses(matrix) # {}

BoundaryOK(matrix) ==
  /\ LevelOK(matrix)
  /\ matrix.boundary.production => matrix.boundary.claim /\ matrix.boundary.level = "L5"
  /\ matrix.dated
=============================================================================
