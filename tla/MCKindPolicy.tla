----------------------------- MODULE MCKindPolicy -----------------------------
(* Small instance of KindPolicy: a u64 that ends at 1 and a u128 that ends at *)
(* 3; every mode and one that is none, maxima from none to beyond the u128,   *)
(* windows that are reversed or out of range.                                 *)
EXTENDS KindPolicy

Windows == {<<0, 1>>, <<1, 1>>, <<1, 0>>, <<0, 2>>, <<-1, 0>>}

MCQuantities == -1 .. 4

MCPolicies ==
  {[schema |-> schema, mode |-> mode, unit |-> "unit", maximum |-> maximum,
    start |-> window[1], end |-> window[2]] :
     schema \in {1, 2},
     mode \in {"ConservedFungible", "LifecycleNonFungible", "EvidenceOnly", "Other"},
     maximum \in {-1, 0, 1, 2, 3, 4}, window \in Windows}
=============================================================================
