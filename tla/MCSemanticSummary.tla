-------------------------- MODULE MCSemanticSummary --------------------------
(* Small instance of SemanticSummary: three shards that settle only together, *)
(* and shards that differ from the third in one respect.                      *)
EXTENDS SemanticSummary

Shard(action, consumed, created, delta) ==
  [context |-> "ctx", basis |-> "root", profile |-> "v1", action |-> action,
   consumed |-> OnceEach(consumed, Tags), created |-> OnceEach(created, Tags), delta |-> delta]

First == Shard("a", {1}, {2}, [x |-> 1])
Second == Shard("b", {3}, {4}, [x |-> -1, y |-> 2])
Third == Shard("c", {5}, {}, [x |-> 0, y |-> -2])

MCCandidates ==
  {First, Second, Third,
   [Third EXCEPT !.context = "other"], [Third EXCEPT !.basis = "other"],
   [Third EXCEPT !.profile = "other"], [Third EXCEPT !.profile = ""],
   Shard("c", {5}, {}, [x |-> 2]),
   Shard("c", {1}, {}, [x |-> 1]),
   Shard("c", {}, {2}, [y |-> 1]),
   Shard("c", {2}, {5}, [x |-> 2]),
   Shard("a", {5}, {}, [y |-> 1]),
   Shard("c", {5}, {5}, [y |-> 1]),
   [Third EXCEPT !.consumed[5] = 2],
   [Third EXCEPT !.created[2] = 2]}
=============================================================================
