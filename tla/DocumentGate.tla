---------------------------- MODULE DocumentGate ----------------------------
(***************************************************************************)
(* One run of either document checker, tools/check_delegation_plan.py or   *)
(* tools/check_conformance.py, over a document and the repository it       *)
(* stands in.  Both walk the same stages: load the entries, check each by  *)
(* itself, check the ends of its dependencies, search for cycles, and then *)
(* rely on the order the search established.  The first rule that fails    *)
(* raises, and nothing is accepted.                                        *)
(***************************************************************************)
EXTENDS DelegationPlan, ConformanceMatrix, DependencySearch

CONSTANTS
  Documents,        (* Plans and matrices a checker may be run on.          *)
  ObligationCount   (* Obligations a matrix must list (46 in the code).     *)

(* Lists are lists, and identifiers are the numbers they stand for.           *)
ListsEntries(list) ==
  /\ list \in Seq(Members(list))
  /\ \A i \in DOMAIN list : list[i].id \in Nat /\ list[i].deps \in Seq(Nat)

ASSUME DocumentsAssumption ==
  \A doc \in Documents :
    /\ doc.kind \in {"plan", "matrix"}
    /\ doc.kind = "plan" =>
         /\ doc.shards \in Seq(Members(doc.shards))
         /\ \A shard \in DOMAIN doc.content : ListsEntries(doc.content[shard])
    /\ doc.kind = "matrix" => ListsEntries(doc.obligations)

ASSUME ObligationCountAssumption == ObligationCount \in Nat

VARIABLES
  document,
  stage,      (* The loop the checker is in, or how it ended: accepted,     *)
              (* rejected, or crashed on an exception that nothing catches. *)
  position,   (* Position of that loop.                                     *)
  entries     (* Tasks loaded so far, or the obligations.                   *)

gateVars == <<document, stage, position, entries>>
vars == <<gateVars, graphVars, searchVars>>

IsPlan == document.kind = "plan"

Init ==
  /\ document \in Documents
  /\ stage = "load"
  /\ position = 1
  /\ entries = <<>>
  /\ order = <<>>
  /\ deps = <<>>
  /\ SearchStart

Identifiers == {entries[i].id : i \in DOMAIN entries}

(* No entry depends on itself or on an unknown one.                           *)
EdgesOK(entry) ==
  /\ entry.id \notin Members(entry.deps)
  /\ Members(entry.deps) \subseteq Identifiers

EntryOK(entry, i) ==
  IF IsPlan THEN TaskOK(document, entry, i) ELSE ObligationOK(document, entry)

(* The identifiers and the header are checked before the first entry, and the *)
(* identifiers that a plan may name are read from the matrix and contracts.   *)
HeaderOK ==
  /\ document.header
  /\ entries # <<>>
  /\ IsPlan => document.identifiable
  /\ ~IsPlan => \A i \in 1 .. Len(entries) : entries[i].id = i
  /\ ~IsPlan => Len(entries) = ObligationCount

ClosingOK ==
  IF IsPlan THEN SummariesOK(document, entries) ELSE BoundaryOK(document)

(* Each stage is a loop over some length, with one rule per turn.             *)
Turns(at) ==
  CASE at = "load" -> IF IsPlan THEN Len(document.shards) ELSE 0
    [] at \in {"entries", "edges"} -> Len(entries)
    [] at = "states" -> IF IsPlan THEN Len(entries) ELSE 0
    [] at \in {"header", "closing"} -> 1

RuleHolds(at, i) ==
  CASE at = "load" -> ShardOK(document, i)
    [] at = "header" -> HeaderOK
    [] at = "entries" -> EntryOK(entries[i], i)
    [] at = "edges" -> EdgesOK(entries[i])
    [] at = "states" -> TaskStateOK(document, entries, entries[i])
    [] at = "closing" -> ClosingOK

Checking == stage \in {"load", "header", "entries", "edges", "states", "closing"}

NextStage ==
  CASE stage = "load" -> "header"
    [] stage = "header" -> "entries"
    [] stage = "entries" -> "edges"
    [] stage = "edges" -> "search"
    [] stage = "states" -> "closing"
    [] stage = "closing" -> "accepted"

-----------------------------------------------------------------------------
Raise ==
  /\ Checking
  /\ position <= Turns(stage)
  /\ ~RuleHolds(stage, position)
  /\ stage' = "rejected"
  /\ UNCHANGED <<document, position, entries, graphVars, searchVars>>

LoadShard ==
  /\ stage = "load"
  /\ position <= Turns(stage)
  /\ RuleHolds(stage, position)
  /\ entries' = entries \o document.content[document.shards[position]]
  /\ position' = position + 1
  /\ UNCHANGED <<document, stage, graphVars, searchVars>>

NextTurn ==
  /\ Checking
  /\ stage # "load"
  /\ position <= Turns(stage)
  /\ RuleHolds(stage, position)
  /\ position' = position + 1
  /\ UNCHANGED <<document, stage, entries, graphVars, searchVars>>

(* An empty list of shards raises; a matrix brings its obligations itself.    *)
EndLoad ==
  /\ stage = "load"
  /\ position > Turns(stage)
  /\ position' = 1
  /\ IF IsPlan
     THEN /\ stage' = IF document.shards = <<>> THEN "rejected" ELSE NextStage
          /\ UNCHANGED entries
     ELSE /\ stage' = NextStage
          /\ entries' = document.obligations
  /\ UNCHANGED <<document, graphVars, searchVars>>

EndStage ==
  /\ Checking
  /\ stage \notin {"load", "edges"}
  /\ position > Turns(stage)
  /\ stage' = NextStage
  /\ position' = 1
  /\ UNCHANGED <<document, entries, graphVars, searchVars>>

(* The loop over the edges has filled graph.                                  *)
BeginSearch ==
  /\ stage = "edges"
  /\ position > Turns(stage)
  /\ order' = [i \in DOMAIN entries |-> entries[i].id]
  /\ deps' = [id \in Identifiers |-> TaskOf(entries, id).deps]
  /\ stage' = NextStage
  /\ position' = 1
  /\ UNCHANGED <<document, entries, searchVars>>

Search ==
  /\ stage = "search"
  /\ SearchNext
  /\ UNCHANGED gateVars

(* A cycle is an error that main reports; RecursionError is none it catches.  *)
EndSearch ==
  /\ stage = "search"
  /\ answer # "searching"
  /\ stage' = CASE answer = "acyclic" -> "states"
                [] answer = "cycle" -> "rejected"
                [] answer = "too deep" -> "crashed"
  /\ UNCHANGED <<document, position, entries, graphVars, searchVars>>

Next ==
  \/ Raise
  \/ LoadShard
  \/ NextTurn
  \/ EndLoad
  \/ EndStage
  \/ BeginSearch
  \/ Search
  \/ EndSearch

(* A checker that has started runs to its end: it waits for nothing.          *)
Spec == Init /\ [][Next]_vars /\ WF_vars(Next)

-----------------------------------------------------------------------------
Accepted == stage = "accepted"

(* An accepted plan is never stuck: as long as a task is not complete, there  *)
(* is one whose dependencies all are, and it is delegable or waits for a      *)
(* person or for a decision that is named.  No local rule says so; it takes   *)
(* the cycle search and validate_states together.                             *)
CanProgress ==
  \E i \in DOMAIN entries :
    /\ entries[i].state # "complete"
    /\ DependenciesComplete(entries, entries[i])
    /\ entries[i].state = "blocked" => entries[i].unresolved

AcceptedCanProgress ==
  Accepted /\ IsPlan =>
    \/ \A i \in DOMAIN entries : entries[i].state = "complete"
    \/ CanProgress

(* No group of blocked obligations blocks only itself: every chain of         *)
(* blocking dependencies of an accepted matrix leaves the blocked ones        *)
(* (validate_status and validate_dependency_graph together).                  *)
Blocked == {entries[i].id : i \in {j \in DOMAIN entries : entries[j].status = "blocked"}}

BlockedIsGrounded ==
  Accepted /\ ~IsPlan =>
    \A S \in (SUBSET Blocked) \ {{}} : \E id \in S : DependsOn(id) \ S # {}

(* Every run ends in a verdict, on cyclic graphs too, unless the document has  *)
(* as many entries as the interpreter allows calls of visit.                  *)
Decides ==
  <>(\/ stage \in {"accepted", "rejected"}
     \/ stage = "crashed" /\ Len(entries) >= DepthLimit)
=============================================================================
