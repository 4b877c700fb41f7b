-------------------------- MODULE DependencySearch --------------------------
(***************************************************************************)
(* The search for dependency cycles that the plan checker                  *)
(* (tools/delegation_plan_model.py, validate_graph) and the conformance    *)
(* checker (tools/check_conformance.py, validate_dependency_graph) share:  *)
(* the recursive function visit with the sets visited and active of the    *)
(* enclosing call.  One call of visit is one step; the Python stack is a   *)
(* sequence of frames, each with the position its loop has reached.        *)
(***************************************************************************)
EXTENDS Naturals, Sequences

(* Calls of visit for which the interpreter's recursion limit leaves room.    *)
CONSTANT DepthLimit

ASSUME DepthLimitAssumption == DepthLimit \in Nat \ {0}

VARIABLES
  order,    (* Identifiers in the insertion order of the dictionary graph.  *)
  deps,     (* graph: for every identifier, the list of its dependencies.   *)
  root,     (* Position of the loop over graph.                             *)
  stack,    (* Frames of visit: [node, next], next being the loop position. *)
  visited,
  active,
  answer    (* "searching", "acyclic" when the loop ended, "cycle", or      *)
            (* "too deep" when the interpreter raised RecursionError.       *)

graphVars == <<order, deps>>
searchVars == <<root, stack, visited, active, answer>>

Listed == {order[i] : i \in DOMAIN order}

DependsOn(node) == {deps[node][i] : i \in DOMAIN deps[node]}

(* What the tests before the search establish: every dependency is known.     *)
GraphOK ==
  /\ order \in Seq(Listed)
  /\ deps \in [Listed -> Seq(Listed)]

Top == stack[Len(stack)]

SearchStart ==
  /\ root = 1
  /\ stack = <<>>
  /\ visited = {}
  /\ active = {}
  /\ answer = "searching"

-----------------------------------------------------------------------------
(* visit(node), called with the frames callers below it.  One call too many   *)
(* raises before the first line of visit is reached.                          *)
ExceedDepth(callers) ==
  /\ Len(callers) >= DepthLimit
  /\ answer' = "too deep"
  /\ UNCHANGED <<stack, visited, active>>

FindCycle(node) ==
  /\ node \in active
  /\ answer' = "cycle"
  /\ UNCHANGED <<stack, visited, active>>

(* Mutant: the loop of the caller does not move past the call.                *)
SkipVisitedStays(node, callers) ==
  /\ node \notin active
  /\ node \in visited
  /\ UNCHANGED <<stack, visited, active, answer>>

SkipVisited(node, callers) ==
  /\ node \notin active
  /\ node \in visited
  /\ stack' = callers
  /\ UNCHANGED <<visited, active, answer>>

(* Mutant: the node is finished on entry instead of on return.                *)
EnterFinished(node, callers) ==
  /\ node \notin active
  /\ node \notin visited
  /\ visited' = visited \cup {node}
  /\ stack' = Append(callers, [node |-> node, next |-> 1])
  /\ UNCHANGED <<active, answer>>

Enter(node, callers) ==
  /\ node \notin active
  /\ node \notin visited
  /\ active' = active \cup {node}
  /\ stack' = Append(callers, [node |-> node, next |-> 1])
  /\ UNCHANGED <<visited, answer>>

Visit(node, callers) ==
  \/ ExceedDepth(callers)
  \/ /\ Len(callers) < DepthLimit
     /\ \/ FindCycle(node)
        \/ SkipVisited(node, callers)
        \/ Enter(node, callers)

VisitRoot ==
  /\ answer = "searching"
  /\ stack = <<>>
  /\ root \in DOMAIN order
  /\ root' = root + 1
  /\ Visit(order[root], <<>>)
  /\ UNCHANGED graphVars

VisitDependency ==
  /\ answer = "searching"
  /\ stack # <<>>
  /\ Top.next \in DOMAIN deps[Top.node]
  /\ Visit(deps[Top.node][Top.next],
           [stack EXCEPT ![Len(stack)].next = Top.next + 1])
  /\ UNCHANGED <<graphVars, root>>

(* Mutant: a finished node stays active.                                      *)
LeaveActive ==
  /\ answer = "searching"
  /\ stack # <<>>
  /\ Top.next \notin DOMAIN deps[Top.node]
  /\ visited' = visited \cup {Top.node}
  /\ stack' = SubSeq(stack, 1, Len(stack) - 1)
  /\ UNCHANGED <<graphVars, root, active, answer>>

(* The end of visit: the frame is dropped, its node is finished.              *)
Leave ==
  /\ answer = "searching"
  /\ stack # <<>>
  /\ Top.next \notin DOMAIN deps[Top.node]
  /\ active' = active \ {Top.node}
  /\ visited' = visited \cup {Top.node}
  /\ stack' = SubSeq(stack, 1, Len(stack) - 1)
  /\ UNCHANGED <<graphVars, root, answer>>

FinishSearch ==
  /\ answer = "searching"
  /\ stack = <<>>
  /\ root \notin DOMAIN order
  /\ answer' = "acyclic"
  /\ UNCHANGED <<graphVars, root, stack, visited, active>>

SearchNext == VisitRoot \/ VisitDependency \/ Leave \/ FinishSearch

SearchSpec == GraphOK /\ SearchStart /\ [][SearchNext]_<<graphVars, searchVars>>

-----------------------------------------------------------------------------
(* A graph has a cycle exactly when some nonempty set of its nodes contains a *)
(* dependency of each of its members.                                         *)
Knot(S) == S # {} /\ \A node \in S : DependsOn(node) \cap S # {}

Acyclic == \A S \in SUBSET Listed : ~Knot(S)

(* The two sets of one call are right together: a task marked visited too     *)
(* early hides a cycle behind it, one left in active reports a false cycle.   *)
(* (validate_graph, its docstring: "Require known, acyclic task               *)
(* dependencies".)  And the search gives up only on a graph with as many nodes *)
(* as the interpreter allows calls: it never calls itself twice for one node. *)
VerdictOnCycles ==
  /\ answer = "acyclic" => Acyclic
  /\ answer = "cycle" => ~Acyclic
  /\ answer = "too deep" => Len(order) >= DepthLimit
=============================================================================
