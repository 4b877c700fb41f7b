--------------------------- MODULE DelegationPlan ---------------------------
(***************************************************************************)
(* The rules of the completion and delegation plan                         *)
(* (tools/delegation_plan_model.py, tools/check_delegation_plan.py).       *)
(* A plan is an index, the task shards it names and what the repository    *)
(* holds at that commit:                                                   *)
(*   shards      names of task files, in order;                            *)
(*   content     shard name -> list of tasks, for the files that exist;    *)
(*   header      whether schema, version, review policy, task contract and *)
(*               the text fields of the index are as required;             *)
(*   handoff     [ready, required];                                        *)
(*   posture     [production, blanket, safeNow];                           *)
(*   files       files of the repository;                                  *)
(*   cbc, sc     identifiers of obligations and of contracts;              *)
(*   identifiable  whether the matrix and the contracts they are read from *)
(*               can be read.                                              *)
(* Task n stands for ZRM-TASK-n.  wellFormed of a task stands for the      *)
(* fields that no other rule reads: texts, phase, class, boundary, work    *)
(* packages, path syntax.                                                  *)
(***************************************************************************)
EXTENDS Naturals, Sequences

ValidStates == {"architect_required", "blocked", "delegable", "complete", "human_only"}

ValidTiers == {"architect", "bounded_implementer", "mechanical_evidence", "human_or_external"}

Members(list) == {list[i] : i \in DOMAIN list}

(* string_list: no duplicates, and not empty unless that is allowed.          *)
DuplicateFree(list) == \A i, j \in DOMAIN list : list[i] = list[j] => i = j

NonemptyList(list) == list # <<>> /\ DuplicateFree(list)

(* The tier, the unresolved decision and the evidence that a state demands.   *)
StateFits(task) ==
  /\ task.state = "architect_required" => task.tier = "architect" /\ task.unresolved
  /\ task.state = "human_only" => task.tier = "human_or_external"
  /\ task.state \in {"blocked", "delegable"} =>
       task.tier \in {"bounded_implementer", "mechanical_evidence"}
  /\ task.state = "complete" => ~task.unresolved /\ task.evidence # <<>>

(* validate_task for the task at position i.                                  *)
TaskOK(plan, task, i) ==
  /\ task.id = i
  /\ task.wellFormed
  /\ task.state \in ValidStates
  /\ task.tier \in ValidTiers
  /\ DuplicateFree(task.deps)
  /\ NonemptyList(task.cbc) /\ Members(task.cbc) \subseteq plan.cbc
  /\ NonemptyList(task.sc) /\ Members(task.sc) \subseteq plan.sc
  /\ DuplicateFree(task.evidence)
  /\ task.oracle.status \in {"planned", "available"}
  /\ StateFits(task)

(* load_task_files: the list of shards is checked before the first is read.   *)
ShardOK(plan, i) ==
  /\ NonemptyList(plan.shards)
  /\ plan.shards[i] \in DOMAIN plan.content
  /\ plan.content[plan.shards[i]] # <<>>

(* by_id of validate_states and validate_summaries: the last task with an id. *)
TaskOf(tasks, id) ==
  tasks[CHOOSE i \in DOMAIN tasks :
          tasks[i].id = id /\ \A j \in DOMAIN tasks : tasks[j].id = id => j <= i]

IsComplete(tasks, id) == TaskOf(tasks, id).state = "complete"

DependenciesComplete(tasks, task) ==
  \A i \in DOMAIN task.deps : IsComplete(tasks, task.deps[i])

(* One turn of the loop of validate_states.                                   *)
TaskStateOK(plan, tasks, task) ==
  /\ task.state = "blocked" => ~DependenciesComplete(tasks, task) \/ task.unresolved
  /\ task.state = "delegable" =>
       /\ DependenciesComplete(tasks, task)
       /\ ~task.unresolved
       /\ task.oracle.status = "available"
       /\ task.decision \in plan.files
  /\ task.state = "complete" =>
       /\ DependenciesComplete(tasks, task)
       /\ Members(task.evidence) \subseteq plan.files
  /\ task.oracle.status = "available" => task.oracle.path \in plan.files

Delegable(tasks) ==
  LET isDelegable(task) == task.state = "delegable"
      found == SelectSeq(tasks, isDelegable)
  IN [i \in DOMAIN found |-> found[i].id]

(* validate_summaries                                                         *)
SummariesOK(plan, tasks) ==
  LET required == Members(plan.handoff.required) IN
  /\ NonemptyList(plan.handoff.required)
  /\ required \subseteq {tasks[i].id : i \in DOMAIN tasks}
  /\ plan.handoff.ready <=> \A id \in required : IsComplete(tasks, id)
  /\ ~plan.posture.production
  /\ plan.posture.blanket <=> plan.handoff.ready
  /\ DuplicateFree(plan.posture.safeNow)
  /\ plan.posture.safeNow = Delegable(tasks)
=============================================================================
