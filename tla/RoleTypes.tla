------------------------------ MODULE RoleTypes ------------------------------
(***************************************************************************)
(* The vocabulary of crates/zrm-kernel/src/resource_roles.rs: the three    *)
(* roles in their precedence order, a transition's candidate lists, and    *)
(* the errors that try_new can return.  A resource identifier is a         *)
(* natural number: what the code uses of its 32 bytes is equality and the  *)
(* byte order.                                                             *)
(***************************************************************************)
EXTENDS Naturals, Sequences, FiniteSets

CONSTANTS
  ResourceIds,  (* Identifiers, ordered as their bytes are.               *)
  Limit,        (* max_{consumed,referenced,created}_resources, by role.  *)
  Candidates,   (* Candidate lists a caller may pass to try_new.          *)
  CounterMax    (* u16::MAX: the width of every count and ordinal.        *)

Roles == {"consumed", "referenced", "created"}

(* Consumed, referenced, created: the precedence of every per-role check.  *)
RoleAt == <<"consumed", "referenced", "created">>

(* The order in which try_new compares the lists of two roles.             *)
PairAt == << <<"consumed", "referenced">>,
             <<"consumed", "created">>,
             <<"referenced", "created">> >>

ASSUME IdsAssumption == ResourceIds \subseteq Nat

(* validate_candidate in zrm-policy/src/limits.rs keeps each limit at most *)
(* 256, far below u16::MAX.                                                *)
ASSUME LimitAssumption ==
  /\ CounterMax \in Nat
  /\ Limit \in [Roles -> Nat]
  /\ \A role \in Roles : Limit[role] < CounterMax

ASSUME CandidatesAssumption == Candidates \subseteq [Roles -> Seq(ResourceIds)]

-----------------------------------------------------------------------------
(* ResourceRolePartitionErrorV1, with the two non-errors of a caller's     *)
(* view: no answer yet, and Ok.                                            *)

Undecided == [error |-> "Undecided"]

Accepted(lists) == [error |-> "None", roles |-> lists]

CountLimitExceeded(role) ==
  [error |-> "CountLimitExceeded", role |-> role, maximum |-> Limit[role]]

CapacityUnavailable(role) == [error |-> "CapacityUnavailable", role |-> role]

DuplicateResourceId(role) == [error |-> "DuplicateResourceId", role |-> role]

ResourceRoleCollision(first, second) ==
  [error |-> "ResourceRoleCollision", first |-> first, second |-> second]

-----------------------------------------------------------------------------
(* What each error says of the lists, in the words of set theory.          *)

Ids(list) == {list[i] : i \in DOMAIN list}

HasDuplicate(list) == \E i, j \in DOMAIN list : i # j /\ list[i] = list[j]

Collide(first, second) == Ids(first) \cap Ids(second) # {}

Ascending(list) == \A i, j \in DOMAIN list : i < j => list[i] < list[j]

(* Position `ordinal` (from 0) of role `role` holds `id`.                  *)
HoldsAt(lists, role, ordinal, id) ==
  /\ ordinal + 1 \in DOMAIN lists[role]
  /\ lists[role][ordinal + 1] = id

(* Three lists a CanonicalResourceRolesV1 may hold: within the limits,     *)
(* sorted, unique and pairwise disjoint.                                   *)
CanonicalRoles(lists) ==
  /\ \A role \in Roles : Len(lists[role]) <= Limit[role] /\ Ascending(lists[role])
  /\ \A first, second \in Roles :
       first # second => ~Collide(lists[first], lists[second])
=============================================================================
