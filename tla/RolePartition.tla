---------------------------- MODULE RolePartition ----------------------------
(***************************************************************************)
(* What CanonicalResourceRolesV1::try_new promises its caller: one         *)
(* decision, made at once, that depends on the three lists as the doc      *)
(* comment of try_new says.  The first violated condition in the fixed     *)
(* order is the error; lists that violate none are either returned in      *)
(* canonical form or refused for the first role whose storage the host     *)
(* does not give.                                                          *)
(***************************************************************************)
EXTENDS RoleTypes

VARIABLES
  candidate,  (* The caller's lists: borrowed, never written.             *)
  refusing,   (* The roles for which the host will refuse storage.        *)
  decision    (* Undecided, an error, or Accepted(...).                   *)

vars == <<candidate, refusing, decision>>

-----------------------------------------------------------------------------
(* The nine structural conditions in order of precedence: three counts,    *)
(* three duplicate checks, three pairwise collisions.                      *)
Conditions == 1 .. 9

Violated(lists, n) ==
  \/ n \in 1 .. 3 /\ Len(lists[RoleAt[n]]) > Limit[RoleAt[n]]
  \/ n \in 4 .. 6 /\ HasDuplicate(lists[RoleAt[n - 3]])
  \/ n \in 7 .. 9 /\ Collide(lists[PairAt[n - 6][1]], lists[PairAt[n - 6][2]])

ErrorOf(n) ==
  CASE n \in 1 .. 3 -> CountLimitExceeded(RoleAt[n])
    [] n \in 4 .. 6 -> DuplicateResourceId(RoleAt[n - 3])
    [] n \in 7 .. 9 -> ResourceRoleCollision(PairAt[n - 6][1], PairAt[n - 6][2])

FirstViolated(lists, n) ==
  /\ Violated(lists, n)
  /\ \A m \in 1 .. n - 1 : ~Violated(lists, m)

WellFormed(lists) == \A n \in Conditions : ~Violated(lists, n)

(* `sorted` lists the same identifiers as `lists`, each role ascending.    *)
SortedForm(lists, sorted) ==
  \A role \in Roles :
    /\ Ids(sorted[role]) = Ids(lists[role])
    /\ Len(sorted[role]) = Len(lists[role])
    /\ Ascending(sorted[role])

(* Reserving storage for no entries asks the host for nothing.             *)
Refuses(role) == role \in refusing /\ candidate[role] # <<>>

-----------------------------------------------------------------------------
Init ==
  /\ candidate \in Candidates
  /\ refusing \in SUBSET Roles
  /\ decision = Undecided

RejectFirst ==
  \E n \in Conditions :
    /\ FirstViolated(candidate, n)
    /\ decision' = ErrorOf(n)

Accept ==
  /\ WellFormed(candidate)
  /\ \A role \in Roles : ~Refuses(role)
  /\ decision'.error = "None"
  /\ decision' = Accepted(decision'.roles)
  /\ SortedForm(candidate, decision'.roles)

(* The error names the first role that the host refuses, in their order.   *)
RunOutOfStorage ==
  /\ WellFormed(candidate)
  /\ \E n \in 1 .. 3 :
       /\ Refuses(RoleAt[n])
       /\ \A m \in 1 .. n - 1 : ~Refuses(RoleAt[m])
       /\ decision' = CapacityUnavailable(RoleAt[n])

Decide ==
  /\ decision = Undecided
  /\ RejectFirst \/ Accept \/ RunOutOfStorage
  /\ UNCHANGED <<candidate, refusing>>

Spec == Init /\ [][Decide]_vars
=============================================================================
