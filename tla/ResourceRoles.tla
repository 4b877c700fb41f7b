---------------------------- MODULE ResourceRoles ----------------------------
(***************************************************************************)
(* CanonicalResourceRolesV1 (crates/zrm-kernel/src/resource_roles.rs), one *)
(* step per loop iteration: try_new counts, scans for duplicates and       *)
(* collisions, then reserves and insertion-sorts one role at a time; an    *)
(* accepted partition then answers position_of lookups.  The host may      *)
(* refuse any of the three reservations: which it will refuse is a         *)
(* prophecy, fixed from the start, so that the error can be told to name   *)
(* the right role.                                                         *)
(***************************************************************************)
EXTENDS RoleTypes, SequencesExt

CONSTANT NoId  (* No lookup has been made. *)

ASSUME NoIdAssumption == NoId \notin ResourceIds

VARIABLES
  candidate,  (* ResourceRoleListsCandidateV1: the borrowed lists.        *)
  refusing,   (* The roles whose reservation the host will refuse.        *)
  phase,      (* Which loop of try_new or position_of is running.         *)
  turn,       (* Index in RoleAt or PairAt of the list(s) it works on.    *)
  cursor,     (* Entries of that candidate list already passed.           *)
  counter,    (* The u16 of insertion_position or position_in.            *)
  counts,     (* consumed_count, referenced_count, created_count.         *)
  capacity,   (* Entries each reserved vector can hold.                   *)
  canonical,  (* The sorted vectors, partial while phase is "insert".     *)
  outcome,    (* The error returned by try_new, or Undecided.             *)
  query,      (* The argument of the last position_of.                    *)
  answer      (* Its result.                                              *)

vars == <<candidate, refusing, phase, turn, cursor, counter, counts, capacity,
          canonical, outcome, query, answer>>

Phases == {"count", "duplicate", "disjoint", "reserve", "insert",
           "ready", "lookup", "rejected"}

Resting == {"ready", "rejected"}

Empty == [role \in Roles |-> <<>>]
Nothing == [role \in Roles |-> 0]

(* Option<ResourceRolePositionV1>.                                         *)
Absent == [found |-> FALSE]
Position(role, ordinal) == [found |-> TRUE, role |-> role, ordinal |-> ordinal]

-----------------------------------------------------------------------------
(* The list of the current role, and the entry the current loop looks at.  *)
Role == RoleAt[turn]
List == candidate[Role]
Entry == List[cursor + 1]

First == candidate[PairAt[turn][1]]
Second == candidate[PairAt[turn][2]]

(* Mutants of ExceedsLimit: `len() as u16`, and no limit.                   *)
ExceedsLimitTruncated(list, maximum) == Len(list) % (CounterMax + 1) > maximum
ExceedsLimitUnchecked(list, maximum) == Len(list) > CounterMax

(* u16::try_from fails, or the count is above the role's maximum.           *)
ExceedsLimit(list, maximum) == Len(list) > CounterMax \/ Len(list) > maximum

(* Mutant of SaturatingAdd: a counter too narrow for the limits.            *)
SaturatingAddNarrow(n) == IF n = 1 THEN n ELSE n + 1

SaturatingAdd(n) == IF n = CounterMax THEN n ELSE n + 1

(* One loop has run to its end: the next role or pair, or the next loop.   *)
NextTurn(again, next) ==
  /\ cursor' = 0
  /\ counter' = 0
  /\ turn' = IF turn < 3 THEN turn + 1 ELSE 1
  /\ phase' = IF turn < 3 THEN again ELSE next

(* An early return: the vectors built so far are dropped.                  *)
Reject(error) ==
  /\ phase' = "rejected"
  /\ outcome' = error
  /\ canonical' = Empty
  /\ capacity' = Nothing
  /\ UNCHANGED <<candidate, refusing, turn, cursor, counter, counts, query, answer>>

-----------------------------------------------------------------------------
Init ==
  /\ candidate \in Candidates
  /\ refusing \in SUBSET Roles
  /\ phase = "count"
  /\ turn = 1
  /\ cursor = 0
  /\ counter = 0
  /\ counts = Nothing
  /\ capacity = Nothing
  /\ canonical = Empty
  /\ outcome = Undecided
  /\ query = NoId
  /\ answer = Absent

(* validate_role_count, called for the three roles before anything else.   *)
AcceptCount ==
  /\ phase = "count"
  /\ ~ExceedsLimit(List, Limit[Role])
  /\ counts' = [counts EXCEPT ![Role] = Len(List)]
  /\ NextTurn("count", "duplicate")
  /\ UNCHANGED <<candidate, refusing, capacity, canonical, outcome, query, answer>>

RejectCount ==
  /\ phase = "count"
  /\ ExceedsLimit(List, Limit[Role])
  /\ Reject(CountLimitExceeded(Role))

(* Mutant of InTail: compares neighbours only, as if the list were sorted.  *)
InTailAdjacent(list, n) == n + 2 <= Len(list) /\ list[n + 2] = list[n + 1]

(* validate_duplicates: split_first, then tail.contains.                   *)
InTail(list, n) == \E i \in n + 2 .. Len(list) : list[i] = list[n + 1]

PassUnique ==
  /\ phase = "duplicate"
  /\ cursor < Len(List)
  /\ ~InTail(List, cursor)
  /\ cursor' = cursor + 1
  /\ UNCHANGED <<candidate, refusing, phase, turn, counter, counts, capacity, canonical,
                 outcome, query, answer>>

RejectDuplicate ==
  /\ phase = "duplicate"
  /\ cursor < Len(List)
  /\ InTail(List, cursor)
  /\ Reject(DuplicateResourceId(Role))

(* Mutant of FinishDuplicates: storage is reserved before the collisions.   *)
FinishDuplicatesEarly ==
  /\ phase = "duplicate"
  /\ cursor = Len(List)
  /\ NextTurn("duplicate", "reserve")
  /\ UNCHANGED <<candidate, refusing, counts, capacity, canonical, outcome, query, answer>>

FinishDuplicates ==
  /\ phase = "duplicate"
  /\ cursor = Len(List)
  /\ NextTurn("duplicate", "disjoint")
  /\ UNCHANGED <<candidate, refusing, counts, capacity, canonical, outcome, query, answer>>

(* validate_disjoint: second.contains for each entry of first.             *)
PassDistinct ==
  /\ phase = "disjoint"
  /\ cursor < Len(First)
  /\ ~Contains(Second, First[cursor + 1])
  /\ cursor' = cursor + 1
  /\ UNCHANGED <<candidate, refusing, phase, turn, counter, counts, capacity, canonical,
                 outcome, query, answer>>

RejectCollision ==
  /\ phase = "disjoint"
  /\ cursor < Len(First)
  /\ Contains(Second, First[cursor + 1])
  /\ Reject(ResourceRoleCollision(PairAt[turn][1], PairAt[turn][2]))

FinishDisjoint ==
  /\ phase = "disjoint"
  /\ cursor = Len(First)
  /\ NextTurn("disjoint", "reserve")
  /\ UNCHANGED <<candidate, refusing, counts, capacity, canonical, outcome, query, answer>>

(* reserve_role_capacity: try_reserve_exact may fail, except for no entries. *)
Refuses(role) == role \in refusing /\ candidate[role] # <<>>

(* Mutant of Reserve: the count of another role.                            *)
ReserveWrongCount ==
  /\ phase = "reserve"
  /\ ~Refuses(Role)
  /\ capacity' = [capacity EXCEPT ![Role] = counts["consumed"]]
  /\ phase' = "insert"
  /\ UNCHANGED <<candidate, refusing, turn, cursor, counter, counts, canonical, outcome,
                 query, answer>>

Reserve ==
  /\ phase = "reserve"
  /\ ~Refuses(Role)
  /\ capacity' = [capacity EXCEPT ![Role] = Len(List)]
  /\ phase' = "insert"
  /\ UNCHANGED <<candidate, refusing, turn, cursor, counter, counts, canonical, outcome,
                 query, answer>>

(* Mutant of FailReserve: copy_and_sort is told the wrong role.             *)
FailReserveMisnamed ==
  /\ phase = "reserve"
  /\ Refuses(Role)
  /\ Reject(CapacityUnavailable(RoleAt[1]))

FailReserve ==
  /\ phase = "reserve"
  /\ Refuses(Role)
  /\ Reject(CapacityUnavailable(Role))

(* Mutant of ScansPast: descending order.                                   *)
ScansPastLarger(list, n, id) == n < Len(list) /\ list[n + 1] > id

(* insertion_position: one entry of the sorted prefix that is not greater. *)
ScansPast(list, n, id) == n < Len(list) /\ ~(list[n + 1] > id)

AdvancePosition ==
  /\ phase = "insert"
  /\ cursor < Len(List)
  /\ ScansPast(canonical[Role], counter, Entry)
  /\ counter' = SaturatingAdd(counter)
  /\ UNCHANGED <<candidate, refusing, phase, turn, cursor, counts, capacity, canonical,
                 outcome, query, answer>>

(* copy_and_sort: Vec::insert at the position found.                       *)
InsertEntry ==
  /\ phase = "insert"
  /\ cursor < Len(List)
  /\ ~ScansPast(canonical[Role], counter, Entry)
  /\ canonical' = [canonical EXCEPT ![Role] = InsertAt(@, counter + 1, Entry)]
  /\ cursor' = cursor + 1
  /\ counter' = 0
  /\ UNCHANGED <<candidate, refusing, phase, turn, counts, capacity, outcome, query, answer>>

(* copy_and_sort returns; after the created role, try_new does.            *)
FinishSort ==
  /\ phase = "insert"
  /\ cursor = Len(List)
  /\ NextTurn("reserve", "ready")
  /\ UNCHANGED <<candidate, refusing, counts, capacity, canonical, outcome, query, answer>>

-----------------------------------------------------------------------------
(* position_of on the accepted value, with any identifier.                 *)
BeginLookup(id) ==
  /\ phase = "ready"
  /\ phase' = "lookup"
  /\ query' = id
  /\ turn' = 1
  /\ counter' = 0
  /\ UNCHANGED <<candidate, refusing, cursor, counts, capacity, canonical, outcome, answer>>

(* position_in: the ordinal indexes the canonical list of the role.        *)
AdvanceOrdinal ==
  /\ phase = "lookup"
  /\ counter < Len(canonical[Role])
  /\ canonical[Role][counter + 1] # query
  /\ counter' = SaturatingAdd(counter)
  /\ UNCHANGED <<candidate, refusing, phase, turn, cursor, counts, capacity, canonical,
                 outcome, query, answer>>

FindPosition ==
  /\ phase = "lookup"
  /\ HoldsAt(canonical, Role, counter, query)
  /\ answer' = Position(Role, counter)
  /\ phase' = "ready"
  /\ UNCHANGED <<candidate, refusing, turn, cursor, counter, counts, capacity, canonical,
                 outcome, query>>

(* Mutant of SearchNextRole: one ordinal runs on through the three roles.   *)
SearchNextRoleKeepsOrdinal ==
  /\ phase = "lookup"
  /\ counter >= Len(canonical[Role])
  /\ cursor' = 0
  /\ turn' = IF turn < 3 THEN turn + 1 ELSE 1
  /\ phase' = IF turn < 3 THEN "lookup" ELSE "ready"
  /\ answer' = IF turn < 3 THEN answer ELSE Absent
  /\ UNCHANGED <<candidate, refusing, counter, counts, capacity, canonical, outcome, query>>

(* or_else: the next role starts a scan of its own.                        *)
SearchNextRole ==
  /\ phase = "lookup"
  /\ counter >= Len(canonical[Role])
  /\ NextTurn("lookup", "ready")
  /\ answer' = IF turn < 3 THEN answer ELSE Absent
  /\ UNCHANGED <<candidate, refusing, counts, capacity, canonical, outcome, query>>

-----------------------------------------------------------------------------
Validate ==
  \/ AcceptCount \/ RejectCount
  \/ PassUnique \/ RejectDuplicate \/ FinishDuplicates
  \/ PassDistinct \/ RejectCollision \/ FinishDisjoint

Build == Reserve \/ FailReserve \/ AdvancePosition \/ InsertEntry \/ FinishSort

Lookup == AdvanceOrdinal \/ FindPosition \/ SearchNextRole

(* The code runs on its own; the caller decides whether to look anything up. *)
Step == Validate \/ Build \/ Lookup

Next == Step \/ \E id \in ResourceIds : BeginLookup(id)

Spec == Init /\ [][Next]_vars

(* A call that has started is executed to its return.                      *)
FairSpec == Spec /\ WF_vars(Step)
-----------------------------------------------------------------------------
(* What the caller of try_new can observe of it.                           *)
Decision ==
  CASE phase = "rejected" -> outcome
    [] phase \in {"ready", "lookup"} -> Accepted(canonical)
    [] OTHER -> Undecided

Partition == INSTANCE RolePartition WITH decision <- Decision

(* Type invariant: every variable holds a value of its Rust type, and the   *)
(* loop indices stay inside the lists they index.                           *)
TypeOK ==
  /\ candidate \in Candidates
  /\ refusing \in SUBSET Roles
  /\ phase \in Phases
  /\ turn \in 1 .. 3
  /\ cursor \in Nat
  /\ counter \in 0 .. CounterMax
  /\ counts \in [Roles -> 0 .. CounterMax]
  /\ capacity \in [Roles -> Nat]
  /\ canonical \in [Roles -> Seq(ResourceIds)]
  /\ query \in ResourceIds \cup {NoId}
  /\ answer = Absent \/ \E role \in Roles, n \in 0 .. CounterMax :
                          answer = Position(role, n)

(* Storage is reserved only for lists that satisfy all nine conditions:     *)
(* try_new checks "all three counts before any allocation" and reserves     *)
(* "only after duplicate and collision checks".                             *)
AllocationAfterValidation ==
  (\E role \in Roles : capacity[role] # 0) => Partition!WellFormed(candidate)

(* copy_and_sort never inserts into a vector beyond the capacity that       *)
(* try_reserve_exact granted: an insert that grows the vector would abort   *)
(* instead of returning CapacityUnavailable.                                *)
WithinReservation ==
  \A role \in Roles : Len(canonical[role]) <= capacity[role]

(* An accepted partition holds each role's identifiers, once each, sorted,  *)
(* disjoint from the other roles, and its stored counts are the lengths.    *)
AcceptedIsCanonical ==
  phase \in {"ready", "lookup"} =>
    /\ CanonicalRoles(canonical)
    /\ Partition!SortedForm(candidate, canonical)
    /\ \A role \in Roles : counts[role] = Len(canonical[role])

(* "This u16 counter cannot reach its saturation point": neither the        *)
(* insertion scan nor the ordinal of a lookup ever stands at u16::MAX,      *)
(* where saturating_add would stop it.                                      *)
CounterBelowSaturation == counter < CounterMax

(* position_of answers for the lists the caller passed: an identifier is    *)
(* found exactly when some list holds it, in the role that holds it, at     *)
(* the ordinal at which the canonical list of that role holds it.           *)
LookupExact ==
  (phase = "ready" /\ query # NoId) =>
    IF answer.found
    THEN /\ Contains(candidate[answer.role], query)
         /\ HoldsAt(canonical, answer.role, answer.ordinal, query)
    ELSE \A role \in Roles : ~Contains(candidate[role], query)

(* The ordinal of an identifier depends on the set of identifiers of its    *)
(* role and not on the order the caller listed them in: it is its rank.     *)
OrdinalIsRank ==
  (phase = "ready" /\ query # NoId /\ answer.found) =>
    answer.ordinal = Cardinality({id \in Ids(candidate[answer.role]) : id < query})

(* try_new decides as RolePartition says: the first violated condition in   *)
(* precedence order, or the canonical form, or the lack of storage for the  *)
(* first role that the host refuses.                                        *)
ImplementsPartition == Partition!Spec

(* try_new and position_of return, whatever they were called with.          *)
CallsReturn == []<>(phase \in Resting)
-----------------------------------------------------------------------------
(* The inductive invariant behind the properties above, by loop.            *)

(* How many of RolePartition's nine conditions have been found to hold.     *)
Passed ==
  CASE phase = "count" -> turn - 1
    [] phase = "duplicate" -> turn + 2
    [] phase = "disjoint" -> turn + 5
    [] phase \in {"reserve", "insert", "ready", "lookup"} -> 9
    [] OTHER -> 0

ConditionsPassed == \A n \in 1 .. Passed : ~Partition!Violated(candidate, n)

CountsRecorded ==
  \A n \in 1 .. 3 :
    (IF phase = "count" THEN n < turn ELSE phase # "rejected")
      => counts[RoleAt[n]] = Len(candidate[RoleAt[n]])

DuplicateScan ==
  phase = "duplicate" =>
    /\ cursor <= Len(List)
    /\ \A i \in 1 .. cursor, j \in 1 .. Len(List) : i < j => List[i] # List[j]

DisjointScan ==
  phase = "disjoint" =>
    /\ cursor <= Len(First)
    /\ \A i \in 1 .. cursor : ~Contains(Second, First[i])

(* The first n candidates of a role have been copied in order.              *)
Taken(list, n) == {list[i] : i \in 1 .. n}

SortedPrefix(role, n) ==
  /\ Len(canonical[role]) = n
  /\ Ascending(canonical[role])
  /\ Ids(canonical[role]) = Taken(candidate[role], n)

Unbuilt(role) == capacity[role] = 0 /\ canonical[role] = <<>>

Built(role) ==
  /\ capacity[role] = Len(candidate[role])
  /\ SortedPrefix(role, Len(candidate[role]))

InsertScan ==
  /\ capacity[Role] = Len(List)
  /\ cursor <= Len(List)
  /\ SortedPrefix(Role, cursor)
  /\ counter <= cursor
  /\ cursor < Len(List) => \A i \in 1 .. counter : canonical[Role][i] <= Entry

Building ==
  CASE phase \in {"reserve", "insert"} ->
         /\ \A n \in 1 .. turn - 1 : Built(RoleAt[n])
         /\ \A n \in turn + 1 .. 3 : Unbuilt(RoleAt[n])
         /\ IF phase = "insert" THEN InsertScan
                                ELSE Unbuilt(Role) /\ cursor = 0 /\ counter = 0
    [] phase \in {"ready", "lookup"} -> \A role \in Roles : Built(role)
    [] OTHER -> \A role \in Roles : Unbuilt(role)

(* The host has given what it was asked for so far.                         *)
Granted ==
  \A n \in 1 .. 3 :
    \/ phase = "reserve" /\ n < turn
    \/ phase = "insert" /\ n <= turn
    \/ phase \in {"ready", "lookup"}
    => ~Refuses(RoleAt[n])

LookupScan ==
  phase = "lookup" =>
    /\ query \in ResourceIds
    /\ counter <= Len(canonical[Role])
    /\ \A n \in 1 .. turn - 1 : ~Contains(canonical[RoleAt[n]], query)
    /\ \A i \in 1 .. counter : canonical[Role][i] # query

AnswerFits ==
  /\ phase \notin {"ready", "lookup"} => query = NoId
  /\ (phase = "ready" /\ query # NoId) =>
       IF answer.found
       THEN HoldsAt(canonical, answer.role, answer.ordinal, query)
       ELSE \A role \in Roles : ~Contains(canonical[role], query)

(* What the loops maintain: each scan's progress, and what earlier loops    *)
(* established.                                                             *)
IInv ==
  /\ TypeOK
  /\ CounterBelowSaturation
  /\ ConditionsPassed
  /\ CountsRecorded
  /\ DuplicateScan
  /\ DisjointScan
  /\ Building
  /\ Granted
  /\ LookupScan
  /\ AnswerFits
=============================================================================
