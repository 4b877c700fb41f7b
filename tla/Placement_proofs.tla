-------------------------- MODULE Placement_proofs --------------------------
(***************************************************************************)
(* Proofs about ResourceRoles, for every set of identifiers, every limits  *)
(* below the counter's width and every set of candidate lists; about       *)
(* RoleBinding, for every set of wire values and partitions; and about     *)
(* what the second takes from the first: what try_new accepts is a         *)
(* partition, and a lookup step by step finds the position that binding    *)
(* finds at once.                                                          *)
(***************************************************************************)
EXTENDS ResourceRoles, RoleBinding, SequenceTheorems, FiniteSetTheorems,
        FunctionTheorems, TLAPS

(* The candidate lists stay lists of identifiers, one per role.            *)
LEMMA CandidateLists ==
  ASSUME TypeOK
  PROVE  \A role \in Roles : candidate[role] \in Seq(ResourceIds)
BY CandidatesAssumption DEF TypeOK

(* The current role, and both roles of the current pair, are roles.        *)
LEMMA CurrentRoles ==
  ASSUME TypeOK
  PROVE  /\ Role \in Roles
         /\ PairAt[turn][1] \in Roles
         /\ PairAt[turn][2] \in Roles
BY DEF TypeOK, Role, RoleAt, PairAt, Roles

(* t is s, a list of n entries, with e put between entry p and entry p + 1. *)
Inserted(n, s, p, e, t) ==
  /\ DOMAIN t = 1 .. n + 1
  /\ \A i \in 1 .. p : t[i] = s[i]
  /\ t[p + 1] = e
  /\ \A i \in p + 1 .. n : t[i + 1] = s[i]

(* The n entries of s ascend, and e belongs between entry p and entry p + 1. *)
Fits(n, s, p, e) ==
  /\ DOMAIN s = 1 .. n
  /\ \A i \in 1 .. n : s[i] \in Nat
  /\ Ascending(s)
  /\ \A i \in 1 .. p : s[i] < e
  /\ \A i \in p + 1 .. n : e < s[i]

(* A sequence with one element put between two parts of it.                *)
LEMMA Splice ==
  ASSUME NEW S, NEW a \in Seq(S), NEW b \in Seq(S), NEW e \in S
  PROVE  /\ (a \o <<e>>) \o b \in Seq(S)
         /\ Len((a \o <<e>>) \o b) = Len(a) + 1 + Len(b)
         /\ \A i \in 1 .. Len(a) : ((a \o <<e>>) \o b)[i] = a[i]
         /\ ((a \o <<e>>) \o b)[Len(a) + 1] = e
         /\ \A i \in 1 .. Len(b) : ((a \o <<e>>) \o b)[Len(a) + 1 + i] = b[i]
<1>1. Len(a) \in Nat /\ Len(b) \in Nat
  BY LenProperties
<1>2. <<e>> \in Seq(S) /\ Len(<<e>>) = 1 /\ <<e>>[1] = e
  OBVIOUS
<1> DEFINE f == a \o <<e>>
<1>3. /\ f \in Seq(S)
      /\ Len(f) = Len(a) + 1
      /\ \A i \in 1 .. Len(a) : f[i] = a[i]
      /\ f[Len(a) + 1] = e
  BY <1>1, <1>2, ConcatProperties
<1> HIDE DEF f
<1>4. /\ f \o b \in Seq(S)
      /\ Len(f \o b) = Len(f) + Len(b)
      /\ \A i \in 1 .. Len(f) : (f \o b)[i] = f[i]
      /\ \A i \in 1 .. Len(b) : (f \o b)[Len(f) + i] = b[i]
  <2>1. /\ f \o b \in Seq(S)
        /\ Len(f \o b) = Len(f) + Len(b)
        /\ \A i \in 1 .. Len(f) + Len(b) :
             (f \o b)[i] = IF i <= Len(f) THEN f[i] ELSE b[i - Len(f)]
    BY <1>3, ConcatProperties
  <2> DEFINE c == f \o b
  <2>2. \A i \in 1 .. Len(f) + Len(b) :
             c[i] = IF i <= Len(f) THEN f[i] ELSE b[i - Len(f)]
    BY <2>1
  <2> HIDE DEF c
  <2>3. ASSUME NEW i \in 1 .. Len(f)
        PROVE  c[i] = f[i]
    BY <1>1, <1>3, <2>2
  <2>4. ASSUME NEW i \in 1 .. Len(b)
        PROVE  c[Len(f) + i] = b[i]
    <3>1. /\ Len(f) + i \in 1 .. Len(f) + Len(b)
          /\ ~(Len(f) + i <= Len(f))
          /\ (Len(f) + i) - Len(f) = i
      BY <1>1, <1>3
    <3>. QED
      BY <2>2, <3>1, Zenon
  <2>. QED
    BY <2>1, <2>3, <2>4, Zenon DEF c
<1>5. /\ f \o b \in Seq(S)
      /\ Len(f \o b) = Len(a) + 1 + Len(b)
      /\ \A i \in 1 .. Len(a) : (f \o b)[i] = a[i]
      /\ (f \o b)[Len(a) + 1] = e
      /\ \A i \in 1 .. Len(b) : (f \o b)[Len(a) + 1 + i] = b[i]
  BY <1>1, <1>3, <1>4
<1>. QED
  BY <1>5, Zenon DEF f

(* Vec::insert puts one identifier between the entries before the position *)
(* and the entries after it.                                               *)
LEMMA InsertAtProperties ==
  ASSUME NEW S, NEW s \in Seq(S), NEW e \in S, NEW p \in 0 .. Len(s)
  PROVE  /\ InsertAt(s, p + 1, e) \in Seq(S)
         /\ Len(InsertAt(s, p + 1, e)) = Len(s) + 1
         /\ Inserted(Len(s), s, p, e, InsertAt(s, p + 1, e))
<1> DEFINE front == SubSeq(s, 1, p)
           back == SubSeq(s, p + 1, Len(s))
           t == (front \o <<e>>) \o back
<1>0. Len(s) \in Nat /\ p \in Nat /\ p <= Len(s)
  BY LenProperties
<1>1. /\ front \in Seq(S) /\ Len(front) = p
      /\ \A i \in 1 .. p : front[i] = s[i]
  BY <1>0, SubSeqProperties, ElementOfSeq
<1>2. /\ back \in Seq(S) /\ Len(back) = Len(s) - p
      /\ \A i \in 1 .. Len(s) - p : back[i] = s[p + i]
  BY <1>0, SubSeqProperties, ElementOfSeq
<1>3. InsertAt(s, p + 1, e) = t
  <2>1. (p + 1) - 1 = p
    BY <1>0
  <2>. QED
    BY <2>1, Zenon DEF InsertAt
<1> HIDE DEF front, back
<1>4. /\ t \in Seq(S)
      /\ Len(t) = Len(front) + 1 + Len(back)
      /\ \A i \in 1 .. Len(front) : t[i] = front[i]
      /\ t[Len(front) + 1] = e
      /\ \A i \in 1 .. Len(back) : t[Len(front) + 1 + i] = back[i]
  <2>1. front \in Seq(S) /\ back \in Seq(S)
    BY <1>1, <1>2
  <2>. QED
    BY <2>1, Splice, SMT
<1> HIDE DEF t
<1>5. Len(t) = Len(s) + 1
  BY <1>0, <1>1, <1>2, <1>4
<1>6. \A i \in 1 .. p : t[i] = s[i]
  BY <1>1, <1>4
<1>7. t[p + 1] = e
  BY <1>1, <1>4
<1>8. ASSUME NEW i \in p + 1 .. Len(s)
      PROVE  t[i + 1] = s[i]
  <2>1. i - p \in 1 .. Len(back) /\ p + (i - p) = i /\ p + 1 + (i - p) = i + 1
    BY <1>0, <1>2
  <2>2. t[p + 1 + (i - p)] = back[i - p]
    BY <1>1, <1>4, <2>1
  <2>3. back[i - p] = s[p + (i - p)]
    BY <1>2, <2>1
  <2>. QED
    BY <2>1, <2>2, <2>3, Zenon
<1>9. DOMAIN t = 1 .. Len(s) + 1
  BY <1>4, <1>5, LenProperties
<1>10. Inserted(Len(s), s, p, e, t)
  BY <1>6, <1>7, <1>8, <1>9 DEF Inserted
<1>. QED
  BY <1>3, <1>4, <1>5, <1>10, Zenon

-----------------------------------------------------------------------------
(* Every variable keeps a value of its Rust type, and the u16 counters      *)
(* never wrap.                                                              *)
LEMMA TypeInit == Init => TypeOK
BY EmptySeq, LimitAssumption
   DEF Init, TypeOK, Phases, Nothing, Empty

(* ... and every step keeps it there.                                      *)
LEMMA TypeNext == IInv /\ [Next]_vars => TypeOK'
<1> SUFFICES ASSUME IInv, TypeOK, [Next]_vars
             PROVE  TypeOK'
  BY DEF IInv
<1> USE LimitAssumption
<1>0. /\ Role \in Roles
      /\ List \in Seq(ResourceIds)
      /\ Len(List) \in Nat
      /\ turn \in 1 .. 3
      /\ candidate \in Candidates
  BY CandidateLists, CurrentRoles, LenProperties DEF List, TypeOK
<1>1. CASE AcceptCount
  <2>1. Len(List) \in 0 .. CounterMax
    BY <1>0, <1>1 DEF AcceptCount, ExceedsLimit
  <2>. QED
    BY <1>0, <1>1, <2>1 DEF AcceptCount, NextTurn, TypeOK, Phases
<1>2. ASSUME NEW error, Reject(error)
      PROVE  TypeOK'
  BY <1>2, EmptySeq DEF Reject, TypeOK, Phases, Empty, Nothing
<1>3. CASE RejectCount \/ RejectDuplicate \/ RejectCollision \/ FailReserve
  BY <1>2, <1>3 DEF RejectCount, RejectDuplicate, RejectCollision, FailReserve
<1>4. CASE PassUnique \/ PassDistinct
  BY <1>4 DEF PassUnique, PassDistinct, TypeOK
<1>5. CASE FinishDuplicates \/ FinishDisjoint \/ FinishSort
  BY <1>0, <1>5
     DEF FinishDuplicates, FinishDisjoint, FinishSort, NextTurn, TypeOK, Phases
<1>6. CASE Reserve
  BY <1>0, <1>6 DEF Reserve, TypeOK, Phases
<1>7. CASE AdvancePosition \/ AdvanceOrdinal
  BY <1>7 DEF AdvancePosition, AdvanceOrdinal, SaturatingAdd, TypeOK
<1>8. CASE InsertEntry
  <2>1. canonical[Role] \in Seq(ResourceIds)
    BY <1>0 DEF TypeOK
  <2>2. Entry \in ResourceIds
    BY <1>0, <1>8, ElementOfSeq DEF InsertEntry, Entry, TypeOK
  <2>3. counter \in 0 .. Len(canonical[Role])
    BY <1>0, <1>8 DEF InsertEntry, IInv, TypeOK, Building, InsertScan, SortedPrefix
  <2>4. InsertAt(canonical[Role], counter + 1, Entry) \in Seq(ResourceIds)
    BY <2>1, <2>2, <2>3, InsertAtProperties, SMT
  <2>. QED
    BY <1>0, <1>8, <2>4 DEF InsertEntry, TypeOK
<1>9. ASSUME NEW id \in ResourceIds, BeginLookup(id)
      PROVE  TypeOK'
  BY <1>9 DEF BeginLookup, TypeOK, Phases
<1>10. CASE FindPosition
  BY <1>0, <1>10 DEF FindPosition, TypeOK, Phases
<1>11. CASE SearchNextRole
  BY <1>0, <1>11 DEF SearchNextRole, NextTurn, TypeOK, Phases
<1>12. CASE UNCHANGED vars
  BY <1>12 DEF vars, TypeOK
<1>. QED
  BY <1>1, <1>3, <1>4, <1>5, <1>6, <1>7, <1>8, <1>9, <1>10, <1>11, <1>12
     DEF Next, Step, Validate, Build, Lookup

-----------------------------------------------------------------------------
(* The conditions found to hold stay found, and a loop that ends adds one.  *)
LEMMA ConditionsKept ==
  ASSUME ConditionsPassed, candidate' = candidate, Passed' \in {0, Passed}
  PROVE  ConditionsPassed'
BY DEF ConditionsPassed

(* The loop that ends has established the next condition.                  *)
LEMMA ConditionAdded ==
  ASSUME ConditionsPassed, candidate' = candidate,
         Passed \in Nat, Passed' = Passed + 1,
         ~Partition!Violated(candidate, Passed + 1)
  PROVE  ConditionsPassed'
BY DEF ConditionsPassed

(* Every step keeps the record of the conditions found to hold.            *)
LEMMA ConditionsNext == IInv /\ [Next]_vars => ConditionsPassed'
<1> SUFFICES ASSUME IInv, [Next]_vars
             PROVE  ConditionsPassed'
  OBVIOUS
<1> USE LimitAssumption
<1>0. /\ Role \in Roles
      /\ List \in Seq(ResourceIds)
      /\ Len(List) \in Nat
      /\ DOMAIN List = 1 .. Len(List)
      /\ turn \in 1 .. 3
      /\ TypeOK
      /\ ConditionsPassed
  BY CandidateLists, CurrentRoles, LenProperties DEF List, TypeOK, IInv
<1>1. CASE AcceptCount
  <2>1. Passed = turn - 1 /\ Passed' = Passed + 1 /\ candidate' = candidate
    BY <1>0, <1>1 DEF AcceptCount, NextTurn, Passed
  <2>2. ~Partition!Violated(candidate, turn)
    BY <1>0, <1>1 DEF AcceptCount, ExceedsLimit, List, Role,
                      Partition!Violated, Partition!RoleAt, RoleAt
  <2>3. Passed \in Nat /\ Passed + 1 = turn
    BY <1>0, <2>1
  <2>. QED
    BY <1>0, <2>1, <2>2, <2>3, ConditionAdded
<1>2. ASSUME NEW error, Reject(error)
      PROVE  ConditionsPassed'
  BY <1>0, <1>2, ConditionsKept DEF Reject, Passed
<1>3. CASE RejectCount \/ RejectDuplicate \/ RejectCollision \/ FailReserve
  BY <1>2, <1>3 DEF RejectCount, RejectDuplicate, RejectCollision, FailReserve
<1>4. CASE FinishDuplicates
  <2>1. Passed = turn + 2 /\ Passed' = Passed + 1 /\ candidate' = candidate
    BY <1>0, <1>4 DEF FinishDuplicates, NextTurn, Passed
  <2>2. \A i, j \in 1 .. Len(List) : i < j => List[i] # List[j]
    BY <1>0, <1>4 DEF FinishDuplicates, IInv, DuplicateScan
  <2>3. ~HasDuplicate(List)
    BY <1>0, <2>2 DEF HasDuplicate
  <2>4. ~Partition!Violated(candidate, turn + 3)
    <3>1. /\ (turn + 3) - 3 = turn
          /\ turn + 3 \in 4 .. 6
          /\ turn + 3 \notin 1 .. 3
          /\ turn + 3 \notin 7 .. 9
      BY <1>0
    <3>2. ~Partition!HasDuplicate(candidate[Partition!RoleAt[turn]])
      BY <2>3, Zenon DEF Partition!HasDuplicate, Partition!RoleAt, HasDuplicate,
                         List, Role, RoleAt
    <3>. QED
      BY <3>1, <3>2, Zenon DEF Partition!Violated
  <2>5. Passed \in Nat /\ Passed + 1 = turn + 3
    BY <1>0, <2>1
  <2>. QED
    BY <1>0, <2>1, <2>4, <2>5, ConditionAdded
<1>5. CASE FinishDisjoint
  <2>1. Passed = turn + 5 /\ Passed' = Passed + 1 /\ candidate' = candidate
    BY <1>0, <1>5 DEF FinishDisjoint, NextTurn, Passed
  <2>2. /\ First \in Seq(ResourceIds)
        /\ Second \in Seq(ResourceIds)
    BY <1>0, CandidateLists, CurrentRoles DEF First, Second
  <2>3. \A i \in 1 .. Len(First) : ~Contains(Second, First[i])
    BY <1>0, <1>5 DEF FinishDisjoint, IInv, DisjointScan
  <2>4. ~Collide(First, Second)
    BY <2>2, <2>3, LenProperties DEF Collide, Ids, Contains
  <2>5. ~Partition!Violated(candidate, turn + 6)
    <3>1. /\ (turn + 6) - 6 = turn
          /\ turn + 6 \notin 1 .. 3
          /\ turn + 6 \notin 4 .. 6
      BY <1>0
    <3>2. ~Partition!Collide(candidate[Partition!PairAt[turn][1]],
                             candidate[Partition!PairAt[turn][2]])
      BY <2>4, Zenon DEF Partition!PairAt, Partition!Collide, Partition!Ids,
                         Collide, Ids, First, Second, PairAt
    <3>. QED
      BY <3>1, <3>2, Zenon DEF Partition!Violated
  <2>6. Passed \in Nat /\ Passed + 1 = turn + 6
    BY <1>0, <2>1
  <2>. QED
    BY <1>0, <2>1, <2>5, <2>6, ConditionAdded
<1>6. CASE PassUnique \/ PassDistinct \/ Reserve \/ AdvancePosition \/ InsertEntry
  BY <1>0, <1>6, ConditionsKept
     DEF PassUnique, PassDistinct, Reserve, AdvancePosition, InsertEntry, Passed
<1>7. CASE FinishSort
  BY <1>0, <1>7, ConditionsKept DEF FinishSort, NextTurn, Passed
<1>8. CASE Lookup
  BY <1>0, <1>8, ConditionsKept
     DEF Lookup, AdvanceOrdinal, FindPosition, SearchNextRole, NextTurn, Passed
<1>9. ASSUME NEW id \in ResourceIds, BeginLookup(id)
      PROVE  ConditionsPassed'
  BY <1>0, <1>9, ConditionsKept DEF BeginLookup, Passed
<1>10. CASE UNCHANGED vars
  BY <1>0, <1>10, ConditionsKept DEF vars, Passed
<1>. QED
  BY <1>1, <1>3, <1>4, <1>5, <1>6, <1>7, <1>8, <1>9, <1>10
     DEF Next, Step, Validate, Build

-----------------------------------------------------------------------------
(* The recorded counts are the lengths of the lists counted so far.         *)
LEMMA CountsNext == IInv /\ [Next]_vars => CountsRecorded'
<1> SUFFICES ASSUME IInv, [Next]_vars
             PROVE  CountsRecorded'
  OBVIOUS
<1>0. TypeOK /\ CountsRecorded /\ turn \in 1 .. 3
  BY DEF IInv, TypeOK
<1>1. CASE AcceptCount
  <2>1. /\ turn \in 1 .. 3 /\ phase = "count" /\ candidate' = candidate
        /\ counts' = [counts EXCEPT ![Role] = Len(List)]
        /\ phase' = "count" => turn' = turn + 1
    BY <1>0, <1>1 DEF AcceptCount, NextTurn
  <2>2. counts'[RoleAt[turn]] = Len(candidate[RoleAt[turn]])
    BY <1>0, <2>1 DEF Role, List, RoleAt, Roles, TypeOK
  <2>3. \A n \in 1 .. turn : counts'[RoleAt[n]] = Len(candidate[RoleAt[n]])
    <3>1. ASSUME NEW n \in 1 .. turn, n # turn
          PROVE  counts'[RoleAt[n]] = Len(candidate[RoleAt[n]])
      <4>1. n \in 1 .. 3 /\ n < turn
        BY <1>0, <3>1
      <4>2. counts[RoleAt[n]] = Len(candidate[RoleAt[n]])
        BY <1>0, <2>1, <4>1 DEF CountsRecorded
      <4>3. RoleAt[n] # RoleAt[turn] /\ RoleAt[n] \in Roles
        BY <1>0, <4>1 DEF RoleAt, Roles
      <4>4. counts'[RoleAt[n]] = counts[RoleAt[n]]
        BY <1>0, <2>1, <4>3 DEF Role, TypeOK
      <4>. QED
        BY <4>2, <4>4
    <3>. QED
      BY <2>2, <3>1
  <2>4. phase' = "count" \/ turn = 3
    BY <1>0, <1>1 DEF AcceptCount, NextTurn
  <2>. QED
    BY <1>0, <2>1, <2>3, <2>4 DEF CountsRecorded
<1>2. ASSUME NEW error, Reject(error)
      PROVE  CountsRecorded'
  BY <1>2 DEF Reject, CountsRecorded
<1>3. CASE RejectCount \/ RejectDuplicate \/ RejectCollision \/ FailReserve
  BY <1>2, <1>3 DEF RejectCount, RejectDuplicate, RejectCollision, FailReserve
<1>4. CASE PassUnique \/ PassDistinct \/ Reserve \/ AdvancePosition \/ InsertEntry
  BY <1>0, <1>4 DEF PassUnique, PassDistinct, Reserve, AdvancePosition, InsertEntry,
                    CountsRecorded
<1>5. CASE FinishDuplicates \/ FinishDisjoint \/ FinishSort \/ Lookup
  BY <1>0, <1>5 DEF FinishDuplicates, FinishDisjoint, FinishSort, NextTurn,
                    Lookup, AdvanceOrdinal, FindPosition, SearchNextRole,
                    CountsRecorded
<1>6. ASSUME NEW id \in ResourceIds, BeginLookup(id)
      PROVE  CountsRecorded'
  BY <1>0, <1>6 DEF BeginLookup, CountsRecorded
<1>7. CASE UNCHANGED vars
  BY <1>0, <1>7 DEF vars, CountsRecorded
<1>. QED
  BY <1>1, <1>3, <1>4, <1>5, <1>6, <1>7 DEF Next, Step, Validate, Build

(* The duplicate scan has compared each entry it passed with all later ones. *)
LEMMA DuplicateScanNext == IInv /\ [Next]_vars => DuplicateScan'
<1> SUFFICES ASSUME IInv, [Next]_vars, phase' = "duplicate"
             PROVE  DuplicateScan'
  BY DEF DuplicateScan
<1>0. /\ TypeOK
      /\ DuplicateScan
      /\ List \in Seq(ResourceIds)
      /\ Len(List) \in Nat
  BY CandidateLists, CurrentRoles, LenProperties DEF List, TypeOK, IInv
<1>1. ASSUME cursor' = 0, turn' \in 1 .. 3, candidate' = candidate
      PROVE  DuplicateScan'
  <2>1. RoleAt[turn'] \in Roles
    BY <1>1 DEF RoleAt, Roles
  <2>2. Len(candidate[RoleAt[turn']]) \in Nat
    BY <1>0, <2>1, CandidateLists, LenProperties
  <2>. QED
    BY <1>1, <2>2 DEF DuplicateScan, List, Role
<1>2. CASE AcceptCount \/ FinishDuplicates
  BY <1>0, <1>1, <1>2 DEF AcceptCount, FinishDuplicates, NextTurn, TypeOK
<1>3. CASE PassUnique
  <2>1. cursor \in Nat /\ cursor < Len(List) /\ cursor' = cursor + 1 /\ List' = List
    BY <1>0, <1>3 DEF PassUnique, TypeOK, List, Role
  <2>2. \A j \in cursor + 2 .. Len(List) : List[j] # List[cursor + 1]
    BY <1>3 DEF PassUnique, InTail
  <2>3. \A i \in 1 .. cursor, j \in 1 .. Len(List) : i < j => List[i] # List[j]
    BY <1>0, <1>3 DEF PassUnique, DuplicateScan
  <2>. QED
    BY <1>0, <2>1, <2>2, <2>3 DEF DuplicateScan
<1>4. CASE UNCHANGED vars
  BY <1>0, <1>4 DEF vars, DuplicateScan, List, Role
<1>. QED
  BY <1>2, <1>3, <1>4
     DEF Next, Step, Validate, Build, Lookup, NextTurn, Reject, RejectCount,
         RejectDuplicate, RejectCollision, FailReserve, PassDistinct, FinishDisjoint,
         Reserve, AdvancePosition, InsertEntry, FinishSort, AdvanceOrdinal,
         FindPosition, SearchNextRole, BeginLookup

(* The collision scan has compared each entry it passed with the whole of   *)
(* the other list.                                                          *)
LEMMA DisjointScanNext == IInv /\ [Next]_vars => DisjointScan'
<1> SUFFICES ASSUME IInv, [Next]_vars, phase' = "disjoint"
             PROVE  DisjointScan'
  BY DEF DisjointScan
<1>0. /\ TypeOK
      /\ DisjointScan
      /\ First \in Seq(ResourceIds)
      /\ Len(First) \in Nat
  BY CandidateLists, CurrentRoles, LenProperties DEF First, TypeOK, IInv
<1>1. ASSUME cursor' = 0, turn' \in 1 .. 3, candidate' = candidate
      PROVE  DisjointScan'
  <2>1. PairAt[turn'][1] \in Roles
    BY <1>1 DEF PairAt, Roles
  <2>2. Len(candidate[PairAt[turn'][1]]) \in Nat
    BY <1>0, <2>1, CandidateLists, LenProperties
  <2>. QED
    BY <1>1, <2>2 DEF DisjointScan, First
<1>2. CASE FinishDuplicates \/ FinishDisjoint
  BY <1>0, <1>1, <1>2 DEF FinishDisjoint, FinishDuplicates, NextTurn, TypeOK
<1>3. CASE PassDistinct
  <2>1. /\ cursor \in Nat /\ cursor < Len(First) /\ cursor' = cursor + 1
        /\ First' = First /\ Second' = Second
    BY <1>0, <1>3 DEF PassDistinct, TypeOK, First, Second
  <2>2. ~Contains(Second, First[cursor + 1])
    BY <1>3 DEF PassDistinct
  <2>3. \A i \in 1 .. cursor : ~Contains(Second, First[i])
    BY <1>0, <1>3 DEF PassDistinct, DisjointScan
  <2>4. \A i \in 1 .. cursor + 1 : ~Contains(Second, First[i])
    BY <2>1, <2>2, <2>3
  <2>. QED
    BY <1>0, <2>1, <2>4 DEF DisjointScan, Contains
<1>4. CASE UNCHANGED vars
  BY <1>0, <1>4 DEF vars, DisjointScan, First, Second, Contains
<1>. QED
  BY <1>2, <1>3, <1>4
     DEF Next, Step, Validate, Build, Lookup, NextTurn, Reject, AcceptCount,
         RejectCount, PassUnique, RejectDuplicate, RejectCollision, FailReserve,
         Reserve, AdvancePosition, InsertEntry, FinishSort, AdvanceOrdinal,
         FindPosition, SearchNextRole, BeginLookup

-----------------------------------------------------------------------------
(* Inserting before the first greater entry of an ascending list keeps it   *)
(* ascending and adds exactly that entry.                                   *)
LEMMA InsertSorted ==
  ASSUME NEW n \in Nat, NEW s, NEW e \in Nat, NEW p \in 0 .. n, NEW t,
         Inserted(n, s, p, e, t), Fits(n, s, p, e)
  PROVE  Ascending(t) /\ Ids(t) = Ids(s) \cup {e}
<1> USE DEF Inserted, Fits
<1>1. \A i \in p + 2 .. n + 1 : i - 1 \in p + 1 .. n /\ t[i] = s[i - 1]
  <2> SUFFICES ASSUME NEW i \in p + 2 .. n + 1
               PROVE  i - 1 \in p + 1 .. n /\ t[i] = s[i - 1]
    OBVIOUS
  <2>1. i - 1 \in p + 1 .. n /\ (i - 1) + 1 = i
    OBVIOUS
  <2>2. t[(i - 1) + 1] = s[i - 1]
    BY <2>1
  <2>. QED
    BY <2>1, <2>2
<1>2. Ascending(t)
  <2> SUFFICES ASSUME NEW i \in 1 .. n + 1, NEW j \in 1 .. n + 1, i < j
               PROVE  t[i] < t[j]
    BY DEF Ascending
  <2>0. \A k, l \in 1 .. n : k < l => s[k] < s[l]
    BY DEF Ascending
  <2>1. CASE j <= p
    BY <2>0, <2>1
  <2>2. CASE j = p + 1
    BY <2>2
  <2>3. CASE j > p + 1 /\ i <= p
    <3>1. /\ t[i] = s[i] /\ t[j] = s[j - 1]
          /\ i \in 1 .. n /\ j - 1 \in 1 .. n /\ i < j - 1
      BY <1>1, <2>3
    <3>. QED
      BY <2>0, <3>1
  <2>4. CASE j > p + 1 /\ i = p + 1
    <3>1. t[i] = e /\ t[j] = s[j - 1] /\ j - 1 \in p + 1 .. n
      BY <1>1, <2>4
    <3>. QED
      BY <3>1
  <2>5. CASE j > p + 1 /\ i > p + 1
    <3>1. /\ t[i] = s[i - 1] /\ t[j] = s[j - 1]
          /\ i - 1 \in 1 .. n /\ j - 1 \in 1 .. n /\ i - 1 < j - 1
      BY <1>1, <2>5
    <3>. QED
      BY <2>0, <3>1
  <2>. QED
    BY <2>1, <2>2, <2>3, <2>4, <2>5
<1>3. Ids(t) \subseteq Ids(s) \cup {e}
  <2> SUFFICES ASSUME NEW i \in 1 .. n + 1
               PROVE  t[i] \in Ids(s) \cup {e}
    BY DEF Ids
  <2>1. CASE i <= p
    <3>1. i \in DOMAIN s /\ t[i] = s[i]
      BY <2>1
    <3>. QED
      BY <3>1, Zenon DEF Ids
  <2>2. CASE i = p + 1
    BY <2>2
  <2>3. CASE i > p + 1
    <3>1. i - 1 \in DOMAIN s /\ t[i] = s[i - 1]
      BY <1>1, <2>3
    <3>. QED
      BY <3>1, Zenon DEF Ids
  <2>. QED
    BY <2>1, <2>2, <2>3
<1>4. Ids(s) \cup {e} \subseteq Ids(t)
  <2>1. e \in Ids(t)
    BY DEF Ids
  <2>2. ASSUME NEW i \in 1 .. n
        PROVE  s[i] \in Ids(t)
    <3>1. CASE i <= p
      <4>1. i \in DOMAIN t /\ t[i] = s[i]
        BY <3>1
      <4>. QED
        BY <4>1, Zenon DEF Ids
    <3>2. CASE i > p
      <4>1. i + 1 \in DOMAIN t /\ t[i + 1] = s[i]
        BY <3>2
      <4>. QED
        BY <4>1, Zenon DEF Ids
    <3>. QED
      BY <3>1, <3>2
  <2>. QED
    BY <2>1, <2>2 DEF Ids
<1>. QED
  BY <1>2, <1>3, <1>4

-----------------------------------------------------------------------------
(* Once the validating loops are over the lists satisfy all nine            *)
(* conditions.                                                              *)
LEMMA Validated ==
  ASSUME IInv, phase \in {"reserve", "insert", "ready", "lookup"}
  PROVE  /\ Partition!WellFormed(candidate)
         /\ \A role \in Roles : Len(candidate[role]) <= Limit[role]
         /\ \A role \in Roles : ~HasDuplicate(candidate[role])
         /\ \A n \in 1 .. 3 :
              ~Collide(candidate[PairAt[n][1]], candidate[PairAt[n][2]])
<1>1. Passed = 9
  BY DEF Passed
<1>2. \A n \in 1 .. 9 : ~Partition!Violated(candidate, n)
  BY <1>1 DEF IInv, ConditionsPassed
<1>3. Partition!WellFormed(candidate)
  BY <1>2 DEF Partition!WellFormed, Partition!Conditions
<1>4. \A role \in Roles : Len(candidate[role]) \in Nat /\ Limit[role] \in Nat
  BY CandidateLists, LenProperties, LimitAssumption DEF IInv
<1>5. ASSUME NEW role \in Roles
      PROVE  Len(candidate[role]) <= Limit[role] /\ ~HasDuplicate(candidate[role])
  <2>1. PICK n \in 1 .. 3 : role = Partition!RoleAt[n]
    BY DEF Roles, Partition!RoleAt
  <2>2. ~(Len(candidate[role]) > Limit[role])
    BY <1>2, <2>1 DEF Partition!Violated
  <2>3. n + 3 \in 4 .. 6 /\ (n + 3) - 3 = n
    OBVIOUS
  <2>4. ~Partition!HasDuplicate(candidate[role])
    BY <1>2, <2>1, <2>3 DEF Partition!Violated
  <2>. QED
    BY <1>4, <2>2, <2>4 DEF HasDuplicate, Partition!HasDuplicate
<1>6. ASSUME NEW n \in 1 .. 3
      PROVE  ~Collide(candidate[PairAt[n][1]], candidate[PairAt[n][2]])
  <2>1. n + 6 \in 1 .. 9 /\ n + 6 \in 7 .. 9 /\ (n + 6) - 6 = n
    OBVIOUS
  <2>2. ~Partition!Collide(candidate[Partition!PairAt[n][1]],
                           candidate[Partition!PairAt[n][2]])
    BY <1>2, <2>1, Zenon DEF Partition!Violated
  <2>. QED
    BY <2>2, Zenon DEF Collide, Ids, Partition!Collide, Partition!Ids, PairAt,
                       Partition!PairAt
<1>. QED
  BY <1>3, <1>5, <1>6

(* Vec::insert at the position the scan stopped at extends the sorted       *)
(* prefix by one candidate.                                                 *)
LEMMA InsertEntryStep ==
  ASSUME IInv, InsertEntry
  PROVE  /\ SortedPrefix(Role, cursor)'
         /\ canonical' = [canonical EXCEPT ![Role] = canonical'[Role]]
<1>1. /\ TypeOK
      /\ phase = "insert"
      /\ Role \in Roles
      /\ List \in Seq(ResourceIds)
      /\ Len(List) \in Nat
      /\ cursor \in Nat /\ cursor < Len(List)
      /\ counter \in Nat /\ counter <= cursor
      /\ SortedPrefix(Role, cursor)
      /\ \A i \in 1 .. counter : canonical[Role][i] <= Entry
  <2>1. /\ TypeOK /\ Building
        /\ phase = "insert" /\ cursor < Len(List)
    BY DEF InsertEntry, IInv
  <2>2. InsertScan
    BY <2>1 DEF Building
  <2>3. Role \in Roles /\ List \in Seq(ResourceIds)
    BY <2>1, CandidateLists, CurrentRoles DEF List
  <2>4. cursor \in Nat /\ counter \in Nat
    BY <2>1 DEF TypeOK
  <2>. QED
    BY <2>1, <2>2, <2>3, <2>4, LenProperties DEF InsertScan
<1>2. PICK s, list, n, p, e :
        s = canonical[Role] /\ list = List /\ n = cursor /\ p = counter /\ e = Entry
  OBVIOUS
<1>3. /\ s \in Seq(ResourceIds)
      /\ Len(s) = n /\ n \in Nat
      /\ Ascending(s)
      /\ Ids(s) = Taken(list, n)
      /\ list \in Seq(ResourceIds) /\ Len(list) \in Nat /\ n < Len(list)
      /\ p \in 0 .. n
      /\ \A i \in 1 .. p : s[i] <= e
  BY <1>1, <1>2 DEF TypeOK, SortedPrefix, List
<1>4. /\ DOMAIN s = 1 .. n /\ DOMAIN list = 1 .. Len(list)
      /\ \A i \in 1 .. n : s[i] \in ResourceIds
      /\ \A i \in 1 .. Len(list) : list[i] \in ResourceIds
  BY <1>3, LenProperties, ElementOfSeq
<1>5. e = list[n + 1] /\ e \in ResourceIds /\ e \in Nat
  <2>1. e = list[n + 1]
    BY <1>2 DEF Entry
  <2>2. n + 1 \in 1 .. Len(list)
    BY <1>3
  <2>. QED
    BY <1>4, <2>1, <2>2, IdsAssumption
<1>6. ~HasDuplicate(list)
  BY <1>1, <1>2, Validated DEF List
<1>7. \A i \in 1 .. n : s[i] \in Nat /\ s[i] # e
  <2> SUFFICES ASSUME NEW i \in 1 .. n
               PROVE  s[i] \in Nat /\ s[i] # e
    OBVIOUS
  <2>1. s[i] \in Ids(s)
    BY <1>4 DEF Ids
  <2>2. PICK j \in 1 .. n : s[i] = list[j]
    BY <1>3, <2>1 DEF Taken
  <2>3. j \in DOMAIN list /\ n + 1 \in DOMAIN list /\ j # n + 1
    BY <1>3, <1>4
  <2>4. list[j] # list[n + 1]
    BY <1>6, <2>3 DEF HasDuplicate
  <2>. QED
    BY <1>4, <1>5, <2>2, <2>4, IdsAssumption
<1>8. \A i \in 1 .. p : s[i] < e
  BY <1>3, <1>5, <1>7
<1>9. \A i \in p + 1 .. n : e < s[i]
  <2> SUFFICES ASSUME NEW i \in p + 1 .. n
               PROVE  e < s[i]
    OBVIOUS
  <2>1. p < Len(s) /\ p + 1 \in 1 .. n /\ i \in 1 .. n
    BY <1>3
  <2>2. ~ScansPast(s, p, e)
    BY <1>2 DEF InsertEntry
  <2>3. s[p + 1] > e
    BY <2>1, <2>2 DEF ScansPast
  <2>4. p + 1 < i => s[p + 1] < s[i]
    BY <1>3, <1>4, <2>1 DEF Ascending
  <2>. QED
    BY <1>3, <1>5, <1>7, <2>1, <2>3, <2>4
<1>10. Fits(n, s, p, e)
  BY <1>3, <1>4, <1>7, <1>8, <1>9 DEF Fits
<1>11. PICK t : t = InsertAt(s, p + 1, e)
  OBVIOUS
<1>12. t \in Seq(ResourceIds) /\ Len(t) = n + 1 /\ Inserted(n, s, p, e, t)
  <2>1. p \in 0 .. Len(s)
    BY <1>3
  <2>2. /\ t \in Seq(ResourceIds)
        /\ Len(t) = Len(s) + 1
        /\ Inserted(Len(s), s, p, e, t)
    BY <1>3, <1>5, <1>11, <2>1, InsertAtProperties
  <2>. QED
    BY <1>3, <2>2
<1>13. Ascending(t) /\ Ids(t) = Ids(s) \cup {e}
  BY <1>3, <1>5, <1>10, <1>12, InsertSorted
<1>14. Ids(t) = Taken(list, n + 1)
  BY <1>3, <1>5, <1>13 DEF Taken
<1>15. /\ Role' = Role /\ cursor' = n + 1 /\ List' = list
       /\ canonical' = [canonical EXCEPT ![Role] = t]
       /\ canonical'[Role] = t
  BY <1>1, <1>2, <1>11 DEF InsertEntry, Role, List, TypeOK
<1>16. candidate'[Role'] = list
  BY <1>15 DEF List
<1>. QED
  BY <1>12, <1>13, <1>14, <1>15, <1>16 DEF SortedPrefix

(* The three turns visit the three roles, each once.                        *)
LEMMA RoleAtBijection ==
  /\ \A n \in 1 .. 3 : RoleAt[n] \in Roles
  /\ \A m, n \in 1 .. 3 : RoleAt[m] = RoleAt[n] => m = n
  /\ \A role \in Roles : \E n \in 1 .. 3 : role = RoleAt[n]
BY DEF RoleAt, Roles

(* A step that leaves a role's vector alone leaves its progress alone.      *)
LEMMA BuiltFrame ==
  ASSUME NEW role, candidate' = candidate,
         capacity'[role] = capacity[role], canonical'[role] = canonical[role]
  PROVE  Built(role)' = Built(role) /\ Unbuilt(role)' = Unbuilt(role)
BY DEF Built, Unbuilt, SortedPrefix

(* A vector just reserved is the sorted form of no candidates.             *)
LEMMA EmptyPrefix ==
  ASSUME NEW list
  PROVE  Len(<<>>) = 0 /\ Ascending(<<>>) /\ Ids(<<>>) = Taken(list, 0)
BY EmptySeq DEF Ascending, Ids, Taken

(* Each role's vector is reserved and filled in its turn, and not before.   *)
LEMMA BuildingNext == IInv /\ [Next]_vars => Building'
<1> SUFFICES ASSUME IInv, [Next]_vars
             PROVE  Building'
  OBVIOUS
<1>0. /\ TypeOK /\ Building
      /\ Role \in Roles
      /\ Role = RoleAt[turn]
      /\ List \in Seq(ResourceIds)
      /\ Len(List) \in Nat
      /\ turn \in 1 .. 3
      /\ cursor \in Nat
      /\ counter \in Nat
  <2>1. TypeOK /\ Building
    BY DEF IInv
  <2>2. turn \in 1 .. 3 /\ cursor \in Nat
    BY <2>1 DEF TypeOK
  <2>3. counter \in Nat
    BY <2>1, LimitAssumption DEF TypeOK
  <2>4. Role \in Roles /\ List \in Seq(ResourceIds)
    BY <2>1, CandidateLists, CurrentRoles DEF List, TypeOK
  <2>5. Len(List) \in Nat
    BY <2>4, LenProperties
  <2>. QED
    BY <2>1, <2>2, <2>3, <2>4, <2>5 DEF Role
<1>1. CASE AcceptCount \/ PassUnique \/ FinishDuplicates \/ PassDistinct
  <2>1. /\ phase \in {"count", "duplicate", "disjoint"}
        /\ phase' \in {"count", "duplicate", "disjoint"}
        /\ capacity' = capacity /\ canonical' = canonical
    BY <1>0, <1>1
       DEF AcceptCount, PassUnique, FinishDuplicates, PassDistinct, NextTurn
  <2>. QED
    BY <1>0, <2>1 DEF Building, Unbuilt
<1>2. ASSUME NEW error, Reject(error)
      PROVE  Building'
  BY <1>2 DEF Reject, Building, Unbuilt, Empty, Nothing
<1>3. CASE RejectCount \/ RejectDuplicate \/ RejectCollision \/ FailReserve
  BY <1>2, <1>3 DEF RejectCount, RejectDuplicate, RejectCollision, FailReserve
<1>4. CASE FinishDisjoint
  <2>1. /\ \A role \in Roles : Unbuilt(role)
        /\ capacity' = capacity /\ canonical' = canonical
        /\ cursor' = 0 /\ counter' = 0
    BY <1>0, <1>4 DEF FinishDisjoint, NextTurn, Building
  <2>2. \A role \in Roles : Unbuilt(role)'
    BY <2>1 DEF Unbuilt
  <2>3. phase' = "disjoint" \/ (phase' = "reserve" /\ turn' = 1)
    BY <1>0, <1>4 DEF FinishDisjoint, NextTurn
  <2>4. Role' = RoleAt[turn']
    BY DEF Role
  <2>. QED
    BY <2>1, <2>2, <2>3, <2>4, RoleAtBijection DEF Building
<1>5. CASE Reserve
  <2>1. /\ phase = "reserve" /\ phase' = "insert" /\ Role' = Role /\ List' = List
        /\ turn' = turn /\ candidate' = candidate /\ canonical' = canonical
        /\ cursor' = 0 /\ counter' = 0
        /\ capacity'[Role] = Len(List)
        /\ \A n \in 1 .. 3 : n # turn => capacity'[RoleAt[n]] = capacity[RoleAt[n]]
        /\ Unbuilt(Role)
    BY <1>0, <1>5, RoleAtBijection DEF Reserve, Building, Role, List, TypeOK
  <2>2. canonical'[Role'] = <<>>
    BY <2>1 DEF Unbuilt
  <2>3. InsertScan'
    BY <1>0, <2>1, <2>2, EmptyPrefix DEF InsertScan, SortedPrefix
  <2>4. /\ \A n \in 1 .. turn - 1 : Built(RoleAt[n])'
        /\ \A n \in turn + 1 .. 3 : Unbuilt(RoleAt[n])'
    BY <1>0, <2>1, BuiltFrame DEF Building
  <2>. QED
    BY <2>1, <2>3, <2>4 DEF Building
<1>6. CASE AdvancePosition
  <2>1. /\ InsertScan /\ phase = "insert" /\ cursor < Len(List)
        /\ counter < Len(canonical[Role])
        /\ ~(canonical[Role][counter + 1] > Entry)
    BY <1>0, <1>6 DEF AdvancePosition, Building, ScansPast
  <2>2. /\ phase' = phase /\ Role' = Role /\ List' = List /\ Entry' = Entry
        /\ turn' = turn /\ candidate' = candidate /\ canonical' = canonical
        /\ capacity' = capacity /\ cursor' = cursor
        /\ counter' \in {counter, counter + 1}
    BY <1>6 DEF AdvancePosition, SaturatingAdd, Role, List, Entry
  <2>3. counter + 1 <= cursor
    BY <1>0, <2>1 DEF InsertScan, SortedPrefix
  <2>4. canonical[Role][counter + 1] <= Entry
    <3>1. canonical[Role] \in Seq(ResourceIds) /\ counter + 1 \in 1 .. Len(canonical[Role])
      BY <1>0, <2>1, LenProperties DEF TypeOK
    <3>2. canonical[Role][counter + 1] \in Nat
      BY <3>1, ElementOfSeq, IdsAssumption
    <3>3. cursor + 1 \in 1 .. Len(List)
      BY <1>0, <2>1
    <3>4. Entry \in Nat
      BY <1>0, <3>3, ElementOfSeq, IdsAssumption DEF Entry
    <3>. QED
      BY <2>1, <3>2, <3>4
  <2>5. \A i \in 1 .. counter' : canonical[Role][i] <= Entry
    BY <1>0, <2>1, <2>2, <2>4 DEF InsertScan
  <2>6. InsertScan'
    BY <1>0, <2>1, <2>2, <2>3, <2>5 DEF InsertScan, SortedPrefix
  <2>7. /\ \A n \in 1 .. turn - 1 : Built(RoleAt[n])'
        /\ \A n \in turn + 1 .. 3 : Unbuilt(RoleAt[n])'
    BY <1>0, <2>1, <2>2, BuiltFrame DEF Building
  <2>. QED
    BY <2>1, <2>2, <2>6, <2>7 DEF Building
<1>7. CASE InsertEntry
  <2>1. /\ SortedPrefix(Role, cursor)'
        /\ canonical' = [canonical EXCEPT ![Role] = canonical'[Role]]
    BY <1>7, InsertEntryStep
  <2>2. /\ InsertScan /\ phase = "insert" /\ cursor < Len(List)
    BY <1>0, <1>7 DEF InsertEntry, Building
  <2>3. /\ phase' = phase /\ Role' = Role /\ List' = List
        /\ turn' = turn /\ candidate' = candidate /\ capacity' = capacity
        /\ cursor' = cursor + 1 /\ counter' = 0
    BY <1>7 DEF InsertEntry, Role, List
  <2>4. InsertScan'
    BY <1>0, <2>1, <2>2, <2>3 DEF InsertScan
  <2>5. \A n \in 1 .. 3 : n # turn => canonical'[RoleAt[n]] = canonical[RoleAt[n]]
    BY <1>0, <2>1, RoleAtBijection DEF TypeOK
  <2>6. /\ \A n \in 1 .. turn - 1 : Built(RoleAt[n])'
        /\ \A n \in turn + 1 .. 3 : Unbuilt(RoleAt[n])'
    BY <1>0, <2>2, <2>3, <2>5, BuiltFrame DEF Building
  <2>. QED
    BY <2>2, <2>3, <2>4, <2>6 DEF Building
<1>8. CASE FinishSort
  <2>1. /\ InsertScan /\ phase = "insert" /\ cursor = Len(List)
        /\ \A n \in 1 .. turn - 1 : Built(RoleAt[n])
        /\ \A n \in turn + 1 .. 3 : Unbuilt(RoleAt[n])
    BY <1>0, <1>8 DEF FinishSort, Building
  <2>2. /\ candidate' = candidate /\ capacity' = capacity /\ canonical' = canonical
        /\ cursor' = 0 /\ counter' = 0
        /\ \/ turn < 3 /\ phase' = "reserve" /\ turn' = turn + 1
           \/ turn = 3 /\ phase' = "ready"
    BY <1>0, <1>8 DEF FinishSort, NextTurn
  <2>3. Built(RoleAt[turn])
    BY <1>0, <2>1 DEF InsertScan, Built, List
  <2>4. /\ \A n \in 1 .. turn : Built(RoleAt[n])'
        /\ \A n \in turn + 1 .. 3 : Unbuilt(RoleAt[n])'
    BY <1>0, <2>1, <2>2, <2>3, BuiltFrame
  <2>5. CASE turn < 3
    <3>1. phase' = "reserve" /\ turn' = turn + 1 /\ Role' = RoleAt[turn']
      BY <1>0, <2>2, <2>5 DEF Role
    <3>2. Unbuilt(Role)'
      <4>1. PICK n \in turn + 1 .. 3 : n = turn'
        BY <1>0, <2>5, <3>1
      <4>2. Unbuilt(RoleAt[n])'
        BY <2>4
      <4>. QED
        BY <3>1, <4>1, <4>2 DEF Unbuilt
    <3>. QED
      BY <1>0, <2>2, <2>4, <3>1, <3>2 DEF Building
  <2>6. CASE turn = 3
    <3>1. \A n \in 1 .. 3 : Built(RoleAt[n])'
      BY <2>4, <2>6
    <3>2. \A role \in Roles : Built(role)'
      BY <3>1, RoleAtBijection
    <3>. QED
      BY <2>2, <2>6, <3>2 DEF Building
  <2>. QED
    BY <1>0, <2>5, <2>6
<1>9. CASE Lookup \/ \E id \in ResourceIds : BeginLookup(id)
  <2>1. /\ phase \in {"ready", "lookup"} /\ phase' \in {"ready", "lookup"}
        /\ candidate' = candidate /\ capacity' = capacity /\ canonical' = canonical
    BY <1>9 DEF Lookup, AdvanceOrdinal, FindPosition, SearchNextRole, NextTurn,
                BeginLookup
  <2>. QED
    BY <1>0, <2>1, BuiltFrame DEF Building
<1>10. CASE UNCHANGED vars
  BY <1>0, <1>10 DEF vars, Building, Built, Unbuilt, InsertScan, SortedPrefix, Role,
                     List, Entry
<1>. QED
  BY <1>1, <1>3, <1>4, <1>5, <1>6, <1>7, <1>8, <1>9, <1>10
     DEF Next, Step, Validate, Build

-----------------------------------------------------------------------------
(* Storage that was reserved is storage that the host did not refuse.       *)
LEMMA GrantedNext == IInv /\ [Next]_vars => Granted'
<1> SUFFICES ASSUME IInv, [Next]_vars
             PROVE  Granted'
  OBVIOUS
<1>0. Granted /\ turn \in 1 .. 3
  BY DEF IInv, TypeOK
<1>1. CASE AcceptCount \/ PassUnique \/ FinishDuplicates \/ PassDistinct
  BY <1>1 DEF AcceptCount, PassUnique, FinishDuplicates, PassDistinct, NextTurn, Granted
<1>2. ASSUME NEW error, Reject(error)
      PROVE  Granted'
  BY <1>2 DEF Reject, Granted
<1>3. CASE RejectCount \/ RejectDuplicate \/ RejectCollision \/ FailReserve
  BY <1>2, <1>3 DEF RejectCount, RejectDuplicate, RejectCollision, FailReserve
<1>4. CASE FinishDisjoint
  BY <1>0, <1>4 DEF FinishDisjoint, NextTurn, Granted
<1>5. CASE Reserve
  <2>1. /\ phase = "reserve" /\ phase' = "insert" /\ ~Refuses(RoleAt[turn])
        /\ turn' = turn /\ candidate' = candidate /\ refusing' = refusing
    BY <1>5 DEF Reserve, Role
  <2>2. \A n \in 1 .. 3 : n <= turn => ~Refuses(RoleAt[n])
    BY <1>0, <2>1 DEF Granted
  <2>. QED
    BY <2>1, <2>2 DEF Granted, Refuses
<1>6. CASE AdvancePosition \/ InsertEntry
  BY <1>0, <1>6 DEF AdvancePosition, InsertEntry, Granted, Refuses
<1>7. CASE FinishSort
  <2>1. /\ phase = "insert" /\ candidate' = candidate /\ refusing' = refusing
        /\ \/ turn < 3 /\ phase' = "reserve" /\ turn' = turn + 1
           \/ turn = 3 /\ phase' = "ready"
    BY <1>0, <1>7 DEF FinishSort, NextTurn
  <2>2. \A n \in 1 .. 3 : n <= turn => ~Refuses(RoleAt[n])
    BY <1>0, <2>1 DEF Granted
  <2>. QED
    BY <1>0, <2>1, <2>2 DEF Granted, Refuses
<1>8. CASE Lookup \/ \E id \in ResourceIds : BeginLookup(id)
  <2>1. /\ phase \in {"ready", "lookup"} /\ phase' \in {"ready", "lookup"}
        /\ candidate' = candidate /\ refusing' = refusing
    BY <1>8 DEF Lookup, AdvanceOrdinal, FindPosition, SearchNextRole, NextTurn, BeginLookup
  <2>. QED
    BY <1>0, <2>1 DEF Granted, Refuses
<1>9. CASE UNCHANGED vars
  BY <1>0, <1>9 DEF vars, Granted, Refuses
<1>. QED
  BY <1>1, <1>3, <1>4, <1>5, <1>6, <1>7, <1>8, <1>9 DEF Next, Step, Validate, Build

-----------------------------------------------------------------------------
(* The u16 of a scan stays below its saturation point.                      *)
LEMMA CounterNext == IInv /\ [Next]_vars => CounterBelowSaturation'
<1> SUFFICES ASSUME IInv, [Next]_vars
             PROVE  CounterBelowSaturation'
  OBVIOUS
<1>0. /\ TypeOK /\ Building /\ CounterBelowSaturation
      /\ Role \in Roles
      /\ Len(List) \in Nat
      /\ CounterMax \in Nat /\ 0 < CounterMax
      /\ Limit[Role] \in Nat /\ Limit[Role] < CounterMax
      /\ cursor \in Nat /\ counter \in Nat
  <2>1. TypeOK /\ Building /\ CounterBelowSaturation
    BY DEF IInv
  <2>2. Role \in Roles /\ List \in Seq(ResourceIds)
    BY <2>1, CandidateLists, CurrentRoles DEF List
  <2>3. /\ CounterMax \in Nat
        /\ Limit[Role] \in Nat /\ Limit[Role] < CounterMax
    BY <2>2, LimitAssumption
  <2>4. cursor \in Nat /\ counter \in Nat
    BY <2>1, <2>3 DEF TypeOK
  <2>. QED
    BY <2>1, <2>2, <2>3, <2>4, LenProperties
<1>1. CASE AdvancePosition
  <2>1. InsertScan /\ cursor < Len(List) /\ counter < Len(canonical[Role])
    BY <1>0, <1>1 DEF AdvancePosition, Building, ScansPast
  <2>2. Len(canonical[Role]) = cursor
    BY <2>1 DEF InsertScan, SortedPrefix
  <2>3. Len(List) <= Limit[Role]
    BY <1>0, <1>1, Validated DEF AdvancePosition, List
  <2>4. counter' = counter + 1
    BY <1>0, <1>1 DEF AdvancePosition, SaturatingAdd, CounterBelowSaturation
  <2>. QED
    BY <1>0, <2>1, <2>2, <2>3, <2>4 DEF CounterBelowSaturation
<1>2. CASE AdvanceOrdinal
  <2>1. counter < Len(canonical[Role]) /\ phase = "lookup"
    BY <1>2 DEF AdvanceOrdinal
  <2>2. Len(canonical[Role]) = Len(List)
    BY <1>0, <2>1 DEF Building, Built, SortedPrefix, List
  <2>3. Len(List) <= Limit[Role]
    BY <1>0, <2>1, Validated DEF List
  <2>4. counter' = counter + 1
    BY <1>0, <1>2 DEF AdvanceOrdinal, SaturatingAdd, CounterBelowSaturation
  <2>. QED
    BY <1>0, <2>1, <2>2, <2>3, <2>4 DEF CounterBelowSaturation
<1>3. CASE counter' \in {0, counter}
  BY <1>0, <1>3 DEF CounterBelowSaturation
<1>. QED
  BY <1>1, <1>2, <1>3
     DEF Next, Step, Validate, Build, Lookup, AcceptCount, RejectCount, PassUnique,
         RejectDuplicate, FinishDuplicates, PassDistinct, RejectCollision,
         FinishDisjoint, Reserve, FailReserve, InsertEntry, FinishSort, BeginLookup,
         FindPosition, SearchNextRole, NextTurn, Reject, vars

(* The scan of position_of has passed every role before its turn, and every *)
(* entry before its ordinal, without meeting the identifier.                *)
LEMMA LookupNext == IInv /\ [Next]_vars => LookupScan' /\ AnswerFits'
<1> SUFFICES ASSUME IInv, [Next]_vars
             PROVE  LookupScan' /\ AnswerFits'
  OBVIOUS
<1>0. /\ TypeOK /\ LookupScan /\ AnswerFits
      /\ turn \in 1 .. 3
      /\ counter \in Nat
      /\ \A role \in Roles : /\ canonical[role] \in Seq(ResourceIds)
                             /\ Len(canonical[role]) \in Nat
  BY LenProperties DEF TypeOK, IInv
<1>1. CASE Validate \/ Build
  <2>1. phase \notin {"ready", "lookup"} /\ query' = query /\ phase' # "lookup"
    BY <1>0, <1>1
       DEF Validate, Build, AcceptCount, RejectCount, PassUnique, RejectDuplicate,
           FinishDuplicates, PassDistinct, RejectCollision, FinishDisjoint, Reserve,
           FailReserve, AdvancePosition, InsertEntry, FinishSort, NextTurn, Reject
  <2>. QED
    BY <1>0, <2>1 DEF LookupScan, AnswerFits
<1>2. ASSUME NEW id \in ResourceIds, BeginLookup(id)
      PROVE  LookupScan' /\ AnswerFits'
  <2>1. /\ phase' = "lookup" /\ turn' = 1 /\ counter' = 0 /\ query' = id
        /\ canonical' = canonical
    BY <1>2 DEF BeginLookup
  <2>2. Role' = RoleAt[1]
    BY <2>1 DEF Role
  <2>. QED
    BY <1>0, <2>1, <2>2, RoleAtBijection DEF LookupScan, AnswerFits
<1>3. CASE AdvanceOrdinal
  <2>1. /\ phase = "lookup" /\ phase' = "lookup" /\ Role' = Role /\ turn' = turn
        /\ query' = query /\ canonical' = canonical
        /\ counter' \in {counter, counter + 1}
        /\ counter < Len(canonical[Role])
        /\ canonical[Role][counter + 1] # query
    BY <1>3 DEF AdvanceOrdinal, SaturatingAdd, Role
  <2>2. Len(canonical[Role]) \in Nat
    BY <1>0, CurrentRoles
  <2>. QED
    BY <1>0, <2>1, <2>2 DEF LookupScan, AnswerFits, Contains
<1>4. CASE FindPosition
  <2>1. /\ phase' = "ready" /\ answer' = Position(Role, counter)
        /\ query' = query /\ canonical' = canonical
        /\ HoldsAt(canonical, Role, counter, query)
    BY <1>4 DEF FindPosition
  <2>2. answer'.found /\ answer'.role = Role /\ answer'.ordinal = counter
    BY <2>1 DEF Position
  <2>. QED
    BY <2>1, <2>2 DEF LookupScan, AnswerFits, HoldsAt
<1>5. CASE SearchNextRole
  <2>1. /\ phase = "lookup" /\ query' = query /\ canonical' = canonical
        /\ counter' = 0 /\ counter >= Len(canonical[Role])
        /\ \/ turn < 3 /\ phase' = "lookup" /\ turn' = turn + 1
           \/ turn = 3 /\ phase' = "ready" /\ answer' = Absent
    BY <1>0, <1>5 DEF SearchNextRole, NextTurn
  <2>2. ~Contains(canonical[Role], query)
    BY <1>0, <2>1, CurrentRoles DEF LookupScan, Contains
  <2>3. \A n \in 1 .. turn : ~Contains(canonical[RoleAt[n]], query)
    BY <1>0, <2>1, <2>2 DEF LookupScan, Role
  <2>4. CASE turn < 3
    <3>1. phase' = "lookup" /\ turn' = turn + 1 /\ Role' = RoleAt[turn']
      BY <1>0, <2>1, <2>4 DEF Role
    <3>2. Role' \in Roles
      BY <1>0, <2>4, <3>1, RoleAtBijection
    <3>. QED
      BY <1>0, <2>1, <2>3, <3>1, <3>2 DEF LookupScan, AnswerFits, Contains
  <2>5. CASE turn = 3
    <3>1. phase' = "ready" /\ ~answer'.found
      BY <2>1, <2>5 DEF Absent
    <3>2. \A role \in Roles : ~Contains(canonical[role], query)
      BY <2>3, <2>5, RoleAtBijection
    <3>. QED
      BY <2>1, <3>1, <3>2 DEF LookupScan, AnswerFits, Contains
  <2>. QED
    BY <1>0, <2>4, <2>5
<1>6. CASE UNCHANGED vars
  BY <1>0, <1>6 DEF vars, LookupScan, AnswerFits, Role, Contains, HoldsAt
<1>. QED
  BY <1>1, <1>2, <1>3, <1>4, <1>5, <1>6 DEF Next, Step, Lookup

-----------------------------------------------------------------------------
(* The inductive invariant holds when try_new is called ...                 *)
LEMMA InvariantInit == Init => IInv
<1> SUFFICES ASSUME Init
             PROVE  IInv
  OBVIOUS
<1>1. TypeOK
  BY TypeInit
<1>2. CounterMax \in Nat /\ 0 < CounterMax
  BY LimitAssumption DEF Roles
<1>3. ConditionsPassed
  BY DEF Init, ConditionsPassed, Passed
<1>4. CountsRecorded /\ DuplicateScan /\ DisjointScan /\ LookupScan /\ AnswerFits
  BY DEF Init, CountsRecorded, DuplicateScan, DisjointScan, LookupScan, AnswerFits
<1>5. Building /\ Granted
  BY DEF Init, Building, Unbuilt, Empty, Nothing, Granted
<1>. QED
  BY <1>1, <1>2, <1>3, <1>4, <1>5 DEF IInv, CounterBelowSaturation, Init

(* ... and every step of try_new and position_of keeps it.                  *)
THEOREM Invariant == Spec => []IInv
<1>1. IInv /\ [Next]_vars => IInv'
  BY TypeNext, CounterNext, ConditionsNext, CountsNext, DuplicateScanNext,
     DisjointScanNext, BuildingNext, GrantedNext, LookupNext
     DEF IInv
<1>. QED
  BY InvariantInit, <1>1, PTL DEF Spec

(* Every variable holds a value of its Rust type in every state.            *)
THEOREM TypeCorrect == Spec => []TypeOK
<1>1. IInv => TypeOK
  BY DEF IInv
<1>. QED
  BY Invariant, <1>1, PTL

(* The saturating u16 counters of both scans are never at u16::MAX.         *)
THEOREM CounterSafe == Spec => []CounterBelowSaturation
<1>1. IInv => CounterBelowSaturation
  BY DEF IInv
<1>. QED
  BY Invariant, <1>1, PTL

(* No storage is reserved for lists that violate any of the nine conditions. *)
THEOREM AllocationSafe == Spec => []AllocationAfterValidation
<1>1. IInv => AllocationAfterValidation
  <2> SUFFICES ASSUME IInv, NEW role \in Roles, capacity[role] # 0
               PROVE  Partition!WellFormed(candidate)
    BY DEF AllocationAfterValidation
  <2>1. phase \in {"reserve", "insert", "ready", "lookup"}
    BY DEF IInv, Building, Unbuilt
  <2>. QED
    BY <2>1, Validated
<1>. QED
  BY Invariant, <1>1, PTL

(* No vector ever holds more entries than its reservation granted.          *)
THEOREM ReservationSafe == Spec => []WithinReservation
<1>1. IInv => WithinReservation
  <2> SUFFICES ASSUME IInv, NEW role \in Roles
               PROVE  Len(canonical[role]) <= capacity[role]
    BY DEF WithinReservation
  <2>1. /\ TypeOK /\ Building /\ capacity[role] \in Nat
        /\ canonical[role] \in Seq(ResourceIds)
        /\ turn \in 1 .. 3
    BY DEF IInv, TypeOK
  <2>2. PICK n \in 1 .. 3 : role = RoleAt[n]
    BY RoleAtBijection
  <2>3. Unbuilt(role) => Len(canonical[role]) <= capacity[role]
    BY EmptySeq DEF Unbuilt
  <2>4. Built(role) => Len(canonical[role]) <= capacity[role]
    BY <2>1, LenProperties DEF Built, SortedPrefix
  <2>5. InsertScan /\ n = turn => Len(canonical[role]) <= capacity[role]
    BY <2>2 DEF InsertScan, SortedPrefix, Role
  <2>. QED
    BY <2>1, <2>2, <2>3, <2>4, <2>5 DEF Building, Role
<1>. QED
  BY Invariant, <1>1, PTL

(* The invariant of the loops makes what they return canonical.             *)
LEMMA InvariantImpliesCanonical == IInv => AcceptedIsCanonical
<1> SUFFICES ASSUME IInv, phase \in {"ready", "lookup"}
             PROVE  /\ CanonicalRoles(canonical)
                    /\ Partition!SortedForm(candidate, canonical)
                    /\ \A role \in Roles : counts[role] = Len(canonical[role])
  BY DEF AcceptedIsCanonical
<1>1. \A role \in Roles :
         /\ Len(canonical[role]) = Len(candidate[role])
         /\ Ascending(canonical[role])
         /\ Ids(canonical[role]) = Taken(candidate[role], Len(candidate[role]))
  BY DEF IInv, Building, Built, SortedPrefix
<1>2. \A role \in Roles : Ids(canonical[role]) = Ids(candidate[role])
  BY <1>1, CandidateLists, LenProperties DEF IInv, Ids, Taken
<1>3. \A role \in Roles : counts[role] = Len(candidate[role])
  BY RoleAtBijection DEF IInv, CountsRecorded
<1>4. \A first, second \in Roles :
        first # second => ~Collide(candidate[first], candidate[second])
  BY Validated DEF Roles, PairAt, Collide
<1>5. \A first, second \in Roles :
        first # second => ~Collide(canonical[first], canonical[second])
  BY <1>2, <1>4 DEF Collide
<1>6. \A role \in Roles : Len(canonical[role]) <= Limit[role]
  BY <1>1, Validated
<1>7. Partition!SortedForm(candidate, canonical)
  BY <1>1, <1>2 DEF Partition!SortedForm, Partition!Roles, Roles, Partition!Ids, Ids,
                    Partition!Ascending, Ascending
<1>. QED
  BY <1>1, <1>3, <1>5, <1>6, <1>7 DEF CanonicalRoles

(* What try_new returns in Ok is sorted, unique and disjoint, holds what the *)
(* caller listed, and counts it correctly.                                  *)
THEOREM AcceptanceSafe == Spec => []AcceptedIsCanonical
BY Invariant, InvariantImpliesCanonical, PTL

(* position_of answers for the lists the caller passed, with the role that  *)
(* holds the identifier and its place in that role's canonical list.        *)
THEOREM LookupSafe == Spec => []LookupExact
<1>1. IInv /\ AcceptedIsCanonical => LookupExact
  <2> SUFFICES ASSUME IInv, AcceptedIsCanonical, phase = "ready", query # NoId
               PROVE  IF answer.found
                      THEN /\ Contains(candidate[answer.role], query)
                           /\ HoldsAt(canonical, answer.role, answer.ordinal, query)
                      ELSE \A role \in Roles : ~Contains(candidate[role], query)
    BY DEF LookupExact
  <2>1. \A role \in Roles : Ids(canonical[role]) = Ids(candidate[role])
    BY DEF AcceptedIsCanonical, Partition!SortedForm, Partition!Roles, Roles,
           Partition!Ids, Ids
  <2>2. \A role \in Roles : /\ Contains(candidate[role], query) <=> query \in Ids(candidate[role])
                            /\ Contains(canonical[role], query) <=> query \in Ids(canonical[role])
    BY CandidateLists, LenProperties DEF IInv, TypeOK, Contains, Ids
  <2>3. CASE answer.found
    <3>1. HoldsAt(canonical, answer.role, answer.ordinal, query)
      BY <2>3 DEF IInv, AnswerFits
    <3>2. answer.role \in Roles
      BY <2>3 DEF IInv, TypeOK, Absent, Position
    <3>3. query \in Ids(canonical[answer.role])
      BY <3>1 DEF HoldsAt, Ids
    <3>. QED
      BY <2>1, <2>2, <2>3, <3>1, <3>2, <3>3
  <2>4. CASE ~answer.found
    BY <2>1, <2>2, <2>4 DEF IInv, AnswerFits
  <2>. QED
    BY <2>3, <2>4
<1>. QED
  BY Invariant, AcceptanceSafe, <1>1, PTL
-----------------------------------------------------------------------------
(* A validating loop that stops at a violated condition has found the first *)
(* of the nine, and its error is the decision of RolePartition.             *)
LEMMA RejectsFirst ==
  ASSUME IInv, phase \in {"count", "duplicate", "disjoint"}, NEW n \in 1 .. 9,
         n = Passed + 1, Partition!Violated(candidate, n),
         Reject(Partition!ErrorOf(n))
  PROVE  Partition!Decide
<1>1. Decision = Partition!Undecided /\ Decision' = Partition!ErrorOf(n)
  BY DEF Decision, Reject, Undecided, Partition!Undecided
<1>2. \A m \in 1 .. n - 1 : ~Partition!Violated(candidate, m)
  <2>1. Passed \in Nat
    BY DEF IInv, TypeOK, Passed
  <2>2. n - 1 = Passed
    BY <2>1
  <2>. QED
    BY <2>2, Zenon DEF IInv, ConditionsPassed
<1>3. Partition!RejectFirst
  BY <1>1, <1>2 DEF Partition!RejectFirst, Partition!FirstViolated, Partition!Conditions
<1>. QED
  BY <1>1, <1>3 DEF Partition!Decide, Reject

(* The three loops reject for the condition RolePartition numbers by the    *)
(* loop and its turn.                                                       *)
LEMMA RejectionStep ==
  ASSUME IInv, RejectCount \/ RejectDuplicate \/ RejectCollision
  PROVE  Partition!Decide
<1> USE LimitAssumption
<1>0. /\ turn \in 1 .. 3
      /\ Role \in Roles
      /\ List \in Seq(ResourceIds)
      /\ Len(List) \in Nat
      /\ DOMAIN List = 1 .. Len(List)
      /\ cursor \in Nat
      /\ TypeOK
  BY CandidateLists, CurrentRoles, LenProperties DEF List, TypeOK, IInv
<1>1. CASE RejectCount
  <2>1. phase = "count" /\ Passed = turn - 1
    BY <1>1 DEF RejectCount, Passed
  <2>2. Partition!Violated(candidate, turn)
    BY <1>0, <1>1
       DEF RejectCount, ExceedsLimit, Partition!Violated, List, Role, RoleAt,
           Partition!RoleAt
  <2>3. Partition!ErrorOf(turn) = CountLimitExceeded(Role)
    BY <1>0 DEF Partition!ErrorOf, Partition!CountLimitExceeded, CountLimitExceeded,
                Role, RoleAt, Partition!RoleAt
  <2>4. turn \in 1 .. 9 /\ turn = Passed + 1
    BY <1>0, <2>1
  <2>. QED
    BY <1>1, <2>1, <2>2, <2>3, <2>4, RejectsFirst DEF RejectCount
<1>2. CASE RejectDuplicate
  <2>1. phase = "duplicate" /\ Passed = turn + 2
    BY <1>2 DEF RejectDuplicate, Passed
  <2>2. turn + 3 \in 4 .. 6 /\ (turn + 3) - 3 = turn /\ Partition!RoleAt[turn] = Role
    BY <1>0 DEF Role, RoleAt, Partition!RoleAt
  <2>3. PICK i \in cursor + 2 .. Len(List) : List[i] = List[cursor + 1]
    BY <1>2 DEF RejectDuplicate, InTail
  <2>4. i \in DOMAIN List /\ cursor + 1 \in DOMAIN List /\ i # cursor + 1
    BY <1>0, <2>3
  <2>5. Partition!HasDuplicate(candidate[Role])
    BY <2>3, <2>4 DEF Partition!HasDuplicate, List
  <2>6. Partition!Violated(candidate, turn + 3)
    BY <2>2, <2>5 DEF Partition!Violated
  <2>7. Partition!ErrorOf(turn + 3) = DuplicateResourceId(Role)
    BY <1>0, <2>2 DEF Partition!ErrorOf, Partition!DuplicateResourceId, DuplicateResourceId
  <2>8. turn + 3 \in 1 .. 9 /\ turn + 3 = Passed + 1
    BY <1>0, <2>1
  <2>. QED
    BY <1>2, <2>1, <2>6, <2>7, <2>8, RejectsFirst DEF RejectDuplicate
<1>3. CASE RejectCollision
  <2>1. phase = "disjoint" /\ Passed = turn + 5
    BY <1>3 DEF RejectCollision, Passed
  <2>2. turn + 6 \in 7 .. 9 /\ (turn + 6) - 6 = turn
    BY <1>0
  <2>3. First \in Seq(ResourceIds) /\ Second \in Seq(ResourceIds)
    BY <1>0, CandidateLists, CurrentRoles DEF First, Second
  <2>4. cursor + 1 \in DOMAIN First /\ Contains(Second, First[cursor + 1])
    BY <1>0, <1>3, <2>3, LenProperties DEF RejectCollision
  <2>5. First[cursor + 1] \in Ids(First) /\ First[cursor + 1] \in Ids(Second)
    BY <2>3, <2>4, LenProperties DEF Ids, Contains
  <2>6. Collide(First, Second)
    BY <2>5 DEF Collide
  <2>7. Partition!Collide(candidate[Partition!PairAt[turn][1]],
                          candidate[Partition!PairAt[turn][2]])
    BY <2>6, Zenon DEF Collide, Ids, Partition!Collide, Partition!Ids, First, Second,
                       PairAt, Partition!PairAt
  <2>8. Partition!Violated(candidate, turn + 6)
    BY <2>2, <2>7 DEF Partition!Violated
  <2>9. Partition!ErrorOf(turn + 6)
          = ResourceRoleCollision(PairAt[turn][1], PairAt[turn][2])
    BY <1>0, <2>2 DEF Partition!ErrorOf, Partition!ResourceRoleCollision,
                      ResourceRoleCollision, PairAt, Partition!PairAt
  <2>10. turn + 6 \in 1 .. 9 /\ turn + 6 = Passed + 1
    BY <1>0, <2>1
  <2>. QED
    BY <1>3, <2>1, <2>8, <2>9, <2>10, RejectsFirst DEF RejectCollision
<1>. QED
  BY <1>1, <1>2, <1>3

(* Only validated lists reach a reservation, and one after the other, so a  *)
(* refused one is the abstract lack of storage for the first role refused.  *)
LEMMA RefusalStep ==
  ASSUME IInv, FailReserve
  PROVE  Partition!Decide
<1>1. Role \in Roles
  BY CurrentRoles DEF IInv
<1>2. Decision = Partition!Undecided /\ Decision' = Partition!CapacityUnavailable(Role)
  BY DEF Decision, FailReserve, Reject, Undecided, Partition!Undecided,
         CapacityUnavailable, Partition!CapacityUnavailable
<1>3. Partition!WellFormed(candidate)
  BY Validated DEF FailReserve
<1>4. turn \in 1 .. 3 /\ Partition!Refuses(Partition!RoleAt[turn])
      /\ Role = Partition!RoleAt[turn]
  BY DEF IInv, TypeOK, FailReserve, Refuses, Partition!Refuses, Role, RoleAt, Partition!RoleAt
<1>5. \A m \in 1 .. turn - 1 : ~Partition!Refuses(Partition!RoleAt[m])
  BY <1>4 DEF IInv, Granted, FailReserve, Refuses, Partition!Refuses, RoleAt, Partition!RoleAt
<1>6. Partition!RunOutOfStorage
  BY <1>2, <1>3, <1>4, <1>5 DEF Partition!RunOutOfStorage
<1>. QED
  BY <1>2, <1>6 DEF Partition!Decide, FailReserve, Reject

(* The return of the last copy_and_sort is the abstract acceptance.         *)
LEMMA AcceptStep ==
  ASSUME IInv, IInv', FinishSort, turn = 3
  PROVE  Partition!Decide
<1>1. Decision = Partition!Undecided /\ Decision' = Partition!Accepted(canonical)
  BY DEF Decision, FinishSort, NextTurn, Undecided, Partition!Undecided,
         Accepted, Partition!Accepted
<1>2. Partition!WellFormed(candidate)
  BY Validated DEF FinishSort
<1>3. /\ phase' = "ready" /\ candidate' = candidate /\ canonical' = canonical
      /\ refusing' = refusing
  BY DEF FinishSort, NextTurn
<1>4. AcceptedIsCanonical'
  BY InvariantImpliesCanonical, PTL
<1>5. Partition!SortedForm(candidate, canonical)
  BY <1>3, <1>4 DEF AcceptedIsCanonical
<1>6. Decision'.error = "None" /\ Decision'.roles = canonical
  BY <1>1 DEF Partition!Accepted
<1>8. \A role \in Partition!Roles : ~Partition!Refuses(role)
  <2>1. \A n \in 1 .. 3 : ~Refuses(RoleAt[n])
    BY DEF IInv, Granted, FinishSort
  <2>. QED
    BY <2>1 DEF Partition!Roles, Refuses, Partition!Refuses, RoleAt
<1>7. Partition!Accept
  BY <1>1, <1>2, <1>5, <1>6, <1>8 DEF Partition!Accept
<1>. QED
  BY <1>1, <1>3, <1>7 DEF Partition!Decide

(* try_new decides once, and as RolePartition says: every step of its loops *)
(* and of position_of is that decision or changes nothing its caller sees.  *)
THEOREM Refinement == Spec => ImplementsPartition
<1>1. Init => Partition!Init
  BY DEF Init, Partition!Init, Decision, Undecided, Partition!Undecided, Roles, Partition!Roles
<1>2. IInv /\ IInv' /\ [Next]_vars => [Partition!Decide]_(Partition!vars)
  <2> SUFFICES ASSUME IInv, IInv', [Next]_vars
               PROVE  \/ Partition!Decide
                      \/ candidate' = candidate /\ refusing' = refusing /\ Decision' = Decision
    BY DEF Partition!vars
  <2>0. turn \in 1 .. 3
    BY DEF IInv, TypeOK
  <2>1. CASE RejectCount \/ RejectDuplicate \/ RejectCollision
    BY <2>1, RejectionStep
  <2>2. CASE FailReserve
    BY <2>2, RefusalStep
  <2>3. CASE FinishSort /\ turn = 3
    BY <2>3, AcceptStep
  <2>4. CASE FinishSort /\ turn # 3
    BY <2>0, <2>4 DEF FinishSort, NextTurn, Decision
  <2>5. CASE AcceptCount \/ FinishDuplicates \/ FinishDisjoint
    BY <2>5 DEF AcceptCount, FinishDuplicates, FinishDisjoint, NextTurn, Decision
  <2>6. CASE PassUnique \/ PassDistinct \/ Reserve \/ AdvancePosition \/ InsertEntry
    BY <2>6 DEF PassUnique, PassDistinct, Reserve, AdvancePosition, InsertEntry, Decision
  <2>7. CASE Lookup
    BY <2>7 DEF Lookup, AdvanceOrdinal, FindPosition, SearchNextRole, NextTurn, Decision
  <2>8. ASSUME NEW id \in ResourceIds, BeginLookup(id)
        PROVE  candidate' = candidate /\ refusing' = refusing /\ Decision' = Decision
    BY <2>8 DEF BeginLookup, Decision
  <2>9. CASE UNCHANGED vars
    BY <2>9 DEF vars, Decision
  <2>. QED
    BY <2>1, <2>2, <2>3, <2>4, <2>5, <2>6, <2>7, <2>8, <2>9
       DEF Next, Step, Validate, Build
<1>. QED
  BY Invariant, <1>1, <1>2, PTL DEF Spec, ImplementsPartition, Partition!Spec

-----------------------------------------------------------------------------
(* In an ascending list an entry is preceded by the smaller ones.           *)
LEMMA RankOfEntry ==
  ASSUME NEW list \in Seq(ResourceIds), Ascending(list),
         NEW n \in Nat, n + 1 \in DOMAIN list
  PROVE  Cardinality({id \in Ids(list) : id < list[n + 1]}) = n
<1> DEFINE smaller == {id \in Ids(list) : id < list[n + 1]}
           entry == [i \in 1 .. n |-> list[i]]
<1>1. /\ DOMAIN list = 1 .. Len(list) /\ Len(list) \in Nat
      /\ \A i \in DOMAIN list : list[i] \in Nat
  BY LenProperties, IdsAssumption
<1>2. \A i, j \in DOMAIN list : i < j <=> list[i] < list[j]
  <2>. SUFFICES ASSUME NEW i \in DOMAIN list, NEW j \in DOMAIN list
                PROVE  i < j <=> list[i] < list[j]
    OBVIOUS
  <2>1. i \in Nat /\ j \in Nat /\ list[i] \in Nat /\ list[j] \in Nat
    BY <1>1
  <2>2. (i < j => list[i] < list[j]) /\ (j < i => list[j] < list[i])
    BY DEF Ascending
  <2>3. i = j => list[i] = list[j]
    OBVIOUS
  <2>. QED
    BY <2>1, <2>2, <2>3
<1>3. 1 .. n \subseteq DOMAIN list
  BY <1>1
<1>4. \A i \in DOMAIN list : i \in 1 .. n <=> list[i] < list[n + 1]
  <2>. SUFFICES ASSUME NEW i \in DOMAIN list
                PROVE  i \in 1 .. n <=> list[i] < list[n + 1]
    OBVIOUS
  <2>1. i < n + 1 <=> list[i] < list[n + 1]
    BY <1>2
  <2>2. i \in Nat /\ 1 <= i
    BY <1>1
  <2>. QED
    BY <2>1, <2>2
<1>5. entry \in [1 .. n -> smaller]
  BY <1>3, <1>4 DEF Ids
<1>6. \A i, j \in 1 .. n : entry[i] = entry[j] => i = j
  <2>. SUFFICES ASSUME NEW i \in 1 .. n, NEW j \in 1 .. n, list[i] = list[j]
                PROVE  i = j
    OBVIOUS
  <2>1. i \in DOMAIN list /\ j \in DOMAIN list /\ list[i] \in Nat
    BY <1>1, <1>3
  <2>2. ~(i < j) /\ ~(j < i)
    BY <1>2, <2>1
  <2>. QED
    BY <2>2
<1>7. \A id \in smaller : \E i \in 1 .. n : entry[i] = id
  BY <1>4 DEF Ids
<1> HIDE DEF entry, smaller
<1>8. entry \in Bijection(1 .. n, smaller)
  BY <1>5, <1>6, <1>7, Fun_IsBij
<1>9. ExistsBijection(1 .. n, smaller)
  BY <1>8 DEF ExistsBijection
<1>. QED
  BY <1>9, FS_CountingElements DEF smaller

(* The ordinal of an identifier is its rank in its role, whatever order the *)
(* caller listed the role's identifiers in.                                 *)
THEOREM OrdinalSafe == Spec => []OrdinalIsRank
<1>1. IInv /\ AcceptedIsCanonical => OrdinalIsRank
  <2> SUFFICES ASSUME IInv, AcceptedIsCanonical, phase = "ready", query # NoId, answer.found
               PROVE  answer.ordinal =
                        Cardinality({id \in Ids(candidate[answer.role]) : id < query})
    BY DEF OrdinalIsRank
  <2>1. /\ answer.role \in Roles /\ answer.ordinal \in Nat
        /\ HoldsAt(canonical, answer.role, answer.ordinal, query)
    <3>1. answer.role \in Roles /\ answer.ordinal \in 0 .. CounterMax
      BY DEF IInv, TypeOK, Absent, Position
    <3>2. HoldsAt(canonical, answer.role, answer.ordinal, query)
      BY DEF IInv, AnswerFits
    <3>. QED
      BY <3>1, <3>2, LimitAssumption
  <2> DEFINE list == canonical[answer.role]
  <2>2. list \in Seq(ResourceIds) /\ Ascending(list)
    BY <2>1 DEF IInv, TypeOK, AcceptedIsCanonical, CanonicalRoles
  <2>3. Ids(list) = Ids(candidate[answer.role])
    BY <2>1 DEF AcceptedIsCanonical, Partition!SortedForm, Partition!Roles, Roles,
                Partition!Ids, Ids
  <2>4. answer.ordinal + 1 \in DOMAIN list /\ list[answer.ordinal + 1] = query
    BY <2>1 DEF HoldsAt
  <2> HIDE DEF list
  <2>5. Cardinality({id \in Ids(list) : id < list[answer.ordinal + 1]}) = answer.ordinal
    BY <2>1, <2>2, <2>4, RankOfEntry
  <2>. QED
    BY <2>3, <2>4, <2>5
<1>. QED
  BY Invariant, AcceptanceSafe, <1>1, PTL

-----------------------------------------------------------------------------
(* Progress: what makes the loops end (CallsReturn).                        *)

(* The loops that a call still has before it, counted down from its last.  *)
Stage ==
  CASE phase = "count"     -> turn
    [] phase = "duplicate" -> 3 + turn
    [] phase = "disjoint"  -> 6 + turn
    [] phase = "reserve"   -> 8 + 2 * turn
    [] phase = "insert"    -> 9 + 2 * turn
    [] phase = "lookup"    -> 15 + turn
    [] OTHER               -> 19

(* The list that the outer loop of the phase walks.                         *)
Walked == IF phase = "disjoint" THEN First ELSE List

(* One of nineteen loops is entered later, or the loop has passed one more  *)
(* entry of the list it walks, or its scan one more entry below u16::MAX.   *)
Advances ==
  \/ Stage' \in Stage + 1 .. 19
  \/ /\ Stage' = Stage
     /\ cursor' = cursor + 1
     /\ cursor' <= Len(Walked)
     /\ UNCHANGED <<candidate, phase, turn>>
  \/ /\ Stage' = Stage
     /\ counter' = counter + 1
     /\ counter' < CounterMax
     /\ UNCHANGED <<candidate, phase, turn, cursor>>

(* Every step of try_new and of position_of advances: no loop of theirs     *)
(* repeats a state, and none has more than the turns counted here.  With    *)
(* the fairness of FairSpec this is why CallsReturn holds.                  *)
THEOREM StepsAdvance == IInv /\ Step => Advances
<1> SUFFICES ASSUME IInv, Step
             PROVE  Advances
  OBVIOUS
<1>0. /\ turn \in 1 .. 3 /\ cursor \in Nat /\ counter \in Nat
      /\ counter < CounterMax /\ CounterMax \in Nat
      /\ Len(List) \in Nat /\ Len(First) \in Nat
      /\ phase \in Phases
  <2>1. TypeOK /\ counter < CounterMax
    BY DEF IInv, CounterBelowSaturation
  <2>2. List \in Seq(ResourceIds) /\ First \in Seq(ResourceIds)
    BY <2>1, CandidateLists, CurrentRoles DEF List, First
  <2>3. CounterMax \in Nat
    BY LimitAssumption
  <2>. QED
    BY <2>1, <2>2, <2>3, LenProperties DEF TypeOK
<1>1. counter' < CounterMax
  BY CounterNext DEF CounterBelowSaturation, Next
<1>2. ASSUME NEW error, Reject(error), phase \in Phases \ {"ready", "rejected"}
      PROVE  Advances
  <2>1. Stage \in 1 .. 18
    <3>1. turn \in 1 .. 3
      BY <1>0
    <3>2. \/ phase = "count" \/ phase = "duplicate" \/ phase = "disjoint"
          \/ phase = "reserve" \/ phase = "insert" \/ phase = "lookup"
      BY <1>2 DEF Phases
    <3>. QED
      BY <3>1, <3>2 DEF Stage
  <2>2. Stage' = 19
    BY <1>2 DEF Reject, Stage
  <2>. QED
    BY <2>1, <2>2 DEF Advances
<1>3. CASE RejectCount \/ RejectDuplicate \/ RejectCollision \/ FailReserve
  BY <1>2, <1>3
     DEF RejectCount, RejectDuplicate, RejectCollision, FailReserve, Phases
<1>4. CASE AcceptCount \/ FinishDuplicates \/ FinishDisjoint \/ FinishSort
  <2>1. turn \in 1 .. 3
    BY <1>0
  <2>2. CASE AcceptCount
    BY <2>1, <2>2 DEF AcceptCount, NextTurn, Advances, Stage
  <2>3. CASE FinishDuplicates
    BY <2>1, <2>3 DEF FinishDuplicates, NextTurn, Advances, Stage
  <2>4. CASE FinishDisjoint
    BY <2>1, <2>4 DEF FinishDisjoint, NextTurn, Advances, Stage
  <2>5. CASE FinishSort
    BY <2>1, <2>5 DEF FinishSort, NextTurn, Advances, Stage
  <2>. QED
    BY <1>4, <2>2, <2>3, <2>4, <2>5
<1>5. CASE PassUnique \/ PassDistinct
  <2>1. /\ cursor' = cursor + 1 /\ cursor' <= Len(Walked)
        /\ UNCHANGED <<candidate, phase, turn>>
    BY <1>0, <1>5 DEF PassUnique, PassDistinct, Walked
  <2>. QED
    BY <2>1 DEF Advances, Stage
<1>6. CASE Reserve
  BY <1>0, <1>6 DEF Reserve, Advances, Stage
<1>7. CASE AdvancePosition \/ AdvanceOrdinal
  <2>1. counter' = counter + 1 /\ UNCHANGED <<candidate, phase, turn, cursor>>
    BY <1>0, <1>7 DEF AdvancePosition, AdvanceOrdinal, SaturatingAdd
  <2>. QED
    BY <1>1, <2>1 DEF Advances, Stage
<1>8. CASE InsertEntry
  <2>1. /\ cursor' = cursor + 1 /\ cursor' <= Len(Walked)
        /\ UNCHANGED <<candidate, phase, turn>>
    BY <1>0, <1>8 DEF InsertEntry, Walked
  <2>. QED
    BY <2>1 DEF Advances, Stage
<1>9. CASE FindPosition \/ SearchNextRole
  BY <1>0, <1>9 DEF FindPosition, SearchNextRole, NextTurn, Advances, Stage
<1>. QED
  BY <1>3, <1>4, <1>5, <1>6, <1>7, <1>8, <1>9 DEF Step, Validate, Build, Lookup

-----------------------------------------------------------------------------
(* RoleBinding                                                              *)

(* A partition lists an identifier at no two positions.                     *)
LEMMA OnePosition ==
  ASSUME NEW roles \in [Roles -> Seq(ResourceIds)], CanonicalRoles(roles), NEW id,
         NEW p \in PositionsOf(roles, id), NEW q \in PositionsOf(roles, id)
  PROVE  p = q
<1>1. /\ p.role \in Roles /\ q.role \in Roles
      /\ p.ordinal \in Nat /\ q.ordinal \in Nat
      /\ p = [role |-> p.role, ordinal |-> p.ordinal]
      /\ q = [role |-> q.role, ordinal |-> q.ordinal]
      /\ HoldsAt(roles, p.role, p.ordinal, id) /\ HoldsAt(roles, q.role, q.ordinal, id)
  <2>1. \A r \in Roles : Len(roles[r]) \in Nat
    BY LenProperties
  <2>. QED
    BY <2>1 DEF PositionsOf
<1>2. p.role = q.role
  BY <1>1 DEF HoldsAt, CanonicalRoles, Collide, Ids
<1>3. /\ roles[p.role] \in Seq(ResourceIds)
      /\ \A i \in DOMAIN roles[p.role] : roles[p.role][i] \in Nat
  BY <1>1, LenProperties, IdsAssumption
<1>4. p.ordinal + 1 = q.ordinal + 1
  <2> DEFINE i == p.ordinal + 1
             j == q.ordinal + 1
             list == roles[p.role]
  <2>1. i \in DOMAIN list /\ j \in DOMAIN list /\ list[i] = list[j]
    BY <1>1, <1>2 DEF HoldsAt
  <2>2. /\ i < j => list[i] < list[j]
        /\ j < i => list[j] < list[i]
    BY <1>1, <2>1 DEF CanonicalRoles, Ascending
  <2>3. i \in Nat /\ j \in Nat /\ list[i] \in Nat
    BY <1>1, <1>3, <2>1
  <2>. QED
    BY <2>1, <2>2, <2>3
<1>. QED
  BY <1>1, <1>2, <1>4

(* Bodies are made from wire values, and a body's identifier determines it. *)
LEMMA BodiesFromWires ==
  ASSUME BindingTypeOK
  PROVE  /\ \A body \in bodies : body.wire \in Wires /\ body = Body(body.wire)
         /\ \A first, second \in bodies : first.id = second.id => first = second
<1>1. ASSUME NEW body \in bodies
      PROVE  body.wire \in Wires /\ body = Body(body.wire) /\ body.id = Digest(body.wire)
  <2>1. PICK wire \in Wires : body = Body(wire)
    BY DEF BindingTypeOK
  <2>2. Body(wire).wire = wire /\ Body(wire).id = Digest(wire)
    BY DEF Body
  <2>. QED
    BY <2>1, <2>2
<1>. QED
  BY <1>1, DigestAssumption

-----------------------------------------------------------------------------
LEMMA BindingStarts == BindingInit => BindingInv
BY DEF BindingInit, BindingInv, BindingTypeOK, OnlyValidBodies, FirstFailureReported, Idle

(* The checks before one that fails, and the one that does, in terms of the *)
(* wire value.                                                              *)
LEMMA ChecksMean ==
  ASSUME NEW wire \in Wires
  PROVE  /\ (\A n \in 1 .. 14 : ~Fails(wire, n)) <=> NoZeroField(wire)
         /\ ~Fails(wire, 15) <=> EpochsOrdered(wire)
         /\ ~Fails(wire, 16) <=> FlagsKnown(wire)
         /\ \A n \in 1 .. 14 : Fails(wire, n) <=> wire.field[FieldOrder[n]] = 0
<1>1. \A n \in 1 .. 14 : Fails(wire, n) <=> wire.field[FieldOrder[n]] = 0
  BY DEF Fails
<1>2. (\A n \in 1 .. 14 : ~Fails(wire, n)) <=> NoZeroField(wire)
  BY <1>1, Zenon DEF NoZeroField, FieldNames
<1>3. ~Fails(wire, 15) <=> EpochsOrdered(wire)
  <2>1. Fails(wire, 15) <=> wire.expiry # NoExpiry /\ wire.expiry[1] < wire.created
    BY DEF Fails
  <2>2. wire.created \in Nat /\ (wire.expiry = NoExpiry \/ wire.expiry[1] \in Nat)
    BY WiresAssumption
  <2>. QED
    BY <2>1, <2>2 DEF EpochsOrdered
<1>4. ~Fails(wire, 16) <=> FlagsKnown(wire)
  BY DEF Fails, FlagsKnown
<1>. QED
  BY <1>1, <1>2, <1>3, <1>4

(* A check that fails after those before it passed gives the error that     *)
(* FirstFailureReported asks for.                                           *)
LEMMA FirstFailing ==
  ASSUME NEW wire \in Wires, NEW n \in Checks, Fails(wire, n),
         \A m \in 1 .. n - 1 : ~Fails(wire, m),
         call' = [status |-> "failed", wire |-> wire, error |-> ErrorOf(n)]
  PROVE  FirstFailureReported'
<1>1. call'.wire = wire /\ call'.error = ErrorOf(n)
  OBVIOUS
<1>2. CASE n \in 1 .. 14
  <2>1. ErrorOf(n) = [kind |-> "ZeroField", field |-> FieldOrder[n]]
    BY <1>2 DEF ErrorOf
  <2>2. wire.field[FieldOrder[n]] = 0
        /\ \A m \in 1 .. n - 1 : wire.field[FieldOrder[m]] # 0
    BY <1>2, ChecksMean
  <2>. QED
    BY <1>1, <1>2, <2>1, <2>2, Zenon DEF FirstFailureReported
<1>3. CASE n = 15
  <2>1. ErrorOf(n) = [kind |-> "ExpiryBeforeCreation"]
    BY <1>3 DEF ErrorOf
  <2>2. \A m \in 1 .. 14 : ~Fails(wire, m)
    BY <1>3
  <2>3. NoZeroField(wire) /\ ~EpochsOrdered(wire)
    BY <1>3, <2>2, ChecksMean
  <2>. QED
    BY <1>1, <2>1, <2>3, Zenon DEF FirstFailureReported
<1>4. CASE n = 16
  <2>1. ErrorOf(n) = [kind |-> "UnknownFlags"]
    BY <1>4 DEF ErrorOf
  <2>2. (\A m \in 1 .. 14 : ~Fails(wire, m)) /\ ~Fails(wire, 15)
    BY <1>4
  <2>3. NoZeroField(wire) /\ EpochsOrdered(wire) /\ ~FlagsKnown(wire)
    BY <1>4, <2>2, ChecksMean
  <2>. QED
    BY <1>1, <2>1, <2>3, Zenon DEF FirstFailureReported
<1>. QED
  BY <1>2, <1>3, <1>4 DEF Checks

(* A wire value passes the checks in their order ...                        *)
LEMMA CheckStep ==
  ASSUME BindingInv, NEW wire \in Wires, Construct(wire) \/ PassCheck \/ RejectCheck
  PROVE  BindingInv'
<1>1. UNCHANGED <<bodies, bound>>
  BY DEF Construct, PassCheck, RejectCheck
<1>2. OnlyValidBodies' /\ (\A b \in bound : b.position \in PositionsOf(b.roles, b.body.id))'
  BY <1>1 DEF BindingInv, OnlyValidBodies
<1>3. CASE Construct(wire)
  <2>1. call'.status = "checking" /\ call'.wire = wire /\ call'.next = 1
    BY <1>3 DEF Construct, Checking
  <2>2. \A n \in 1 .. call'.next - 1 : ~Fails(call'.wire, n)
    BY <2>1
  <2>3. bodies' = bodies /\ bound' = bound /\ call'.next \in 1 .. 17
    BY <1>1, <2>1
  <2>4. BindingTypeOK'
    BY <2>1, <2>3 DEF BindingInv, BindingTypeOK
  <2>. QED
    BY <1>2, <2>4, <2>1, <2>2, <2>3 DEF BindingInv, FirstFailureReported
<1>4. CASE PassCheck
  <2>1. /\ call.wire \in Wires /\ call.next \in Checks /\ ~Fails(call.wire, call.next)
        /\ \A n \in 1 .. call.next - 1 : ~Fails(call.wire, n)
        /\ call' = [status |-> "checking", wire |-> call.wire, next |-> call.next + 1]
    BY <1>4 DEF BindingInv, BindingTypeOK, PassCheck, Checking
  <2>2. \A n \in 1 .. call'.next - 1 : ~Fails(call'.wire, n)
    BY <2>1 DEF Checks
  <2>3. call'.wire \in Wires /\ call'.next \in 1 .. 17 /\ call'.status = "checking"
    BY <2>1 DEF Checks
  <2>. QED
    BY <1>1, <1>2, <2>2, <2>3 DEF BindingInv, BindingTypeOK, FirstFailureReported
<1>5. CASE RejectCheck
  <2>1. /\ call.wire \in Wires /\ call.next \in Checks /\ Fails(call.wire, call.next)
        /\ \A n \in 1 .. call.next - 1 : ~Fails(call.wire, n)
        /\ call' = [status |-> "failed", wire |-> call.wire, error |-> ErrorOf(call.next)]
    BY <1>5 DEF BindingInv, BindingTypeOK, RejectCheck, Failed
  <2>2. FirstFailureReported'
    BY <2>1, FirstFailing
  <2>3. call'.wire = call.wire /\ call'.status = "failed"
    BY <2>1
  <2>. QED
    BY <1>1, <1>2, <2>1, <2>2, <2>3 DEF BindingInv, BindingTypeOK
<1>. QED
  BY <1>3, <1>4, <1>5

(* ... and only a wire value that has passed them all gets an identifier.   *)
LEMMA DeriveStep ==
  ASSUME BindingInv, DeriveId \/ FailDerivation
  PROVE  BindingInv'
<1>1. /\ call.status = "checking" /\ call.wire \in Wires
      /\ NoZeroField(call.wire) /\ EpochsOrdered(call.wire) /\ FlagsKnown(call.wire)
  <2>1. call.status = "checking" /\ call.next \notin Checks
    BY DEF DeriveId, FailDerivation
  <2>2. /\ call.wire \in Wires /\ call.next \in 1 .. 17
        /\ \A n \in 1 .. call.next - 1 : ~Fails(call.wire, n)
    BY <2>1 DEF BindingInv, BindingTypeOK
  <2>3. call.next = 17
    BY <2>1, <2>2 DEF Checks
  <2>4. /\ \A n \in 1 .. 14 : ~Fails(call.wire, n)
        /\ ~Fails(call.wire, 15) /\ ~Fails(call.wire, 16)
    BY <2>2, <2>3
  <2>. QED
    BY <2>1, <2>2, <2>4, ChecksMean
<1>2. CASE DeriveId
  <2>1. /\ bodies' = bodies \cup {Body(call.wire)} /\ Body(call.wire).id # 0
        /\ Body(call.wire).wire = call.wire
        /\ call'.status = "idle" /\ bound' = bound
    BY <1>2 DEF DeriveId, Body, Idle
  <2>2. OnlyValidBodies'
    BY <1>1, <2>1 DEF BindingInv, OnlyValidBodies
  <2>3. BindingTypeOK'
    BY <1>1, <2>1 DEF BindingInv, BindingTypeOK
  <2>. QED
    BY <2>1, <2>2, <2>3 DEF BindingInv, FirstFailureReported
<1>3. CASE FailDerivation
  <2>1. /\ call'.status = "failed" /\ call'.wire = call.wire
        /\ call'.error \in {AllocationFailed, AllZeroDigest}
        /\ UNCHANGED <<bodies, bound>>
    BY <1>3 DEF FailDerivation, Failed
  <2>. QED
    BY <1>1, <2>1 DEF BindingInv, BindingTypeOK, OnlyValidBodies, FirstFailureReported
<1>. QED
  BY <1>2, <1>3

(* A body is bound where its own identifier stands.                         *)
LEMMA BindStep ==
  ASSUME BindingInv, NEW body \in bodies, NEW roles \in Partitions, Bind(body, roles)
  PROVE  BindingInv'
<1>1. PICK position \in PositionsOf(roles, body.id) :
        bound' = bound \cup {[body |-> body, roles |-> roles, position |-> position]}
  BY DEF Bind
<1>2. bodies' = bodies /\ call'.status = "idle"
  BY DEF Bind, Idle
<1>3. position.role \in Roles /\ position.ordinal \in Nat
  <2>1. \A r \in Roles : Len(roles[r]) \in Nat
    BY PartitionsAssumption, LenProperties
  <2>. QED
    BY <2>1 DEF PositionsOf
<1> DEFINE new == [body |-> body, roles |-> roles, position |-> position]
<1>4. new.body = body /\ new.roles = roles /\ new.position = position
  OBVIOUS
<1> HIDE DEF new
<1>5. BindingTypeOK'
  BY <1>1, <1>2, <1>3, <1>4 DEF BindingInv, BindingTypeOK, new
<1>6. \A b \in bound' : b.position \in PositionsOf(b.roles, b.body.id)
  BY <1>1, <1>4 DEF BindingInv, new
<1>. QED
  BY <1>2, <1>5, <1>6 DEF BindingInv, OnlyValidBodies, FirstFailureReported

LEMMA RefuseStep ==
  ASSUME BindingInv, NEW body \in bodies, NEW roles \in Partitions, RefuseAbsent(body, roles)
  PROVE  BindingInv'
<1>1. /\ call'.status = "not listed" /\ call'.body = body /\ call'.roles = roles
      /\ UNCHANGED <<bodies, bound>> /\ PositionsOf(roles, body.id) = {}
  BY DEF RefuseAbsent, NotListed
<1>. QED
  BY <1>1 DEF BindingInv, BindingTypeOK, OnlyValidBodies, FirstFailureReported

(* The constructor and the binding keep their invariant, for all wire       *)
(* values, partitions and orders of calls.                                  *)
THEOREM BindingInvariant == BindingSpec => []BindingInv
<1>1. BindingInv /\ [BindingNext]_bindingVars => BindingInv'
  <2>1. ASSUME BindingInv, BindingNext PROVE BindingInv'
    BY <2>1, CheckStep, DeriveStep, BindStep, RefuseStep DEF BindingNext, PassCheck, RejectCheck,
       BindingInv, BindingTypeOK
  <2>2. ASSUME BindingInv, UNCHANGED bindingVars PROVE BindingInv'
    BY <2>2 DEF bindingVars, BindingInv, BindingTypeOK, OnlyValidBodies, FirstFailureReported
  <2>. QED
    BY <2>1, <2>2
<1>. QED
  BY BindingStarts, <1>1, PTL DEF BindingSpec

(* A rejected wire value is reported with the first check it fails, and a   *)
(* derivation fails only for one that fails none.                           *)
THEOREM FirstFailure == BindingSpec => []FirstFailureReported
<1>1. BindingInv => FirstFailureReported
  BY DEF BindingInv
<1>. QED
  BY BindingInvariant, <1>1, PTL

(* Nothing that a check rejects ever becomes a body.                        *)
THEOREM BodiesValid == BindingSpec => []OnlyValidBodies
<1>1. BindingInv => OnlyValidBodies
  BY DEF BindingInv
<1>. QED
  BY BindingInvariant, <1>1, PTL

(* No body takes the place of another in a partition.                       *)
THEOREM Substitution == BindingSpec => []NoSubstitution
<1>1. BindingInv => NoSubstitution
  <2> SUFFICES ASSUME BindingInv, NEW first \in bound, NEW second \in bound,
                      first.roles = second.roles, first.position = second.position
               PROVE  first.body = second.body
    BY DEF NoSubstitution
  <2>1. /\ first.position \in PositionsOf(first.roles, first.body.id)
        /\ first.position \in PositionsOf(first.roles, second.body.id)
    BY DEF BindingInv
  <2>2. first.body.id = second.body.id
    BY <2>1 DEF PositionsOf, HoldsAt
  <2>3. first.body \in bodies /\ second.body \in bodies /\ BindingTypeOK
    BY DEF BindingInv, BindingTypeOK
  <2>. QED
    BY <2>2, <2>3, BodiesFromWires
<1>. QED
  BY BindingInvariant, <1>1, PTL

(* A body has one position in a partition, and is refused only without one. *)
THEOREM Placement == BindingSpec => []PlacementUnique
<1>1. BindingInv => PlacementUnique
  <2> SUFFICES ASSUME BindingInv PROVE PlacementUnique
    OBVIOUS
  <2>1. ASSUME NEW first \in bound, NEW second \in bound,
               first.roles = second.roles, first.body = second.body
        PROVE  first.position = second.position
    <3>1. /\ first.position \in PositionsOf(first.roles, first.body.id)
          /\ second.position \in PositionsOf(first.roles, first.body.id)
      BY <2>1 DEF BindingInv
    <3>2. /\ first.roles \in [Roles -> Seq(ResourceIds)] /\ CanonicalRoles(first.roles)
      BY PartitionsAssumption DEF BindingInv, BindingTypeOK
    <3>. QED
      BY <3>1, <3>2, OnePosition
  <2>2. ASSUME call.status = "not listed", NEW b \in bound,
               b.roles = call.roles, b.body = call.body
        PROVE  FALSE
    BY <2>2 DEF BindingInv
  <2>. QED
    BY <2>1, <2>2 DEF PlacementUnique
<1>. QED
  BY BindingInvariant, <1>1, PTL

-----------------------------------------------------------------------------
(* The composition.  What RoleBinding assumes of a partition is what        *)
(* try_new establishes of the lists it accepts ...                          *)
THEOREM AcceptedArePartitions ==
  Spec => [](phase \in {"ready", "lookup"} =>
               canonical \in [Roles -> Seq(ResourceIds)] /\ CanonicalRoles(canonical))
<1>1. IInv /\ AcceptedIsCanonical =>
        (phase \in {"ready", "lookup"} =>
           canonical \in [Roles -> Seq(ResourceIds)] /\ CanonicalRoles(canonical))
  BY DEF IInv, TypeOK, AcceptedIsCanonical
<1>. QED
  BY Invariant, AcceptanceSafe, <1>1, PTL

(* ... and Bind, which finds the position of an identifier in one step,     *)
(* finds what the loops of position_of find, and nothing where they find    *)
(* nothing.                                                                 *)
PositionFound ==
  (phase = "ready" /\ query # NoId) =>
    PositionsOf(canonical, query) =
      IF answer.found THEN {[role |-> answer.role, ordinal |-> answer.ordinal]} ELSE {}

THEOREM LookupIsPlacement == Spec => []PositionFound
<1>1. IInv /\ AcceptedIsCanonical => PositionFound
  <2> SUFFICES ASSUME IInv, AcceptedIsCanonical, phase = "ready", query # NoId
               PROVE  PositionsOf(canonical, query) =
                        IF answer.found THEN {[role |-> answer.role, ordinal |-> answer.ordinal]}
                        ELSE {}
    BY DEF PositionFound
  <2>1. canonical \in [Roles -> Seq(ResourceIds)] /\ CanonicalRoles(canonical)
    BY DEF IInv, TypeOK, AcceptedIsCanonical
  <2>2. CASE answer.found
    <3> DEFINE position == [role |-> answer.role, ordinal |-> answer.ordinal]
    <3>1. answer.role \in Roles /\ answer.ordinal \in Nat
      <4>1. answer.role \in Roles /\ answer.ordinal \in 0 .. CounterMax
        BY <2>2 DEF IInv, TypeOK, Absent, Position
      <4>. QED
        BY <4>1, LimitAssumption
    <3>2. HoldsAt(canonical, answer.role, answer.ordinal, query)
      BY <2>2 DEF IInv, AnswerFits
    <3>3. answer.ordinal \in 0 .. Len(canonical[answer.role])
      BY <2>1, <3>1, <3>2, LenProperties DEF HoldsAt
    <3>4. position \in PositionsOf(canonical, query)
      BY <3>1, <3>2, <3>3 DEF PositionsOf
    <3>5. \A other \in PositionsOf(canonical, query) : other = position
      BY <2>1, <3>4, OnePosition
    <3>. QED
      BY <2>2, <3>4, <3>5
  <2>3. CASE ~answer.found
    <3>1. \A role \in Roles : ~Contains(canonical[role], query)
      BY <2>3 DEF IInv, AnswerFits
    <3>2. \A role \in Roles : \A n : ~HoldsAt(canonical, role, n, query)
      BY <2>1, <3>1, LenProperties DEF HoldsAt, Contains
    <3>. QED
      BY <2>3, <3>2 DEF PositionsOf
  <2>. QED
    BY <2>2, <2>3
<1>. QED
  BY Invariant, AcceptanceSafe, <1>1, PTL
=============================================================================
